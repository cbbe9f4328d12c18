----------------------------- MODULE HookProofs -----------------------------
(***************************************************************************)
(* Proofs about Hook and HookRun, for every code segment that satisfies    *)
(* LayoutAssumption and OriginalAssumption, every set of callbacks and     *)
(* every heap.                                                             *)
(*                                                                         *)
(* The first part is about Hook alone.  Its inductive invariant says what  *)
(* a redirected head looks like, and that the live fixups form, for each   *)
(* function, a chain that starts at its head and in which each saved image *)
(* is either the loaded code or the redirect that was there before.        *)
(*                                                                         *)
(* The second part: the patched segment implements HookAbs, since the      *)
(* fixups met from the head of a function are the stack of its callbacks.  *)
(* The invariant is shown to give every function a stack of distinct       *)
(* fixups, which ends.                                                     *)
(*                                                                         *)
(* The third part: what is executed.  A bound on the steps left falls at   *)
(* every step, so every run is over before Steps ends; and two runs in two *)
(* segments are compared step by step, by induction over the steps.        *)
(***************************************************************************)
EXTENDS HookRun, Sums

\* Nine bytes that redirect through fixup x and record that n are clobbered.
IsHookAt(image, at, x, n) ==
    /\ image[at] = Branch("jmp", x)
    /\ image[at + BRANCH] = SavedSize(n)
    /\ \A i \in (1 .. MinSpan - 1) \ {BRANCH} : image[at + i] = Inside

HookedHeads ==
    \A f \in Functions : Hooked(f) =>
        /\ f \in Fitting
        /\ text[f].arg \in FixupIds
        /\ IsHookAt(text, f, text[f].arg, text[f + BRANCH].arg)
        /\ \A i \in MinSpan .. HeadLen[f] - 1 : text[f + i] = Nop

LiveFixups == {x \in FixupIds : heap[x] # Free /\ x \notin leaked}

\* Fixup x belongs to function f, whose code continues where x jumps back.
BelongsTo(x, f) == heap[x].resume = f + heap[x].size

SavesLoadedCode(x, f) ==
    /\ heap[x].size = HeadLen[f]
    /\ \A i \in 0 .. HeadLen[f] - 1 : SameInsn(heap[x].saved[i], Original[f + i])

\* The fixup that the code saved in x jumps to, if it is a redirect.
Under(x) == heap[x].saved[0].arg

SavesRedirect(x, f) ==
    /\ heap[x].size = MinSpan
    /\ Under(x) \in LiveFixups /\ BelongsTo(Under(x), f)
    /\ IsHookAt(heap[x].saved, 0, Under(x), heap[Under(x)].size)

HeadUsesLiveFixup ==
    \A f \in Functions : Hooked(f) =>
        /\ text[f].arg \in LiveFixups
        /\ BelongsTo(text[f].arg, f)
        /\ heap[text[f].arg].size = text[f + BRANCH].arg

FixupsRestorable ==
    \A x \in LiveFixups :
        \E f \in Fitting : BelongsTo(x, f) /\ (SavesLoadedCode(x, f) \/ SavesRedirect(x, f))

Saves(x, y) == heap[x].saved[0] = Branch("jmp", y)

NoSharedFixup ==
    \A x \in LiveFixups, y \in FixupIds : Saves(x, y) =>
        /\ \A f \in Functions : Hooked(f) => text[f].arg # y
        /\ \A z \in LiveFixups : Saves(z, y) => z = x

LeakedAreAllocated == \A x \in leaked : heap[x] # Free

ChainInv ==
    fault = "none" => /\ HeadUsesLiveFixup
                      /\ FixupsRestorable
                      /\ NoSharedFixup
                      /\ LeakedAreAllocated

\* The inductive invariant: how the code segment and the fixups that
\* insert_function_redirect and remove_function_redirect leave behind fit
\* together.
HookInv == TypeOK /\ HookedHeads /\ UnhookedIsOriginal /\ ChainInv /\ NoUseAfterFree
\* A redirect, cell by cell.
LEMMA HookCells ==
    ASSUME NEW image, NEW at, NEW x, NEW n
    PROVE  IsHookAt(image, at, x, n) <=>
              /\ image[at] = Branch("jmp", x) /\ image[at + 5] = SavedSize(n)
              /\ \A i \in (1 .. 8) \ {5} : image[at + i] = Inside
<1>1. (1 .. MinSpan - 1) \ {BRANCH} = (1 .. 8) \ {5} /\ BRANCH = 5
      BY DEF MinSpan, BRANCH, ENCODEDSIZE
<1>2. QED BY <1>1 DEF IsHookAt

-----------------------------------------------------------------------------
(* The heads of the loaded image.                                          *)

\* The head of a function that fits is inside the segment, ends at an
\* instruction boundary and meets no other entry point.
LEMMA HeadFacts ==
    ASSUME NEW f \in Fitting
    PROVE  /\ HeadLen[f] \in MinSpan .. MAX_REDIRECT_LENGTH
           /\ f \in Functions /\ f \in Nat
           /\ f + HeadLen[f] <= TextLen
           /\ Boundary(Original, f + HeadLen[f])
           /\ \A m \in MinSpan .. HeadLen[f] - 1 : ~Boundary(Original, f + m)
           /\ \A g \in Functions \ {f} : g \notin f .. f + HeadLen[f] - 1
<1> DEFINE R == MinSpan .. MAX_REDIRECT_LENGTH
<1>1. PICK n \in R : /\ IsSpan(Original, f, n)
                     /\ f + n <= TextLen
                     /\ \A g \in Functions \ {f} : g \notin f .. f + n - 1
      BY DEF Fitting, HeadFits
<1>2. f \in Functions /\ f \in Nat
      BY LayoutAssumption DEF Fitting, Text
<1>3. HeadLen[f] \in R /\ IsSpan(Original, f, HeadLen[f])
      BY <1>1, <1>2 DEF HeadLen
<1>4. HeadLen[f] = n
      BY <1>1, <1>2, <1>3, SMTT(30) DEF IsSpan, MinSpan, BRANCH, ENCODEDSIZE, MAX_REDIRECT_LENGTH
<1>5. QED
      BY <1>1, <1>2, <1>3, <1>4 DEF IsSpan

\* No address is in the heads of two functions.
LEMMA HeadsDisjoint ==
    ASSUME NEW f \in Fitting, NEW g \in Fitting, f # g, NEW a \in Nat, InHead(a, f)
    PROVE  ~InHead(a, g)
BY HeadFacts DEF InHead, MinSpan, BRANCH, ENCODEDSIZE, MAX_REDIRECT_LENGTH

\* An instruction that differs at most in a call target has the same kind.
LEMMA OriginalCells ==
    ASSUME NEW a \in Text
    PROVE  Original[a] \in Cell /\ Original[a].op # "size"
BY OriginalAssumption

-----------------------------------------------------------------------------
(* Where the redirects are.                                                *)

\* The word that remembers the size of a redirect occurs only at the sixth
\* byte of a redirected head.
LEMMA OnlySizes ==
    ASSUME TypeOK, HookedHeads, UnhookedIsOriginal,
           NEW a \in Text, text[a].op = "size"
    PROVE  \E f \in Fitting : Hooked(f) /\ a = f + BRANCH
<1>1. PICK f \in Functions : Hooked(f) /\ InHead(a, f)
      BY OriginalCells DEF Fitting, UnhookedIsOriginal, SameInsn
<1>2. f \in Fitting
      BY <1>1 DEF HookedHeads
<1>3. /\ HeadLen[f] \in 9 .. 24 /\ f \in Nat
      BY <1>2, HeadFacts DEF MinSpan, BRANCH, ENCODEDSIZE, MAX_REDIRECT_LENGTH
<1>4. PICK i \in 0 .. HeadLen[f] - 1 : a = f + i
      <2>1. a \in Nat /\ a >= f /\ a < f + HeadLen[f]
            BY <1>1, <1>3 DEF InHead, Text
      <2>2. a - f \in 0 .. HeadLen[f] - 1 /\ a = f + (a - f)
            BY <1>3, <2>1
      <2>3. QED BY <2>2
<1>5. CASE i = BRANCH
      BY <1>1, <1>2, <1>4, <1>5
<1>6. CASE i = 0
      <2>1. text[f].op = "jmp"
            BY <1>1 DEF Hooked, LooksHooked
      <2>2. QED BY <1>3, <1>4, <1>6, <2>1
<1>7. CASE i \in (1 .. MinSpan - 1) \ {BRANCH}
      <2>1. text[f + i] = Inside
            BY <1>1, <1>7 DEF HookedHeads, IsHookAt
      <2>2. QED BY <1>4, <2>1 DEF Inside
<1>8. CASE i \in MinSpan .. HeadLen[f] - 1
      <2>1. text[f + i] = Nop
            BY <1>1, <1>8 DEF HookedHeads
      <2>2. QED BY <1>4, <2>1 DEF Nop
<1>9. QED
      BY <1>3, <1>4, <1>5, <1>6, <1>7, <1>8 DEF MinSpan, BRANCH, ENCODEDSIZE

\* A byte past the end of a head that is not inside an instruction there
\* still starts one, whatever the neighbour's head has become.
LEMMA BoundaryKept ==
    ASSUME TypeOK, HookedHeads, UnhookedIsOriginal,
           NEW f \in Fitting, Boundary(Original, f + HeadLen[f])
    PROVE  Boundary(text, f + HeadLen[f])
<1> DEFINE a == f + HeadLen[f]
<1>1. SUFFICES ASSUME a \in Text PROVE text[a].op # "tail"
      BY DEF Boundary
<1>2. HeadLen[f] \in 9 .. 24 /\ f \in Nat
      BY HeadFacts DEF MinSpan, BRANCH, ENCODEDSIZE, MAX_REDIRECT_LENGTH
<1>3. CASE \A g \in Functions : Hooked(g) => ~InHead(a, g)
      BY <1>1, <1>3 DEF Fitting, UnhookedIsOriginal, SameInsn, Boundary
<1>4. CASE \E g \in Functions : Hooked(g) /\ InHead(a, g)
      <2>1. PICK g \in Functions : Hooked(g) /\ InHead(a, g)
            BY <1>4
      <2>2. g \in Fitting
            BY <2>1 DEF HookedHeads
      <2>3. HeadLen[g] \in 9 .. 24 /\ g \in Nat
            BY <2>2, HeadFacts DEF MinSpan, BRANCH, ENCODEDSIZE, MAX_REDIRECT_LENGTH
      <2>4. g # f
            BY <2>1, <1>2 DEF InHead
      <2>5. g \notin f .. f + HeadLen[f] - 1 /\ f \notin g .. g + HeadLen[g] - 1
            BY <2>2, <2>4, HeadFacts
      <2>6. g = a
            BY <2>1, <2>3, <2>5, <1>2 DEF InHead
      <2>7. text[a].op = "jmp"
            BY <2>1, <2>6 DEF Hooked, LooksHooked
      <2>8. QED BY <2>7
<1>5. QED BY <1>3, <1>4
-----------------------------------------------------------------------------
(* insert_function_redirect takes exactly the head of the function.        *)

\* If the sweep accepts n bytes of f, then f is long enough to hold them: n
\* is the loaded head, or the nine bytes of the redirect that is there.  A
\* short function is refused for the return or jump in its head.
LEMMA SpanIsHead ==
    ASSUME TypeOK, HookedHeads, UnhookedIsOriginal,
           NEW f \in Functions, NEW flags \in FlagChoices, NEW x \in FixupIds,
           NEW n \in MinSpan .. MAX_REDIRECT_LENGTH, Ready(f, flags, n, x)
    PROVE  f \in Fitting /\ n = IF Hooked(f) THEN MinSpan ELSE HeadLen[f]
<1> USE DEF MinSpan, BRANCH, ENCODEDSIZE, MAX_REDIRECT_LENGTH
<1>1. f \in Nat /\ n \in 9 .. 24
      BY LayoutAssumption DEF Text
<1>2. /\ Boundary(text, f + n)
      /\ \A m \in 9 .. n - 1 : ~Boundary(text, f + m)
      /\ \A a \in f .. f + n - 1 : Boundary(text, a) /\ text[a].op \in ControlFlow
            => flags = {"replace"}
      BY DEF Ready, Accepted, Redirectable, IsSpan
<1>3. f \in Fitting
      <2>1. SUFFICES ASSUME f \notin Fitting PROVE FALSE
            OBVIOUS
      <2>2. flags # {"replace"} /\ ~HeadFits(f)
            BY <2>1 DEF Ready, Accepted, LongEnough, Fitting
      <2>3. PICK a \in f .. f + 8 : /\ a \in Text
                                    /\ Original[a].op \in ControlFlow
                                    /\ \A g \in Functions \ {f} : g \notin f .. a
            BY <2>2, OriginalAssumption DEF LeavesEarly
      <2>4. ASSUME NEW g \in Functions, Hooked(g), InHead(a, g) PROVE FALSE
            <3>1. g \in Fitting
                  BY <2>4 DEF HookedHeads
            <3>2. HeadLen[g] \in 9 .. 24 /\ g \in Nat /\ f \notin g .. g + HeadLen[g] - 1
                  BY <3>1, <2>1, HeadFacts
            <3>3. QED BY <2>1, <2>3, <2>4, <3>1, <3>2, <1>1 DEF InHead
      <2>5. SameInsn(text[a], Original[a])
            BY <2>3, <2>4 DEF Fitting, UnhookedIsOriginal
      <2>6. text[a].op \in ControlFlow /\ Boundary(text, a)
            BY <2>3, <2>5 DEF SameInsn, Boundary, ControlFlow
      <2>7. QED BY <1>1, <1>2, <2>2, <2>3, <2>6
<1>4. /\ HeadLen[f] \in 9 .. 24
      /\ f + HeadLen[f] <= TextLen
      /\ \A m \in 9 .. HeadLen[f] - 1 : ~Boundary(Original, f + m)
      /\ Boundary(text, f + HeadLen[f])
      BY <1>3, HeadFacts, BoundaryKept
<1>5. CASE Hooked(f)
      <2>1. Boundary(text, f + 9)
            <3>1. CASE HeadLen[f] = 9
                  BY <1>4, <3>1
            <3>2. CASE HeadLen[f] # 9
                  <4>1. text[f + 9] = Nop
                        BY <1>4, <1>5, <3>2 DEF HookedHeads
                  <4>2. QED BY <4>1 DEF Nop, Boundary
            <3>3. QED BY <3>1, <3>2
      <2>2. QED BY <1>1, <1>2, <1>3, <1>5, <2>1
<1>6. CASE ~Hooked(f)
      <2>1. ASSUME NEW i \in 0 .. HeadLen[f] - 1 PROVE SameInsn(text[f + i], Original[f + i])
            <3>1. f + i \in Text /\ f + i \in Nat /\ InHead(f + i, f)
                  BY <1>1, <1>4, LayoutAssumption DEF Text, InHead
            <3>2. ASSUME NEW g \in Functions, Hooked(g) PROVE ~InHead(f + i, g)
                  BY <1>3, <1>6, <3>1, <3>2, HeadsDisjoint DEF HookedHeads
            <3>3. QED BY <3>1, <3>2 DEF Fitting, UnhookedIsOriginal
      <2>2. \A m \in 9 .. HeadLen[f] - 1 : ~Boundary(text, f + m)
            BY <1>4, <2>1 DEF Boundary, SameInsn
      <2>3. n = HeadLen[f]
            BY <1>1, <1>2, <1>4, <2>2
      <2>4. QED BY <1>3, <1>6, <2>3
<1>7. QED BY <1>5, <1>6

-----------------------------------------------------------------------------
(* Rewriting the head of one function leaves the others alone.             *)

LEMMA OthersUntouched ==
    ASSUME TypeOK, HookedHeads, UnhookedIsOriginal,
           NEW f \in Fitting, NEW n \in Nat, n <= HeadLen[f],
           \A a \in Text : a \notin f .. f + n - 1 => text'[a] = text[a],
           \A a \in Text : a \in f .. f + n - 1 /\ text'[a].op = "size" => a = f + BRANCH,
           NEW g \in Functions, g # f
    PROVE  /\ Hooked(g)' <=> Hooked(g)
           /\ Hooked(g) => \A i \in 0 .. HeadLen[g] - 1 : text'[g + i] = text[g + i]
<1> USE DEF MinSpan, BRANCH, ENCODEDSIZE, MAX_REDIRECT_LENGTH
<1>1. HeadLen[f] \in 9 .. 24 /\ f \in Nat /\ g \in Nat /\ g \in Text
      BY HeadFacts, LayoutAssumption DEF Text
<1>2. g \notin f .. f + n - 1
      BY <1>1, HeadFacts
<1>3. text'[g] = text[g]
      BY <1>1, <1>2
<1>4. ASSUME Hooked(g), NEW i \in 0 .. HeadLen[g] - 1 PROVE text'[g + i] = text[g + i]
      <2>1. g \in Fitting
            BY <1>4 DEF HookedHeads
      <2>2. HeadLen[g] \in 9 .. 24 /\ g + HeadLen[g] <= TextLen
            BY <2>1, HeadFacts
      <2>3. g + i \in Text /\ InHead(g + i, g)
            BY <1>1, <2>2, LayoutAssumption DEF Text, InHead
      <2>4. ~InHead(g + i, f)
            BY <1>1, <2>1, <2>3, HeadsDisjoint
      <2>5. g + i \notin f .. f + n - 1
            BY <1>1, <2>4 DEF InHead
      <2>6. QED BY <2>3, <2>5
<1>5. ASSUME Hooked(g) PROVE Hooked(g)'
      <2>1. g \in Fitting
            BY <1>5 DEF HookedHeads
      <2>2. HeadLen[g] \in 9 .. 24
            BY <2>1, HeadFacts
      <2>3. text'[g + 5] = text[g + 5]
            BY <1>4, <1>5, <2>2
      <2>4. QED BY <1>3, <1>5, <2>3 DEF Hooked, LooksHooked
<1>6. ASSUME Hooked(g)' PROVE Hooked(g)
      <2>1. g + 5 \in Text /\ text'[g + 5].op = "size"
            BY <1>6 DEF Hooked, LooksHooked
      <2>2. g + 5 \notin f .. f + n - 1
            BY <1>1, <2>1
      <2>3. text'[g + 5] = text[g + 5]
            BY <2>1, <2>2
      <2>4. QED BY <1>3, <1>6, <2>3 DEF Hooked, LooksHooked
<1>7. QED BY <1>4, <1>5, <1>6
-----------------------------------------------------------------------------
(* Installing a redirect.                                                  *)

LEMMA PatchedHead ==
    ASSUME TypeOK, HookedHeads, UnhookedIsOriginal,
           NEW f \in Fitting, NEW x \in FixupIds,
           NEW n, n = IF Hooked(f) THEN MinSpan ELSE HeadLen[f],
           text' = Patched(text, f, n, x)
    PROVE  /\ HookedHeads' /\ UnhookedIsOriginal' /\ text' \in [Text -> Cell]
           /\ Hooked(f)' /\ text'[f].arg = x /\ text'[f + BRANCH].arg = n
           /\ \A g \in Functions \ {f} : /\ Hooked(g)' <=> Hooked(g)
                                         /\ Hooked(g) => /\ text'[g] = text[g]
                                                         /\ text'[g + BRANCH] = text[g + BRANCH]
<1> USE DEF MinSpan, BRANCH, ENCODEDSIZE, MAX_REDIRECT_LENGTH
<1>1. /\ HeadLen[f] \in 9 .. 24 /\ f \in Nat /\ f + HeadLen[f] <= TextLen /\ f \in Functions
      /\ n \in 9 .. HeadLen[f]
      BY HeadFacts
<1>2. \A i \in 0 .. HeadLen[f] - 1 : f + i \in Text
      BY <1>1, LayoutAssumption DEF Text
<1>3. \A a \in Text : a \notin f .. f + n - 1 => text'[a] = text[a]
      BY DEF Patched
<1>4. /\ text'[f] = Branch("jmp", x)
      /\ text'[f + 5] = SavedSize(n)
      /\ \A i \in (1 .. 8) \ {5} : text'[f + i] = Inside
      /\ \A i \in 9 .. n - 1 : text'[f + i] = Nop
      <2>1. \A i \in 0 .. n - 1 : f + i \in Text /\ f + i \in f .. f + n - 1
            BY <1>1, <1>2
      <2>2. text'[f] = Branch("jmp", x)
            BY <1>1, <2>1 DEF Patched
      <2>3. text'[f + 5] = SavedSize(n)
            BY <1>1, <2>1 DEF Patched
      <2>4. ASSUME NEW i \in (1 .. 8) \ {5} PROVE text'[f + i] = Inside
            BY <1>1, <2>1 DEF Patched
      <2>5. ASSUME NEW i \in 9 .. n - 1 PROVE text'[f + i] = Nop
            BY <1>1, <2>1 DEF Patched
      <2>6. QED BY <2>2, <2>3, <2>4, <2>5
<1>5. \A a \in Text : a \in f .. f + n - 1 /\ text'[a].op = "size" => a = f + 5
      BY <1>1 DEF Patched, Branch, Nop, Inside
<1>6. ASSUME NEW g \in Functions \ {f}
      PROVE  /\ Hooked(g)' <=> Hooked(g)
             /\ Hooked(g) => \A i \in 0 .. HeadLen[g] - 1 : text'[g + i] = text[g + i]
      BY <1>1, <1>3, <1>5, OthersUntouched
<1>7. Hooked(f)'
      BY <1>1, <1>2, <1>4 DEF Hooked, LooksHooked, Branch, SavedSize
<1>8. HookedHeads'
      <2>1. SUFFICES ASSUME NEW g \in Functions, Hooked(g)'
                     PROVE  /\ g \in Fitting
                            /\ text'[g].arg \in FixupIds
                            /\ IsHookAt(text', g, text'[g].arg, text'[g + 5].arg)
                            /\ \A i \in 9 .. HeadLen[g] - 1 : text'[g + i] = Nop
            BY DEF HookedHeads
      <2>2. CASE g # f
            <3>1. Hooked(g) /\ g \in Fitting
                  BY <1>6, <2>1, <2>2 DEF HookedHeads
            <3>2. HeadLen[g] \in 9 .. 24 /\ g \in Nat
                  BY <3>1, HeadFacts
            <3>3. \A i \in 0 .. HeadLen[g] - 1 : text'[g + i] = text[g + i]
                  BY <1>6, <2>2, <3>1
            <3>4. text'[g] = text[g] /\ \A i \in 1 .. 8 : text'[g + i] = text[g + i]
                  <4>1. 0 \in 0 .. HeadLen[g] - 1 /\ g + 0 = g
                        BY <3>2
                  <4>2. 1 .. 8 \subseteq 0 .. HeadLen[g] - 1
                        BY <3>2
                  <4>3. text'[g + 0] = text[g + 0]
                        BY <3>3, <4>1
                  <4>4. QED BY <3>3, <4>1, <4>2, <4>3
            <3>5. QED BY <3>1, <3>3, <3>4 DEF HookedHeads, IsHookAt
      <2>3. CASE g = f
            <3>1. text'[f].arg = x /\ text'[f + 5].arg = n
                  BY <1>4 DEF Branch, SavedSize
            <3>2. ASSUME NEW i \in 9 .. HeadLen[f] - 1 PROVE text'[f + i] = Nop
                  <4>1. CASE Hooked(f)
                        <5>1. text[f + i] = Nop
                              BY <1>1, <4>1, <3>2 DEF HookedHeads
                        <5>2. f + i \notin f .. f + n - 1 /\ f + i \in Text
                              BY <1>1, <1>2, <4>1
                        <5>3. QED BY <1>3, <5>1, <5>2
                  <4>2. CASE ~Hooked(f)
                        BY <1>4, <4>2
                  <4>3. QED BY <4>1, <4>2
            <3>3. QED BY <1>4, <2>3, <3>1, <3>2 DEF IsHookAt
      <2>4. QED BY <2>2, <2>3
<1>9. UnhookedIsOriginal'
      <2>1. SUFFICES ASSUME NEW a \in Text, \A g \in Fitting : Hooked(g)' => ~InHead(a, g)
                     PROVE  SameInsn(text'[a], Original[a])
            BY DEF Fitting, UnhookedIsOriginal, InHead
      <2>2. ~InHead(a, f)
            BY <1>1, <1>7, <2>1
      <2>3. text'[a] = text[a]
            BY <1>1, <1>3, <2>2, LayoutAssumption DEF InHead, Text
      <2>4. ASSUME NEW g \in Functions, Hooked(g) PROVE ~InHead(a, g)
            BY <1>6, <2>1, <2>2, <2>4 DEF HookedHeads
      <2>5. QED BY <2>3, <2>4 DEF Fitting, UnhookedIsOriginal
<1>10. text' \in [Text -> Cell]
      <2>1. ASSUME NEW a \in Text PROVE Patched(text, f, n, x)[a] \in Cell
            <3>1. /\ Branch("jmp", x) \in Cell /\ SavedSize(n) \in Cell
                  /\ Nop \in Cell /\ Inside \in Cell
                  BY <1>1 DEF Branch, SavedSize, Nop, Inside, Cell, Ops, Args
            <3>2. text[a] \in Cell
                  BY DEF TypeOK
            <3>3. QED BY <3>1, <3>2 DEF Patched
      <2>2. QED BY <2>1 DEF Patched
<1>11. ASSUME NEW g \in Functions \ {f}, Hooked(g)
       PROVE  text'[g] = text[g] /\ text'[g + 5] = text[g + 5]
      <2>1. g \in Fitting
            BY <1>11 DEF HookedHeads
      <2>2. HeadLen[g] \in 9 .. 24 /\ g \in Nat
            BY <2>1, HeadFacts
      <2>3. 0 \in 0 .. HeadLen[g] - 1 /\ 5 \in 0 .. HeadLen[g] - 1 /\ g + 0 = g
            BY <2>2
      <2>4. text'[g + 0] = text[g + 0] /\ text'[g + 5] = text[g + 5]
            BY <1>6, <1>11, <2>3
      <2>5. QED BY <2>3, <2>4
<1>12. QED
      BY <1>4, <1>6, <1>7, <1>8, <1>9, <1>10, <1>11 DEF Branch, SavedSize
-----------------------------------------------------------------------------
(* Removing a redirect.                                                    *)

\* The fixup a hooked head jumps to saves either the loaded head of this
\* function or the redirect that was on it before.
LEMMA TopFixup ==
    ASSUME TypeOK, HookedHeads, ChainInv, fault = "none",
           NEW f \in Functions, Hooked(f)
    PROVE  /\ f \in Fitting /\ text[f].arg \in LiveFixups
           /\ heap[text[f].arg] \in Fixup
           /\ BelongsTo(text[f].arg, f)
           /\ heap[text[f].arg].size = text[f + BRANCH].arg
           /\ SavesLoadedCode(text[f].arg, f) \/ SavesRedirect(text[f].arg, f)
<1> DEFINE x == text[f].arg
<1>1. /\ f \in Fitting /\ f \in Nat
      BY HeadFacts DEF HookedHeads
<1>2. x \in LiveFixups /\ BelongsTo(x, f) /\ heap[x].size = text[f + BRANCH].arg /\ x \in FixupIds
      BY DEF ChainInv, HeadUsesLiveFixup, LiveFixups
<1>3. heap[x] \in Fixup
      BY <1>2 DEF TypeOK, LiveFixups
<1>4. PICK g \in Fitting : BelongsTo(x, g) /\ (SavesLoadedCode(x, g) \/ SavesRedirect(x, g))
      BY <1>2 DEF ChainInv, FixupsRestorable
<1>5. g = f
      <2>1. g \in Nat /\ heap[x].size \in Nat
            BY <1>3, HeadFacts DEF Fixup, MAX_REDIRECT_LENGTH
      <2>2. QED BY <1>1, <1>2, <1>4, <2>1 DEF BelongsTo
<1>6. QED BY <1>1, <1>2, <1>3, <1>4, <1>5

LEMMA RestoredHead ==
    ASSUME TypeOK, HookedHeads, UnhookedIsOriginal, ChainInv, fault = "none",
           NEW f \in Functions, Hooked(f),
           text' = Restored(text, f, text[f + BRANCH].arg, heap[text[f].arg].saved)
    PROVE  /\ HookedHeads' /\ UnhookedIsOriginal' /\ text' \in [Text -> Cell]
           /\ Hooked(f)' => /\ SavesRedirect(text[f].arg, f)
                            /\ text'[f].arg = Under(text[f].arg)
                            /\ text'[f + BRANCH].arg = heap[Under(text[f].arg)].size
           /\ \A g \in Functions \ {f} : /\ Hooked(g)' <=> Hooked(g)
                                         /\ Hooked(g) => /\ text'[g] = text[g]
                                                         /\ text'[g + BRANCH] = text[g + BRANCH]
<1> DEFINE x == text[f].arg
           n == text[f + BRANCH].arg
           image == heap[x].saved
           y == Under(x)
<1> USE DEF MinSpan, BRANCH, ENCODEDSIZE, MAX_REDIRECT_LENGTH
<1>1. /\ f \in Fitting /\ x \in LiveFixups /\ heap[x] \in Fixup /\ heap[x].size = n
      /\ SavesLoadedCode(x, f) \/ SavesRedirect(x, f)
      BY TopFixup
<1>2. /\ HeadLen[f] \in 9 .. 24 /\ f \in Nat /\ f + HeadLen[f] <= TextLen
      /\ n \in 9 .. HeadLen[f]
      <2>1. HeadLen[f] \in 9 .. 24 /\ f \in Nat /\ f + HeadLen[f] <= TextLen
            BY <1>1, HeadFacts
      <2>2. QED BY <1>1, <2>1 DEF SavesLoadedCode, SavesRedirect
<1>3. \A i \in 0 .. HeadLen[f] - 1 : f + i \in Text
      BY <1>2, LayoutAssumption DEF Text
<1>4. /\ \A a \in Text : a \notin f .. f + n - 1 => text'[a] = text[a]
      /\ \A i \in 0 .. n - 1 : text'[f + i] = image[i]
      <2>1. ASSUME NEW a \in Text, a \notin f .. f + n - 1 PROVE text'[a] = text[a]
            BY <2>1 DEF Restored
      <2>2. ASSUME NEW i \in 0 .. n - 1 PROVE text'[f + i] = image[i]
            <3>1. f + i \in Text /\ f + i \in f .. f + n - 1 /\ (f + i) - f = i
                  BY <1>2, <1>3
            <3>2. QED BY <3>1 DEF Restored
      <2>3. QED BY <2>1, <2>2
<1>5. SavesLoadedCode(x, f) => /\ n = HeadLen[f]
                               /\ \A i \in 0 .. n - 1 : SameInsn(text'[f + i], Original[f + i])
      BY <1>1, <1>4 DEF SavesLoadedCode
<1>6. SavesRedirect(x, f) => /\ n = 9 /\ IsHookAt(text', f, y, heap[y].size)
                             /\ y \in FixupIds /\ heap[y] \in Fixup
      <2>1. SUFFICES ASSUME SavesRedirect(x, f)
                     PROVE  /\ n = 9 /\ IsHookAt(text', f, y, heap[y].size)
                            /\ y \in FixupIds /\ heap[y] \in Fixup
            OBVIOUS
      <2>2. n = 9 /\ IsHookAt(image, 0, y, heap[y].size) /\ y \in LiveFixups
            BY <1>1, <2>1 DEF SavesRedirect
      <2>3. y \in FixupIds /\ heap[y] \in Fixup
            BY <2>2 DEF LiveFixups, TypeOK
      <2>4. text'[f + 0] = image[0] /\ f + 0 = f
            <3>1. 0 \in 0 .. n - 1
                  BY <2>2
            <3>2. QED BY <1>2, <1>4, <3>1
      <2>5. \A i \in 1 .. 8 : text'[f + i] = image[i] /\ 0 + i = i
            <3>1. 1 .. 8 \subseteq 0 .. n - 1
                  BY <2>2
            <3>2. QED BY <1>4, <3>1
      <2>6. IsHookAt(text', f, y, heap[y].size)
            <3>1. image[0] = Branch("jmp", y) /\ image[5] = SavedSize(heap[y].size)
                  BY <2>2, HookCells
            <3>2. \A i \in (1 .. 8) \ {5} : image[i] = Inside
                  <4>1. \A i \in (1 .. 8) \ {5} : image[0 + i] = Inside
                        BY <2>2, HookCells
                  <4>2. QED BY <2>5, <4>1
            <3>3. text'[f] = Branch("jmp", y)
                  BY <2>4, <3>1
            <3>4. text'[f + 5] = SavedSize(heap[y].size)
                  BY <2>5, <3>1
            <3>5. \A i \in (1 .. 8) \ {5} : text'[f + i] = Inside
                  BY <2>5, <3>2
            <3>6. QED BY <3>3, <3>4, <3>5, HookCells
      <2>7. QED BY <2>2, <2>3, <2>6
<1>7. ASSUME NEW a \in Text, a \in f .. f + n - 1, text'[a].op = "size" PROVE a = f + 5
      <2>1. PICK i \in 0 .. n - 1 : a = f + i
            BY <1>2, <1>7 DEF Text
      <2>2. CASE SavesLoadedCode(x, f)
            BY <1>5, <1>7, <2>1, <2>2, OriginalCells DEF SameInsn
      <2>3. CASE SavesRedirect(x, f)
            <3>1. IsHookAt(text', f, y, heap[y].size) /\ n = 9
                  BY <1>6, <2>3
            <3>2. CASE i = 0
                  BY <1>2, <1>7, <2>1, <3>1, <3>2 DEF IsHookAt, Branch
            <3>3. CASE i \in (1 .. 8) \ {5}
                  BY <1>7, <2>1, <3>1, <3>3 DEF IsHookAt, Inside
            <3>4. QED BY <2>1, <3>1, <3>2, <3>3
      <2>4. QED BY <1>1, <2>2, <2>3
<1>8. ASSUME NEW g \in Functions \ {f}
      PROVE  /\ Hooked(g)' <=> Hooked(g)
             /\ Hooked(g) => \A i \in 0 .. HeadLen[g] - 1 : text'[g + i] = text[g + i]
      BY SMTT(20), <1>1, <1>2, <1>4, <1>7, OthersUntouched
<1>9. Hooked(f)' <=> SavesRedirect(x, f)
      <2>1. f + 5 \in Text /\ 5 \in 0 .. n - 1
            BY <1>2, <1>3
      <2>2. ASSUME SavesLoadedCode(x, f) PROVE ~Hooked(f)'
            <3>1. SameInsn(text'[f + 5], Original[f + 5])
                  BY <1>5, <2>1, <2>2
            <3>2. text'[f + 5].op # "size"
                  BY <2>1, <3>1, OriginalCells DEF SameInsn
            <3>3. QED BY <3>2 DEF Hooked, LooksHooked
      <2>3. ASSUME SavesRedirect(x, f) PROVE Hooked(f)'
            <3>1. IsHookAt(text', f, y, heap[y].size) /\ heap[y].size <= 24
                  BY <1>6, <2>3 DEF Fixup
            <3>2. QED BY <2>1, <3>1 DEF IsHookAt, Hooked, LooksHooked, Branch, SavedSize
      <2>4. QED BY <1>1, <2>2, <2>3
<1>10. HookedHeads'
      <2>1. SUFFICES ASSUME NEW g \in Functions, Hooked(g)'
                     PROVE  /\ g \in Fitting
                            /\ text'[g].arg \in FixupIds
                            /\ IsHookAt(text', g, text'[g].arg, text'[g + 5].arg)
                            /\ \A i \in 9 .. HeadLen[g] - 1 : text'[g + i] = Nop
            BY SMTT(20) DEF HookedHeads
      <2>2. CASE g # f
            <3>1. Hooked(g) /\ g \in Fitting
                  BY <1>8, <2>1, <2>2 DEF HookedHeads
            <3>2. HeadLen[g] \in 9 .. 24 /\ g \in Nat
                  BY <3>1, HeadFacts
            <3>3. \A i \in 0 .. HeadLen[g] - 1 : text'[g + i] = text[g + i]
                  BY <1>8, <2>2, <3>1
            <3>4. text'[g] = text[g] /\ \A i \in 1 .. 8 : text'[g + i] = text[g + i]
                  <4>1. 0 \in 0 .. HeadLen[g] - 1 /\ g + 0 = g
                        BY <3>2
                  <4>2. 1 .. 8 \subseteq 0 .. HeadLen[g] - 1
                        BY <3>2
                  <4>3. text'[g + 0] = text[g + 0]
                        BY <3>3, <4>1
                  <4>4. QED BY <3>3, <4>1, <4>2, <4>3
            <3>5. \A i \in 9 .. HeadLen[g] - 1 : text'[g + i] = Nop
                  BY <3>1, <3>2, <3>3 DEF HookedHeads
            <3>6. /\ IsHookAt(text, g, text[g].arg, text[g + 5].arg)
                  /\ text[g].arg \in FixupIds
                  BY <3>1 DEF HookedHeads
            <3>7. IsHookAt(text', g, text'[g].arg, text'[g + 5].arg)
                  <4>1. text'[g + 5] = text[g + 5]
                        BY <3>4
                  <4>2. text[g] = Branch("jmp", text[g].arg) /\ text[g + 5] = SavedSize(text[g + 5].arg)
                        BY <3>6, HookCells
                  <4>3. \A i \in (1 .. 8) \ {5} : text'[g + i] = Inside
                        BY <3>4, <3>6, HookCells
                  <4>4. text'[g] = Branch("jmp", text'[g].arg) /\ text'[g + 5] = SavedSize(text'[g + 5].arg)
                        BY <3>4, <4>1, <4>2
                  <4>5. QED BY <4>3, <4>4, HookCells
            <3>8. QED BY <3>1, <3>4, <3>5, <3>6, <3>7
      <2>3. CASE g = f
            <3>1. n = 9 /\ IsHookAt(text', f, y, heap[y].size) /\ y \in FixupIds
                  BY <1>6, <1>9, <2>1, <2>3
            <3>2. text'[f].arg = y /\ text'[f + 5].arg = heap[y].size
                  BY <3>1 DEF IsHookAt, Branch, SavedSize
            <3>3. ASSUME NEW i \in 9 .. HeadLen[f] - 1 PROVE text'[f + i] = Nop
                  <4>1. text[f + i] = Nop
                        BY <3>3 DEF HookedHeads
                  <4>2. f + i \notin f .. f + n - 1 /\ f + i \in Text
                        BY <1>2, <1>3, <3>1
                  <4>3. QED BY <1>4, <4>1, <4>2
            <3>4. QED BY <1>1, <2>3, <3>1, <3>2, <3>3
      <2>4. QED BY <2>2, <2>3
<1>11. UnhookedIsOriginal'
      <2>1. SUFFICES ASSUME NEW a \in Text, \A g \in Fitting : Hooked(g)' => ~InHead(a, g)
                     PROVE  SameInsn(text'[a], Original[a])
            BY DEF Fitting, UnhookedIsOriginal, InHead
      <2>2. ASSUME NEW g \in Functions, g # f, Hooked(g) PROVE ~InHead(a, g)
            BY <1>8, <2>1, <2>2 DEF HookedHeads
      <2>3. CASE InHead(a, f)
            <3>1. SavesLoadedCode(x, f)
                  BY <1>1, <1>9, <2>1, <2>3
            <3>2. PICK i \in 0 .. n - 1 : a = f + i
                  <4>1. n = HeadLen[f] /\ a \in Nat /\ a >= f /\ a < f + n
                        BY <1>2, <1>5, <2>3, <3>1 DEF InHead
                  <4>2. a - f \in 0 .. n - 1 /\ a = f + (a - f)
                        BY <1>2, <1>5, <4>1
                  <4>3. QED BY <4>2
            <3>3. QED BY <1>5, <3>1, <3>2
      <2>4. CASE ~InHead(a, f)
            <3>1. text'[a] = text[a]
                  BY <1>2, <1>4, <2>4, LayoutAssumption DEF InHead, Text
            <3>2. QED BY <2>2, <2>4, <3>1 DEF Fitting, UnhookedIsOriginal
      <2>5. QED BY <2>3, <2>4
<1>12. text' \in [Text -> Cell]
      <2>1. ASSUME NEW a \in Text PROVE Restored(text, f, n, image)[a] \in Cell
            <3>1. a \in f .. f + n - 1 => a - f \in Window
                  BY <1>2 DEF Window
            <3>2. image \in [Window -> Cell]
                  BY <1>1 DEF Fixup
            <3>3. QED BY <3>1, <3>2 DEF Restored, TypeOK
      <2>2. QED BY <2>1 DEF Restored
<1>13. ASSUME NEW g \in Functions \ {f}, Hooked(g)
       PROVE  text'[g] = text[g] /\ text'[g + 5] = text[g + 5]
      <2>1. g \in Fitting
            BY <1>13 DEF HookedHeads
      <2>2. HeadLen[g] \in 9 .. 24 /\ g \in Nat
            BY <2>1, HeadFacts
      <2>3. 0 \in 0 .. HeadLen[g] - 1 /\ 5 \in 0 .. HeadLen[g] - 1 /\ g + 0 = g
            BY <2>2
      <2>4. text'[g + 0] = text[g + 0] /\ text'[g + 5] = text[g + 5]
            BY <1>8, <1>13, <2>3
      <2>5. QED BY <2>3, <2>4
<1>14. Hooked(f)' => /\ SavesRedirect(x, f)
                     /\ text'[f].arg = y /\ text'[f + 5].arg = heap[y].size
      <2>1. SUFFICES ASSUME Hooked(f)'
                     PROVE  /\ SavesRedirect(x, f)
                            /\ text'[f].arg = y /\ text'[f + 5].arg = heap[y].size
            OBVIOUS
      <2>2. SavesRedirect(x, f)
            BY <1>9, <2>1
      <2>3. text'[f] = Branch("jmp", y) /\ text'[f + 5] = SavedSize(heap[y].size)
            BY <1>6, <2>2, HookCells
      <2>4. QED BY <2>2, <2>3 DEF Branch, SavedSize
<1>15. QED
      BY <1>8, <1>10, <1>11, <1>12, <1>13, <1>14
-----------------------------------------------------------------------------
(* The chains of fixups.                                                   *)

\* The head of a function with no redirect is the loaded one.
LEMMA UnhookedHead ==
    ASSUME TypeOK, HookedHeads, UnhookedIsOriginal,
           NEW f \in Fitting, ~Hooked(f), NEW i \in 0 .. HeadLen[f] - 1
    PROVE  f + i \in Text /\ SameInsn(text[f + i], Original[f + i])
<1>1. /\ f \in Nat /\ HeadLen[f] \in 9 .. 24 /\ f + HeadLen[f] <= TextLen
      BY HeadFacts DEF MinSpan, BRANCH, ENCODEDSIZE, MAX_REDIRECT_LENGTH
<1>2. f + i \in Text /\ f + i \in Nat /\ InHead(f + i, f)
      BY <1>1, LayoutAssumption DEF Text, InHead
<1>3. ASSUME NEW g \in Functions, Hooked(g) PROVE ~InHead(f + i, g)
      BY <1>2, <1>3, HeadsDisjoint DEF HookedHeads
<1>4. QED BY <1>2, <1>3 DEF Fitting, UnhookedIsOriginal

\* Loaded code jumps to no fixup.
LEMMA LoadedCodeHasNoFixup ==
    ASSUME NEW a \in Text, NEW cell, SameInsn(cell, Original[a]), NEW y \in FixupIds
    PROVE  cell # Branch("jmp", y)
<1>1. SUFFICES ASSUME cell = Branch("jmp", y) PROVE FALSE
      OBVIOUS
<1>2. Original[a].op = "jmp" /\ Original[a].arg = y
      BY <1>1 DEF SameInsn, Branch
<1>3. y \in Targets
      BY <1>2, OriginalAssumption
<1>4. QED BY <1>3, LayoutAssumption DEF Targets, Text

\* A live fixup that saves a jump to a fixup saves a redirect through it.
LEMMA SavedFixupIsLive ==
    ASSUME TypeOK, FixupsRestorable,
           NEW x \in LiveFixups, NEW y \in FixupIds, Saves(x, y)
    PROVE  y \in LiveFixups
<1>1. PICK f \in Fitting : SavesLoadedCode(x, f) \/ SavesRedirect(x, f)
      BY DEF FixupsRestorable
<1>2. CASE SavesLoadedCode(x, f)
      <2>1. /\ f \in Text /\ f + 0 = f /\ 0 \in 0 .. HeadLen[f] - 1
            BY HeadFacts, LayoutAssumption DEF MinSpan, BRANCH, ENCODEDSIZE, MAX_REDIRECT_LENGTH, Text
      <2>2. SameInsn(heap[x].saved[0], Original[f])
            BY <1>2, <2>1 DEF SavesLoadedCode
      <2>3. QED BY <2>1, <2>2, LoadedCodeHasNoFixup DEF Saves
<1>3. CASE SavesRedirect(x, f)
      BY <1>3 DEF SavesRedirect, Saves, Under, Branch
<1>4. QED BY <1>1, <1>2, <1>3

\* Two functions never share the fixup their heads jump to.
LEMMA OneHeadPerFixup ==
    ASSUME TypeOK, HookedHeads, HeadUsesLiveFixup,
           NEW f \in Functions, NEW g \in Functions, Hooked(f), Hooked(g),
           text[f].arg = text[g].arg
    PROVE  f = g
<1>1. text[f].arg \in LiveFixups /\ BelongsTo(text[f].arg, f) /\ BelongsTo(text[f].arg, g)
      BY DEF HeadUsesLiveFixup
<1>2. heap[text[f].arg].size \in Nat
      BY <1>1 DEF LiveFixups, TypeOK, Fixup, MAX_REDIRECT_LENGTH
<1>3. QED BY <1>1, <1>2, LayoutAssumption DEF BelongsTo, Text

\* The chains survive when no head and no live fixup changes.
LEMMA ChainFrame ==
    ASSUME HeadUsesLiveFixup, FixupsRestorable, NoSharedFixup,
           \A f \in Functions : /\ Hooked(f)' <=> Hooked(f)
                                /\ Hooked(f) => /\ text'[f].arg = text[f].arg
                                                /\ text'[f + BRANCH].arg = text[f + BRANCH].arg,
           LiveFixups' = LiveFixups, \A z \in LiveFixups : heap'[z] = heap[z]
    PROVE  HeadUsesLiveFixup' /\ FixupsRestorable' /\ NoSharedFixup'
<1>1. HeadUsesLiveFixup'
      BY DEF HeadUsesLiveFixup, BelongsTo
<1>2. FixupsRestorable'
      <2>1. SUFFICES ASSUME NEW x \in LiveFixups
                     PROVE  \E f \in Fitting : /\ BelongsTo(x, f)'
                                               /\ SavesLoadedCode(x, f)' \/ SavesRedirect(x, f)'
            BY DEF FixupsRestorable
      <2>2. PICK f \in Fitting : BelongsTo(x, f) /\ (SavesLoadedCode(x, f) \/ SavesRedirect(x, f))
            BY <2>1 DEF FixupsRestorable
      <2>3. heap'[x] = heap[x]
            BY <2>1
      <2>4. BelongsTo(x, f)'
            BY <2>2, <2>3 DEF BelongsTo
      <2>5. CASE SavesLoadedCode(x, f)
            <3>1. SavesLoadedCode(x, f)'
                  BY <2>3, <2>5 DEF SavesLoadedCode
            <3>2. QED BY <2>4, <3>1
      <2>6. CASE SavesRedirect(x, f)
            <3>1. Under(x)' = Under(x)
                  BY <2>3 DEF Under
            <3>2. Under(x) \in LiveFixups' /\ heap'[Under(x)] = heap[Under(x)]
                  BY <2>6 DEF SavesRedirect
            <3>3. SavesRedirect(x, f)'
                  BY <2>3, <2>6, <3>1, <3>2 DEF SavesRedirect, BelongsTo
            <3>4. QED BY <2>4, <3>3
      <2>7. QED BY <2>2, <2>5, <2>6
<1>3. NoSharedFixup'
      BY DEF NoSharedFixup, Saves
<1>4. QED BY <1>1, <1>2, <1>3

\* A redirect puts its fixup on top of the chain of its function.
LEMMA InsertKeepsChains ==
    ASSUME HookInv, fault = "none",
           NEW f \in Functions, NEW flags \in FlagChoices, NEW x \in FixupIds,
           NEW redirect \in Targets,
           NEW n \in MinSpan .. MAX_REDIRECT_LENGTH, Ready(f, flags, n, x),
           heap' = [heap EXCEPT ![x] = NewFixup(f, redirect, flags, n)],
           text' = Patched(text, f, n, x), leaked' = leaked
    PROVE  ChainInv'
<1> USE DEF MinSpan, BRANCH, ENCODEDSIZE, MAX_REDIRECT_LENGTH
<1>1. TypeOK /\ HookedHeads /\ UnhookedIsOriginal /\ ChainInv
      BY DEF HookInv
<1>2. HeadUsesLiveFixup /\ FixupsRestorable /\ NoSharedFixup /\ LeakedAreAllocated
      BY <1>1 DEF ChainInv
<1>3. f \in Fitting /\ n = IF Hooked(f) THEN MinSpan ELSE HeadLen[f]
      BY <1>1, SpanIsHead
<1>4. /\ HeadLen[f] \in 9 .. 24 /\ f \in Nat /\ f \in Text
      /\ 0 \in 0 .. HeadLen[f] - 1 /\ f + 0 = f /\ 0 \in Window
      BY <1>3, HeadFacts, LayoutAssumption DEF Text, Window
<1>5. /\ Hooked(f)' /\ text'[f].arg = x /\ text'[f + BRANCH].arg = n
      /\ \A g \in Functions \ {f} : /\ Hooked(g)' <=> Hooked(g)
                                    /\ Hooked(g) => /\ text'[g] = text[g]
                                                    /\ text'[g + BRANCH] = text[g + BRANCH]
      BY <1>1, <1>3, PatchedHead
<1>6. /\ heap[x] = Free /\ x \notin LiveFixups /\ x \notin leaked
      /\ LiveFixups' = LiveFixups \cup {x}
      /\ heap'[x] = NewFixup(f, redirect, flags, n)
      /\ \A z \in LiveFixups : heap'[z] = heap[z] /\ z # x /\ z \in FixupIds
      <2>1. heap[x] = Free /\ x \notin leaked
            BY <1>2 DEF Ready, Accepted, LeakedAreAllocated
      <2>2. heap' \in [FixupIds -> {heap'[z] : z \in FixupIds}] /\ heap'[x] = NewFixup(f, redirect, flags, n)
            BY <1>1 DEF TypeOK
      <2>3. \A z \in FixupIds : z # x => heap'[z] = heap[z]
            BY <1>1 DEF TypeOK
      <2>4. NewFixup(f, redirect, flags, n) # Free
            BY DEF NewFixup, Free, FixupOp
      <2>5. QED BY <2>1, <2>2, <2>3, <2>4 DEF LiveFixups
<1>7. /\ heap'[x].size = n /\ heap'[x].resume = f + n
      /\ heap'[x].saved = Saved(text, f, n)
      /\ \A i \in 0 .. n - 1 : heap'[x].saved[i] = text[f + i]
      BY <1>6 DEF NewFixup, Saved, Window
<1>8. heap'[x].saved[0] = text[f]
      BY <1>4, <1>7
<1>9. \A y \in FixupIds : text[f] = Branch("jmp", y) => Hooked(f) /\ text[f].arg = y
      <2>1. ASSUME NEW y \in FixupIds, text[f] = Branch("jmp", y) PROVE Hooked(f)
            <3>1. SUFFICES ASSUME ~Hooked(f) PROVE FALSE
                  OBVIOUS
            <3>2. SameInsn(text[f], Original[f])
                  BY <1>1, <1>3, <1>4, <3>1, UnhookedHead
            <3>3. QED BY <1>4, <2>1, <3>2, LoadedCodeHasNoFixup
      <2>2. QED BY <2>1 DEF Branch
<1>10. HeadUsesLiveFixup'
      <2>1. SUFFICES ASSUME NEW g \in Functions, Hooked(g)'
                     PROVE  /\ text'[g].arg \in LiveFixups'
                            /\ heap'[text'[g].arg].resume = g + heap'[text'[g].arg].size
                            /\ heap'[text'[g].arg].size = text'[g + 5].arg
            BY DEF HeadUsesLiveFixup, BelongsTo
      <2>2. CASE g = f
            BY <1>5, <1>6, <1>7, <2>2
      <2>3. CASE g # f
            <3>1. Hooked(g) /\ text'[g] = text[g] /\ text'[g + 5] = text[g + 5]
                  BY <1>5, <2>1, <2>3
            <3>2. /\ text[g].arg \in LiveFixups /\ BelongsTo(text[g].arg, g)
                  /\ heap[text[g].arg].size = text[g + 5].arg
                  BY <1>2, <3>1 DEF HeadUsesLiveFixup
            <3>3. QED BY <1>6, <3>1, <3>2 DEF BelongsTo
      <2>4. QED BY <2>2, <2>3
<1>11. FixupsRestorable'
      <2>1. SUFFICES ASSUME NEW z \in LiveFixups'
                     PROVE  \E g \in Fitting : /\ BelongsTo(z, g)'
                                               /\ SavesLoadedCode(z, g)' \/ SavesRedirect(z, g)'
            BY DEF FixupsRestorable
      <2>2. CASE z = x
            <3>1. BelongsTo(x, f)'
                  BY <1>7 DEF BelongsTo
            <3>2. CASE Hooked(f)
                  <4> DEFINE y == text[f].arg
                  <4>1. n = 9 /\ y \in LiveFixups /\ BelongsTo(y, f) /\ heap[y].size = text[f + 5].arg
                        BY <1>2, <1>3, <3>2 DEF HeadUsesLiveFixup
                  <4>2. IsHookAt(text, f, y, heap[y].size)
                        BY <1>1, <3>2, <4>1 DEF HookedHeads
                  <4>3. \A i \in 1 .. 8 : heap'[x].saved[i] = text[f + i]
                        <5>1. 1 .. 8 \subseteq 0 .. n - 1
                              BY <4>1
                        <5>2. QED BY <1>7, <5>1
                  <4>4. IsHookAt(heap'[x].saved, 0, y, heap[y].size)
                        BY <1>8, <4>2, <4>3 DEF IsHookAt
                  <4>5. Under(x)' = y
                        BY <1>8 DEF Under
                  <4>6. y \in LiveFixups' /\ heap'[y] = heap[y]
                        BY <1>6, <4>1
                  <4>7. SavesRedirect(x, f)'
                        BY <1>7, <4>1, <4>4, <4>5, <4>6 DEF SavesRedirect, BelongsTo
                  <4>8. QED BY <1>3, <2>2, <3>1, <4>7
            <3>3. CASE ~Hooked(f)
                  <4>1. n = HeadLen[f]
                        BY <1>3, <3>3
                  <4>2. ASSUME NEW i \in 0 .. HeadLen[f] - 1
                        PROVE  SameInsn(heap'[x].saved[i], Original[f + i])
                        BY <1>1, <1>3, <1>7, <3>3, <4>1, UnhookedHead
                  <4>3. SavesLoadedCode(x, f)'
                        BY <1>7, <4>1, <4>2 DEF SavesLoadedCode
                  <4>4. QED BY <1>3, <2>2, <3>1, <4>3
            <3>4. QED BY <3>2, <3>3
      <2>3. CASE z # x
            <3>1. z \in LiveFixups /\ heap'[z] = heap[z]
                  BY <1>6, <2>1, <2>3
            <3>2. PICK g \in Fitting : BelongsTo(z, g) /\ (SavesLoadedCode(z, g) \/ SavesRedirect(z, g))
                  BY <1>2, <3>1 DEF FixupsRestorable
            <3>3. BelongsTo(z, g)'
                  BY <3>1, <3>2 DEF BelongsTo
            <3>4. CASE SavesLoadedCode(z, g)
                  <4>1. SavesLoadedCode(z, g)'
                        BY <3>1, <3>4 DEF SavesLoadedCode
                  <4>2. QED BY <3>3, <4>1
            <3>5. CASE SavesRedirect(z, g)
                  <4>1. Under(z)' = Under(z)
                        BY <3>1 DEF Under
                  <4>2. Under(z) \in LiveFixups' /\ heap'[Under(z)] = heap[Under(z)]
                        BY <1>6, <3>5 DEF SavesRedirect
                  <4>3. SavesRedirect(z, g)'
                        BY <3>1, <3>5, <4>1, <4>2 DEF SavesRedirect, BelongsTo
                  <4>4. QED BY <3>3, <4>3
            <3>6. QED BY <3>2, <3>4, <3>5
      <2>4. QED BY <2>2, <2>3
<1>12. NoSharedFixup'
      <2>1. SUFFICES ASSUME NEW a \in LiveFixups', NEW b \in FixupIds, heap'[a].saved[0] = Branch("jmp", b)
                     PROVE  /\ \A g \in Functions : Hooked(g)' => text'[g].arg # b
                            /\ \A z \in LiveFixups' : heap'[z].saved[0] = Branch("jmp", b) => z = a
            BY DEF NoSharedFixup, Saves
      <2>2. CASE a = x
            <3>1. Hooked(f) /\ text[f].arg = b
                  BY <1>8, <1>9, <2>1, <2>2
            <3>2. b \in LiveFixups
                  BY <1>2, <3>1 DEF HeadUsesLiveFixup
            <3>3. ASSUME NEW g \in Functions, Hooked(g)', text'[g].arg = b PROVE FALSE
                  <4>1. g # f
                        BY <1>5, <1>6, <3>2, <3>3
                  <4>2. Hooked(g) /\ text[g].arg = b
                        BY <1>5, <3>3, <4>1
                  <4>3. QED BY <1>1, <1>2, <3>1, <4>1, <4>2, OneHeadPerFixup
            <3>4. ASSUME NEW z \in LiveFixups', heap'[z].saved[0] = Branch("jmp", b), z # a PROVE FALSE
                  <4>1. z \in LiveFixups /\ Saves(z, b)
                        BY <1>6, <2>2, <3>4 DEF Saves
                  <4>2. QED BY <1>2, <3>1, <4>1 DEF NoSharedFixup
            <3>5. QED BY <3>3, <3>4
      <2>3. CASE a # x
            <3>1. a \in LiveFixups /\ Saves(a, b)
                  BY <1>6, <2>1, <2>3 DEF Saves
            <3>2. b \in LiveFixups
                  BY <1>1, <1>2, <3>1, SavedFixupIsLive
            <3>3. /\ \A g \in Functions : Hooked(g) => text[g].arg # b
                  /\ \A z \in LiveFixups : Saves(z, b) => z = a
                  BY <1>2, <3>1 DEF NoSharedFixup
            <3>4. ASSUME NEW g \in Functions, Hooked(g)' PROVE text'[g].arg # b
                  BY <1>5, <1>6, <3>2, <3>3, <3>4
            <3>5. ASSUME NEW z \in LiveFixups', heap'[z].saved[0] = Branch("jmp", b) PROVE z = a
                  <4>1. CASE z = x
                        BY <1>8, <1>9, <3>3, <3>5, <4>1
                  <4>2. CASE z # x
                        BY <1>6, <3>3, <3>5, <4>2 DEF Saves
                  <4>3. QED BY <4>1, <4>2
            <3>6. QED BY <3>4, <3>5
      <2>4. QED BY <2>2, <2>3
<1>13. LeakedAreAllocated'
      <2>1. ASSUME NEW z \in leaked PROVE heap'[z] # Free
            <3>1. z # x /\ z \in FixupIds /\ heap[z] # Free
                  BY <1>1, <1>2, <1>6 DEF LeakedAreAllocated, TypeOK
            <3>2. heap'[z] = heap[z]
                  BY <1>1, <3>1 DEF TypeOK
            <3>3. QED BY <3>1, <3>2
      <2>2. QED BY <2>1 DEF LeakedAreAllocated
<1>14. QED BY <1>10, <1>11, <1>12, <1>13 DEF ChainInv

\* Removing a redirect takes its fixup off the top of the chain.
LEMMA RemoveKeepsChains ==
    ASSUME HookInv, fault = "none",
           NEW f \in Functions, Hooked(f),
           text' = Restored(text, f, text[f + BRANCH].arg, heap[text[f].arg].saved),
           heap' = [heap EXCEPT ![text[f].arg] = Free], leaked' = leaked
    PROVE  ChainInv'
<1> DEFINE x == text[f].arg
<1>1. TypeOK /\ HookedHeads /\ UnhookedIsOriginal /\ ChainInv
      BY DEF HookInv
<1>2. HeadUsesLiveFixup /\ FixupsRestorable /\ NoSharedFixup /\ LeakedAreAllocated
      BY <1>1 DEF ChainInv
<1>3. /\ Hooked(f)' => /\ SavesRedirect(x, f)
                       /\ text'[f].arg = Under(x)
                       /\ text'[f + BRANCH].arg = heap[Under(x)].size
      /\ \A g \in Functions \ {f} : /\ Hooked(g)' <=> Hooked(g)
                                    /\ Hooked(g) => /\ text'[g] = text[g]
                                                    /\ text'[g + BRANCH] = text[g + BRANCH]
      BY <1>1, RestoredHead
<1>4. /\ x \in LiveFixups /\ x \in FixupIds /\ x \notin leaked
      /\ LiveFixups' = LiveFixups \ {x}
      /\ \A z \in FixupIds : z # x => heap'[z] = heap[z]
      /\ \A z \in LiveFixups : z \in FixupIds
      <2>1. x \in LiveFixups
            BY <1>2 DEF HeadUsesLiveFixup
      <2>2. x \in FixupIds /\ x \notin leaked
            BY <2>1 DEF LiveFixups
      <2>3. heap'[x] = Free /\ \A z \in FixupIds : z # x => heap'[z] = heap[z]
            BY <1>1, <2>2 DEF TypeOK
      <2>4. QED BY <2>1, <2>2, <2>3 DEF LiveFixups
<1>5. ASSUME NEW z \in LiveFixups, NEW g \in Fitting, SavesRedirect(z, g)
      PROVE  Under(z) # x /\ Under(z) \in LiveFixups /\ Saves(z, Under(z))
      <2>1. Under(z) \in LiveFixups /\ Saves(z, Under(z))
            BY <1>5 DEF SavesRedirect, Saves, IsHookAt
      <2>2. Under(z) \in FixupIds
            BY <2>1, <1>4
      <2>3. QED BY <1>2, <2>1, <2>2 DEF NoSharedFixup
<1>6. HeadUsesLiveFixup'
      <2>1. SUFFICES ASSUME NEW g \in Functions, Hooked(g)'
                     PROVE  /\ text'[g].arg \in LiveFixups'
                            /\ heap'[text'[g].arg].resume = g + heap'[text'[g].arg].size
                            /\ heap'[text'[g].arg].size = text'[g + BRANCH].arg
            BY DEF HeadUsesLiveFixup, BelongsTo
      <2>2. CASE g = f
            <3>1. /\ SavesRedirect(x, f) /\ text'[f].arg = Under(x)
                  /\ text'[f + BRANCH].arg = heap[Under(x)].size
                  BY <1>3, <2>1, <2>2
            <3>2. Under(x) # x /\ Under(x) \in LiveFixups
                  BY <1>1, <1>4, <1>5, <3>1 DEF HookedHeads
            <3>3. heap'[Under(x)] = heap[Under(x)] /\ Under(x) \in LiveFixups'
                  BY <1>4, <3>2
            <3>4. QED BY <2>2, <3>1, <3>3 DEF SavesRedirect, BelongsTo
      <2>3. CASE g # f
            <3>1. Hooked(g) /\ text'[g] = text[g] /\ text'[g + BRANCH] = text[g + BRANCH]
                  BY <1>3, <2>1, <2>3
            <3>2. /\ text[g].arg \in LiveFixups /\ BelongsTo(text[g].arg, g)
                  /\ heap[text[g].arg].size = text[g + BRANCH].arg
                  BY <1>2, <3>1 DEF HeadUsesLiveFixup
            <3>3. text[g].arg # x
                  BY <1>1, <1>2, <2>3, <3>1, OneHeadPerFixup
            <3>4. QED BY <1>4, <3>1, <3>2, <3>3 DEF BelongsTo
      <2>4. QED BY <2>2, <2>3
<1>7. FixupsRestorable'
      <2>1. SUFFICES ASSUME NEW z \in LiveFixups'
                     PROVE  \E g \in Fitting : /\ BelongsTo(z, g)'
                                               /\ SavesLoadedCode(z, g)' \/ SavesRedirect(z, g)'
            BY DEF FixupsRestorable
      <2>2. z \in LiveFixups /\ heap'[z] = heap[z]
            BY <1>4, <2>1
      <2>3. PICK g \in Fitting : BelongsTo(z, g) /\ (SavesLoadedCode(z, g) \/ SavesRedirect(z, g))
            BY <1>2, <2>2 DEF FixupsRestorable
      <2>4. BelongsTo(z, g)'
            BY <2>2, <2>3 DEF BelongsTo
      <2>5. CASE SavesLoadedCode(z, g)
            <3>1. SavesLoadedCode(z, g)'
                  BY <2>2, <2>5 DEF SavesLoadedCode
            <3>2. QED BY <2>4, <3>1
      <2>6. CASE SavesRedirect(z, g)
            <3>1. Under(z)' = Under(z)
                  BY <2>2 DEF Under
            <3>2. Under(z) \in LiveFixups' /\ heap'[Under(z)] = heap[Under(z)]
                  BY <1>4, <1>5, <2>2, <2>6
            <3>3. SavesRedirect(z, g)'
                  BY <2>2, <2>6, <3>1, <3>2 DEF SavesRedirect, BelongsTo
            <3>4. QED BY <2>4, <3>3
      <2>7. QED BY <2>3, <2>5, <2>6
<1>8. NoSharedFixup'
      <2>1. SUFFICES ASSUME NEW a \in LiveFixups', NEW b \in FixupIds, heap'[a].saved[0] = Branch("jmp", b)
                     PROVE  /\ \A g \in Functions : Hooked(g)' => text'[g].arg # b
                            /\ \A z \in LiveFixups' : heap'[z].saved[0] = Branch("jmp", b) => z = a
            BY DEF NoSharedFixup, Saves
      <2>2. a \in LiveFixups /\ a # x /\ Saves(a, b)
            BY <1>4, <2>1 DEF Saves
      <2>3. /\ \A g \in Functions : Hooked(g) => text[g].arg # b
            /\ \A z \in LiveFixups : Saves(z, b) => z = a
            BY <1>2, <2>2 DEF NoSharedFixup
      <2>4. ASSUME NEW g \in Functions, Hooked(g)' PROVE text'[g].arg # b
            <3>1. CASE g # f
                  BY <1>3, <2>3, <2>4, <3>1
            <3>2. CASE g = f
                  <4>1. SavesRedirect(x, f) /\ text'[f].arg = Under(x)
                        BY <1>3, <2>4, <3>2
                  <4>2. Saves(x, Under(x))
                        BY <1>1, <1>4, <1>5, <4>1 DEF HookedHeads
                  <4>3. QED BY <1>4, <2>2, <2>3, <3>2, <4>1, <4>2
            <3>3. QED BY <3>1, <3>2
      <2>5. ASSUME NEW z \in LiveFixups', heap'[z].saved[0] = Branch("jmp", b) PROVE z = a
            BY <1>4, <2>3, <2>5 DEF Saves
      <2>6. QED BY <2>4, <2>5
<1>9. LeakedAreAllocated'
      <2>1. ASSUME NEW z \in leaked PROVE heap'[z] # Free
            BY <1>1, <1>2, <1>4 DEF LeakedAreAllocated, TypeOK
      <2>2. QED BY <2>1 DEF LeakedAreAllocated
<1>10. QED BY <1>6, <1>7, <1>8, <1>9 DEF ChainInv

-----------------------------------------------------------------------------
(* Changing a call leaves every redirect as it is.                         *)

LEMMA RedirectCallKeepsHeads ==
    ASSUME TypeOK, HookedHeads, UnhookedIsOriginal,
           NEW c \in Text, text[c].op = "call", SameInsn(text'[c], text[c]),
           \A a \in Text : a # c => text'[a] = text[a]
    PROVE  /\ HookedHeads' /\ UnhookedIsOriginal'
           /\ \A f \in Functions : /\ Hooked(f)' <=> Hooked(f)
                                   /\ Hooked(f) => /\ text'[f].arg = text[f].arg
                                                   /\ text'[f + BRANCH].arg = text[f + BRANCH].arg
<1> USE DEF MinSpan, BRANCH, ENCODEDSIZE, MAX_REDIRECT_LENGTH
<1>1. \A a \in Text : a # c => text'[a] = text[a]
      OBVIOUS
<1>2. text'[c].op = "call" /\ text'[c].len = text[c].len
      BY DEF SameInsn
<1>3. ASSUME NEW f \in Functions PROVE Hooked(f)' <=> Hooked(f)
      <2>1. f \in Text
            BY LayoutAssumption
      <2>2. QED BY <1>1, <1>2, <2>1 DEF Hooked, LooksHooked
<1>4. ASSUME NEW f \in Functions, Hooked(f)
      PROVE  /\ text'[f] = text[f]
             /\ \A i \in 1 .. HeadLen[f] - 1 : text'[f + i] = text[f + i]
             /\ HeadLen[f] \in 9 .. 24
      <2>1. f \in Fitting /\ IsHookAt(text, f, text[f].arg, text[f + 5].arg)
            BY <1>4 DEF HookedHeads
      <2>2. HeadLen[f] \in 9 .. 24 /\ f \in Nat /\ f \in Text /\ f + HeadLen[f] <= TextLen
            BY <2>1, HeadFacts, LayoutAssumption
      <2>3. ASSUME NEW i \in 1 .. HeadLen[f] - 1 PROVE text'[f + i] = text[f + i]
            <3>1. f + i \in Text
                  BY <2>2, LayoutAssumption DEF Text
            <3>2. CASE i = 5
                  BY <1>1, <2>1, <3>1, <3>2 DEF IsHookAt, SavedSize
            <3>3. CASE i \in (1 .. 8) \ {5}
                  BY <1>1, <2>1, <3>1, <3>3 DEF IsHookAt, Inside
            <3>4. CASE i \in 9 .. HeadLen[f] - 1
                  <4>1. text[f + i] = Nop
                        BY <1>4, <3>4 DEF HookedHeads
                  <4>2. QED BY <1>1, <3>1, <4>1 DEF Nop
            <3>5. QED BY <2>2, <3>2, <3>3, <3>4
      <2>4. text'[f] = text[f]
            BY <1>1, <2>1, <2>2 DEF IsHookAt, Branch
      <2>5. QED BY <2>2, <2>3, <2>4
<1>5. ASSUME NEW f \in Functions, Hooked(f)
      PROVE  \A i \in 1 .. 8 : text'[f + i] = text[f + i]
      <2>1. 1 .. 8 \subseteq 1 .. HeadLen[f] - 1
            BY <1>4, <1>5
      <2>2. QED BY <1>4, <1>5, <2>1
<1>6. HookedHeads'
      <2>1. SUFFICES ASSUME NEW g \in Functions, Hooked(g)'
                     PROVE  /\ g \in Fitting
                            /\ text'[g].arg \in FixupIds
                            /\ IsHookAt(text', g, text'[g].arg, text'[g + 5].arg)
                            /\ \A i \in 9 .. HeadLen[g] - 1 : text'[g + i] = Nop
            BY DEF HookedHeads
      <2>2. Hooked(g)
            BY <1>3, <2>1
      <2>3. /\ g \in Fitting /\ text[g].arg \in FixupIds
            /\ IsHookAt(text, g, text[g].arg, text[g + 5].arg)
            /\ \A i \in 9 .. HeadLen[g] - 1 : text[g + i] = Nop
            BY <2>2 DEF HookedHeads
      <2>4. text'[g] = text[g] /\ \A i \in 1 .. 8 : text'[g + i] = text[g + i]
            BY <1>4, <1>5, <2>2
      <2>5. IsHookAt(text', g, text'[g].arg, text'[g + 5].arg)
            BY <2>3, <2>4 DEF IsHookAt
      <2>6. \A i \in 9 .. HeadLen[g] - 1 : text'[g + i] = Nop
            BY <1>4, <2>2, <2>3
      <2>7. QED BY <2>3, <2>4, <2>5, <2>6
<1>7. UnhookedIsOriginal'
      <2>1. SUFFICES ASSUME NEW a \in Text, \A g \in Fitting : Hooked(g)' => ~InHead(a, g)
                     PROVE  SameInsn(text'[a], Original[a])
            BY DEF Fitting, UnhookedIsOriginal, InHead
      <2>2. SameInsn(text[a], Original[a])
            BY <1>3, <2>1 DEF Fitting, UnhookedIsOriginal
      <2>3. QED BY <1>1, <1>2, <2>2 DEF SameInsn
<1>8. ASSUME NEW f \in Functions, Hooked(f)
      PROVE  text'[f].arg = text[f].arg /\ text'[f + 5].arg = text[f + 5].arg
      BY <1>4, <1>5, <1>8
<1>9. QED BY <1>3, <1>6, <1>7, <1>8
-----------------------------------------------------------------------------
(* The invariant is inductive.                                             *)

LEMMA InitHookInv == Init => HookInv
<1> SUFFICES ASSUME Init PROVE HookInv
    OBVIOUS
<1>1. TypeOK
      BY OriginalAssumption, LayoutAssumption DEF Init, TypeOK
<1>2. \A f \in Functions : ~Hooked(f)
      BY OriginalAssumption DEF Init, Hooked, LooksHooked
<1>3. HookedHeads
      BY <1>2 DEF HookedHeads
<1>4. UnhookedIsOriginal
      BY DEF Init, UnhookedIsOriginal, SameInsn
<1>5. LiveFixups = {}
      BY DEF Init, LiveFixups
<1>6. ChainInv
      BY <1>2, <1>5 DEF Init, ChainInv, HeadUsesLiveFixup, FixupsRestorable, NoSharedFixup,
                        LeakedAreAllocated
<1>7. QED BY <1>1, <1>3, <1>4, <1>6 DEF Init, HookInv, NoUseAfterFree

\* The records calloc returns are fixups.
LEMMA NewFixupType ==
    ASSUME TypeOK, NEW f \in Nat, NEW redirect \in Targets, NEW flags,
           NEW n \in 0 .. MAX_REDIRECT_LENGTH, \A i \in 0 .. n - 1 : f + i \in Text
    PROVE  NewFixup(f, redirect, flags, n) \in Fixup /\ EmptyFixup(redirect, flags) \in Fixup
<1>1. Inside \in Cell
      BY DEF Inside, Cell, Ops, Args, MAX_REDIRECT_LENGTH
<1>2. FixupOp(flags) \in {"call", "jmp"}
      BY DEF FixupOp
<1>3. Saved(text, f, n) \in [Window -> Cell]
      <2>1. ASSUME NEW i \in Window PROVE (IF i < n THEN text[f + i] ELSE Inside) \in Cell
            BY <1>1 DEF TypeOK, Window, MAX_REDIRECT_LENGTH
      <2>2. QED BY <2>1 DEF Saved
<1>4. QED BY <1>1, <1>2, <1>3 DEF NewFixup, EmptyFixup, Fixup, MAX_REDIRECT_LENGTH

\* mprotect is asked for a page that exists.
LEMMA EnableType == ASSUME TypeOK, NEW x \in FixupIds PROVE Enable(x) \in SUBSET Nat
<1>1. Page(Address[x]) \in Nat
      BY HeapAssumption, LayoutAssumption DEF Page
<1>2. QED BY <1>1 DEF Enable, TypeOK

\* A failed insertion only adds a leaked block.
LEMMA LeakKeepsInv ==
    ASSUME HookInv, fault = "none", NEW x \in FixupIds, heap[x] = Free,
           NEW block \in Fixup, heap' = [heap EXCEPT ![x] = block],
           leaked' = leaked \cup {x}, UNCHANGED <<text, writable, fault>>,
           executable' \in SUBSET Nat
    PROVE  HookInv'
<1>1. TypeOK /\ HookedHeads /\ UnhookedIsOriginal /\ ChainInv /\ NoUseAfterFree
      BY DEF HookInv
<1>2. HeadUsesLiveFixup /\ FixupsRestorable /\ NoSharedFixup /\ LeakedAreAllocated
      BY <1>1 DEF ChainInv
<1>3. TypeOK'
      BY <1>1 DEF TypeOK
<1>4. HookedHeads' /\ UnhookedIsOriginal' /\ NoUseAfterFree'
      BY <1>1 DEF HookedHeads, UnhookedIsOriginal, NoUseAfterFree, Hooked, IsHookAt
<1>5. \A z \in FixupIds : z # x => heap'[z] = heap[z]
      BY <1>1 DEF TypeOK
<1>6. LiveFixups' = LiveFixups /\ \A z \in LiveFixups : heap'[z] = heap[z]
      BY <1>5 DEF LiveFixups
<1>7. \A f \in Functions : Hooked(f)' <=> Hooked(f)
      BY DEF Hooked
<1>8. HeadUsesLiveFixup' /\ FixupsRestorable' /\ NoSharedFixup'
      BY <1>2, <1>6, <1>7, ChainFrame
<1>9. LeakedAreAllocated'
      <2>1. block # Free
            BY DEF Fixup, Free
      <2>2. ASSUME NEW z \in leaked' PROVE heap'[z] # Free
            <3>1. CASE z = x
                  BY <1>1, <2>1, <3>1 DEF TypeOK
            <3>2. CASE z # x
                  BY <1>1, <1>2, <1>5, <2>2, <3>2 DEF TypeOK, LeakedAreAllocated
            <3>3. QED BY <3>1, <3>2
      <2>3. QED BY <2>2 DEF LeakedAreAllocated
<1>10. QED BY <1>3, <1>4, <1>8, <1>9 DEF HookInv, ChainInv

LEMMA NextHookInv == HookInv /\ [Next]_vars => HookInv'
<1> SUFFICES ASSUME HookInv, [Next]_vars PROVE HookInv'
    OBVIOUS
<1> USE DEF MinSpan, BRANCH, ENCODEDSIZE, MAX_REDIRECT_LENGTH
<1>1. TypeOK /\ HookedHeads /\ UnhookedIsOriginal /\ ChainInv /\ NoUseAfterFree
      BY DEF HookInv
<1>2. ASSUME NEW f \in Functions, NEW flags \in FlagChoices, NEW x \in FixupIds,
             NEW n \in MinSpan .. MAX_REDIRECT_LENGTH, Ready(f, flags, n, x)
      PROVE  /\ f \in Nat /\ n \in 0 .. MAX_REDIRECT_LENGTH
             /\ \A i \in 0 .. n - 1 : f + i \in Text
             /\ f \in Fitting /\ n = IF Hooked(f) THEN MinSpan ELSE HeadLen[f]
             /\ fault = "none" /\ heap[x] = Free
      <2>1. f \in Fitting /\ n = IF Hooked(f) THEN MinSpan ELSE HeadLen[f]
            BY <1>1, <1>2, SpanIsHead
      <2>2. HeadLen[f] \in 9 .. 24 /\ f \in Nat /\ f + HeadLen[f] <= TextLen
            BY <2>1, HeadFacts
      <2>3. ASSUME NEW i \in 0 .. n - 1 PROVE f + i \in Text
            BY <2>1, <2>2, LayoutAssumption DEF Text
      <2>4. QED BY <1>2, <2>1, <2>2, <2>3 DEF Ready, Accepted
<1>3. ASSUME NEW f \in Functions, NEW r \in Callbacks, NEW flags \in FlagChoices,
             InsertFailsOnFixup(f, r, flags)
      PROVE  HookInv'
      <2>1. PICK x \in FixupIds, n \in MinSpan .. MAX_REDIRECT_LENGTH :
               /\ Ready(f, flags, n, x)
               /\ heap' = [heap EXCEPT ![x] = EmptyFixup(r, flags)]
               /\ leaked' = leaked \cup {x}
               /\ UNCHANGED <<text, writable, executable, fault>>
            BY <1>3 DEF InsertFailsOnFixup
      <2>2. EmptyFixup(r, flags) \in Fixup /\ fault = "none" /\ heap[x] = Free
            BY <1>1, <1>2, <2>1, NewFixupType, LayoutAssumption
      <2>3. QED BY <1>1, <2>1, <2>2, LeakKeepsInv DEF TypeOK
<1>4. ASSUME NEW f \in Functions, NEW r \in Callbacks, NEW flags \in FlagChoices,
             InsertFailsOnCallsite(f, r, flags)
      PROVE  HookInv'
      <2>1. PICK x \in FixupIds, n \in MinSpan .. MAX_REDIRECT_LENGTH :
               /\ Ready(f, flags, n, x)
               /\ heap' = [heap EXCEPT ![x] = NewFixup(f, r, flags, n)]
               /\ leaked' = leaked \cup {x}
               /\ executable' = Enable(x)
               /\ UNCHANGED <<text, writable, fault>>
            BY <1>4 DEF InsertFailsOnCallsite
      <2>2. NewFixup(f, r, flags, n) \in Fixup /\ fault = "none" /\ heap[x] = Free
            BY <1>1, <1>2, <2>1, NewFixupType, LayoutAssumption
      <2>3. QED BY <1>1, <2>1, <2>2, EnableType, LeakKeepsInv
<1>5. ASSUME NEW f \in Functions, NEW r \in Callbacks, NEW flags \in FlagChoices,
             Insert(f, r, flags)
      PROVE  HookInv'
      <2>1. PICK x \in FixupIds, n \in MinSpan .. MAX_REDIRECT_LENGTH :
               /\ Ready(f, flags, n, x)
               /\ heap' = [heap EXCEPT ![x] = NewFixup(f, r, flags, n)]
               /\ executable' = Enable(x)
               /\ writable' = Unlock(f)
               /\ \/ text' = Patched(text, f, n, x) /\ UNCHANGED fault
                  \/ fault' = "write" /\ UNCHANGED text
               /\ UNCHANGED leaked
            BY <1>5 DEF Insert
      <2>2. /\ NewFixup(f, r, flags, n) \in Fixup /\ fault = "none" /\ heap[x] = Free
            /\ f \in Fitting /\ n = IF Hooked(f) THEN MinSpan ELSE HeadLen[f]
            /\ r \in Targets
            BY <1>1, <1>2, <2>1, NewFixupType, LayoutAssumption
      <2>3. heap' \in [FixupIds -> Fixup \cup {Free}] /\ leaked' \in SUBSET FixupIds
            BY <1>1, <2>1, <2>2 DEF TypeOK
      <2>4. Page(f) \in Nat
            BY <1>2, <2>1, LayoutAssumption DEF Page
      <2>5. writable' \in SUBSET Nat /\ executable' \in SUBSET Nat
            BY <1>1, <2>1, <2>4, EnableType DEF TypeOK, Unlock
      <2>6. CASE text' = Patched(text, f, n, x) /\ UNCHANGED fault
            <3>1. HookedHeads' /\ UnhookedIsOriginal' /\ text' \in [Text -> Cell]
                  BY <1>1, <2>2, <2>6, PatchedHead
            <3>2. ChainInv'
                  BY <2>1, <2>2, <2>6, InsertKeepsChains
            <3>3. TypeOK' /\ NoUseAfterFree'
                  BY <1>1, <2>3, <2>5, <2>6, <3>1 DEF TypeOK, NoUseAfterFree
            <3>4. QED BY <3>1, <3>2, <3>3 DEF HookInv
      <2>7. CASE fault' = "write" /\ UNCHANGED text
            <3>1. HookedHeads' /\ UnhookedIsOriginal'
                  BY <1>1, <2>7 DEF HookedHeads, UnhookedIsOriginal, Hooked, IsHookAt
            <3>2. TypeOK' /\ NoUseAfterFree' /\ ChainInv'
                  BY <1>1, <2>3, <2>5, <2>7 DEF TypeOK, NoUseAfterFree, ChainInv
            <3>3. QED BY <3>1, <3>2 DEF HookInv
      <2>8. QED BY <2>1, <2>6, <2>7
<1>6. ASSUME NEW f \in Functions, Remove(f) PROVE HookInv'
      <2>1. fault = "none" /\ Hooked(f) /\ UNCHANGED <<leaked, writable, executable>>
            BY <1>6 DEF Remove, Hooked
      <2>2. text[f].arg \in LiveFixups
            BY <1>1, <2>1 DEF ChainInv, HeadUsesLiveFixup
      <2>3. heap[text[f].arg] # Free /\ text[f].arg \in FixupIds
            BY <2>2 DEF LiveFixups
      <2>4. CASE fault' = "write" /\ UNCHANGED <<text, heap>>
            <3>1. HookedHeads' /\ UnhookedIsOriginal'
                  BY <1>1, <2>4 DEF HookedHeads, UnhookedIsOriginal, Hooked, IsHookAt
            <3>2. TypeOK' /\ NoUseAfterFree' /\ ChainInv'
                  BY <1>1, <2>1, <2>4 DEF TypeOK, NoUseAfterFree, ChainInv
            <3>3. QED BY <3>1, <3>2 DEF HookInv
      <2>5. CASE /\ text' = Restored(text, f, text[f + BRANCH].arg, heap[text[f].arg].saved)
                 /\ heap' = [heap EXCEPT ![text[f].arg] = Free]
                 /\ UNCHANGED fault
            <3>1. HookedHeads' /\ UnhookedIsOriginal' /\ text' \in [Text -> Cell]
                  BY <1>1, <2>1, <2>5, RestoredHead
            <3>2. ChainInv'
                  BY <2>1, <2>5, RemoveKeepsChains
            <3>3. TypeOK' /\ NoUseAfterFree'
                  BY <1>1, <2>1, <2>5, <3>1 DEF TypeOK, NoUseAfterFree
            <3>4. QED BY <3>1, <3>2, <3>3 DEF HookInv
      <2>6. QED BY <1>6, <2>3, <2>4, <2>5 DEF Remove
<1>7. ASSUME NEW f \in Functions, NEW target \in Callbacks, NEW r \in Callbacks,
             RedirectCall(f, target, r)
      PROVE  HookInv'
      <2>1. PICK c \in Text :
               /\ text[c].op = "call"
               /\ \/ text' = [text EXCEPT ![c].arg = r] /\ UNCHANGED fault
                  \/ fault' = "call" /\ UNCHANGED text
            BY <1>7 DEF RedirectCall, IsFirstCall
      <2>2. fault = "none" /\ UNCHANGED <<heap, leaked, writable, executable>>
            BY <1>7 DEF RedirectCall
      <2>3. CASE text' = [text EXCEPT ![c].arg = r] /\ UNCHANGED fault
            <3>1. /\ \A a \in Text : a # c => text'[a] = text[a]
                  /\ text'[c] = [text[c] EXCEPT !.arg = r]
                  /\ text[c] \in Cell /\ r \in Args
                  BY <1>1, <2>3, LayoutAssumption DEF TypeOK, Targets, Args
            <3>2. text'[c] \in Cell /\ SameInsn(text'[c], text[c])
                  BY <2>1, <3>1 DEF Cell, SameInsn
            <3>3. text' \in [Text -> Cell]
                  BY <1>1, <2>3, <3>2 DEF TypeOK
            <3>4. /\ HookedHeads' /\ UnhookedIsOriginal'
                  /\ \A g \in Functions : /\ Hooked(g)' <=> Hooked(g)
                                          /\ Hooked(g) => /\ text'[g].arg = text[g].arg
                                                          /\ text'[g + BRANCH].arg = text[g + BRANCH].arg
                  BY <1>1, <2>1, <3>1, <3>2, RedirectCallKeepsHeads
            <3>5. LiveFixups' = LiveFixups
                  BY <2>2 DEF LiveFixups
            <3>6. HeadUsesLiveFixup /\ FixupsRestorable /\ NoSharedFixup /\ LeakedAreAllocated
                  BY <1>1, <2>2 DEF ChainInv
            <3>7. HeadUsesLiveFixup' /\ FixupsRestorable' /\ NoSharedFixup'
                  BY <2>2, <3>4, <3>5, <3>6, ChainFrame
            <3>8. LeakedAreAllocated'
                  BY <2>2, <3>6 DEF LeakedAreAllocated
            <3>9. TypeOK' /\ NoUseAfterFree'
                  BY <1>1, <2>2, <2>3, <3>3 DEF TypeOK, NoUseAfterFree
            <3>10. QED BY <3>4, <3>7, <3>8, <3>9 DEF HookInv, ChainInv
      <2>4. CASE fault' = "call" /\ UNCHANGED text
            <3>1. HookedHeads' /\ UnhookedIsOriginal'
                  BY <1>1, <2>4 DEF HookedHeads, UnhookedIsOriginal, Hooked, IsHookAt
            <3>2. TypeOK' /\ NoUseAfterFree' /\ ChainInv'
                  BY <1>1, <2>2, <2>4 DEF TypeOK, NoUseAfterFree, ChainInv
            <3>3. QED BY <3>1, <3>2 DEF HookInv
      <2>5. QED BY <2>1, <2>3, <2>4
<1>8. CASE UNCHANGED vars
      <2>1. HookedHeads' /\ UnhookedIsOriginal'
            BY <1>1, <1>8 DEF vars, HookedHeads, UnhookedIsOriginal, Hooked, IsHookAt
      <2>2. TypeOK' /\ NoUseAfterFree'
            BY <1>1, <1>8 DEF vars, TypeOK, NoUseAfterFree
      <2>3. ASSUME fault = "none"
            PROVE  HeadUsesLiveFixup' /\ FixupsRestorable' /\ NoSharedFixup' /\ LeakedAreAllocated'
            <3>1. /\ LiveFixups' = LiveFixups /\ heap' = heap /\ text' = text /\ leaked' = leaked
                  /\ \A f \in Functions : Hooked(f)' <=> Hooked(f)
                  BY <1>8 DEF vars, LiveFixups, Hooked
            <3>2. HeadUsesLiveFixup /\ FixupsRestorable /\ NoSharedFixup /\ LeakedAreAllocated
                  BY <1>1, <2>3 DEF ChainInv
            <3>3. QED BY <3>1, <3>2, ChainFrame DEF LeakedAreAllocated
      <2>4. QED BY <1>8, <2>1, <2>2, <2>3 DEF vars, HookInv, ChainInv
<1>9. ASSUME NEW f \in Functions, NEW flags \in FlagChoices, InsertWithoutMemory(f, flags)
      PROVE  HookInv'
      <2>1. fault' = "null" /\ UNCHANGED <<text, heap, leaked, writable, executable>>
            BY <1>9 DEF InsertWithoutMemory
      <2>2. HookedHeads' /\ UnhookedIsOriginal'
            BY <1>1, <2>1 DEF HookedHeads, UnhookedIsOriginal, Hooked, IsHookAt
      <2>3. TypeOK' /\ NoUseAfterFree' /\ ChainInv'
            BY <1>1, <2>1 DEF TypeOK, NoUseAfterFree, ChainInv
      <2>4. QED BY <2>2, <2>3 DEF HookInv
<1>10. QED BY <1>3, <1>4, <1>5, <1>6, <1>7, <1>8, <1>9 DEF Next, Dead

-----------------------------------------------------------------------------
(* The theorems.                                                           *)

\* Every state of the redirect engine satisfies the inductive invariant: each
\* redirected head is a jump to a live fixup of its own, and following the
\* saved images one reaches the loaded code of that function.
THEOREM HookInvariant == Spec => []HookInv
<1>1. Init => HookInv
      BY InitHookInv
<1>2. HookInv /\ [Next]_vars => HookInv'
      BY NextHookInv
<1>3. QED BY <1>1, <1>2, PTL DEF Spec

\* The variables keep their types; in particular insert_function_redirect
\* never saves or overwrites a byte outside the code segment.
THEOREM HookTypes == Spec => []TypeOK
<1>1. HookInv => TypeOK
      BY DEF HookInv
<1>2. QED BY <1>1, HookInvariant, PTL

\* Whatever is redirected, stacked and removed, in whatever order: code that
\* is not in the head of a redirected function is the loaded code, up to the
\* targets of redirected calls.
THEOREM HeadsRestored == Spec => []UnhookedIsOriginal
<1>1. HookInv => UnhookedIsOriginal
      BY DEF HookInv
<1>2. QED BY <1>1, HookInvariant, PTL

\* remove_function_redirect never restores from, or frees, a fixup that has
\* been freed.
THEOREM FixupsFreedOnce == Spec => []NoUseAfterFree
<1>1. HookInv => NoUseAfterFree
      BY DEF HookInv
<1>2. QED BY <1>1, HookInvariant, PTL

-----------------------------------------------------------------------------
(* Stores to pages that mprotect has unlocked.                             *)

\* No head crosses the end of a page, so that the one page
\* insert_function_redirect asks mprotect for is all that it writes to.
HeadsInPage == \A f \in Fitting : Pages(f, HeadLen[f]) \subseteq {Page(f)}

HookedAreUnlocked == \A f \in Functions : Hooked(f) => Page(f) \in writable

WriteInv == HookInv /\ HookedAreUnlocked /\ PatchNeverFaults

LEMMA SpanInPage ==
    ASSUME HeadsInPage, NEW f \in Fitting, NEW n \in Nat, n <= HeadLen[f]
    PROVE  Pages(f, n) \subseteq {Page(f)}
<1>1. f \in Nat /\ HeadLen[f] \in Nat
      BY HeadFacts DEF MinSpan, BRANCH, ENCODEDSIZE, MAX_REDIRECT_LENGTH
<1>2. f .. f + n - 1 \subseteq f .. f + HeadLen[f] - 1
      BY <1>1
<1>3. Pages(f, n) \subseteq Pages(f, HeadLen[f])
      BY <1>2 DEF Pages
<1>4. QED BY <1>3 DEF HeadsInPage

LEMMA NextWriteInv == HeadsInPage /\ WriteInv /\ [Next]_vars => WriteInv'
<1> SUFFICES ASSUME HeadsInPage, WriteInv, [Next]_vars PROVE WriteInv'
    OBVIOUS
<1> USE DEF MinSpan, BRANCH, ENCODEDSIZE, MAX_REDIRECT_LENGTH
<1>1. /\ HookInv /\ HookInv' /\ TypeOK /\ HookedHeads /\ UnhookedIsOriginal /\ ChainInv
      /\ HookedAreUnlocked /\ PatchNeverFaults
      BY NextHookInv DEF WriteInv, HookInv
<1>2. ASSUME text' = text, writable \subseteq writable' PROVE HookedAreUnlocked'
      BY <1>1, <1>2 DEF HookedAreUnlocked, Hooked
<1>3. ASSUME NEW f \in Functions, NEW r \in Callbacks, NEW flags \in FlagChoices,
             InsertFailsOnFixup(f, r, flags) \/ InsertFailsOnCallsite(f, r, flags)
      PROVE  HookedAreUnlocked' /\ PatchNeverFaults'
      <2>1. UNCHANGED <<text, writable, fault>>
            BY <1>3 DEF InsertFailsOnFixup, InsertFailsOnCallsite
      <2>2. QED BY <1>1, <1>2, <2>1 DEF PatchNeverFaults
<1>4. ASSUME NEW f \in Functions, NEW r \in Callbacks, NEW flags \in FlagChoices,
             Insert(f, r, flags)
      PROVE  HookedAreUnlocked' /\ PatchNeverFaults'
      <2>1. PICK x \in FixupIds, n \in MinSpan .. MAX_REDIRECT_LENGTH :
               /\ Ready(f, flags, n, x)
               /\ writable' = Unlock(f)
               /\ \/ /\ Pages(f, n) \subseteq writable'
                     /\ text' = Patched(text, f, n, x)
                     /\ UNCHANGED fault
                  \/ /\ ~(Pages(f, n) \subseteq writable')
                     /\ fault' = "write"
                     /\ UNCHANGED text
            BY <1>4 DEF Insert
      <2>2. f \in Fitting /\ n = IF Hooked(f) THEN MinSpan ELSE HeadLen[f]
            BY <1>1, <2>1, SpanIsHead
      <2>3. n \in Nat /\ n <= HeadLen[f]
            BY <2>2, HeadFacts
      <2>4. Pages(f, n) \subseteq writable'
            BY <2>1, <2>2, <2>3, SpanInPage DEF Unlock
      <2>5. text' = Patched(text, f, n, x) /\ fault' = fault
            BY <2>1, <2>4
      <2>6. \A g \in Functions \ {f} : Hooked(g)' <=> Hooked(g)
            BY <1>1, <2>2, <2>5, PatchedHead
      <2>7. Page(f) \in writable' /\ writable \subseteq writable'
            BY <2>1 DEF Unlock
      <2>8. HookedAreUnlocked'
            BY <1>1, <2>6, <2>7 DEF HookedAreUnlocked
      <2>9. QED BY <1>1, <2>5, <2>8 DEF PatchNeverFaults
<1>5. ASSUME NEW f \in Functions, Remove(f)
      PROVE  HookedAreUnlocked' /\ PatchNeverFaults'
      <2> DEFINE x == text[f].arg
                 n == text[f + BRANCH].arg
      <2>1. fault = "none" /\ Hooked(f) /\ writable' = writable
            BY <1>5 DEF Remove, Hooked
      <2>2. /\ f \in Fitting /\ heap[x].size = n
            /\ SavesLoadedCode(x, f) \/ SavesRedirect(x, f)
            BY <1>1, <2>1, TopFixup
      <2>3. n \in Nat /\ n <= HeadLen[f]
            BY <2>2, HeadFacts DEF SavesLoadedCode, SavesRedirect
      <2>4. Pages(f, n) \subseteq writable
            BY <1>1, <2>1, <2>2, <2>3, SpanInPage DEF HookedAreUnlocked
      <2>5. fault' # "write"
            BY <1>5, <2>1, <2>4 DEF Remove
      <2>6. CASE text' = text
            BY <1>2, <2>1, <2>5, <2>6 DEF PatchNeverFaults
      <2>7. CASE text' = Restored(text, f, n, heap[x].saved)
            <3>1. \A g \in Functions \ {f} : Hooked(g)' <=> Hooked(g)
                  BY <1>1, <2>1, <2>7, RestoredHead
            <3>2. HookedAreUnlocked'
                  BY <1>1, <2>1, <3>1 DEF HookedAreUnlocked
            <3>3. QED BY <2>5, <3>2 DEF PatchNeverFaults
      <2>8. QED BY <1>5, <2>6, <2>7 DEF Remove
<1>6. ASSUME NEW f \in Functions, NEW target \in Callbacks, NEW r \in Callbacks,
             RedirectCall(f, target, r)
      PROVE  HookedAreUnlocked' /\ PatchNeverFaults'
      <2>1. PICK c \in Text :
               /\ text[c].op = "call"
               /\ \/ text' = [text EXCEPT ![c].arg = r] /\ UNCHANGED fault
                  \/ fault' = "call" /\ UNCHANGED text
            BY <1>6 DEF RedirectCall, IsFirstCall
      <2>2. writable' = writable /\ fault = "none"
            BY <1>6 DEF RedirectCall
      <2>3. CASE text' = [text EXCEPT ![c].arg = r] /\ UNCHANGED fault
            <3>1. SameInsn(text'[c], text[c]) /\ \A a \in Text : a # c => text'[a] = text[a]
                  BY <1>1, <2>1, <2>3 DEF TypeOK, Cell, SameInsn
            <3>2. \A g \in Functions : Hooked(g)' <=> Hooked(g)
                  BY <1>1, <2>1, <3>1, RedirectCallKeepsHeads
            <3>3. QED BY <1>1, <2>2, <2>3, <3>2 DEF HookedAreUnlocked, PatchNeverFaults
      <2>4. CASE fault' = "call" /\ UNCHANGED text
            BY <1>2, <2>2, <2>4 DEF PatchNeverFaults
      <2>5. QED BY <2>1, <2>3, <2>4
<1>7. ASSUME UNCHANGED vars PROVE HookedAreUnlocked' /\ PatchNeverFaults'
      <2>1. text' = text /\ writable' = writable /\ fault' = fault
            BY <1>7 DEF vars
      <2>2. HookedAreUnlocked'
            BY <1>2, <2>1
      <2>3. QED BY <1>1, <2>1, <2>2 DEF PatchNeverFaults
<1>8. ASSUME NEW f \in Functions, NEW flags \in FlagChoices, InsertWithoutMemory(f, flags)
      PROVE  HookedAreUnlocked' /\ PatchNeverFaults'
      <2>1. text' = text /\ writable' = writable /\ fault' = "null"
            BY <1>8 DEF InsertWithoutMemory
      <2>2. HookedAreUnlocked'
            BY <1>2, <2>1
      <2>3. QED BY <2>1, <2>2 DEF PatchNeverFaults
<1>9. HookedAreUnlocked' /\ PatchNeverFaults'
      <2>1. CASE UNCHANGED vars
            BY <1>7, <2>1
      <2>2. CASE Next
            BY <1>3, <1>4, <1>5, <1>6, <1>7, <1>8, <2>2 DEF Next, Dead
      <2>3. QED BY <2>1, <2>2
<1>10. QED BY <1>1, <1>9 DEF WriteInv

\* If no head crosses the end of a page, no store of insert_function_redirect
\* or remove_function_redirect hits a page that is not writable: what was
\* unlocked for the first redirect of a function is enough for every later
\* one, and for taking them off again.
THEOREM HeadsInPageAreWritable == HeadsInPage => (Spec => []PatchNeverFaults)
<1> SUFFICES ASSUME HeadsInPage PROVE Spec => []PatchNeverFaults
    OBVIOUS
<1>1. Init => WriteInv
      <2> SUFFICES ASSUME Init PROVE WriteInv
          OBVIOUS
      <2>1. HookInv
            BY InitHookInv
      <2>2. \A f \in Functions : ~Hooked(f)
            BY OriginalAssumption DEF Init, Hooked, LooksHooked
      <2>3. QED BY <2>1, <2>2 DEF Init, WriteInv, HookedAreUnlocked, PatchNeverFaults
<1>2. WriteInv /\ [Next]_vars => WriteInv'
      BY NextWriteInv
<1>3. WriteInv => PatchNeverFaults
      BY DEF WriteInv
<1>4. QED BY <1>1, <1>2, <1>3, PTL DEF Spec

-----------------------------------------------------------------------------
(* The stack of a function.                                                *)

\* A stack of distinct live fixups.
IsLiveStack(s, f) ==
    /\ s \in Seq(LiveFixups)
    /\ IsStack(s, f)
    /\ \A i, j \in DOMAIN s : s[i] = s[j] => i = j

\* Every function has one, while the process lives.
Stacked == fault = "none" => \A f \in Functions : \E s : IsLiveStack(s, f)

\* Following the saved code leads through the same fixups every time.
LEMMA StackIsUnique ==
    \A f \in Functions, s, t \in Seq(FixupIds) : IsStack(s, f) /\ IsStack(t, f) => s = t
<1> SUFFICES ASSUME NEW f \in Functions, NEW s \in Seq(FixupIds), NEW t \in Seq(FixupIds),
                    IsStack(s, f), IsStack(t, f)
             PROVE  s = t
    OBVIOUS
<1> DEFINE Same == {k \in Nat : k < Len(s) /\ k < Len(t) => s[Len(s) - k] = t[Len(t) - k]}
<1>1. /\ Len(s) \in Nat /\ DOMAIN s = 1 .. Len(s) /\ Len(t) \in Nat /\ DOMAIN t = 1 .. Len(t)
      /\ s # <<>> <=> Len(s) # 0
      /\ t # <<>> <=> Len(t) # 0
      OBVIOUS
<1>2. 0 \in Same
      BY <1>1 DEF IsStack
<1>3. ASSUME NEW k \in Nat, k \in Same PROVE k + 1 \in Same
      <2>1. SUFFICES ASSUME k + 1 < Len(s), k + 1 < Len(t)
                     PROVE  s[Len(s) - (k + 1)] = t[Len(t) - (k + 1)]
            OBVIOUS
      <2>2. s[Len(s) - k] = t[Len(t) - k]
            BY <1>1, <1>3, <2>1
      <2>3. /\ Len(s) - k \in DOMAIN s /\ Len(s) - k # 1 /\ (Len(s) - k) - 1 = Len(s) - (k + 1)
            /\ Len(t) - k \in DOMAIN t /\ Len(t) - k # 1 /\ (Len(t) - k) - 1 = Len(t) - (k + 1)
            <3>1. k \in Nat /\ Len(s) \in Nat /\ Len(t) \in Nat
                  BY <1>1, <1>3
            <3>2. /\ Len(s) - k \in 1 .. Len(s) /\ Len(s) - k # 1
                  /\ (Len(s) - k) - 1 = Len(s) - (k + 1)
                  BY <2>1, <3>1
            <3>3. /\ Len(t) - k \in 1 .. Len(t) /\ Len(t) - k # 1
                  /\ (Len(t) - k) - 1 = Len(t) - (k + 1)
                  BY <2>1, <3>1
            <3>4. QED BY <1>1, <3>2, <3>3
      <2>4. /\ heap[s[Len(s) - k]].saved[0].arg = s[(Len(s) - k) - 1]
            /\ heap[t[Len(t) - k]].saved[0].arg = t[(Len(t) - k) - 1]
            BY <2>3 DEF IsStack
      <2>5. QED BY <2>2, <2>3, <2>4
<1>4. \A k \in Nat : k < Len(s) /\ k < Len(t) => s[Len(s) - k] = t[Len(t) - k]
      <2>1. Nat \subseteq Same
            <3> HIDE DEF Same
            <3> QED BY <1>2, <1>3, NatSet
      <2>2. QED BY <2>1
<1>5. \A i \in DOMAIN s : ImageHooked(heap[s[i]].saved) <=> i # 1
      BY DEF IsStack
<1>6. \A i \in DOMAIN t : ImageHooked(heap[t[i]].saved) <=> i # 1
      BY DEF IsStack
<1>7. Len(s) # 0 <=> Len(t) # 0
      BY <1>1 DEF IsStack
<1>8. ASSUME Len(s) < Len(t) PROVE FALSE
      <2>0. Len(s) - 1 \in Nat /\ Len(s) - 1 < Len(s) /\ Len(s) - 1 < Len(t)
            BY <1>1, <1>7, <1>8
      <2>1. s[Len(s) - (Len(s) - 1)] = t[Len(t) - (Len(s) - 1)]
            BY <1>4, <2>0
      <2>2. /\ Len(s) - (Len(s) - 1) = 1 /\ 1 \in DOMAIN s
            /\ Len(t) - (Len(s) - 1) \in DOMAIN t /\ Len(t) - (Len(s) - 1) # 1
            BY <1>1, <1>7, <1>8
      <2>3. QED BY <1>5, <1>6, <2>1, <2>2
<1>9. ASSUME Len(t) < Len(s) PROVE FALSE
      <2>0. Len(t) - 1 \in Nat /\ Len(t) - 1 < Len(t) /\ Len(t) - 1 < Len(s)
            BY <1>1, <1>7, <1>9
      <2>1. s[Len(s) - (Len(t) - 1)] = t[Len(t) - (Len(t) - 1)]
            BY <1>4, <2>0
      <2>2. /\ Len(t) - (Len(t) - 1) = 1 /\ 1 \in DOMAIN t
            /\ Len(s) - (Len(t) - 1) \in DOMAIN s /\ Len(s) - (Len(t) - 1) # 1
            BY <1>1, <1>7, <1>9
      <2>3. QED BY <1>5, <1>6, <2>1, <2>2
<1>10. Len(s) = Len(t)
      <2>1. Len(s) \in Nat /\ Len(t) \in Nat
            BY <1>1
      <2>2. QED BY <1>8, <1>9, <2>1
<1>11. ASSUME NEW i \in 1 .. Len(s) PROVE s[i] = t[i]
      <2>1. Len(s) - i \in Nat /\ Len(s) - i < Len(s) /\ Len(s) - (Len(s) - i) = i
            BY <1>1
      <2>2. QED BY <1>4, <1>10, <2>1
<1>12. QED BY <1>1, <1>10, <1>11

\* A stack of distinct fixups is no longer than there are fixups.
LEMMA StackIsBounded ==
    \A s \in Seq(FixupIds) : (\A i, j \in DOMAIN s : s[i] = s[j] => i = j) => s \in Stacks
<1> SUFFICES ASSUME NEW s \in Seq(FixupIds), \A i, j \in DOMAIN s : s[i] = s[j] => i = j
             PROVE  s \in Stacks
    OBVIOUS
<1>1. Len(s) \in Nat /\ DOMAIN s = 1 .. Len(s) /\ s \in [1 .. Len(s) -> FixupIds]
      OBVIOUS
<1>2. IsFiniteSet(FixupIds)
      BY LayoutAssumption
<1>3. s \in Injection(1 .. Len(s), FixupIds)
      BY <1>1 DEF Injection, IsInjective
<1>4. Cardinality(1 .. Len(s)) <= Cardinality(FixupIds)
      BY <1>2, <1>3, FS_Injection
<1>5. Cardinality(1 .. Len(s)) = Len(s)
      BY SMTT(20), <1>1, FS_Interval
<1>6. Cardinality(FixupIds) \in Nat
      BY <1>2, FS_CardinalityType
<1>7. Len(s) \in 0 .. Cardinality(FixupIds)
      BY <1>1, <1>4, <1>5, <1>6
<1>8. QED BY <1>1, <1>7 DEF Stacks

LEMMA StackIs == \A f \in Functions : \A s : IsLiveStack(s, f) => Stack(f) = s
<1> SUFFICES ASSUME NEW f \in Functions, NEW s, IsLiveStack(s, f) PROVE Stack(f) = s
    OBVIOUS
<1>1. s \in Seq(FixupIds) /\ IsStack(s, f) /\ \A i, j \in DOMAIN s : s[i] = s[j] => i = j
      <2>1. LiveFixups \subseteq FixupIds
            BY DEF LiveFixups
      <2>2. QED BY <2>1 DEF IsLiveStack
<1>2. s \in Stacks
      BY <1>1, StackIsBounded
<1>3. \A t \in Stacks : t \in Seq(FixupIds)
      <2>1. Cardinality(FixupIds) \in Nat
            BY LayoutAssumption, FS_CardinalityType
      <2>2. QED BY <2>1 DEF Stacks
<1>4. Stack(f) \in Stacks /\ IsStack(Stack(f), f)
      BY <1>1, <1>2 DEF Stack
<1>5. QED BY <1>1, <1>3, <1>4, StackIsUnique

\* The same of the next state.
LEMMA StackIsNext == (\A f \in Functions : \A s : IsLiveStack(s, f) => Stack(f) = s)'
BY StackIs, PTL

-----------------------------------------------------------------------------
(* What a step does to the stacks.                                         *)

\* The saved code of a live fixup is a redirect, through another live fixup
\* and to the same function, or loaded code.
LEMMA SavedImage ==
    ASSUME TypeOK, FixupsRestorable, NEW z \in LiveFixups
    PROVE  ImageHooked(heap[z].saved) =>
              /\ Under(z) \in LiveFixups /\ Saves(z, Under(z))
              /\ \E f \in Fitting : BelongsTo(z, f) /\ SavesRedirect(z, f)
<1> USE DEF MinSpan, BRANCH, ENCODEDSIZE, MAX_REDIRECT_LENGTH
<1>1. SUFFICES ASSUME ImageHooked(heap[z].saved)
               PROVE  /\ Under(z) \in LiveFixups /\ Saves(z, Under(z))
                      /\ \E f \in Fitting : BelongsTo(z, f) /\ SavesRedirect(z, f)
      OBVIOUS
<1>2. PICK f \in Fitting : BelongsTo(z, f) /\ (SavesLoadedCode(z, f) \/ SavesRedirect(z, f))
      BY DEF FixupsRestorable
<1>3. CASE SavesLoadedCode(z, f)
      <2>1. /\ HeadLen[f] \in 9 .. 24 /\ f \in Nat /\ f + HeadLen[f] <= TextLen
            BY HeadFacts
      <2>2. f + 5 \in Text /\ 5 \in 0 .. HeadLen[f] - 1
            BY <2>1, LayoutAssumption DEF Text
      <2>3. SameInsn(heap[z].saved[5], Original[f + 5])
            BY <1>3, <2>2 DEF SavesLoadedCode
      <2>4. QED BY <1>1, <2>2, <2>3, OriginalCells DEF SameInsn, ImageHooked
<1>4. CASE SavesRedirect(z, f)
      BY <1>2, <1>4 DEF SavesRedirect, Saves, IsHookAt
<1>5. QED BY <1>2, <1>3, <1>4

\* A stack stays as long as its head and its fixups do.
LEMMA StackFrame ==
    ASSUME NEW f \in Functions, NEW s, IsLiveStack(s, f),
           Hooked(f)' <=> Hooked(f), Hooked(f) => text'[f].arg = text[f].arg,
           \A i \in DOMAIN s : s[i] \in LiveFixups' /\ heap'[s[i]] = heap[s[i]]
    PROVE  IsLiveStack(s, f)'
<1>1. s \in Seq(LiveFixups')
      BY DEF IsLiveStack
<1>2. IsStack(s, f)'
      BY DEF IsLiveStack, IsStack
<1>3. QED BY <1>1, <1>2 DEF IsLiveStack

\* The stacks of two functions have no fixup in common: the one a function
\* jumps to is in no other stack.
LEMMA StacksApart ==
    ASSUME HookInv, fault = "none", NEW f \in Functions, NEW g \in Functions, f # g,
           Hooked(f), NEW s, IsLiveStack(s, g)
    PROVE  \A i \in DOMAIN s : s[i] # text[f].arg
<1>1. TypeOK /\ HookedHeads /\ HeadUsesLiveFixup /\ FixupsRestorable /\ NoSharedFixup
      BY DEF HookInv, ChainInv
<1>2. /\ s \in Seq(LiveFixups) /\ IsStack(s, g)
      /\ Len(s) \in Nat /\ DOMAIN s = 1 .. Len(s)
      BY DEF IsLiveStack
<1>3. SUFFICES ASSUME NEW i \in DOMAIN s, s[i] = text[f].arg PROVE FALSE
      OBVIOUS
<1>4. s # <<>> /\ Hooked(g)
      BY <1>2 DEF IsStack
<1>5. CASE i = Len(s)
      <2>1. text[g].arg = text[f].arg
            BY <1>2, <1>3, <1>4, <1>5 DEF IsStack
      <2>2. QED BY <1>1, <1>4, <2>1, OneHeadPerFixup
<1>6. CASE i # Len(s)
      <2>1. i + 1 \in DOMAIN s /\ i + 1 # 1 /\ (i + 1) - 1 = i
            BY <1>2, <1>6
      <2>2. s[i + 1] \in LiveFixups
            BY <1>2, <2>1
      <2>3. /\ ImageHooked(heap[s[i + 1]].saved)
            /\ heap[s[i + 1]].saved[0].arg = s[(i + 1) - 1]
            BY <1>2, <2>1 DEF IsStack
      <2>4. Saves(s[i + 1], s[i])
            BY <1>1, <2>1, <2>2, <2>3, SavedImage DEF Under
      <2>5. s[i] \in FixupIds
            BY <1>2 DEF LiveFixups
      <2>6. QED BY <1>1, <1>3, <2>2, <2>4, <2>5 DEF NoSharedFixup
<1>7. QED BY <1>5, <1>6

\* insert_function_redirect pushes its fixup on the stack of the function.
LEMMA InsertPushes ==
    ASSUME HookInv, fault = "none",
           NEW f \in Functions, NEW flags \in FlagChoices, NEW x \in FixupIds,
           NEW redirect \in Targets,
           NEW n \in MinSpan .. MAX_REDIRECT_LENGTH, Ready(f, flags, n, x),
           heap' = [heap EXCEPT ![x] = NewFixup(f, redirect, flags, n)],
           text' = Patched(text, f, n, x), leaked' = leaked,
           NEW s, IsLiveStack(s, f)
    PROVE  /\ IsLiveStack(Append(s, x), f)'
           /\ heap'[x] = NewFixup(f, redirect, flags, n)
           /\ \A z \in LiveFixups : heap'[z] = heap[z] /\ z \in LiveFixups'
           /\ \A g \in Functions \ {f} : \A t : IsLiveStack(t, g) => IsLiveStack(t, g)'
<1> USE DEF MinSpan, BRANCH, ENCODEDSIZE, MAX_REDIRECT_LENGTH
<1>1. TypeOK /\ HookedHeads /\ UnhookedIsOriginal /\ LeakedAreAllocated
      BY DEF HookInv, ChainInv
<1>2. f \in Fitting /\ n = IF Hooked(f) THEN MinSpan ELSE HeadLen[f]
      BY <1>1, SpanIsHead
<1>3. /\ Hooked(f)' /\ text'[f].arg = x
      /\ \A g \in Functions \ {f} : /\ Hooked(g)' <=> Hooked(g)
                                    /\ Hooked(g) => text'[g] = text[g]
      BY <1>1, <1>2, PatchedHead
<1>4. HeadLen[f] \in 9 .. 24 /\ f \in Nat /\ n \in 9 .. 24 /\ f + HeadLen[f] <= TextLen
      BY <1>2, HeadFacts
<1>5. x \notin LiveFixups /\ x \notin leaked
      BY <1>1 DEF Ready, Accepted, LiveFixups, LeakedAreAllocated
<1>6. /\ heap'[x] = NewFixup(f, redirect, flags, n)
      /\ \A z \in FixupIds : z # x => heap'[z] = heap[z]
      BY <1>1 DEF TypeOK
<1>7. NewFixup(f, redirect, flags, n) # Free
      BY DEF NewFixup, Free, FixupOp
<1>8. LiveFixups' = LiveFixups \cup {x}
      BY <1>5, <1>6, <1>7 DEF LiveFixups
<1>9. \A z \in LiveFixups : heap'[z] = heap[z] /\ z \in LiveFixups'
      BY <1>5, <1>6, <1>8 DEF LiveFixups
<1>10. ASSUME NEW g \in Functions \ {f}, NEW t, IsLiveStack(t, g) PROVE IsLiveStack(t, g)'
      <2>1. \A i \in DOMAIN t : t[i] \in LiveFixups' /\ heap'[t[i]] = heap[t[i]]
            BY <1>9, <1>10 DEF IsLiveStack
      <2>2. QED BY <1>3, <1>10, <2>1, StackFrame
<1>11. IsLiveStack(Append(s, x), f)'
      <2> DEFINE t == Append(s, x)
      <2>1. /\ s \in Seq(LiveFixups) /\ IsStack(s, f) /\ \A i, j \in DOMAIN s : s[i] = s[j] => i = j
            /\ Len(s) \in Nat /\ DOMAIN s = 1 .. Len(s)
            BY DEF IsLiveStack
      <2>2. /\ t \in Seq(LiveFixups') /\ Len(t) = Len(s) + 1 /\ DOMAIN t = 1 .. Len(s) + 1
            /\ t[Len(s) + 1] = x /\ \A i \in DOMAIN s : t[i] = s[i] /\ s[i] \in LiveFixups
            /\ t # <<>>
            <3>1. s \in Seq(LiveFixups') /\ x \in LiveFixups'
                  BY <1>8, <2>1
            <3>2. t \in Seq(LiveFixups') /\ Len(t) = Len(s) + 1 /\ t[Len(s) + 1] = x
                  BY <3>1
            <3>3. \A i \in 1 .. Len(s) : t[i] = s[i] /\ s[i] \in LiveFixups
                  BY <2>1, <3>1
            <3>4. DOMAIN t = 1 .. Len(s) + 1
                  BY <3>2
            <3>5. t # <<>>
                  BY <2>1, <3>2
            <3>6. QED BY <2>1, <3>2, <3>3, <3>4, <3>5
      <2>3. \A i, j \in DOMAIN t : t[i] = t[j] => i = j
            <3>1. SUFFICES ASSUME NEW i \in DOMAIN t, NEW j \in DOMAIN t, t[i] = t[j] PROVE i = j
                  OBVIOUS
            <3>2. /\ i \in DOMAIN s \/ i = Len(s) + 1
                  /\ j \in DOMAIN s \/ j = Len(s) + 1
                  BY <2>1, <2>2
            <3>3. QED BY <1>5, <2>1, <2>2, <3>1, <3>2
      <2>4. /\ heap'[x].saved[0] = text[f] /\ heap'[x].saved[5] = text[f + 5]
            /\ f + 5 \in Text
            <3>1. 0 \in Window /\ 5 \in Window /\ f + 0 = f /\ f + 5 \in Text /\ 0 < n /\ 5 < n
                  BY <1>4, LayoutAssumption DEF Window, Text
            <3>2. QED BY <1>6, <3>1 DEF NewFixup, Saved
      <2>5. ImageHooked(heap'[x].saved) <=> Hooked(f)
            <3>1. ASSUME Hooked(f) PROVE ImageHooked(heap'[x].saved)
                  BY <2>4, <3>1 DEF ImageHooked, Hooked, LooksHooked
            <3>2. ASSUME ~Hooked(f) PROVE ~ImageHooked(heap'[x].saved)
                  <4>1. 5 \in 0 .. HeadLen[f] - 1
                        BY <1>4
                  <4>2. SameInsn(text[f + 5], Original[f + 5])
                        BY <1>1, <1>2, <3>2, <4>1, UnhookedHead
                  <4>3. QED BY <2>4, <4>2, OriginalCells DEF SameInsn, ImageHooked
            <3>3. QED BY <3>1, <3>2
      <2>6. Hooked(f) => Len(s) + 1 # 1 /\ heap'[x].saved[0].arg = s[Len(s)]
            <3>1. Hooked(f) => s # <<>> /\ s[Len(s)] = text[f].arg
                  BY <2>1 DEF IsStack
            <3>2. s # <<>> => Len(s) + 1 # 1
                  BY <2>1
            <3>3. QED BY <2>4, <3>1, <3>2
      <2>7. ~Hooked(f) => Len(s) + 1 = 1
            <3>1. ~Hooked(f) => s = <<>>
                  BY <2>1 DEF IsStack
            <3>2. QED BY <3>1
      <2>8. ASSUME NEW i \in DOMAIN t
            PROVE  /\ heap'[t[i]] # Free
                   /\ ImageHooked(heap'[t[i]].saved) <=> i # 1
                   /\ i # 1 => heap'[t[i]].saved[0].arg = t[i - 1]
            <3>1. CASE i \in DOMAIN s
                  <4>1. t[i] = s[i] /\ heap'[s[i]] = heap[s[i]]
                        BY <1>9, <2>2, <3>1
                  <4>2. i # 1 => t[i - 1] = s[i - 1]
                        <5>1. i # 1 => i - 1 \in DOMAIN s
                              BY <2>1, <3>1
                        <5>2. QED BY <2>2, <5>1
                  <4>3. QED BY <2>1, <3>1, <4>1, <4>2 DEF IsStack
            <3>2. CASE i = Len(s) + 1
                  <4>1. t[i] = x /\ i - 1 = Len(s)
                        BY <2>1, <2>2, <3>2
                  <4>2. i # 1 => t[i - 1] = s[Len(s)]
                        <5>1. i # 1 => Len(s) \in DOMAIN s
                              BY <2>1, <3>2
                        <5>2. QED BY <2>2, <4>1, <5>1
                  <4>3. QED BY <1>6, <1>7, <2>5, <2>6, <2>7, <3>2, <4>1, <4>2
            <3>3. QED BY <2>1, <2>2, <2>8, <3>1, <3>2
      <2>9. IsStack(t, f)'
            BY <1>3, <2>2, <2>8 DEF IsStack
      <2>10. QED BY <2>2, <2>3, <2>9 DEF IsLiveStack
<1>12. QED BY <1>6, <1>9, <1>10, <1>11

LEMMA WithoutLast ==
    ASSUME NEW S, NEW s \in Seq(S), s # <<>>
    PROVE  /\ Len(s) \in Nat /\ Len(s) - 1 \in Nat /\ DOMAIN s = 1 .. Len(s)
           /\ LET t == SubSeq(s, 1, Len(s) - 1)
              IN  /\ Len(t) = Len(s) - 1
                  /\ t \in [1 .. Len(s) - 1 -> S]
                  /\ \A i \in 1 .. Len(s) - 1 : t[i] = s[i]
<1> DEFINE t == SubSeq(s, 1, Len(s) - 1)
<1>1. Len(s) \in Nat /\ Len(s) # 0 /\ DOMAIN s = 1 .. Len(s)
      OBVIOUS
<1>2. Len(t) = Len(s) - 1 /\ \A i \in 1 .. Len(s) - 1 : t[i] = s[i]
      BY <1>1
<1>3. t \in Seq(S)
      BY <1>1
<1>4. t \in [1 .. Len(t) -> S]
      <2> HIDE DEF t
      <2> QED BY <1>3
<1>5. QED
      <2> HIDE DEF t
      <2>1. Len(s) - 1 \in Nat
            BY <1>1
      <2>2. /\ Len(t) = Len(s) - 1
            /\ t \in [1 .. Len(s) - 1 -> S]
            /\ \A i \in 1 .. Len(s) - 1 : t[i] = s[i]
            BY <1>2, <1>4
      <2>3. QED BY <1>1, <2>1, <2>2 DEF t

\* remove_function_redirect pops the fixup that it frees.
LEMMA RemovePops ==
    ASSUME HookInv, fault = "none",
           NEW f \in Functions, Hooked(f),
           text' = Restored(text, f, text[f + BRANCH].arg, heap[text[f].arg].saved),
           heap' = [heap EXCEPT ![text[f].arg] = Free], leaked' = leaked,
           NEW s, IsLiveStack(s, f)
    PROVE  /\ IsLiveStack(SubSeq(s, 1, Len(s) - 1), f)'
           /\ s # <<>> /\ s[Len(s)] = text[f].arg
           /\ \A z \in LiveFixups : z # text[f].arg => heap'[z] = heap[z] /\ z \in LiveFixups'
           /\ \A g \in Functions \ {f} : \A t : IsLiveStack(t, g) => IsLiveStack(t, g)'
<1> DEFINE x == text[f].arg
           t == SubSeq(s, 1, Len(s) - 1)
<1> USE DEF MinSpan, BRANCH, ENCODEDSIZE, MAX_REDIRECT_LENGTH
<1>1. TypeOK /\ HookedHeads /\ UnhookedIsOriginal /\ ChainInv /\ FixupsRestorable
      BY DEF HookInv, ChainInv
<1>2. /\ f \in Fitting /\ x \in LiveFixups /\ heap[x] \in Fixup
      /\ heap[x].size = text[f + BRANCH].arg
      /\ SavesLoadedCode(x, f) \/ SavesRedirect(x, f)
      BY <1>1, TopFixup
<1>3. /\ Hooked(f)' => SavesRedirect(x, f) /\ text'[f].arg = Under(x)
      /\ \A g \in Functions \ {f} : /\ Hooked(g)' <=> Hooked(g)
                                    /\ Hooked(g) => text'[g] = text[g]
      BY <1>1, RestoredHead
<1>4. \A z \in LiveFixups : z # x => heap'[z] = heap[z] /\ z \in LiveFixups'
      BY <1>1 DEF TypeOK, LiveFixups
<1>5. ASSUME NEW g \in Functions \ {f}, NEW u, IsLiveStack(u, g) PROVE IsLiveStack(u, g)'
      <2>1. \A i \in DOMAIN u : u[i] # x
            BY <1>5, StacksApart
      <2>2. \A i \in DOMAIN u : u[i] \in LiveFixups' /\ heap'[u[i]] = heap[u[i]]
            BY <1>4, <1>5, <2>1 DEF IsLiveStack
      <2>3. QED BY <1>3, <1>5, <2>2, StackFrame
<1>6. /\ s \in Seq(LiveFixups) /\ IsStack(s, f) /\ \A i, j \in DOMAIN s : s[i] = s[j] => i = j
      /\ Len(s) \in Nat /\ DOMAIN s = 1 .. Len(s)
      BY DEF IsLiveStack
<1>7. s # <<>> /\ s[Len(s)] = x /\ Len(s) - 1 \in Nat
      <2>1. s # <<>> /\ s[Len(s)] = x
            BY <1>6 DEF IsStack
      <2>2. s # <<>> => Len(s) # 0
            BY <1>6
      <2>3. QED BY <1>6, <2>1, <2>2
<1>8. /\ Len(t) = Len(s) - 1 /\ DOMAIN t = 1 .. Len(s) - 1
      /\ t \in [1 .. Len(s) - 1 -> LiveFixups]
      /\ \A i \in 1 .. Len(s) - 1 : t[i] = s[i] /\ i \in DOMAIN s /\ i # Len(s)
      <2>1. /\ Len(t) = Len(s) - 1
            /\ t \in [1 .. Len(s) - 1 -> LiveFixups]
            /\ \A i \in 1 .. Len(s) - 1 : t[i] = s[i]
            BY <1>6, <1>7, WithoutLast
      <2>2. \A k \in Nat : \A i \in 1 .. k - 1 : i \in 1 .. k /\ i # k
            OBVIOUS
      <2>3. QED BY <1>6, <2>1, <2>2
<1> HIDE DEF t
<1>9. \A i \in DOMAIN t : t[i] \in LiveFixups /\ t[i] # x
      <2>1. ASSUME NEW i \in DOMAIN t PROVE t[i] \in LiveFixups /\ t[i] # x
            <3>1. t[i] = s[i] /\ i \in DOMAIN s /\ i # Len(s)
                  BY <1>8, <2>1
            <3>2. Len(s) \in DOMAIN s
                  BY <1>6, <1>7
            <3>3. s[i] \in LiveFixups
                  BY <1>6, <3>1
            <3>4. QED BY <1>6, <1>7, <3>1, <3>2, <3>3
      <2>2. QED BY <2>1
<1>10. t \in Seq(LiveFixups')
      <2>1. \A i \in 1 .. Len(s) - 1 : t[i] \in LiveFixups'
            BY <1>4, <1>8, <1>9
      <2>2. t \in [1 .. Len(s) - 1 -> LiveFixups']
            BY <1>8, <2>1
      <2>3. QED BY <1>7, <2>2
<1>11. Hooked(f)' <=> ImageHooked(heap[x].saved)
      <2>1. HeadLen[f] \in 9 .. 24 /\ f \in Nat /\ f + HeadLen[f] <= TextLen
            BY <1>2, HeadFacts
      <2>2. text[f + 5].arg \in 9 .. 24
            BY <1>2, <2>1 DEF SavesLoadedCode, SavesRedirect
      <2>3. f \in Text /\ f + 5 \in Text
            BY <2>1, LayoutAssumption DEF Text
      <2>4. text'[f] = heap[x].saved[0]
            <3>1. f \in f .. f + text[f + 5].arg - 1 /\ f - f = 0
                  BY <2>1, <2>2
            <3>2. QED BY <2>3, <3>1 DEF Restored
      <2>5. text'[f + 5] = heap[x].saved[5]
            <3>1. f + 5 \in f .. f + text[f + 5].arg - 1 /\ (f + 5) - f = 5
                  BY <2>1, <2>2
            <3>2. QED BY <2>3, <3>1 DEF Restored
      <2>6. ASSUME Hooked(f)' PROVE ImageHooked(heap[x].saved)
            BY <2>4, <2>5, <2>6 DEF Hooked, LooksHooked, ImageHooked
      <2>7. ASSUME ImageHooked(heap[x].saved) PROVE Hooked(f)'
            <3>1. /\ Under(x) \in LiveFixups
                  /\ \E g \in Fitting : BelongsTo(x, g) /\ SavesRedirect(x, g)
                  BY <1>1, <1>2, <2>7, SavedImage
            <3>2. heap[x].saved[5] = SavedSize(heap[Under(x)].size)
                  BY <3>1 DEF SavesRedirect, IsHookAt
            <3>3. heap[Under(x)].size \in 0 .. 24
                  BY <1>1, <3>1 DEF TypeOK, LiveFixups, Fixup
            <3>4. heap[x].saved[5].arg <= 24
                  BY <3>2, <3>3 DEF SavedSize
            <3>5. QED BY <2>3, <2>4, <2>5, <2>7, <3>4 DEF Hooked, LooksHooked, ImageHooked
      <2>8. QED BY <2>6, <2>7
<1>12. Len(s) \in DOMAIN s
      BY <1>6, <1>7
<1>13. Hooked(f)' <=> Len(s) # 1
      BY <1>6, <1>7, <1>11, <1>12 DEF IsStack
<1>14. Hooked(f)' => text'[f].arg = s[Len(s) - 1]
      BY <1>3, <1>6, <1>7, <1>12, <1>13 DEF IsStack, Under
<1>15. IsStack(t, f)'
      <2>1. t # <<>> <=> Len(s) # 1
            <3>1. t # <<>> <=> Len(t) # 0
                  BY <1>10
            <3>2. Len(t) # 0 <=> Len(s) # 1
                  BY <1>7, <1>8
            <3>3. QED BY <3>1, <3>2
      <2>2. Hooked(f)' => t[Len(t)] = text'[f].arg
            <3>1. Len(s) # 1 => Len(s) - 1 \in 1 .. Len(s) - 1
                  BY <1>6, <1>7
            <3>2. QED BY <1>8, <1>13, <1>14, <3>1
      <2>3. ASSUME NEW i \in DOMAIN t
            PROVE  /\ heap'[t[i]] # Free
                   /\ ImageHooked(heap'[t[i]].saved) <=> i # 1
                   /\ i # 1 => heap'[t[i]].saved[0].arg = t[i - 1]
            <3>1. t[i] = s[i] /\ i \in DOMAIN s /\ heap'[t[i]] = heap[s[i]]
                  BY <1>4, <1>8, <1>9
            <3>2. i # 1 => t[i - 1] = s[i - 1]
                  <4>1. i # 1 => i - 1 \in 1 .. Len(s) - 1
                        BY <1>7, <1>8
                  <4>2. QED BY <1>8, <4>1
            <3>3. QED BY <1>6, <3>1, <3>2 DEF IsStack
      <2>4. QED BY <1>13, <2>1, <2>2, <2>3 DEF IsStack
<1>16. \A i, j \in DOMAIN t : t[i] = t[j] => i = j
      BY <1>6, <1>8
<1>17. IsLiveStack(t, f)'
      BY <1>10, <1>15, <1>16 DEF IsLiveStack
<1>18. QED BY <1>4, <1>5, <1>7, <1>17 DEF t

-----------------------------------------------------------------------------
(* What a step does to the chains and the callees.                         *)

LEMMA ChainIs ==
    \A f \in Functions : \A s : IsLiveStack(s, f) =>
        Chain(f) = [i \in 1 .. Len(s) |-> [to |-> heap[s[i]].redirect, mode |-> heap[s[i]].op]]
<1> SUFFICES ASSUME NEW f \in Functions, NEW s, IsLiveStack(s, f)
             PROVE  Chain(f) = [i \in 1 .. Len(s) |->
                                   [to |-> heap[s[i]].redirect, mode |-> heap[s[i]].op]]
    OBVIOUS
<1>1. Stack(f) = s
      BY StackIs
<1>2. DOMAIN s = 1 .. Len(s)
      BY DEF IsLiveStack
<1>3. QED BY <1>1, <1>2 DEF Chain

LEMMA ChainIsNext ==
    (\A f \in Functions : \A s : IsLiveStack(s, f) =>
        Chain(f) = [i \in 1 .. Len(s) |-> [to |-> heap[s[i]].redirect, mode |-> heap[s[i]].op]])'
BY ChainIs, PTL

\* The instruction at a call site is in the segment, or in the code that the
\* oldest redirect of the head saved.
CalleeFound ==
    \A c \in Sites :
        /\ \A f \in Functions : \A s : Hooked(f) /\ InHead(c, f) /\ IsLiveStack(s, f)
              => Callee(c) = heap[s[1]].saved[c - f].arg
        /\ (\A f \in Functions : Hooked(f) => ~InHead(c, f)) => Callee(c) = text[c].arg

LEMMA CalleeIs == HookedHeads => CalleeFound
<1> SUFFICES ASSUME HookedHeads, NEW c \in Sites
             PROVE  /\ \A f \in Functions : \A s : Hooked(f) /\ InHead(c, f) /\ IsLiveStack(s, f)
                          => Callee(c) = heap[s[1]].saved[c - f].arg
                    /\ (\A f \in Functions : Hooked(f) => ~InHead(c, f)) => Callee(c) = text[c].arg
    BY DEF CalleeFound
<1>1. c \in Nat
      BY DEF Sites, Text
<1>2. ASSUME NEW f \in Functions, NEW s, Hooked(f), InHead(c, f), IsLiveStack(s, f)
      PROVE  Callee(c) = heap[s[1]].saved[c - f].arg
      <2>1. \A g \in Functions : Hooked(g) /\ InHead(c, g) => g = f
            BY <1>1, <1>2, HeadsDisjoint DEF HookedHeads
      <2>2. f = CHOOSE g \in Functions : Hooked(g) /\ InHead(c, g)
            BY <1>2, <2>1
      <2>3. Callee(c) = heap[Stack(f)[1]].saved[c - f].arg
            BY <1>2, <2>2 DEF Callee
      <2>4. QED BY <1>2, <2>3, StackIs
<1>3. ASSUME \A f \in Functions : Hooked(f) => ~InHead(c, f) PROVE Callee(c) = text[c].arg
      BY <1>3 DEF Callee
<1>4. QED BY <1>2, <1>3

LEMMA CalleeIsNext == (HookedHeads => CalleeFound)'
BY CalleeIs, PTL

\* A failed insertion, or a store that kills the process, is not seen.
LEMMA NothingSeen ==
    ASSUME HookInv, HookInv', Stacked, fault = "none",
           text' = text, \A z \in LiveFixups : z \in LiveFixups' /\ heap'[z] = heap[z]
    PROVE  /\ \A f \in Functions : Chain(f)' = Chain(f)
           /\ \A c \in Sites : Callee(c)' = Callee(c)
           /\ Stacked'
<1>1. \A f \in Functions : Hooked(f)' <=> Hooked(f)
      BY DEF Hooked
<1>2. ASSUME NEW f \in Functions, NEW s, IsLiveStack(s, f)
      PROVE  /\ IsLiveStack(s, f)'
             /\ Len(s) \in Nat /\ \A i \in 1 .. Len(s) : heap'[s[i]] = heap[s[i]]
      <2>1. \A i \in DOMAIN s : s[i] \in LiveFixups' /\ heap'[s[i]] = heap[s[i]]
            BY <1>2 DEF IsLiveStack
      <2>2. IsLiveStack(s, f)'
            BY <1>1, <1>2, <2>1, StackFrame
      <2>3. Len(s) \in Nat /\ DOMAIN s = 1 .. Len(s)
            BY <1>2 DEF IsLiveStack
      <2>4. QED BY <2>1, <2>2, <2>3
<1>3. ASSUME NEW f \in Functions PROVE Chain(f)' = Chain(f)
      <2>1. PICK s : IsLiveStack(s, f)
            BY DEF Stacked
      <2>2. /\ Chain(f) = [i \in 1 .. Len(s) |->
                               [to |-> heap[s[i]].redirect, mode |-> heap[s[i]].op]]
            /\ Chain(f)' = [i \in 1 .. Len(s) |->
                               [to |-> heap'[s[i]].redirect, mode |-> heap'[s[i]].op]]
            BY <1>2, <2>1, ChainIs, ChainIsNext
      <2>3. QED BY <1>2, <2>1, <2>2
<1>4. ASSUME NEW c \in Sites PROVE Callee(c)' = Callee(c)
      <2>1. CalleeFound /\ CalleeFound'
            BY CalleeIs, CalleeIsNext DEF HookInv
      <2>2. CASE \E f \in Functions : Hooked(f) /\ InHead(c, f)
            <3>1. PICK f \in Functions : Hooked(f) /\ InHead(c, f)
                  BY <2>2
            <3>2. PICK s : IsLiveStack(s, f)
                  BY DEF Stacked
            <3>3. IsLiveStack(s, f)' /\ Hooked(f)'
                  BY <1>1, <1>2, <3>1, <3>2
            <3>4. 1 \in 1 .. Len(s)
                  BY <1>2, <3>1, <3>2 DEF IsLiveStack, IsStack
            <3>5. heap'[s[1]] = heap[s[1]]
                  BY <1>2, <3>2, <3>4
            <3>6. Callee(c) = heap[s[1]].saved[c - f].arg
                  BY <2>1, <3>1, <3>2 DEF CalleeFound
            <3>7. Callee(c)' = heap'[s[1]].saved[c - f].arg
                  BY <2>1, <3>1, <3>3 DEF CalleeFound, InHead
            <3>8. QED BY <3>5, <3>6, <3>7
      <2>3. CASE \A f \in Functions : Hooked(f) => ~InHead(c, f)
            <3>1. Callee(c) = text[c].arg
                  BY <2>1, <2>3 DEF CalleeFound
            <3>2. Callee(c)' = text'[c].arg
                  BY <1>1, <2>1, <2>3 DEF CalleeFound, InHead
            <3>3. QED BY <3>1, <3>2
      <2>4. QED BY <2>2, <2>3
<1>5. Stacked'
      BY <1>2 DEF Stacked
<1>6. QED BY <1>3, <1>4, <1>5

\* Of a function whose head a step leaves alone, and the fixups of its stack.
LEMMA OtherSeen ==
    ASSUME HookInv, HookInv', NEW g \in Functions, NEW s, IsLiveStack(s, g), IsLiveStack(s, g)',
           Hooked(g)' <=> Hooked(g),
           \A i \in 1 .. Len(s) : heap'[s[i]] = heap[s[i]]
    PROVE  /\ Chain(g)' = Chain(g)
           /\ Hooked(g) => \A c \in Sites : InHead(c, g) => Callee(c)' = Callee(c)
<1>1. Chain(g)' = Chain(g)
      <2>1. /\ Chain(g) = [i \in 1 .. Len(s) |->
                               [to |-> heap[s[i]].redirect, mode |-> heap[s[i]].op]]
            /\ Chain(g)' = [i \in 1 .. Len(s) |->
                               [to |-> heap'[s[i]].redirect, mode |-> heap'[s[i]].op]]
            BY ChainIs, ChainIsNext
      <2>2. QED BY <2>1
<1>2. ASSUME Hooked(g), NEW c \in Sites, InHead(c, g) PROVE Callee(c)' = Callee(c)
      <2>1. CalleeFound /\ CalleeFound'
            BY CalleeIs, CalleeIsNext DEF HookInv
      <2>2. Callee(c) = heap[s[1]].saved[c - g].arg
            BY <1>2, <2>1 DEF CalleeFound
      <2>3. Callee(c)' = heap'[s[1]].saved[c - g].arg
            BY <1>2, <2>1 DEF CalleeFound, InHead
      <2>4. 1 \in 1 .. Len(s)
            BY <1>2 DEF IsLiveStack, IsStack
      <2>5. QED BY <2>2, <2>3, <2>4
<1>3. QED BY <1>1, <1>2

LEMMA InsertSeen ==
    ASSUME HookInv, HookInv', Stacked, fault = "none",
           NEW f \in Functions, NEW flags \in FlagChoices, NEW x \in FixupIds,
           NEW redirect \in Targets,
           NEW n \in MinSpan .. MAX_REDIRECT_LENGTH, Ready(f, flags, n, x),
           heap' = [heap EXCEPT ![x] = NewFixup(f, redirect, flags, n)],
           text' = Patched(text, f, n, x), leaked' = leaked
    PROVE  /\ Chain(f)' = Append(Chain(f), [to |-> redirect, mode |-> FixupOp(flags)])
           /\ \A g \in Functions \ {f} : Chain(g)' = Chain(g)
           /\ \A c \in Sites : Callee(c)' = Callee(c)
           /\ Stacked'
<1> USE DEF MinSpan, BRANCH, ENCODEDSIZE, MAX_REDIRECT_LENGTH
<1>1. TypeOK /\ HookedHeads /\ UnhookedIsOriginal /\ CalleeFound /\ CalleeFound'
      BY CalleeIs, CalleeIsNext DEF HookInv
<1>2. f \in Fitting /\ n = IF Hooked(f) THEN MinSpan ELSE HeadLen[f]
      BY <1>1, SpanIsHead
<1>3. /\ Hooked(f)'
      /\ \A g \in Functions \ {f} : Hooked(g)' <=> Hooked(g)
      BY <1>1, <1>2, PatchedHead
<1>4. HeadLen[f] \in 9 .. 24 /\ f \in Nat /\ n \in 9 .. HeadLen[f]
      BY <1>2, HeadFacts
<1>5. PICK s : IsLiveStack(s, f)
      BY DEF Stacked
<1>6. /\ IsLiveStack(Append(s, x), f)'
      /\ heap'[x] = NewFixup(f, redirect, flags, n)
      /\ \A z \in LiveFixups : heap'[z] = heap[z] /\ z \in LiveFixups'
      /\ \A g \in Functions \ {f} : \A t : IsLiveStack(t, g) => IsLiveStack(t, g)'
      BY <1>5, InsertPushes
<1>7. /\ s \in Seq(LiveFixups) /\ Len(s) \in Nat /\ DOMAIN s = 1 .. Len(s)
      /\ \A i \in 1 .. Len(s) : s[i] \in LiveFixups /\ heap'[s[i]] = heap[s[i]]
      BY <1>5, <1>6 DEF IsLiveStack
<1>8. /\ Len(Append(s, x)) = Len(s) + 1 /\ Append(s, x)[Len(s) + 1] = x
      /\ \A i \in 1 .. Len(s) : Append(s, x)[i] = s[i]
      BY <1>7
<1>9. Chain(f)' = Append(Chain(f), [to |-> redirect, mode |-> FixupOp(flags)])
      <2> DEFINE e == [to |-> redirect, mode |-> FixupOp(flags)]
                 before == [i \in 1 .. Len(s) |->
                               [to |-> heap[s[i]].redirect, mode |-> heap[s[i]].op]]
                 after == [i \in 1 .. Len(s) + 1 |->
                               [to |-> heap'[Append(s, x)[i]].redirect,
                                mode |-> heap'[Append(s, x)[i]].op]]
      <2>1. Chain(f) = before
            BY <1>5, ChainIs
      <2>2. Chain(f)' = after
            <3>1. \A t : IsLiveStack(t, f)' =>
                     Chain(f)' = [i \in 1 .. Len(t) |->
                                     [to |-> heap'[t[i]].redirect, mode |-> heap'[t[i]].op]]
                  BY ChainIsNext
            <3>2. Chain(f)' = [i \in 1 .. Len(Append(s, x)) |->
                                  [to |-> heap'[Append(s, x)[i]].redirect,
                                   mode |-> heap'[Append(s, x)[i]].op]]
                  BY <1>6, <3>1
            <3>3. QED BY <1>8, <3>2
      <2>3. \A i \in 1 .. Len(s) : after[i] = before[i]
            BY <1>7, <1>8
      <2>4. after[Len(s) + 1] = e
            BY <1>6, <1>7, <1>8 DEF NewFixup
      <2>5. /\ Append(before, e) = [i \in 1 .. Len(s) + 1 |-> IF i = Len(s) + 1 THEN e ELSE before[i]]
            BY <1>7
      <2>6. after = [i \in 1 .. Len(s) + 1 |-> IF i = Len(s) + 1 THEN e ELSE before[i]]
            <3>1. \A i \in 1 .. Len(s) + 1 : i = Len(s) + 1 \/ i \in 1 .. Len(s)
                  BY <1>7
            <3>2. \A i \in 1 .. Len(s) + 1 : after[i] = IF i = Len(s) + 1 THEN e ELSE before[i]
                  BY <2>3, <2>4, <3>1
            <3> HIDE DEF before, e
            <3>3. QED BY <3>2
      <2>7. QED BY <2>1, <2>2, <2>5, <2>6
<1>10. ASSUME NEW g \in Functions \ {f}
       PROVE  /\ Chain(g)' = Chain(g)
              /\ Hooked(g) => \A c \in Sites : InHead(c, g) => Callee(c)' = Callee(c)
              /\ \E t : IsLiveStack(t, g)'
      <2>1. PICK t : IsLiveStack(t, g)
            BY DEF Stacked
      <2>2. IsLiveStack(t, g)' /\ \A i \in 1 .. Len(t) : heap'[t[i]] = heap[t[i]]
            BY <1>6, <2>1 DEF IsLiveStack
      <2>3. QED BY <1>3, <2>1, <2>2, OtherSeen
<1>11. ASSUME NEW c \in Sites PROVE Callee(c)' = Callee(c)
      <2>1. c \in Text /\ c \in Nat
            BY DEF Sites, Text
      <2>2. CASE InHead(c, f)
            <3>1. Callee(c)' = heap'[Append(s, x)[1]].saved[c - f].arg
                  <4>1. \A t : IsLiveStack(t, f)' => Callee(c)' = heap'[t[1]].saved[c - f].arg
                        BY <1>1, <1>3, <2>2 DEF CalleeFound, InHead
                  <4>2. QED BY <1>6, <4>1
            <3>2. CASE Hooked(f)
                  <4>1. 1 \in 1 .. Len(s)
                        BY <1>5, <1>7, <3>2 DEF IsLiveStack, IsStack
                  <4>2. Callee(c) = heap[s[1]].saved[c - f].arg
                        BY <1>1, <1>5, <2>2, <3>2 DEF CalleeFound
                  <4>3. QED BY <1>7, <1>8, <3>1, <4>1, <4>2
            <3>3. CASE ~Hooked(f)
                  <4>1. s = <<>>
                        BY <1>5, <3>3 DEF IsLiveStack, IsStack
                  <4>2. Append(s, x)[1] = x
                        BY <1>8, <4>1
                  <4>3. c - f \in Window /\ c - f < n /\ f + (c - f) = c
                        BY <1>2, <1>4, <2>1, <2>2, <3>3 DEF InHead, Window
                  <4>4. heap'[x].saved[c - f] = text[c]
                        BY <1>6, <4>3 DEF NewFixup, Saved
                  <4>5. \A g \in Functions : Hooked(g) => ~InHead(c, g)
                        BY <1>1, <1>2, <2>1, <2>2, <3>3, HeadsDisjoint DEF HookedHeads
                  <4>6. Callee(c) = text[c].arg
                        BY <1>1, <4>5 DEF CalleeFound
                  <4>7. QED BY <3>1, <4>2, <4>4, <4>6
            <3>4. QED BY <3>2, <3>3
      <2>3. CASE \E g \in Functions \ {f} : Hooked(g) /\ InHead(c, g)
            BY <1>10, <2>3
      <2>4. CASE ~InHead(c, f) /\ \A g \in Functions \ {f} : Hooked(g) => ~InHead(c, g)
            <3>1. Callee(c) = text[c].arg
                  BY <1>1, <2>4 DEF CalleeFound
            <3>2. Callee(c)' = text'[c].arg
                  BY <1>1, <1>3, <2>4 DEF CalleeFound, InHead
            <3>3. c \notin f .. f + n - 1
                  BY <1>4, <2>1, <2>4 DEF InHead
            <3>4. text'[c] = text[c]
                  BY <2>1, <3>3 DEF Patched
            <3>5. QED BY <3>1, <3>2, <3>4
      <2>5. QED BY <2>2, <2>3, <2>4
<1>12. Stacked'
      BY <1>6, <1>10 DEF Stacked
<1>13. QED BY <1>9, <1>10, <1>11, <1>12

LEMMA RemoveSeen ==
    ASSUME HookInv, HookInv', Stacked, fault = "none",
           NEW f \in Functions, Hooked(f),
           text' = Restored(text, f, text[f + BRANCH].arg, heap[text[f].arg].saved),
           heap' = [heap EXCEPT ![text[f].arg] = Free], leaked' = leaked
    PROVE  /\ Chain(f) # <<>> /\ Chain(f)' = SubSeq(Chain(f), 1, Len(Chain(f)) - 1)
           /\ \A g \in Functions \ {f} : Chain(g)' = Chain(g)
           /\ \A c \in Sites : Callee(c)' = Callee(c)
           /\ Stacked'
<1> DEFINE x == text[f].arg
           n == text[f + BRANCH].arg
<1> USE DEF MinSpan, BRANCH, ENCODEDSIZE, MAX_REDIRECT_LENGTH
<1>1. TypeOK /\ HookedHeads /\ UnhookedIsOriginal /\ ChainInv /\ CalleeFound /\ CalleeFound'
      BY CalleeIs, CalleeIsNext DEF HookInv
<1>2. /\ f \in Fitting /\ x \in LiveFixups /\ heap[x] \in Fixup /\ heap[x].size = n
      /\ SavesLoadedCode(x, f) \/ SavesRedirect(x, f)
      BY <1>1, TopFixup
<1>3. \A g \in Functions \ {f} : Hooked(g)' <=> Hooked(g)
      BY <1>1, RestoredHead
<1>4. HeadLen[f] \in 9 .. 24 /\ f \in Nat
      BY <1>2, HeadFacts
<1>5. PICK s : IsLiveStack(s, f)
      BY DEF Stacked
<1> DEFINE t == SubSeq(s, 1, Len(s) - 1)
<1>6. /\ IsLiveStack(t, f)'
      /\ s # <<>> /\ s[Len(s)] = x
      /\ \A z \in LiveFixups : z # x => heap'[z] = heap[z] /\ z \in LiveFixups'
      /\ \A g \in Functions \ {f} : \A u : IsLiveStack(u, g) => IsLiveStack(u, g)'
      BY <1>5, RemovePops
<1>7. /\ s \in Seq(LiveFixups) /\ IsStack(s, f) /\ \A i, j \in DOMAIN s : s[i] = s[j] => i = j
      BY <1>5 DEF IsLiveStack
<1>8. /\ Len(s) \in Nat /\ Len(s) - 1 \in Nat /\ DOMAIN s = 1 .. Len(s)
      /\ Len(t) = Len(s) - 1
      /\ \A i \in 1 .. Len(s) - 1 : t[i] = s[i]
      BY <1>6, <1>7, WithoutLast
<1> HIDE DEF t
<1>9. \A i \in 1 .. Len(s) - 1 : s[i] \in LiveFixups /\ heap'[s[i]] = heap[s[i]]
      <2>1. ASSUME NEW i \in 1 .. Len(s) - 1 PROVE s[i] \in LiveFixups /\ heap'[s[i]] = heap[s[i]]
            <3>1. i \in DOMAIN s /\ Len(s) \in DOMAIN s /\ i # Len(s)
                  BY <1>8
            <3>2. s[i] # x
                  BY <1>6, <1>7, <3>1
            <3>3. s[i] \in LiveFixups
                  BY <1>7, <3>1
            <3>4. QED BY <1>6, <3>2, <3>3
      <2>2. QED BY <2>1
<1>10. Chain(f) # <<>> /\ Chain(f)' = SubSeq(Chain(f), 1, Len(Chain(f)) - 1)
      <2> DEFINE before == [i \in 1 .. Len(s) |->
                               [to |-> heap[s[i]].redirect, mode |-> heap[s[i]].op]]
                 after == [i \in 1 .. Len(s) - 1 |->
                               [to |-> heap'[t[i]].redirect, mode |-> heap'[t[i]].op]]
      <2>1. Chain(f) = before
            BY <1>5, ChainIs
      <2>2. Chain(f)' = after
            <3>1. \A u : IsLiveStack(u, f)' =>
                     Chain(f)' = [i \in 1 .. Len(u) |->
                                     [to |-> heap'[u[i]].redirect, mode |-> heap'[u[i]].op]]
                  BY ChainIsNext
            <3>2. QED BY <1>6, <1>8, <3>1
      <2>3. \A i \in 1 .. Len(s) - 1 : after[i] = before[i]
            BY <1>8, <1>9
      <2> DEFINE Entries == {before[i] : i \in 1 .. Len(s)}
      <2>4. before \in Seq(Entries) /\ Len(before) = Len(s)
            <3>1. before \in [1 .. Len(s) -> Entries]
                  OBVIOUS
            <3> HIDE DEF before, Entries
            <3>2. QED BY <1>8, <3>1
      <2>5. before # <<>> /\ SubSeq(before, 1, Len(before) - 1) = [i \in 1 .. Len(s) - 1 |-> before[i]]
            <3> HIDE DEF before, Entries
            <3>1. before # <<>>
                  BY <1>8, <2>4
            <3>2. SubSeq(before, 1, Len(before) - 1) = [i \in 1 .. Len(s) - 1 |-> before[i]]
                  BY <1>8, <2>4
            <3>3. QED BY <3>1, <3>2
      <2>6. after = [i \in 1 .. Len(s) - 1 |-> before[i]]
            <3> HIDE DEF before
            <3>1. QED BY <2>3
      <2>7. QED BY <2>1, <2>2, <2>5, <2>6
<1>11. ASSUME NEW g \in Functions \ {f}
       PROVE  /\ Chain(g)' = Chain(g)
              /\ Hooked(g) => \A c \in Sites : InHead(c, g) => Callee(c)' = Callee(c)
              /\ \E u : IsLiveStack(u, g)'
      <2>1. PICK u : IsLiveStack(u, g)
            BY DEF Stacked
      <2>2. IsLiveStack(u, g)'
            BY <1>6, <2>1
      <2>3. \A i \in 1 .. Len(u) : heap'[u[i]] = heap[u[i]]
            <3>1. \A i \in DOMAIN u : u[i] # x
                  BY <2>1, StacksApart
            <3>2. DOMAIN u = 1 .. Len(u) /\ \A i \in DOMAIN u : u[i] \in LiveFixups
                  BY <2>1 DEF IsLiveStack
            <3>3. QED BY <1>6, <3>1, <3>2
      <2>4. QED BY <1>3, <2>1, <2>2, <2>3, OtherSeen
<1>12. ASSUME NEW c \in Sites PROVE Callee(c)' = Callee(c)
      <2>1. c \in Text /\ c \in Nat
            BY DEF Sites, Text
      <2>2. CASE InHead(c, f)
            <3>1. Callee(c) = heap[s[1]].saved[c - f].arg
                  BY <1>1, <1>5, <2>2 DEF CalleeFound
            <3>2. CASE Len(s) # 1
                  <4>1. 1 \in 1 .. Len(s) - 1
                        BY <1>8, <3>2
                  <4>2. t[1] = s[1] /\ heap'[s[1]] = heap[s[1]]
                        BY <1>8, <1>9, <4>1
                  <4>3. Hooked(f)'
                        <5>1. t # <<>>
                              BY <1>8, <3>2
                        <5>2. QED BY <1>6, <5>1 DEF IsLiveStack, IsStack
                  <4>4. Callee(c)' = heap'[t[1]].saved[c - f].arg
                        <5>1. \A u : IsLiveStack(u, f)' => Callee(c)' = heap'[u[1]].saved[c - f].arg
                              BY <1>1, <2>2, <4>3 DEF CalleeFound, InHead
                        <5>2. QED BY <1>6, <5>1
                  <4>5. QED BY <3>1, <4>2, <4>4
            <3>3. CASE Len(s) = 1
                  <4>1. s[1] = x /\ 1 \in DOMAIN s
                        BY <1>6, <1>8, <3>3
                  <4>2. ~Hooked(f)'
                        <5>1. t = <<>>
                              BY <1>6, <1>8, <3>3 DEF IsLiveStack
                        <5>2. QED BY <1>6, <5>1 DEF IsLiveStack, IsStack
                  <4>3. ~ImageHooked(heap[x].saved)
                        BY <1>7, <4>1 DEF IsStack
                  <4>4. SavesLoadedCode(x, f)
                        BY SMTT(20), <1>2, <4>3 DEF SavesRedirect, IsHookAt, ImageHooked, Branch, SavedSize
                  <4>5. n = HeadLen[f]
                        BY <1>2, <4>4 DEF SavesLoadedCode
                  <4>6. c \in f .. f + n - 1
                        BY <2>2, <4>5 DEF InHead
                  <4>7. text'[c] = heap[x].saved[c - f]
                        BY <2>1, <4>6 DEF Restored
                  <4>8. \A g \in Functions : Hooked(g)' => ~InHead(c, g)
                        <5>1. ASSUME NEW g \in Functions, Hooked(g)' PROVE ~InHead(c, g)
                              <6>1. g # f /\ Hooked(g)
                                    BY <1>3, <4>2, <5>1
                              <6>2. g \in Fitting
                                    BY <1>1, <6>1 DEF HookedHeads
                              <6>3. QED BY <1>2, <2>1, <2>2, <6>1, <6>2, HeadsDisjoint
                        <5>2. QED BY <5>1
                  <4>9. Callee(c)' = text'[c].arg
                        BY <1>1, <4>8 DEF CalleeFound, InHead
                  <4>10. QED BY <3>1, <4>1, <4>7, <4>9
            <3>4. QED BY <3>2, <3>3
      <2>3. CASE \E g \in Functions \ {f} : Hooked(g) /\ InHead(c, g)
            BY <1>11, <2>3
      <2>4. CASE ~InHead(c, f) /\ \A g \in Functions \ {f} : Hooked(g) => ~InHead(c, g)
            <3>1. Callee(c) = text[c].arg
                  BY <1>1, <2>4 DEF CalleeFound
            <3>2. Callee(c)' = text'[c].arg
                  BY <1>1, <1>3, <2>4 DEF CalleeFound, InHead
            <3>3. n \in 9 .. HeadLen[f]
                  BY <1>2, <1>4 DEF SavesLoadedCode, SavesRedirect
            <3>4. c \notin f .. f + n - 1
                  BY <1>4, <2>1, <2>4, <3>3 DEF InHead
            <3>5. text'[c] = text[c]
                  BY <2>1, <3>4 DEF Restored
            <3>6. QED BY <3>1, <3>2, <3>5
      <2>5. QED BY <2>2, <2>3, <2>4
<1>13. Stacked'
      BY <1>6, <1>11 DEF Stacked
<1>14. QED BY <1>10, <1>11, <1>12, <1>13

\* redirect_call_within_function changes a call that no redirect has moved.
LEMMA CallSeen ==
    ASSUME HookInv, HookInv', Stacked, fault = "none",
           NEW c \in Text, text[c].op = "call", NEW r,
           text' = [text EXCEPT ![c].arg = r], heap' = heap, leaked' = leaked
    PROVE  /\ c \in Sites
           /\ \A f \in Functions : Chain(f)' = Chain(f)
           /\ \A d \in Sites : Callee(d)' = IF d = c THEN r ELSE Callee(d)
           /\ Stacked'
<1> USE DEF MinSpan, BRANCH, ENCODEDSIZE, MAX_REDIRECT_LENGTH
<1>1. TypeOK /\ HookedHeads /\ UnhookedIsOriginal /\ CalleeFound /\ CalleeFound'
      BY CalleeIs, CalleeIsNext DEF HookInv
<1>2. /\ \A a \in Text : a # c => text'[a] = text[a]
      /\ text'[c] = [text[c] EXCEPT !.arg = r]
      /\ text[c] \in Cell
      BY <1>1 DEF TypeOK
<1>3. SameInsn(text'[c], text[c]) /\ text'[c].arg = r
      BY <1>2 DEF Cell, SameInsn
<1>4. \A f \in Functions : /\ Hooked(f)' <=> Hooked(f)
                           /\ Hooked(f) => text'[f].arg = text[f].arg
      BY <1>1, <1>2, <1>3, RedirectCallKeepsHeads
<1>5. ASSUME NEW f \in Functions, Hooked(f) PROVE ~InHead(c, f)
      <2>1. SUFFICES ASSUME InHead(c, f) PROVE FALSE
            OBVIOUS
      <2>2. /\ f \in Fitting /\ IsHookAt(text, f, text[f].arg, text[f + 5].arg)
            /\ \A i \in 9 .. HeadLen[f] - 1 : text[f + i] = Nop
            BY <1>1, <1>5 DEF HookedHeads
      <2>3. HeadLen[f] \in 9 .. 24 /\ f \in Nat /\ c \in Nat
            BY <2>2, HeadFacts DEF Text
      <2>4. PICK i \in 0 .. HeadLen[f] - 1 : c = f + i
            <3>1. c - f \in 0 .. HeadLen[f] - 1 /\ c = f + (c - f)
                  BY <2>1, <2>3 DEF InHead
            <3>2. QED BY <3>1
      <2>5. CASE i = 0
            BY <2>2, <2>3, <2>4, <2>5 DEF IsHookAt, Branch
      <2>6. CASE i = 5
            BY <2>2, <2>4, <2>6 DEF IsHookAt, SavedSize
      <2>7. CASE i \in (1 .. 8) \ {5}
            BY <2>2, <2>4, <2>7 DEF IsHookAt, Inside
      <2>8. CASE i \in 9 .. HeadLen[f] - 1
            BY <2>2, <2>4, <2>8 DEF Nop
      <2>9. QED BY <2>3, <2>5, <2>6, <2>7, <2>8
<1>6. c \in Sites
      BY <1>1, <1>5 DEF Fitting, UnhookedIsOriginal, SameInsn, Sites
<1>7. ASSUME NEW f \in Functions
      PROVE  /\ Chain(f)' = Chain(f)
             /\ Hooked(f) => \A d \in Sites : InHead(d, f) => Callee(d)' = Callee(d)
             /\ \E s : IsLiveStack(s, f)'
      <2>1. PICK s : IsLiveStack(s, f)
            BY DEF Stacked
      <2>2. LiveFixups' = LiveFixups
            BY DEF LiveFixups
      <2>3. IsLiveStack(s, f)'
            <3>1. \A i \in DOMAIN s : s[i] \in LiveFixups' /\ heap'[s[i]] = heap[s[i]]
                  BY <2>1, <2>2 DEF IsLiveStack
            <3>2. QED BY <1>4, <2>1, <3>1, StackFrame
      <2>4. QED BY <1>4, <2>1, <2>3, OtherSeen
<1>8. ASSUME NEW d \in Sites PROVE Callee(d)' = IF d = c THEN r ELSE Callee(d)
      <2>1. d \in Text
            BY DEF Sites
      <2>2. CASE \E f \in Functions : Hooked(f) /\ InHead(d, f)
            BY <1>5, <1>7, <2>2
      <2>3. CASE \A f \in Functions : Hooked(f) => ~InHead(d, f)
            <3>1. Callee(d) = text[d].arg
                  BY <1>1, <2>3 DEF CalleeFound
            <3>2. Callee(d)' = text'[d].arg
                  BY <1>1, <1>4, <2>3 DEF CalleeFound, InHead
            <3>3. QED BY <1>2, <1>3, <2>1, <3>1, <3>2
      <2>4. QED BY <2>2, <2>3
<1>9. Stacked'
      BY <1>7 DEF Stacked
<1>10. QED BY <1>6, <1>7, <1>8, <1>9

-----------------------------------------------------------------------------
(* The refinement.                                                         *)

LEMMA InitImplements == Init => Abs!AbsInit /\ Stacked
<1> SUFFICES ASSUME Init PROVE Abs!AbsInit /\ Stacked
    OBVIOUS
<1>1. \A f \in Functions : ~Hooked(f)
      BY OriginalAssumption DEF Init, Hooked, LooksHooked
<1>2. \A f \in Functions : IsLiveStack(<<>>, f)
      BY <1>1 DEF IsLiveStack, IsStack
<1>3. \A f \in Functions : Chain(f) = <<>>
      BY <1>2, StackIs DEF Chain
<1>4. HookedHeads
      BY <1>1 DEF HookedHeads
<1>5. \A c \in Sites : Callee(c) = Original[c].arg
      BY <1>1, <1>4, CalleeIs DEF CalleeFound, Init
<1>6. Stacked
      BY <1>2 DEF Stacked
<1>7. QED BY <1>3, <1>5, <1>6 DEF Abs!AbsInit, Init

\* What the code does is a step of HookAbs, or nothing it can see.
LEMMA NextImplements ==
    HookInv /\ HookInv' /\ Stacked /\ [Next]_vars => [Abs!AbsNext]_(Abs!absvars) /\ Stacked'
<1> SUFFICES ASSUME HookInv, HookInv', Stacked, [Next]_vars
             PROVE  [Abs!AbsNext]_(Abs!absvars) /\ Stacked'
    OBVIOUS
<1> DEFINE chain == [f \in Functions |-> Chain(f)]
           callee == [c \in Sites |-> Callee(c)]
           SameChains == \A f \in Functions : Chain(f)' = Chain(f)
           SameCallees == \A c \in Sites : Callee(c)' = Callee(c)
<1> USE DEF MinSpan, BRANCH, ENCODEDSIZE, MAX_REDIRECT_LENGTH
<1>1. TypeOK /\ HookedHeads /\ UnhookedIsOriginal
      BY DEF HookInv
<1>2. ASSUME SameChains PROVE chain' = chain
      BY <1>2
<1>3. ASSUME SameCallees PROVE callee' = callee
      BY <1>3
<1>4. ASSUME NEW x \in FixupIds, heap[x] = Free, fault = "none", NEW block, block # Free,
             heap' = [heap EXCEPT ![x] = block], leaked' \subseteq leaked \cup {x}, text' = text
      PROVE  SameChains /\ SameCallees /\ Stacked'
      <2>1. \A z \in LiveFixups : z \in LiveFixups' /\ heap'[z] = heap[z]
            BY <1>1, <1>4 DEF TypeOK, LiveFixups
      <2>2. QED BY <1>4, <2>1, NothingSeen
<1>5. ASSUME NEW f \in Functions, NEW r \in Callbacks, NEW flags \in FlagChoices,
             InsertFailsOnFixup(f, r, flags) \/ InsertFailsOnCallsite(f, r, flags)
      PROVE  chain' = chain /\ callee' = callee /\ fault' = fault /\ Stacked'
      <2>1. PICK x \in FixupIds, n \in MinSpan .. MAX_REDIRECT_LENGTH :
               /\ Ready(f, flags, n, x)
               /\ \E block \in {EmptyFixup(r, flags), NewFixup(f, r, flags, n)} :
                     heap' = [heap EXCEPT ![x] = block]
               /\ leaked' = leaked \cup {x}
               /\ UNCHANGED <<text, writable, fault>>
            BY <1>5 DEF InsertFailsOnFixup, InsertFailsOnCallsite
      <2> PICK block \in {EmptyFixup(r, flags), NewFixup(f, r, flags, n)} :
                  heap' = [heap EXCEPT ![x] = block]
            BY <2>1
      <2>2. block # Free
            BY <2>1 DEF EmptyFixup, NewFixup, FixupOp, Free
      <2>3. SameChains /\ SameCallees /\ Stacked'
            BY <1>4, <2>1, <2>2 DEF Ready, Accepted
      <2>4. QED BY <1>2, <1>3, <2>1, <2>3
<1>6. ASSUME NEW f \in Functions, NEW r \in Callbacks, NEW flags \in FlagChoices,
             Insert(f, r, flags)
      PROVE  /\ fault = "none" /\ Stacked'
             /\ Abs!Die \/ Abs!Intercept(f, r, FixupOp(flags))
      <2>1. PICK x \in FixupIds, n \in MinSpan .. MAX_REDIRECT_LENGTH :
               /\ Ready(f, flags, n, x)
               /\ heap' = [heap EXCEPT ![x] = NewFixup(f, r, flags, n)]
               /\ \/ text' = Patched(text, f, n, x) /\ UNCHANGED fault
                  \/ fault' = "write" /\ UNCHANGED text
               /\ UNCHANGED leaked
            BY <1>6 DEF Insert
      <2>2. fault = "none" /\ heap[x] = Free /\ r \in Targets
            BY <2>1, LayoutAssumption DEF Ready, Accepted
      <2>3. CASE fault' = "write" /\ UNCHANGED text
            <3>1. NewFixup(f, r, flags, n) # Free
                  BY DEF NewFixup, FixupOp, Free
            <3>2. SameChains /\ SameCallees /\ Stacked'
                  BY <1>4, <2>1, <2>2, <2>3, <3>1
            <3>3. chain' = chain /\ callee' = callee
                  BY <1>2, <1>3, <3>2
            <3>4. Abs!Die
                  BY <2>3, <3>3 DEF Abs!Die
            <3>5. QED BY <2>2, <3>2, <3>4
      <2>4. CASE text' = Patched(text, f, n, x) /\ UNCHANGED fault
            <3>1. /\ Chain(f)' = Append(Chain(f), [to |-> r, mode |-> FixupOp(flags)])
                  /\ \A g \in Functions \ {f} : Chain(g)' = Chain(g)
                  /\ SameCallees /\ Stacked'
                  BY <2>1, <2>2, <2>4, InsertSeen
            <3>2. chain' = [chain EXCEPT ![f] = Append(@, [to |-> r, mode |-> FixupOp(flags)])]
                  BY <3>1
            <3>3. callee' = callee
                  BY <1>3, <3>1
            <3>4. Abs!Intercept(f, r, FixupOp(flags))
                  BY <2>4, <3>2, <3>3 DEF Abs!Intercept
            <3>5. QED BY <2>2, <3>1, <3>4
      <2>5. QED BY <2>1, <2>3, <2>4
<1>7. ASSUME NEW f \in Functions, Remove(f)
      PROVE  fault = "none" /\ Stacked' /\ (Abs!Die \/ Abs!Restore(f))
      <2>1. /\ fault = "none" /\ Hooked(f) /\ leaked' = leaked
            /\ \/ fault' # "none" /\ text' = text /\ heap' = heap
               \/ /\ text' = Restored(text, f, text[f + BRANCH].arg, heap[text[f].arg].saved)
                  /\ heap' = [heap EXCEPT ![text[f].arg] = Free]
                  /\ fault' = fault
            BY <1>7 DEF Remove, Hooked
      <2>2. CASE fault' # "none" /\ text' = text /\ heap' = heap
            <3>1. \A z \in LiveFixups : z \in LiveFixups' /\ heap'[z] = heap[z]
                  BY <2>1, <2>2 DEF LiveFixups
            <3>2. SameChains /\ SameCallees /\ Stacked'
                  BY <2>1, <2>2, <3>1, NothingSeen
            <3>3. chain' = chain /\ callee' = callee
                  BY <1>2, <1>3, <3>2
            <3>4. Abs!Die
                  BY <2>2, <3>3 DEF Abs!Die
            <3>5. QED BY <2>1, <3>2, <3>4
      <2>3. CASE /\ text' = Restored(text, f, text[f + BRANCH].arg, heap[text[f].arg].saved)
                 /\ heap' = [heap EXCEPT ![text[f].arg] = Free]
                 /\ fault' = fault
            <3>1. /\ Chain(f) # <<>> /\ Chain(f)' = SubSeq(Chain(f), 1, Len(Chain(f)) - 1)
                  /\ \A g \in Functions \ {f} : Chain(g)' = Chain(g)
                  /\ SameCallees /\ Stacked'
                  BY <2>1, <2>3, RemoveSeen
            <3>2. /\ chain[f] # <<>>
                  /\ chain' = [chain EXCEPT ![f] = SubSeq(@, 1, Len(@) - 1)]
                  BY <3>1
            <3>3. callee' = callee
                  BY <1>3, <3>1
            <3>4. Abs!Restore(f)
                  BY <2>3, <3>2, <3>3 DEF Abs!Restore
            <3>5. QED BY <2>1, <3>1, <3>4
      <2>4. QED BY <2>1, <2>2, <2>3
<1>8. ASSUME NEW f \in Functions, NEW target \in Callbacks, NEW r \in Callbacks,
             RedirectCall(f, target, r)
      PROVE  fault = "none" /\ Stacked' /\ (Abs!Die \/ \E c \in Sites : Abs!Retarget(c, r))
      <2>1. PICK c \in Text :
               /\ text[c].op = "call"
               /\ \/ text' = [text EXCEPT ![c].arg = r] /\ UNCHANGED fault
                  \/ fault' = "call" /\ UNCHANGED text
            BY <1>8 DEF RedirectCall, IsFirstCall
      <2>2. fault = "none" /\ heap' = heap /\ leaked' = leaked
            BY <1>8 DEF RedirectCall
      <2>3. CASE fault' = "call" /\ UNCHANGED text
            <3>1. \A z \in LiveFixups : z \in LiveFixups' /\ heap'[z] = heap[z]
                  BY <2>2 DEF LiveFixups
            <3>2. SameChains /\ SameCallees /\ Stacked'
                  BY <2>2, <2>3, <3>1, NothingSeen
            <3>3. chain' = chain /\ callee' = callee
                  BY <1>2, <1>3, <3>2
            <3>4. Abs!Die
                  BY <2>3, <3>3 DEF Abs!Die
            <3>5. QED BY <2>2, <3>2, <3>4
      <2>4. CASE text' = [text EXCEPT ![c].arg = r] /\ UNCHANGED fault
            <3>1. /\ c \in Sites /\ SameChains /\ Stacked'
                  /\ \A d \in Sites : Callee(d)' = IF d = c THEN r ELSE Callee(d)
                  BY <2>1, <2>2, <2>4, CallSeen
            <3>2. callee' = [callee EXCEPT ![c] = r]
                  BY <3>1
            <3>3. chain' = chain
                  BY <1>2, <3>1
            <3>4. Abs!Retarget(c, r)
                  BY <2>4, <3>2, <3>3 DEF Abs!Retarget
            <3>5. QED BY <2>2, <3>1, <3>4
      <2>5. QED BY <2>1, <2>3, <2>4
<1>9. CASE UNCHANGED vars
      <2>1. text' = text /\ heap' = heap /\ leaked' = leaked /\ fault' = fault
            BY <1>9 DEF vars
      <2>2. chain' = chain /\ callee' = callee
            <3>1. SameChains
                  BY <2>1 DEF Chain, Stack, IsStack, Hooked
            <3>2. SameCallees
                  BY <2>1 DEF Callee, Stack, IsStack, Hooked
            <3>3. QED BY <1>2, <1>3, <3>1, <3>2
      <2>3. Stacked'
            BY ZenonT(30), <2>1 DEF Stacked, IsLiveStack, IsStack, Hooked, LiveFixups
      <2>4. QED BY <2>1, <2>2, <2>3 DEF Abs!absvars
<1>10. ASSUME NEW f \in Functions, NEW flags \in FlagChoices, InsertWithoutMemory(f, flags)
       PROVE  fault = "none" /\ Stacked' /\ Abs!Die
      <2>1. fault = "none" /\ fault' = "null" /\ UNCHANGED <<text, heap, leaked>>
            BY <1>10 DEF InsertWithoutMemory, Accepted
      <2>2. \A z \in LiveFixups : z \in LiveFixups' /\ heap'[z] = heap[z]
            BY <2>1 DEF LiveFixups
      <2>3. SameChains /\ SameCallees /\ Stacked'
            BY <2>1, <2>2, NothingSeen
      <2>4. chain' = chain /\ callee' = callee
            BY <1>2, <1>3, <2>3
      <2>5. Abs!Die
            BY <2>1, <2>4 DEF Abs!Die
      <2>6. QED BY <2>1, <2>3, <2>5
<1>11. \A flags \in FlagChoices : FixupOp(flags) \in {"call", "jmp"}
      BY DEF FixupOp
<1>12. QED
      BY <1>5, <1>6, <1>7, <1>8, <1>9, <1>10, <1>11 DEF Next, Dead, Abs!AbsNext, Abs!absvars

\* Whatever is redirected, in whatever order redirects are stacked, removed
\* and refused, hook.c keeps the promise of hook.h: a stack of callbacks for
\* every function, of which the newest is removed first, and a call that is
\* redirected and no other.
THEOREM HookImplementsAbs == Spec => AbsSpec
<1>1. Init => Abs!AbsInit /\ Stacked
      BY InitImplements
<1>2. HookInv /\ HookInv' /\ Stacked /\ [Next]_vars => [Abs!AbsNext]_(Abs!absvars) /\ Stacked'
      BY NextImplements
<1>3. Spec => []HookInv
      BY HookInvariant
<1>4. QED BY <1>1, <1>2, <1>3, PTL DEF Spec, AbsSpec, Abs!AbsSpec

-----------------------------------------------------------------------------
(* Execution.  A run is the repetition of one step.                        *)

DidAt(t, pc) == IF pc.in = "text" THEN ExecText(t, pc.at) ELSE ExecFixup(pc.of, pc.at)

Execute(t, was) ==
    IF was.pc = End THEN was
    ELSE [pc    |-> DidAt(t, was.pc).pc,
          trace |-> IF DidAt(t, was.pc).did = <<>> THEN was.trace
                    ELSE Append(was.trace, DidAt(t, was.pc).did)]

LEMMA EnoughIs == Enough \in Nat /\ Enough >= 4 /\ 3 * (Enough - 3) >= 4 * TextLen + 1
<1>1. TextLen \in Nat
      BY LayoutAssumption
<1>2. QED BY <1>1 DEF Enough

LEMMA StepsAre ==
    ASSUME NEW t, NEW f
    PROVE  /\ Steps(t, f)[0] = [pc |-> AtText(f), trace |-> <<>>]
           /\ \A k \in 1 .. Enough : Steps(t, f)[k] = Execute(t, Steps(t, f)[k - 1])
<1> DEFINE S == 0 .. Enough
           First == [pc |-> AtText(f), trace |-> <<>>]
           Is(run) == run = [k \in S |-> IF k = 0 THEN First ELSE Execute(t, run[k - 1])]
           Upto(n) == \E run : \A k \in S : k <= n =>
                         run[k] = IF k = 0 THEN First ELSE Execute(t, run[k - 1])
           Good == {n \in Nat : Upto(n)}
<1>0. Enough \in Nat
      BY EnoughIs
<1> HIDE DEF First
<1>1. 0 \in Good
  <2> DEFINE run == [k \in S |-> First]
  <2>1. \A k \in S : k <= 0 => run[k] = First /\ k = 0
        BY <1>0
  <2>2. QED BY <2>1
<1>2. ASSUME NEW n \in Nat, n \in Good PROVE n + 1 \in Good
  <2>1. PICK run : \A k \in S : k <= n => run[k] = IF k = 0 THEN First ELSE Execute(t, run[k - 1])
        BY <1>2
  <2> DEFINE next == [k \in S |-> IF k <= n THEN run[k] ELSE Execute(t, run[k - 1])]
  <2>2. ASSUME NEW k \in S, k <= n + 1
        PROVE  next[k] = IF k = 0 THEN First ELSE Execute(t, next[k - 1])
    <3>1. CASE k = 0
          BY <2>1, <3>1, <1>0
    <3>2. CASE k # 0
      <4>1. k - 1 \in S /\ k - 1 <= n
            BY <1>0, <2>2, <3>2
      <4>2. next[k - 1] = run[k - 1]
            BY <4>1
      <4>3. next[k] = Execute(t, run[k - 1])
            BY <2>1, <3>2
      <4>4. QED BY <3>2, <4>2, <4>3
    <3>3. QED BY <3>1, <3>2
  <2> HIDE DEF next
  <2>3. QED BY <2>2
<1>3. Nat \subseteq Good
  <2> HIDE DEF Good
  <2>1. QED BY <1>1, <1>2, NatSet
<1>4. PICK g : \A k \in S : k <= Enough => g[k] = IF k = 0 THEN First ELSE Execute(t, g[k - 1])
      BY <1>0, <1>3
<1> DEFINE h == [k \in S |-> g[k]]
<1>5. Is(h)
  <2>1. ASSUME NEW k \in S PROVE h[k] = IF k = 0 THEN First ELSE Execute(t, h[k - 1])
    <3>1. k <= Enough /\ (k # 0 => k - 1 \in S)
          BY <1>0
    <3>2. QED BY <1>4, <3>1
  <2>2. h = [k \in S |-> h[k]]
        OBVIOUS
  <2> HIDE DEF h
  <2>3. QED BY <2>1, <2>2
<1>6. Steps(t, f) = CHOOSE run : Is(run)
      BY DEF Steps, Execute, DidAt, First
<1> HIDE DEF Is
<1>7. Is(Steps(t, f))
      BY <1>5, <1>6
<1>8. Steps(t, f) = [k \in S |-> IF k = 0 THEN First ELSE Execute(t, Steps(t, f)[k - 1])]
      BY <1>7 DEF Is
<1>9. 0 \in S /\ \A k \in 1 .. Enough : k \in S /\ k # 0
      BY <1>0
<1>10. QED BY <1>8, <1>9 DEF First

-----------------------------------------------------------------------------
(* Every run ends.                                                         *)

\* Code that runs the same wherever it is, from its start to its end at n.
GoodImage(image, n) ==
    /\ image[0].op # "tail"
    /\ \A i \in 0 .. n - 1 : image[i].op # "tail" =>
          /\ image[i].op \in {"plain", "nop"}
          /\ image[i].len \in Nat \ {0} /\ i + image[i].len <= n
          /\ i + image[i].len < n => image[i + image[i].len].op # "tail"

\* A fixup that goes back to behind the head of h.
GoesBack(x, h) ==
    /\ heap[x] # Free
    /\ heap[x].size \in MinSpan .. MAX_REDIRECT_LENGTH
    /\ heap[x].resume = h + heap[x].size /\ h + heap[x].size <= TextLen
    /\ heap[x].op # "jmp" => GoodImage(heap[x].saved, heap[x].size)

Sane(t) == \A a \in Text :
    /\ t[a].op \in Ops
    /\ t[a].op \in {"plain", "call", "nop"} => t[a].len \in Nat \ {0}
    /\ t[a].op = "jmp" /\ t[a].arg \in FixupIds => GoesBack(t[a].arg, a)

\* Where the processor is, how far from the end at most: three steps for four
\* bytes, as a redirect of nine bytes or more takes three steps more.
Within(pc, b) ==
    \/ pc = End
    \/ \E a \in Nat : pc = AtText(a) /\ b >= 3 /\ (a \in Text => b >= 4 * (TextLen - a) + 3)
    \/ \E x \in FixupIds, h \in Nat :
          GoesBack(x, h) /\ pc = InFixup(x, 0) /\ b >= 4 * (TextLen - h)
    \/ \E x \in FixupIds, h \in Nat : \E j \in 0 .. heap[x].size :
          /\ GoesBack(x, h) /\ heap[x].op # "jmp" /\ pc = InFixup(x, BRANCH + j)
          /\ j # heap[x].size => heap[x].saved[j].op # "tail"
          /\ b >= 4 * (TextLen - h) - 3 - 3 * j

LEMMA StepIs ==
    ASSUME NEW t, NEW s
    PROVE  /\ s.pc = End => Execute(t, s) = s
           /\ \A a : s.pc = AtText(a) => Execute(t, s).pc = ExecText(t, a).pc
           /\ \A x, i : s.pc = InFixup(x, i) =>
                 Execute(t, s).pc = End \/ Execute(t, s).pc = FixupInsn(x, i).pc
BY DEF Execute, DidAt, End, AtText, InFixup, ExecFixup

LEMMA TextStep ==
    ASSUME NEW t, Sane(t), NEW a \in Nat
    PROVE  \/ ExecText(t, a).pc = End
           \/ /\ a \in Text /\ t[a].op \in {"plain", "call", "nop"}
              /\ t[a].len \in Nat \ {0} /\ ExecText(t, a).pc = AtText(a + t[a].len)
           \/ /\ a \in Text /\ t[a].op = "jmp" /\ t[a].arg \in FixupIds
              /\ ExecText(t, a).pc = InFixup(t[a].arg, 0)
<1>1. CASE a \notin Text \/ t[a].op \in {"bad", "tail", "size"}
      BY <1>1 DEF ExecText
<1>2. CASE a \in Text /\ t[a].op \notin {"bad", "tail", "size"}
  <2>1. t[a].op \in {"plain", "call", "jmp", "ret", "nop"}
        BY <1>2 DEF Sane, Ops
  <2>2. CASE t[a].op = "jmp"
        BY <1>2, <2>2 DEF ExecText
  <2>3. CASE t[a].op = "ret"
        BY <1>2, <2>3 DEF ExecText
  <2>4. CASE t[a].op = "call"
        BY <1>2, <2>4 DEF ExecText, Sane
  <2>5. CASE t[a].op = "nop"
        BY <1>2, <2>5 DEF ExecText, Sane
  <2>6. CASE t[a].op = "plain"
        BY <1>2, <2>6 DEF ExecText, Sane
  <2>7. QED BY <2>1, <2>2, <2>3, <2>4, <2>5, <2>6
<1>3. QED BY <1>1, <1>2

LEMMA FixupStep ==
    ASSUME NEW x, NEW h \in Nat, GoesBack(x, h)
    PROVE  /\ heap[x].op = "jmp" => FixupInsn(x, 0) = [pc |-> End, did |-> <<"redirect", heap[x].redirect>>]
           /\ heap[x].op # "jmp" =>
                /\ FixupInsn(x, 0) = [pc |-> InFixup(x, BRANCH), did |-> <<"redirect", heap[x].redirect>>]
                /\ FixupInsn(x, BRANCH + heap[x].size) = [pc |-> AtText(h + heap[x].size), did |-> <<>>]
                /\ \A j \in 0 .. heap[x].size - 1 : heap[x].saved[j].op # "tail" =>
                     LET c == heap[x].saved[j] IN
                     FixupInsn(x, BRANCH + j) =
                       [pc |-> InFixup(x, BRANCH + (j + c.len)),
                        did |-> IF c.op = "plain" THEN <<"exec", c.arg>> ELSE <<>>]
<1>1. heap[x] # Free /\ heap[x].size \in 9 .. 24 /\ heap[x].resume = h + heap[x].size
      BY DEF GoesBack, MinSpan, MAX_REDIRECT_LENGTH, BRANCH, ENCODEDSIZE
<1>2. heap[x].op = "jmp" => FixupInsn(x, 0) = [pc |-> End, did |-> <<"redirect", heap[x].redirect>>]
      BY <1>1 DEF FixupInsn
<1>3. heap[x].op # "jmp" =>
        FixupInsn(x, 0) = [pc |-> InFixup(x, BRANCH), did |-> <<"redirect", heap[x].redirect>>]
      BY <1>1 DEF FixupInsn
<1>4. FixupInsn(x, BRANCH + heap[x].size) = [pc |-> AtText(h + heap[x].size), did |-> <<>>]
  <2> DEFINE i == BRANCH + heap[x].size
  <2>1. i # 0
        BY <1>1 DEF BRANCH
  <2>2. i = BRANCH + heap[x].size
        OBVIOUS
  <2> HIDE DEF i
  <2>3. FixupInsn(x, i) = [pc |-> AtText(heap[x].resume), did |-> <<>>]
        BY <1>1, <2>1, <2>2 DEF FixupInsn
  <2>4. QED BY <1>1, <2>2, <2>3
<1>5. ASSUME heap[x].op # "jmp", NEW j \in 0 .. heap[x].size - 1, heap[x].saved[j].op # "tail"
      PROVE  LET c == heap[x].saved[j] IN
             FixupInsn(x, BRANCH + j) =
               [pc |-> InFixup(x, BRANCH + (j + c.len)),
                did |-> IF c.op = "plain" THEN <<"exec", c.arg>> ELSE <<>>]
  <2> DEFINE c == heap[x].saved[j]
  <2>1. c.op \in {"plain", "nop"} /\ c.len \in Nat
        BY <1>5 DEF GoesBack, GoodImage
  <2>2. c.op \notin ControlFlow \cup {"bad", "tail"}
        BY <2>1 DEF ControlFlow
  <2>3. BRANCH + j # 0 /\ BRANCH + j # BRANCH + heap[x].size /\ (BRANCH + j) - BRANCH = j
        BY <1>1 DEF BRANCH
  <2>4. (BRANCH + j) + c.len = BRANCH + (j + c.len)
        BY <2>1 DEF BRANCH
  <2> DEFINE i == BRANCH + j
  <2>5. FixupInsn(x, i) = [pc |-> InFixup(x, i + c.len),
                           did |-> IF c.op = "plain" THEN <<"exec", c.arg>> ELSE <<>>]
    <3>1. i # 0 /\ i # BRANCH + heap[x].size /\ i - BRANCH = j
          BY <2>3
    <3> HIDE DEF i
    <3>2. QED BY <1>1, <2>2, <3>1 DEF FixupInsn
  <2>6. QED BY <2>4, <2>5
<1>6. QED BY <1>2, <1>3, <1>4, <1>5

LEMMA StepWithin ==
    ASSUME NEW t, Sane(t), NEW s, NEW b \in Int, Within(s.pc, b)
    PROVE  Within(Execute(t, s).pc, b - 3)
<1> DEFINE pc == Execute(t, s).pc
<1>0. TextLen \in Nat /\ Text = 0 .. TextLen - 1
      BY LayoutAssumption DEF Text
<1>1. CASE s.pc = End
  <2>1. pc = End
        BY <1>1, StepIs
  <2>2. QED BY <2>1 DEF Within
<1>2. ASSUME NEW a \in Nat, s.pc = AtText(a), b >= 3, a \in Text => b >= 4 * (TextLen - a) + 3
      PROVE  Within(pc, b - 3)
  <2>1. pc = ExecText(t, a).pc
        BY <1>2, StepIs
  <2>2. CASE ExecText(t, a).pc = End
        BY <2>1, <2>2 DEF Within
  <2>3. CASE /\ a \in Text /\ t[a].op \in {"plain", "call", "nop"}
             /\ t[a].len \in Nat \ {0} /\ ExecText(t, a).pc = AtText(a + t[a].len)
    <3> DEFINE l == t[a].len
    <3>1. a \in Nat /\ a < TextLen /\ l \in Nat \ {0} /\ b >= 4 * (TextLen - a) + 3
          BY <1>0, <1>2, <2>3
    <3> HIDE DEF l
    <3>2. a + l \in Nat /\ b - 3 >= 3 /\ (a + l \in Text => b - 3 >= 4 * (TextLen - (a + l)) + 3)
          BY <1>0, <3>1
    <3>3. pc = AtText(a + l)
          BY <2>1, <2>3 DEF l
    <3> HIDE DEF pc
    <3>4. QED BY <3>2, <3>3 DEF Within
  <2>4. CASE /\ a \in Text /\ t[a].op = "jmp" /\ t[a].arg \in FixupIds
             /\ ExecText(t, a).pc = InFixup(t[a].arg, 0)
    <3>1. GoesBack(t[a].arg, a)
          BY <2>4 DEF Sane
    <3>2. b - 3 >= 4 * (TextLen - a)
          BY <1>0, <1>2, <2>4
    <3>3. pc = InFixup(t[a].arg, 0)
          BY <2>1, <2>4
    <3> HIDE DEF pc
    <3>4. QED BY <2>4, <3>1, <3>2, <3>3 DEF Within
  <2>5. QED BY <2>2, <2>3, <2>4, TextStep
<1>3. ASSUME NEW x \in FixupIds, NEW h \in Nat, GoesBack(x, h), s.pc = InFixup(x, 0),
             b >= 4 * (TextLen - h)
      PROVE  Within(pc, b - 3)
  <2> SUFFICES ASSUME pc # End PROVE Within(pc, b - 3)
      BY DEF Within
  <2>1. pc = FixupInsn(x, 0).pc
        BY <1>3, StepIs
  <2>2. CASE heap[x].op = "jmp"
    <3>1. pc = End
      <4>1. FixupInsn(x, 0) = [pc |-> End, did |-> <<"redirect", heap[x].redirect>>]
            BY <1>3, <2>2, FixupStep
      <4>2. QED BY <2>1, <4>1
    <3>2. QED BY <3>1 DEF Within
  <2>3. CASE heap[x].op # "jmp"
    <3>1. pc = InFixup(x, BRANCH) /\ BRANCH = BRANCH + 0
      <4>1. FixupInsn(x, 0) = [pc |-> InFixup(x, BRANCH), did |-> <<"redirect", heap[x].redirect>>]
            BY <1>3, <2>3, FixupStep
      <4>2. BRANCH = BRANCH + 0
            BY DEF BRANCH
      <4>3. QED BY <2>1, <4>1, <4>2
    <3>2. 0 \in 0 .. heap[x].size /\ heap[x].saved[0].op # "tail"
          BY <1>3, <2>3 DEF GoesBack, GoodImage, MinSpan, MAX_REDIRECT_LENGTH, BRANCH, ENCODEDSIZE
    <3>3. b - 3 >= 4 * (TextLen - h) - 3 - 3 * 0
          BY <1>0, <1>3
    <3> HIDE DEF pc
    <3>4. QED BY <1>3, <2>3, <3>1, <3>2, <3>3 DEF Within
  <2>4. QED BY <2>2, <2>3
<1>4. ASSUME NEW x \in FixupIds, NEW h \in Nat, NEW j \in 0 .. heap[x].size,
             GoesBack(x, h), heap[x].op # "jmp", s.pc = InFixup(x, BRANCH + j),
             j # heap[x].size => heap[x].saved[j].op # "tail",
             b >= 4 * (TextLen - h) - 3 - 3 * j
      PROVE  Within(pc, b - 3)
  <2> SUFFICES ASSUME pc # End PROVE Within(pc, b - 3)
      BY DEF Within
  <2>1. pc = FixupInsn(x, BRANCH + j).pc
        BY <1>4, StepIs
  <2> DEFINE n == heap[x].size
  <2>2. n \in 9 .. 24 /\ h + n <= TextLen /\ j \in Nat
        BY <1>4 DEF GoesBack, MinSpan, MAX_REDIRECT_LENGTH, BRANCH, ENCODEDSIZE
  <2>3. CASE j = n
    <3>1. pc = AtText(h + n)
      <4>1. FixupInsn(x, BRANCH + n) = [pc |-> AtText(h + n), did |-> <<>>]
            BY <1>4, FixupStep
      <4>2. QED BY <2>1, <2>3, <4>1
    <3> HIDE DEF n, pc
    <3>2. h + n \in Nat /\ b - 3 >= 3 /\ (h + n \in Text => b - 3 >= 4 * (TextLen - (h + n)) + 3)
      <4>1. n \in Nat /\ n >= 9 /\ h \in Nat /\ TextLen \in Nat /\ h + n <= TextLen /\ b \in Int
            BY <1>0, <2>2
      <4>2. b >= 4 * (TextLen - h) - 3 - 3 * n
            BY <1>4, <2>3
      <4>3. b - 3 >= 4 * (TextLen - (h + n)) + 3
            BY <4>1, <4>2
      <4>4. QED BY <4>1, <4>3
    <3>3. QED BY <3>1, <3>2 DEF Within
  <2>4. CASE j # n
    <3> DEFINE c == heap[x].saved[j]
               k == j + c.len
    <3>1. j \in 0 .. n - 1 /\ c.op # "tail"
          BY <1>4, <2>2, <2>4
    <3>2. c.len \in Nat \ {0} /\ k <= n /\ (k < n => heap[x].saved[k].op # "tail")
          BY <1>4, <3>1 DEF GoesBack, GoodImage
    <3>3. pc = InFixup(x, BRANCH + k)
      <4>1. FixupInsn(x, BRANCH + j) =
              [pc |-> InFixup(x, BRANCH + (j + c.len)),
               did |-> IF c.op = "plain" THEN <<"exec", c.arg>> ELSE <<>>]
            BY <1>4, <3>1, FixupStep
      <4>2. QED BY <2>1, <4>1
    <3>4. k \in 0 .. n /\ k >= j + 1 /\ (k # n => heap[x].saved[k].op # "tail")
          BY <2>2, <3>2
    <3> HIDE DEF k, n, pc
    <3>5. b - 3 >= 4 * (TextLen - h) - 3 - 3 * k
          BY SMTT(20), <1>0, <1>4, <2>2, <3>4
    <3>6. QED BY <1>4, <3>3, <3>4, <3>5 DEF Within, n
  <2>5. QED BY <2>3, <2>4
<1>5. QED BY <1>1, <1>2, <1>3, <1>4 DEF Within

LEMMA RunWithin ==
    ASSUME NEW t, Sane(t), NEW f \in Text
    PROVE  \A k \in 0 .. Enough : Within(Steps(t, f)[k].pc, 4 * TextLen + 3 - 3 * k)
<1> DEFINE S(k) == Steps(t, f)[k]
           Left(k) == 4 * TextLen + 3 - 3 * k
           Good == {k \in Nat : k <= Enough => Within(S(k).pc, Left(k))}
<1>0. TextLen \in Nat /\ f \in Nat /\ f < TextLen /\ Enough \in Nat /\ Enough >= 4
      BY LayoutAssumption, EnoughIs DEF Text
<1>1. 0 \in Good
  <2>1. S(0).pc = AtText(f)
    <3>1. Steps(t, f)[0] = [pc |-> AtText(f), trace |-> <<>>]
          BY StepsAre
    <3>2. QED BY <3>1
  <2>2. Left(0) >= 3 /\ Left(0) >= 4 * (TextLen - f) + 3
        BY <1>0
  <2> HIDE DEF S, Left
  <2>3. QED BY <1>0, <2>1, <2>2 DEF Within
<1>2. ASSUME NEW k \in Nat, k \in Good PROVE k + 1 \in Good
  <2>1. SUFFICES ASSUME k + 1 <= Enough PROVE Within(S(k + 1).pc, Left(k + 1))
        OBVIOUS
  <2>2. Within(S(k).pc, Left(k)) /\ Left(k) \in Int /\ Left(k) - 3 = Left(k + 1)
        BY <1>0, <1>2, <2>1
  <2>3. k + 1 \in 1 .. Enough /\ (k + 1) - 1 = k
        BY <1>0, <2>1
  <2>4. S(k + 1) = Execute(t, S(k))
        BY <2>3, StepsAre
  <2> HIDE DEF S, Left
  <2>5. Within(Execute(t, S(k)).pc, Left(k) - 3)
        BY <2>2, StepWithin
  <2>6. QED BY <2>2, <2>4, <2>5
<1>3. Nat \subseteq Good
  <2> HIDE DEF Good
  <2>1. QED BY <1>1, <1>2, NatSet
<1>4. QED BY <1>0, <1>3

\* However many redirects a run meets, it is over before the last three steps.
LEMMA RunEnds ==
    ASSUME NEW t, Sane(t), NEW f \in Text
    PROVE  \A k \in Enough - 3 .. Enough : Steps(t, f)[k].pc = End
<1> DEFINE S(k) == Steps(t, f)[k]
           Left(k) == 4 * TextLen + 3 - 3 * k
<1>0. TextLen \in Nat /\ Enough \in Nat /\ Enough >= 4
      BY LayoutAssumption, EnoughIs
<1>4. ASSUME NEW k \in Enough - 3 .. Enough PROVE S(k).pc = End
  <2>1. k \in Nat /\ k <= Enough /\ Left(k) <= 2
        BY <1>0, EnoughIs
  <2>2. Within(S(k).pc, Left(k))
        BY <1>0, <2>1, RunWithin
  <2> DEFINE b == Left(k)
             pc == S(k).pc
  <2>3. b \in Int /\ b <= 2 /\ Within(pc, b)
        BY <1>0, <2>1, <2>2
  <2> HIDE DEF b, pc
  <2>4. ASSUME NEW a \in Nat, b >= 3 PROVE FALSE
        BY <2>3, <2>4
  <2>5. ASSUME NEW x \in FixupIds, NEW h \in Nat, GoesBack(x, h) PROVE ~(b >= 4 * (TextLen - h))
    <3>1. heap[x].size \in 9 .. 24 /\ h + heap[x].size <= TextLen
          BY <2>5 DEF GoesBack, MinSpan, MAX_REDIRECT_LENGTH, BRANCH, ENCODEDSIZE
    <3>2. QED BY <1>0, <2>3, <3>1
  <2>6. ASSUME NEW x \in FixupIds, NEW h \in Nat, GoesBack(x, h), NEW j \in 0 .. heap[x].size
        PROVE  ~(b >= 4 * (TextLen - h) - 3 - 3 * j)
    <3>1. heap[x].size \in 9 .. 24 /\ h + heap[x].size <= TextLen
          BY <2>6 DEF GoesBack, MinSpan, MAX_REDIRECT_LENGTH, BRANCH, ENCODEDSIZE
    <3>2. QED BY <1>0, <2>3, <3>1
  <2>7. pc = End
        BY <2>3, <2>4, <2>5, <2>6 DEF Within
  <2>8. QED BY <2>7 DEF pc
<1>5. QED BY <1>4

LEMMA Over ==
    ASSUME NEW t, NEW f, NEW j \in 0 .. Enough, Steps(t, f)[j].pc = End
    PROVE  Steps(t, f)[Enough] = Steps(t, f)[j]
<1> DEFINE S(k) == Steps(t, f)[k]
           Good == {k \in Nat : j + k <= Enough => S(j + k) = S(j)}
<1>0. Enough \in Nat /\ j \in Nat
      BY EnoughIs
<1>1. 0 \in Good
      BY <1>0
<1>2. ASSUME NEW k \in Nat, k \in Good PROVE k + 1 \in Good
  <2>1. SUFFICES ASSUME j + (k + 1) <= Enough PROVE S(j + (k + 1)) = S(j)
        OBVIOUS
  <2>2. S(j + k) = S(j)
        BY <1>0, <1>2, <2>1
  <2>3. j + (k + 1) \in 1 .. Enough /\ (j + (k + 1)) - 1 = j + k
        BY <1>0, <2>1
  <2>4. S(j + (k + 1)) = Execute(t, S(j + k))
        BY <2>3, StepsAre
  <2>5. S(j).pc = End
        OBVIOUS
  <2> HIDE DEF S
  <2>6. QED BY <2>2, <2>4, <2>5, StepIs
<1>3. Nat \subseteq Good
  <2> HIDE DEF Good
  <2>1. QED BY <1>1, <1>2, NatSet
<1>4. Enough - j \in Nat /\ j + (Enough - j) = Enough
      BY <1>0
<1>5. QED BY <1>3, <1>4

-----------------------------------------------------------------------------
(* What a run has done.                                                    *)

LEMMA AppendIs ==
    ASSUME NEW D, NEW s \in Seq(D), NEW d \in D
    PROVE  /\ Append(s, d) \in Seq(D) /\ Len(Append(s, d)) = Len(s) + 1
           /\ Append(s, d)[Len(s) + 1] = d
           /\ \A i \in 1 .. Len(s) : Append(s, d)[i] = s[i]
OBVIOUS

LEMMA AppendAfter ==
    ASSUME NEW D, NEW p \in D, NEW s \in Seq(D), NEW d \in D
    PROVE  <<p>> \o Append(s, d) = Append(<<p>> \o s, d)
OBVIOUS

LEMMA TracesAre ==
    ASSUME NEW t, NEW f
    PROVE  \E D : \A k \in 0 .. Enough : /\ Steps(t, f)[k].trace \in Seq(D)
                                         /\ DidAt(t, Steps(t, f)[k].pc).did \in D
<1> DEFINE S(k) == Steps(t, f)[k]
           D == {DidAt(t, S(k).pc).did : k \in 0 .. Enough}
           Good == {k \in Nat : k <= Enough => S(k).trace \in Seq(D)}
<1>0. Enough \in Nat
      BY EnoughIs
<1>1. 0 \in Good
  <2>1. Steps(t, f)[0] = [pc |-> AtText(f), trace |-> <<>>]
        BY StepsAre
  <2>2. S(0).trace = <<>>
        BY <2>1
  <2> HIDE DEF D, S
  <2>3. <<>> \in Seq(D)
        OBVIOUS
  <2>4. QED BY <2>2, <2>3
<1>2. ASSUME NEW k \in Nat, k \in Good PROVE k + 1 \in Good
  <2>1. SUFFICES ASSUME k + 1 <= Enough PROVE S(k + 1).trace \in Seq(D)
        OBVIOUS
  <2>2. k \in 0 .. Enough /\ S(k).trace \in Seq(D)
        BY <1>0, <1>2, <2>1
  <2>3. DidAt(t, S(k).pc).did \in D
        BY <2>2
  <2>4. k + 1 \in 1 .. Enough /\ (k + 1) - 1 = k
        BY <1>0, <2>1
  <2>5. S(k + 1) = Execute(t, S(k))
        BY <2>4, StepsAre
  <2> DEFINE step == DidAt(t, S(k).pc)
  <2>6. S(k).pc # End =>
          S(k + 1).trace = IF step.did = <<>> THEN S(k).trace ELSE Append(S(k).trace, step.did)
        BY <2>5 DEF Execute
  <2>7. S(k).pc = End => S(k + 1).trace = S(k).trace
        BY <2>5 DEF Execute
  <2>8. step.did \in D
        BY <2>3
  <2> HIDE DEF D, S, step
  <2>9. CASE S(k).pc = End
        BY <2>2, <2>7, <2>9
  <2>10. CASE S(k).pc # End /\ step.did = <<>>
         BY <2>2, <2>6, <2>10
  <2>11. CASE S(k).pc # End /\ step.did # <<>>
    <3>1. S(k + 1).trace = Append(S(k).trace, step.did)
          BY <2>6, <2>11
    <3>2. Append(S(k).trace, step.did) \in Seq(D)
          BY <2>2, <2>8, AppendIs
    <3>3. QED BY <3>1, <3>2
  <2>12. QED BY <2>9, <2>10, <2>11
<1>3. Nat \subseteq Good
  <2> HIDE DEF Good
  <2>1. QED BY <1>1, <1>2, NatSet
<1>4. ASSUME NEW k \in 0 .. Enough PROVE S(k).trace \in Seq(D) /\ DidAt(t, S(k).pc).did \in D
      BY <1>0, <1>3
<1> HIDE DEF D
<1>5. QED BY <1>4

-----------------------------------------------------------------------------
(* Behind a redirect, the two segments are the same.                       *)

Past(pc, e) ==
    \/ pc = End
    \/ \E a \in Nat : a >= e /\ pc = AtText(a)
    \/ \E x \in FixupIds, i \in Nat, h \in Nat :
          GoesBack(x, h) /\ h >= e /\ pc = InFixup(x, i)

LEMMA StepPast ==
    ASSUME NEW t, Sane(t), NEW s, NEW b \in Int, NEW e \in Nat, Within(s.pc, b), Past(s.pc, e)
    PROVE  Past(Execute(t, s).pc, e)
<1> DEFINE pc == Execute(t, s).pc
<1>1. CASE s.pc = End
      BY <1>1, StepIs DEF Past
<1>2. ASSUME NEW a \in Nat, a >= e, s.pc = AtText(a)
      PROVE  Past(pc, e)
  <2>1. pc = ExecText(t, a).pc
        BY <1>2, StepIs
  <2>2. CASE ExecText(t, a).pc = End
        BY <2>1, <2>2 DEF Past
  <2>3. CASE /\ a \in Text /\ t[a].op \in {"plain", "call", "nop"}
             /\ t[a].len \in Nat \ {0} /\ ExecText(t, a).pc = AtText(a + t[a].len)
    <3>1. a + t[a].len \in Nat /\ a + t[a].len >= e
          BY <1>2, <2>3
    <3>2. pc = AtText(a + t[a].len)
          BY <2>1, <2>3
    <3> HIDE DEF pc
    <3>3. QED BY <3>1, <3>2 DEF Past
  <2>4. CASE /\ a \in Text /\ t[a].op = "jmp" /\ t[a].arg \in FixupIds
             /\ ExecText(t, a).pc = InFixup(t[a].arg, 0)
    <3>1. GoesBack(t[a].arg, a)
          BY <2>4 DEF Sane
    <3>2. pc = InFixup(t[a].arg, 0)
          BY <2>1, <2>4
    <3> HIDE DEF pc
    <3>3. QED BY <1>2, <2>4, <3>1, <3>2 DEF Past
  <2>5. QED BY <2>2, <2>3, <2>4, TextStep
<1>3. ASSUME NEW x \in FixupIds, NEW i \in Nat, NEW h \in Nat,
             GoesBack(x, h), h >= e, s.pc = InFixup(x, i)
      PROVE  Past(pc, e)
  <2> SUFFICES ASSUME pc # End PROVE Past(pc, e)
      BY DEF Past
  <2>1. pc = FixupInsn(x, i).pc
        BY <1>3, StepIs
  <2>2. heap[x] # Free /\ heap[x].size \in Nat /\ heap[x].resume = h + heap[x].size
        BY <1>3 DEF GoesBack, MinSpan, MAX_REDIRECT_LENGTH, BRANCH, ENCODEDSIZE
  <2>3. CASE i = 0
    <3>1. pc = End \/ pc = InFixup(x, BRANCH)
          BY <2>1, <2>2, <2>3 DEF FixupInsn
    <3> HIDE DEF pc
    <3>2. QED BY <1>3, <3>1 DEF Past, BRANCH
  <2>4. CASE i # 0 /\ i = BRANCH + heap[x].size
    <3>1. pc = AtText(h + heap[x].size) /\ h + heap[x].size \in Nat /\ h + heap[x].size >= e
          BY <1>3, <2>1, <2>2, <2>4 DEF FixupInsn
    <3> HIDE DEF pc
    <3>2. QED BY <3>1 DEF Past
  <2>5. CASE i # 0 /\ i # BRANCH + heap[x].size
    <3>1. PICK j \in 0 .. heap[x].size :
             /\ heap[x].op # "jmp" /\ i = BRANCH + j
             /\ j # heap[x].size => heap[x].saved[j].op # "tail"
      <4>1. InFixup(x, i) # End /\ \A a : InFixup(x, i) # AtText(a)
            BY DEF InFixup, End, AtText
      <4>2. \A y, k : InFixup(x, i) = InFixup(y, k) => x = y /\ i = k
            BY DEF InFixup
      <4>3. PICK y \in FixupIds : \E k \in 0 .. heap[y].size :
               /\ heap[y].op # "jmp" /\ s.pc = InFixup(y, BRANCH + k)
               /\ k # heap[y].size => heap[y].saved[k].op # "tail"
            BY <1>3, <2>5, <4>1, <4>2 DEF Within
      <4>4. QED BY <1>3, <4>2, <4>3
    <3>2. j \in 0 .. heap[x].size - 1 /\ heap[x].saved[j].op # "tail"
          BY <2>2, <2>5, <3>1
    <3>3. pc = InFixup(x, BRANCH + (j + heap[x].saved[j].len))
      <4>1. FixupInsn(x, BRANCH + j) =
              [pc |-> InFixup(x, BRANCH + (j + heap[x].saved[j].len)),
               did |-> IF heap[x].saved[j].op = "plain" THEN <<"exec", heap[x].saved[j].arg>> ELSE <<>>]
            BY <1>3, <3>1, <3>2, FixupStep
      <4>2. QED BY <2>1, <3>1, <4>1
    <3>4. heap[x].saved[j].len \in Nat
          BY <1>3, <3>1, <3>2 DEF GoesBack, GoodImage
    <3>5. BRANCH + (j + heap[x].saved[j].len) \in Nat
          BY <3>2, <3>4 DEF BRANCH
    <3> HIDE DEF pc
    <3>6. QED BY <1>3, <3>3, <3>5 DEF Past
  <2>6. QED BY <2>3, <2>4, <2>5
<1>4. QED BY <1>1, <1>2, <1>3 DEF Past

-----------------------------------------------------------------------------
(* The run of a redirected function keeps step, two instructions behind in *)
(* the saved head and three after it, with the run of the function as it   *)
(* would be without its newest redirect.                                   *)

RedirectedHead(f, x, n) ==
    /\ f \in Functions /\ Hooked(f) /\ text[f].arg = x /\ text[f + BRANCH].arg = n
    /\ x \in FixupIds /\ GoesBack(x, f) /\ heap[x].size = n
    /\ Sane(text)
    /\ Runnable(x, 0, BRANCH)
    /\ heap[x].op # "jmp" => AllRunnable(x)

\* Part of an executable range is executable.
LEMMA PartRuns ==
    ASSUME NEW x, Address[x] \in Nat, NEW n \in Nat, Runnable(x, 0, n),
           NEW i \in Nat, NEW k \in Nat, i + k <= n
    PROVE  Runnable(x, i, k)
<1> DEFINE A == Address[x]
<1>1. A + i .. A + i + k - 1 \subseteq A + 0 .. A + 0 + n - 1
      OBVIOUS
<1>2. Pages(A + i, k) \subseteq Pages(A + 0, n)
      BY <1>1 DEF Pages
<1>3. QED BY <1>2 DEF Runnable

\* Nothing of such a fixup is in a page that cannot be executed.
LEMMA AllRuns ==
    ASSUME NEW f, NEW x, NEW n, RedirectedHead(f, x, n)
    PROVE  /\ ExecFixup(x, 0) = FixupInsn(x, 0)
           /\ heap[x].op # "jmp" =>
                /\ ExecFixup(x, BRANCH + n) = FixupInsn(x, BRANCH + n)
                /\ \A j \in 0 .. n - 1 : heap[x].saved[j].op # "tail" =>
                      ExecFixup(x, BRANCH + j) = FixupInsn(x, BRANCH + j)
<1>1. /\ heap[x] # Free /\ heap[x].size = n /\ n \in 9 .. 24 /\ Address[x] \in Nat
      BY HeapAssumption DEF RedirectedHead, GoesBack, MinSpan, MAX_REDIRECT_LENGTH, BRANCH, ENCODEDSIZE
<1>2. ExecFixup(x, 0) = FixupInsn(x, 0)
  <2>1. InsnLen(heap[x], 0) = BRANCH
        BY DEF InsnLen
  <2>2. QED BY <1>1, <2>1 DEF ExecFixup, RedirectedHead
<1>3. ASSUME heap[x].op # "jmp", NEW i \in Nat, InsnLen(heap[x], i) \in Nat,
             i + InsnLen(heap[x], i) <= n + 10
      PROVE  ExecFixup(x, i) = FixupInsn(x, i)
  <2>1. FixupSize(n) = n + 10
        BY DEF FixupSize, BRANCH
  <2>2. Runnable(x, 0, n + 10)
        BY <1>1, <1>3, <2>1 DEF RedirectedHead, AllRunnable
  <2>3. Runnable(x, i, InsnLen(heap[x], i))
        BY <1>1, <1>3, <2>2, PartRuns
  <2>4. QED BY <1>1, <2>3 DEF ExecFixup
<1>4. ASSUME heap[x].op # "jmp" PROVE ExecFixup(x, BRANCH + n) = FixupInsn(x, BRANCH + n)
  <2>1. BRANCH + n \in Nat /\ InsnLen(heap[x], BRANCH + n) = 5 /\ BRANCH + n + 5 <= n + 10
        BY <1>1 DEF InsnLen, BRANCH
  <2>2. QED BY <1>3, <1>4, <2>1
<1>5. ASSUME heap[x].op # "jmp", NEW j \in 0 .. n - 1, heap[x].saved[j].op # "tail"
      PROVE  ExecFixup(x, BRANCH + j) = FixupInsn(x, BRANCH + j)
  <2>1. heap[x].saved[j].len \in Nat /\ j + heap[x].saved[j].len <= n
        BY <1>1, <1>5 DEF RedirectedHead, GoesBack, GoodImage
  <2> DEFINE i == BRANCH + j
  <2>2. i \in Nat /\ i # 0 /\ i # BRANCH + heap[x].size /\ i - BRANCH = j
        BY <1>1 DEF BRANCH
  <2>3. InsnLen(heap[x], i) = heap[x].saved[j].len
    <3> HIDE DEF i
    <3>1. QED BY <2>2 DEF InsnLen
  <2>4. i + heap[x].saved[j].len <= n + 10
        BY <1>1, <2>1 DEF BRANCH
  <2> HIDE DEF i
  <2>5. ExecFixup(x, i) = FixupInsn(x, i)
        BY <1>3, <1>5, <2>1, <2>2, <2>3, <2>4
  <2>6. QED BY <2>5 DEF i
<1>6. QED BY <1>2, <1>4, <1>5

LEMMA WithoutIs ==
    ASSUME NEW f, NEW x, NEW n, RedirectedHead(f, x, n), heap[x].op # "jmp"
    PROVE  /\ Sane(Without(f))
           /\ \A a \in Text : a >= f + n => Without(f)[a] = text[a]
           /\ \A j \in 0 .. n - 1 : f + j \in Text /\ Without(f)[f + j] = heap[x].saved[j]
<1>0. TextLen \in Nat /\ Text = 0 .. TextLen - 1 /\ f \in Nat /\ f \in Text
      BY LayoutAssumption DEF Text, RedirectedHead
<1>1. n \in 9 .. 24 /\ f + n <= TextLen /\ GoodImage(heap[x].saved, n)
      BY DEF RedirectedHead, GoesBack, MinSpan, MAX_REDIRECT_LENGTH, BRANCH, ENCODEDSIZE
<1> DEFINE t == Without(f)
<1>2. t = [a \in Text |-> IF a \in f .. f + n - 1 THEN heap[x].saved[a - f] ELSE text[a]]
      BY DEF Without, Restored, RedirectedHead
<1>3. \A a \in Text : a >= f + n => t[a] = text[a]
      BY <1>0, <1>1, <1>2
<1>4. \A j \in 0 .. n - 1 : f + j \in Text /\ t[f + j] = heap[x].saved[j]
  <2>1. SUFFICES ASSUME NEW j \in 0 .. n - 1
                 PROVE  f + j \in Text /\ t[f + j] = heap[x].saved[j]
        OBVIOUS
  <2>2. f + j \in Text /\ f + j \in f .. f + n - 1 /\ (f + j) - f = j
        BY <1>0, <1>1
  <2>3. QED BY <1>2, <2>2
<1>5. Sane(t)
  <2>1. SUFFICES ASSUME NEW a \in Text
                 PROVE  /\ t[a].op \in Ops
                        /\ t[a].op \in {"plain", "call", "nop"} => t[a].len \in Nat \ {0}
                        /\ t[a].op = "jmp" /\ t[a].arg \in FixupIds => GoesBack(t[a].arg, a)
        BY DEF Sane
  <2>2. CASE a \in f .. f + n - 1
    <3> DEFINE j == a - f
    <3>1. j \in 0 .. n - 1 /\ t[a] = heap[x].saved[j]
          BY <1>0, <1>1, <1>2, <2>2
    <3> HIDE DEF j, t
    <3>2. \/ t[a].op = "tail"
          \/ t[a].op \in {"plain", "nop"} /\ t[a].len \in Nat \ {0}
          BY <1>1, <3>1 DEF GoodImage
    <3>3. QED BY <3>2 DEF Ops
  <2>3. CASE a \notin f .. f + n - 1
    <3>1. t[a] = text[a]
          BY <1>2, <2>3
    <3>2. Sane(text)
          BY DEF RedirectedHead
    <3> HIDE DEF t
    <3>3. QED BY <3>1, <3>2 DEF Sane
  <2>4. QED BY <2>2, <2>3
<1>6. QED BY <1>3, <1>4, <1>5

Entered(x) == <<"redirect", heap[x].redirect>>
Behind(x, s) == [pc |-> s.pc, trace |-> <<Entered(x)>> \o s.trace]

\* Through the branch at the head and into the callback.
LEMMA RunStarts ==
    ASSUME NEW f, NEW x, NEW n, RedirectedHead(f, x, n)
    PROVE  Steps(text, f)[2] = [pc |-> IF heap[x].op = "jmp" THEN End ELSE InFixup(x, BRANCH),
                                trace |-> <<Entered(x)>>]
<1> DEFINE S(k) == Steps(text, f)[k]
<1>1. S(0) = [pc |-> AtText(f), trace |-> <<>>]
      BY StepsAre
<1>2. 1 \in 1 .. Enough /\ 2 \in 1 .. Enough /\ 1 - 1 = 0 /\ 2 - 1 = 1
      BY EnoughIs
<1>3. S(1) = Execute(text, S(0)) /\ S(2) = Execute(text, S(1))
  <2>1. \A k \in 1 .. Enough : Steps(text, f)[k] = Execute(text, Steps(text, f)[k - 1])
        BY StepsAre
  <2>2. S(1) = Execute(text, S(1 - 1))
        BY <1>2, <2>1
  <2>3. S(2) = Execute(text, S(2 - 1))
        BY <1>2, <2>1
  <2> HIDE DEF S
  <2>4. QED BY <1>2, <2>2, <2>3
<1>4. /\ f \in Text /\ text[f].op = "jmp" /\ text[f].arg = x /\ x \in FixupIds /\ GoesBack(x, f) /\ f \in Nat
      BY LayoutAssumption DEF RedirectedHead, Hooked, LooksHooked, Text
<1>5. ExecText(text, f) = [pc |-> InFixup(x, 0), did |-> <<>>]
      BY <1>4 DEF ExecText
<1>6. ExecFixup(x, 0) = [pc |-> IF heap[x].op = "jmp" THEN End ELSE InFixup(x, BRANCH), did |-> Entered(x)]
      BY <1>4, FixupStep, AllRuns DEF Entered
<1> HIDE DEF S
<1>7. S(1) = [pc |-> InFixup(x, 0), trace |-> <<>>]
  <2>1. S(0).pc = AtText(f) /\ S(0).trace = <<>> /\ AtText(f) # End /\ AtText(f).in = "text" /\ AtText(f).at = f
        BY <1>1 DEF AtText, End
  <2>2. DidAt(text, S(0).pc) = [pc |-> InFixup(x, 0), did |-> <<>>]
        BY <1>5, <2>1 DEF DidAt
  <2>3. QED BY <1>3, <2>1, <2>2 DEF Execute
<1>8. S(2) = [pc |-> IF heap[x].op = "jmp" THEN End ELSE InFixup(x, BRANCH), trace |-> <<Entered(x)>>]
  <2>1. /\ S(1).pc = InFixup(x, 0) /\ S(1).trace = <<>> /\ InFixup(x, 0) # End
        /\ InFixup(x, 0).in # "text" /\ InFixup(x, 0).of = x /\ InFixup(x, 0).at = 0
        BY <1>7 DEF InFixup, End
  <2>2. DidAt(text, S(1).pc) =
          [pc |-> IF heap[x].op = "jmp" THEN End ELSE InFixup(x, BRANCH), did |-> Entered(x)]
        BY <1>6, <2>1 DEF DidAt
  <2>3. Entered(x) # <<>> /\ Append(<<>>, Entered(x)) = <<Entered(x)>>
        BY DEF Entered
  <2> DEFINE step == DidAt(text, S(1).pc)
             to   == IF heap[x].op = "jmp" THEN End ELSE InFixup(x, BRANCH)
  <2>4. step = [pc |-> to, did |-> Entered(x)]
        BY <2>2
  <2>5. S(2) = [pc |-> step.pc, trace |-> IF step.did = <<>> THEN S(1).trace
                                          ELSE Append(S(1).trace, step.did)]
        BY <1>3, <2>1 DEF Execute
  <2> HIDE DEF step, to
  <2>6. S(2) = [pc |-> to, trace |-> <<Entered(x)>>]
        BY <2>1, <2>3, <2>4, <2>5
  <2>7. QED BY <2>6 DEF to
<1>9. QED BY <1>8 DEF S

\* A step does not depend on what was done before.
LEMMA StepBehind ==
    ASSUME NEW t, NEW u, NEW s, NEW x, NEW D, s.trace \in Seq(D), Entered(x) \in D,
           DidAt(t, s.pc).did \in D, DidAt(t, s.pc) = DidAt(u, s.pc)
    PROVE  s.pc # End => Execute(u, Behind(x, s)) = Behind(x, Execute(t, s))
<1> SUFFICES ASSUME s.pc # End PROVE Execute(u, Behind(x, s)) = Behind(x, Execute(t, s))
    OBVIOUS
<1> DEFINE step == DidAt(t, s.pc)
<1>1. Behind(x, s).pc = s.pc /\ Behind(x, s).trace = <<Entered(x)>> \o s.trace
      BY DEF Behind
<1>2. Execute(u, Behind(x, s)) =
        [pc |-> step.pc, trace |-> IF step.did = <<>> THEN <<Entered(x)>> \o s.trace
                                   ELSE Append(<<Entered(x)>> \o s.trace, step.did)]
      BY <1>1 DEF Execute
<1>3. Execute(t, s) =
        [pc |-> step.pc, trace |-> IF step.did = <<>> THEN s.trace ELSE Append(s.trace, step.did)]
      BY DEF Execute
<1>4. <<Entered(x)>> \o Append(s.trace, step.did) = Append(<<Entered(x)>> \o s.trace, step.did)
      <2> HIDE DEF step
      <2>1. step.did \in D
            BY DEF step
      <2>2. QED BY <2>1, AppendAfter
<1> HIDE DEF step
<1>5. CASE step.did = <<>>
  <2>1. Execute(t, s) = [pc |-> step.pc, trace |-> s.trace]
        BY <1>3, <1>5
  <2>2. Execute(u, Behind(x, s)) = [pc |-> step.pc, trace |-> <<Entered(x)>> \o s.trace]
        BY <1>2, <1>5
  <2>3. QED BY <2>1, <2>2 DEF Behind
<1>6. CASE step.did # <<>>
  <2>1. Execute(t, s) = [pc |-> step.pc, trace |-> Append(s.trace, step.did)]
        BY <1>3, <1>6
  <2>2. Execute(u, Behind(x, s)) =
          [pc |-> step.pc, trace |-> <<Entered(x)>> \o Append(s.trace, step.did)]
        BY <1>2, <1>4, <1>6
  <2>3. QED BY <2>1, <2>2 DEF Behind
<1>7. QED BY <1>5, <1>6

LEMMA StepDoes ==
    ASSUME NEW t, NEW s, NEW to, NEW did,
           s.pc # End, DidAt(t, s.pc) = [pc |-> to, did |-> did]
    PROVE  Execute(t, s) = [pc |-> to, trace |-> IF did = <<>> THEN s.trace
                                                 ELSE Append(s.trace, did)]
BY DEF Execute

StepsAlike(f, x, j, D, tr) ==
    \E now \in Seq(D), m \in Nat :
        /\ m = j + heap[x].saved[j].len
        /\ Execute(Without(f), [pc |-> AtText(f + j), trace |-> tr]) =
              [pc |-> AtText(f + m), trace |-> now]
        /\ Execute(text, [pc |-> InFixup(x, BRANCH + j), trace |-> <<Entered(x)>> \o tr]) =
              [pc |-> InFixup(x, BRANCH + m), trace |-> <<Entered(x)>> \o now]

\* An instruction of the head runs alike where it was and where it was saved.
LEMMA HeadStep ==
    ASSUME NEW f, NEW x, NEW n, RedirectedHead(f, x, n), heap[x].op # "jmp",
           NEW j \in 0 .. n - 1, heap[x].saved[j].op # "tail",
           NEW D, Entered(x) \in D, NEW tr \in Seq(D),
           DidAt(Without(f), AtText(f + j)).did \in D
    PROVE  StepsAlike(f, x, j, D, tr)
<1> DEFINE t == Without(f)
           c == heap[x].saved[j]
           did == IF c.op = "plain" THEN <<"exec", c.arg>> ELSE <<>>
           m == j + c.len
           now == IF did = <<>> THEN tr ELSE Append(tr, did)
           s == [pc |-> AtText(f + j), trace |-> tr]
           r == [pc |-> InFixup(x, BRANCH + j), trace |-> <<Entered(x)>> \o tr]
<1>1. /\ c.op \in {"plain", "nop"} /\ c.len \in Nat
      /\ n \in Nat /\ f \in Nat /\ j \in Nat /\ heap[x].size = n /\ GoesBack(x, f)
  <2>1. heap[x].size = n /\ GoesBack(x, f) /\ f \in Functions
        BY DEF RedirectedHead
  <2>2. GoodImage(heap[x].saved, n)
        BY <2>1 DEF GoesBack
  <2>3. c.op \in {"plain", "nop"} /\ c.len \in Nat
        BY <2>2 DEF GoodImage
  <2>4. n \in Nat
        BY <2>1 DEF GoesBack, MinSpan, MAX_REDIRECT_LENGTH, BRANCH, ENCODEDSIZE
  <2>5. f \in Nat /\ j \in Nat
        BY <2>1, <2>4, LayoutAssumption DEF Text
  <2>6. QED BY <2>1, <2>3, <2>4, <2>5
<1>2. f + j \in Text /\ t[f + j] = c
      BY WithoutIs
<1>3. m \in Nat /\ (f + j) + c.len = f + m
  <2> DEFINE l == c.len
  <2>1. l \in Nat
        BY <1>1
  <2> HIDE DEF l
  <2>2. j + l \in Nat /\ (f + j) + l = f + (j + l)
        BY <1>1, <2>1
  <2>3. QED BY <2>2 DEF l
<1>4. ExecText(t, f + j) = [pc |-> AtText(f + m), did |-> did]
  <2> HIDE DEF t
  <2>1. CASE c.op = "plain"
    <3>1. ExecText(t, f + j) = [pc |-> AtText((f + j) + c.len), did |-> <<"exec", c.arg>>]
          BY <1>2, <2>1 DEF ExecText
    <3>2. QED BY <1>3, <2>1, <3>1
  <2>2. CASE c.op = "nop"
    <3>1. ExecText(t, f + j) = [pc |-> AtText((f + j) + c.len), did |-> <<>>]
          BY <1>2, <2>2 DEF ExecText
    <3>2. QED BY <1>3, <2>2, <3>1
  <2>3. QED BY <1>1, <2>1, <2>2
<1>5. ExecFixup(x, BRANCH + j) = [pc |-> InFixup(x, BRANCH + m), did |-> did]
  <2>1. heap[x].op # "jmp" => FixupInsn(x, BRANCH + j) = [pc |-> InFixup(x, BRANCH + m), did |-> did]
        BY <1>1, FixupStep
  <2>2. ExecFixup(x, BRANCH + j) = FixupInsn(x, BRANCH + j)
        BY AllRuns
  <2>3. QED BY <2>1, <2>2
<1>6. DidAt(t, AtText(f + j)) = [pc |-> AtText(f + m), did |-> did] /\ AtText(f + j) # End
      BY <1>4 DEF DidAt, AtText, End
<1>7. /\ DidAt(text, InFixup(x, BRANCH + j)) = [pc |-> InFixup(x, BRANCH + m), did |-> did]
      /\ InFixup(x, BRANCH + j) # End
      BY <1>5 DEF DidAt, InFixup, End
<1> HIDE DEF t, did, m
<1>8. did \in D
      BY <1>6 DEF t
<1>9. now \in Seq(D)
      BY <1>8
<1>10. <<Entered(x)>> \o Append(tr, did) = Append(<<Entered(x)>> \o tr, did)
       BY <1>8, AppendAfter
<1>11. Execute(t, s) = [pc |-> AtText(f + m), trace |-> now]
  <2> DEFINE to == AtText(f + m)
  <2>1. s.pc # End /\ DidAt(t, s.pc) = [pc |-> to, did |-> did] /\ s.trace = tr
        BY <1>6
  <2> HIDE DEF to, s
  <2>2. Execute(t, s) = [pc |-> to, trace |-> IF did = <<>> THEN s.trace ELSE Append(s.trace, did)]
        BY <2>1, StepDoes
  <2>3. QED BY <2>1, <2>2 DEF to
<1>12. Execute(text, r) = [pc |-> InFixup(x, BRANCH + m), trace |-> <<Entered(x)>> \o now]
  <2> DEFINE to == InFixup(x, BRANCH + m)
  <2>1. r.pc # End /\ DidAt(text, r.pc) = [pc |-> to, did |-> did] /\ r.trace = <<Entered(x)>> \o tr
        BY <1>7
  <2> HIDE DEF to, r
  <2>2. Execute(text, r) = [pc |-> to, trace |-> IF did = <<>> THEN r.trace ELSE Append(r.trace, did)]
        BY <2>1, StepDoes
  <2>3. (IF did = <<>> THEN r.trace ELSE Append(r.trace, did)) = <<Entered(x)>> \o now
        BY <1>10, <2>1
  <2> HIDE DEF now
  <2>4. QED BY <2>2, <2>3 DEF to
<1>13. m = j + heap[x].saved[j].len /\ m \in Nat
       BY <1>3 DEF m
<1> HIDE DEF now, s, r
<1>14. QED BY <1>9, <1>11, <1>12, <1>13 DEF StepsAlike, t, s, r

LEMMA TextIs ==
    ASSUME NEW t, NEW a \in Text
    PROVE  /\ t[a].op = "jmp" /\ t[a].arg \in FixupIds =>
                 ExecText(t, a) = [pc |-> InFixup(t[a].arg, 0), did |-> <<>>]
           /\ t[a].op = "jmp" /\ t[a].arg \notin FixupIds =>
                 ExecText(t, a) = [pc |-> End, did |-> <<"tailcall", t[a].arg>>]
           /\ t[a].op = "ret" => ExecText(t, a) = [pc |-> End, did |-> <<"ret">>]
           /\ t[a].op = "call" =>
                 ExecText(t, a) = [pc |-> AtText(a + t[a].len), did |-> <<"call", t[a].arg>>]
           /\ t[a].op = "nop" => ExecText(t, a) = [pc |-> AtText(a + t[a].len), did |-> <<>>]
           /\ t[a].op = "plain" =>
                 ExecText(t, a) = [pc |-> AtText(a + t[a].len), did |-> <<"exec", t[a].arg>>]
           /\ t[a].op \in {"bad", "tail", "size"} => ExecText(t, a) = [pc |-> End, did |-> <<"crash">>]
<1>1. ASSUME t[a].op = "jmp", t[a].arg \in FixupIds
      PROVE  ExecText(t, a) = [pc |-> InFixup(t[a].arg, 0), did |-> <<>>]
      BY <1>1 DEF ExecText
<1>2. ASSUME t[a].op = "jmp", t[a].arg \notin FixupIds
      PROVE  ExecText(t, a) = [pc |-> End, did |-> <<"tailcall", t[a].arg>>]
      BY <1>2 DEF ExecText
<1>3. ASSUME t[a].op = "ret" PROVE ExecText(t, a) = [pc |-> End, did |-> <<"ret">>]
      BY <1>3 DEF ExecText
<1>4. ASSUME t[a].op = "call"
      PROVE  ExecText(t, a) = [pc |-> AtText(a + t[a].len), did |-> <<"call", t[a].arg>>]
      BY <1>4 DEF ExecText
<1>5. ASSUME t[a].op = "nop"
      PROVE  ExecText(t, a) = [pc |-> AtText(a + t[a].len), did |-> <<>>]
      BY <1>5 DEF ExecText
<1>6. ASSUME t[a].op = "plain"
      PROVE  ExecText(t, a) = [pc |-> AtText(a + t[a].len), did |-> <<"exec", t[a].arg>>]
      BY <1>6 DEF ExecText
<1>7. ASSUME t[a].op \in {"bad", "tail", "size"}
      PROVE  ExecText(t, a) = [pc |-> End, did |-> <<"crash">>]
      BY <1>7 DEF ExecText
<1>8. QED BY <1>1, <1>2, <1>3, <1>4, <1>5, <1>6, <1>7

\* What is executed behind the head is the same in both segments.
LEMMA SameBehind ==
    ASSUME NEW f, NEW x, NEW n, RedirectedHead(f, x, n), heap[x].op # "jmp",
           NEW pc, Past(pc, f + n), pc # End
    PROVE  DidAt(Without(f), pc) = DidAt(text, pc)
<1>1. CASE \E a \in Nat : a >= f + n /\ pc = AtText(a)
  <2>1. PICK a \in Nat : a >= f + n /\ pc = AtText(a)
        BY <1>1
  <2>2. a \in Text => Without(f)[a] = text[a]
        BY <2>1, WithoutIs
  <2>3. ExecText(Without(f), a) = ExecText(text, a)
    <3> DEFINE t == Without(f)
    <3> HIDE DEF t
    <3>1. CASE a \notin Text \/ text[a].op \in {"bad", "tail", "size"}
          BY <2>2, <3>1 DEF ExecText, t
    <3>2. CASE a \in Text /\ text[a].op \notin {"bad", "tail", "size"}
      <4>1. t[a] = text[a]
            BY <2>2, <3>2 DEF t
      <4>2. text[a].op \in {"plain", "call", "jmp", "ret", "nop"}
            BY <3>2 DEF RedirectedHead, Sane, Ops
      <4>9. ExecText(t, a) = ExecText(text, a)
            BY <3>2, <4>1, <4>2, TextIs
      <4>10. QED BY <4>9 DEF t
    <3>3. QED BY <3>1, <3>2
  <2>4. QED BY <2>1, <2>3 DEF DidAt, AtText
<1>2. CASE \E y, i : pc = InFixup(y, i)
      BY <1>2 DEF DidAt, InFixup
<1>3. QED BY <1>1, <1>2 DEF Past

LEMMA RedirectRuns ==
    ASSUME NEW f, NEW x, NEW n, RedirectedHead(f, x, n)
    PROVE  Run(text, f) = IF heap[x].op = "jmp" THEN <<Entered(x)>>
                          ELSE <<Entered(x)>> \o Run(Without(f), f)
<1> DEFINE t == Without(f)
           A(k) == Steps(text, f)[k]
           B(k) == Steps(t, f)[k]
<1>0. /\ Enough \in Nat /\ Enough >= 4 /\ f \in Text /\ f \in Nat /\ f + n \in Nat
      /\ n \in 9 .. 24 /\ TextLen \in Nat
      BY EnoughIs, LayoutAssumption
         DEF RedirectedHead, GoesBack, MinSpan, MAX_REDIRECT_LENGTH, BRANCH, ENCODEDSIZE, Text
<1>1. CASE heap[x].op = "jmp"
  <2>1. Steps(text, f)[2] = [pc |-> End, trace |-> <<Entered(x)>>]
        BY <1>1, RunStarts
  <2>2. Steps(text, f)[2].pc = End /\ Steps(text, f)[2].trace = <<Entered(x)>> /\ 2 \in 0 .. Enough
        BY <1>0, <2>1
  <2>3. Steps(text, f)[Enough] = Steps(text, f)[2]
        BY <2>2, Over
  <2>4. QED BY <1>1, <2>2, <2>3 DEF Run
<1>2. CASE heap[x].op # "jmp"
  <2>1. Sane(t) /\ Sane(text)
        BY <1>2, WithoutIs DEF RedirectedHead
  <2>2. PICK D0 : \A k \in 0 .. Enough : /\ Steps(t, f)[k].trace \in Seq(D0)
                                          /\ DidAt(t, Steps(t, f)[k].pc).did \in D0
        BY TracesAre
  <2> DEFINE D == D0 \cup {Entered(x)}
  <2>3. \A k \in 0 .. Enough : B(k).trace \in Seq(D) /\ DidAt(t, B(k).pc).did \in D
        BY <2>2
  <2>4. Entered(x) \in D
        OBVIOUS
  <2> HIDE DEF D, t
  <2> DEFINE InHeadAt(k) ==
               \E j \in 0 .. n - 1 :
                  /\ heap[x].saved[j].op # "tail"
                  /\ B(k) = [pc |-> AtText(f + j), trace |-> B(k).trace]
                  /\ A(k + 2) = [pc |-> InFixup(x, BRANCH + j), trace |-> <<Entered(x)>> \o B(k).trace]
             IsBehind(k) == A(k + 3) = Behind(x, B(k)) /\ Past(B(k).pc, f + n)
             Good == {k \in Nat : k <= Enough - 3 => InHeadAt(k) \/ IsBehind(k)}
  <2>5. \A k \in 1 .. Enough : A(k) = Execute(text, A(k - 1)) /\ B(k) = Execute(t, B(k - 1))
        BY StepsAre
  <2>6. 0 \in Good
    <3>1. B(0) = [pc |-> AtText(f), trace |-> <<>>]
          BY StepsAre
    <3>2. A(2) = [pc |-> InFixup(x, BRANCH), trace |-> <<Entered(x)>>]
          BY <1>2, RunStarts
    <3>3. 0 \in 0 .. n - 1 /\ heap[x].saved[0].op # "tail"
          BY <1>0, <1>2 DEF RedirectedHead, GoesBack, GoodImage
    <3>4. f + 0 = f /\ BRANCH + 0 = BRANCH /\ 0 + 2 = 2
          BY <1>0 DEF BRANCH
    <3>5. <<Entered(x)>> \o <<>> = <<Entered(x)>>
          OBVIOUS
    <3> HIDE DEF A, B
    <3>6. B(0).trace = <<>>
          BY <3>1
    <3>7. /\ heap[x].saved[0].op # "tail"
          /\ B(0) = [pc |-> AtText(f + 0), trace |-> B(0).trace]
          /\ A(0 + 2) = [pc |-> InFixup(x, BRANCH + 0), trace |-> <<Entered(x)>> \o B(0).trace]
          BY <3>1, <3>2, <3>3, <3>4, <3>5, <3>6
    <3>8. InHeadAt(0)
          BY <3>3, <3>7
    <3> HIDE DEF InHeadAt, IsBehind
    <3>9. QED BY <3>8
  <2>7. ASSUME NEW k \in Nat, k \in Good PROVE k + 1 \in Good
    <3> HIDE DEF InHeadAt, IsBehind
    <3>1. SUFFICES ASSUME k + 1 <= Enough - 3 PROVE InHeadAt(k + 1) \/ IsBehind(k + 1)
          OBVIOUS
    <3>2. /\ k + 1 \in 1 .. Enough /\ (k + 1) - 1 = k /\ k \in 0 .. Enough
          /\ k + 3 \in 1 .. Enough /\ (k + 3) - 1 = k + 2 /\ (k + 1) + 2 = k + 3
          /\ k + 4 \in 1 .. Enough /\ (k + 4) - 1 = k + 3 /\ (k + 1) + 3 = k + 4
          /\ k <= Enough - 3
          BY <1>0, <3>1
    <3>3. /\ B(k + 1) = Execute(t, B(k)) /\ A(k + 3) = Execute(text, A(k + 2))
          /\ A(k + 4) = Execute(text, A(k + 3))
      <4>1. B(k + 1) = Execute(t, B((k + 1) - 1))
            BY <2>5, <3>2
      <4>2. A(k + 3) = Execute(text, A((k + 3) - 1))
            BY <2>5, <3>2
      <4>3. A(k + 4) = Execute(text, A((k + 4) - 1))
            BY <2>5, <3>2
      <4> HIDE DEF A, B
      <4>4. QED BY <3>2, <4>1, <4>2, <4>3
    <3>4. B(k).trace \in Seq(D) /\ DidAt(t, B(k).pc).did \in D
          BY <2>3, <3>2
    <3>5. InHeadAt(k) \/ IsBehind(k)
          BY <2>7, <3>2
    <3> HIDE DEF A, B
    <3>6. CASE InHeadAt(k)
      <4>1. PICK j \in 0 .. n - 1 :
               /\ heap[x].saved[j].op # "tail"
               /\ B(k) = [pc |-> AtText(f + j), trace |-> B(k).trace]
               /\ A(k + 2) = [pc |-> InFixup(x, BRANCH + j), trace |-> <<Entered(x)>> \o B(k).trace]
            BY <3>6 DEF InHeadAt
      <4>2. PICK tr : tr = B(k).trace
            OBVIOUS
      <4>3. /\ B(k) = [pc |-> AtText(f + j), trace |-> tr] /\ tr \in Seq(D)
            /\ A(k + 2) = [pc |-> InFixup(x, BRANCH + j), trace |-> <<Entered(x)>> \o tr]
            BY <3>4, <4>1, <4>2
      <4>4. B(k).pc = AtText(f + j)
            BY <4>3
      <4>5. DidAt(Without(f), AtText(f + j)).did \in D
            BY <3>4, <4>4 DEF t
      <4>6. PICK now \in Seq(D), m \in Nat :
               /\ m = j + heap[x].saved[j].len
               /\ Execute(Without(f), [pc |-> AtText(f + j), trace |-> tr]) =
                     [pc |-> AtText(f + m), trace |-> now]
               /\ Execute(text, [pc |-> InFixup(x, BRANCH + j), trace |-> <<Entered(x)>> \o tr]) =
                     [pc |-> InFixup(x, BRANCH + m), trace |-> <<Entered(x)>> \o now]
        <5> HIDE DEF Good
        <5>1. RedirectedHead(f, x, n) /\ heap[x].op # "jmp" /\ heap[x].saved[j].op # "tail"
              BY <1>2, <4>1
        <5>2. j \in 0 .. n - 1 /\ Entered(x) \in D /\ tr \in Seq(D)
              BY <2>4, <4>3
        <5> HIDE DEF B, A
        <5>3. StepsAlike(f, x, j, D, tr)
              BY <4>5, <5>1, <5>2, HeadStep
        <5>4. QED BY <5>3 DEF StepsAlike
      <4>7. B(k + 1) = [pc |-> AtText(f + m), trace |-> now]
            BY <3>3, <4>3, <4>6 DEF t
      <4>8. A(k + 3) = [pc |-> InFixup(x, BRANCH + m), trace |-> <<Entered(x)>> \o now]
            BY <3>3, <4>3, <4>6
      <4>9. m <= n /\ (m < n => heap[x].saved[m].op # "tail")
        <5>1. GoodImage(heap[x].saved, n)
              BY <1>2 DEF RedirectedHead, GoesBack
        <5>2. QED BY <4>1, <4>6, <5>1 DEF GoodImage
      <4>10. B(k + 1).trace = now /\ B(k + 1).pc = AtText(f + m)
             BY <4>7
      <4>11. CASE m < n
        <5>1. m \in 0 .. n - 1
              BY <1>0, <4>11
        <5>2. B(k + 1) = [pc |-> AtText(f + m), trace |-> B(k + 1).trace]
              BY <4>7, <4>10
        <5>3. A((k + 1) + 2) = [pc |-> InFixup(x, BRANCH + m), trace |-> <<Entered(x)>> \o B(k + 1).trace]
              BY <3>2, <4>8, <4>10
        <5>4. InHeadAt(k + 1)
              BY <4>9, <4>11, <5>1, <5>2, <5>3 DEF InHeadAt
        <5>5. QED BY <5>4
      <4>12. CASE m = n
        <5>1. ExecFixup(x, BRANCH + n) = [pc |-> AtText(f + n), did |-> <<>>]
              BY <1>0, <1>2, FixupStep, AllRuns DEF RedirectedHead
        <5>2. /\ DidAt(text, InFixup(x, BRANCH + n)) = [pc |-> AtText(f + n), did |-> <<>>]
              /\ InFixup(x, BRANCH + n) # End
              BY <5>1 DEF DidAt, InFixup, End
        <5>3. A(k + 3).pc = InFixup(x, BRANCH + n) /\ A(k + 3).trace = <<Entered(x)>> \o now
              BY <4>8, <4>12
        <5>4. A(k + 4) = [pc |-> AtText(f + n), trace |-> <<Entered(x)>> \o now]
          <6> DEFINE to == AtText(f + n)
                     nothing == <<>>
                     s == A(k + 3)
          <6>1. s.pc # End /\ DidAt(text, s.pc) = [pc |-> to, did |-> nothing]
                BY <5>2, <5>3
          <6> HIDE DEF s, to, nothing
          <6>2. Execute(text, s) = [pc |-> to, trace |-> IF nothing = <<>> THEN s.trace
                                                         ELSE Append(s.trace, nothing)]
                BY <6>1, StepDoes
          <6>3. Execute(text, s) = [pc |-> to, trace |-> s.trace]
                BY <6>2 DEF nothing
          <6>4. QED BY <3>3, <5>3, <6>3 DEF s, to
        <5>5. Behind(x, B(k + 1)) = [pc |-> AtText(f + n), trace |-> <<Entered(x)>> \o now]
              BY <4>10, <4>12 DEF Behind
        <5>6. Past(B(k + 1).pc, f + n)
              BY <1>0, <4>10, <4>12 DEF Past
        <5>7. IsBehind(k + 1)
              BY <3>2, <5>4, <5>5, <5>6 DEF IsBehind
        <5>8. QED BY <5>7
      <4>13. QED BY <1>0, <4>9, <4>11, <4>12
    <3>7. CASE IsBehind(k)
      <4>1. A(k + 3) = Behind(x, B(k)) /\ Past(B(k).pc, f + n)
            BY <3>7 DEF IsBehind
      <4>2. A(k + 4) = Behind(x, B(k + 1))
        <5>1. CASE B(k).pc = End
          <6>1. Behind(x, B(k)).pc = End
                BY <5>1 DEF Behind
          <6>2. Execute(text, Behind(x, B(k))) = Behind(x, B(k)) /\ Execute(t, B(k)) = B(k)
                BY <5>1, <6>1 DEF Execute
          <6>3. QED BY <3>3, <4>1, <6>2
        <5>2. CASE B(k).pc # End
          <6>1. DidAt(t, B(k).pc) = DidAt(text, B(k).pc)
                BY <1>2, <4>1, <5>2, SameBehind DEF t
          <6> DEFINE s == B(k)
          <6>2. s.trace \in Seq(D) /\ DidAt(t, s.pc).did \in D /\ DidAt(t, s.pc) = DidAt(text, s.pc) /\ s.pc # End
                BY <3>4, <5>2, <6>1
          <6> HIDE DEF s
          <6>3. Execute(text, Behind(x, s)) = Behind(x, Execute(t, s))
                BY <2>4, <6>2, StepBehind
          <6>4. QED BY <3>3, <4>1, <6>3 DEF s
        <5>3. QED BY <5>1, <5>2
      <4>3. Past(B(k + 1).pc, f + n)
        <5>1. Within(Steps(t, f)[k].pc, 4 * TextLen + 3 - 3 * k)
              BY <1>0, <2>1, <3>2, RunWithin
        <5> DEFINE b == 4 * TextLen + 3 - 3 * k
                   s == B(k)
        <5>2. b \in Int
              BY <1>0
        <5>3. Within(s.pc, b)
              BY <5>1 DEF B
        <5> HIDE DEF b, s
        <5>4. Past(s.pc, f + n)
              BY <4>1 DEF s
        <5>5. Past(Execute(t, s).pc, f + n)
              BY <1>0, <2>1, <5>2, <5>3, <5>4, StepPast
        <5>6. QED BY <3>3, <5>5 DEF s
      <4>4. IsBehind(k + 1)
            BY <3>2, <4>2, <4>3 DEF IsBehind
      <4>5. QED BY <4>4
    <3>8. QED BY <3>5, <3>6, <3>7
  <2>8. Nat \subseteq Good
    <3> HIDE DEF Good
    <3>1. QED BY <2>6, <2>7, NatSet
  <2> DEFINE k == Enough - 3
  <2>9. k \in Nat /\ k \in Enough - 3 .. Enough /\ k <= Enough - 3 /\ k + 3 = Enough /\ k \in 0 .. Enough
        BY <1>0
  <2>10. B(k).pc = End
         BY <1>0, <2>1, <2>9, RunEnds
  <2> HIDE DEF k
  <2>11. InHeadAt(k) \/ IsBehind(k)
         BY <2>8, <2>9
  <2>12. ~InHeadAt(k)
    <3>1. \A a : AtText(a) # End
          BY DEF AtText, End
    <3> HIDE DEF A, B
    <3>2. ASSUME NEW j, B(k) = [pc |-> AtText(f + j), trace |-> B(k).trace] PROVE FALSE
      <4>1. B(k).pc = AtText(f + j)
            BY <3>2
      <4>2. QED BY <2>10, <3>1, <4>1
    <3>3. QED BY <3>2
  <2>13. A(Enough) = Behind(x, B(k))
    <3> HIDE DEF A, B
    <3>1. QED BY <2>9, <2>11, <2>12
  <2>14. B(Enough) = B(k)
         BY <2>9, <2>10, Over
  <2> HIDE DEF A, B
  <2>15. A(Enough).trace = <<Entered(x)>> \o B(Enough).trace
         BY <2>13, <2>14 DEF Behind
  <2>16. Steps(text, f)[Enough].trace = <<Entered(x)>> \o Steps(Without(f), f)[Enough].trace
         BY <2>15 DEF A, B, t
  <2>17. QED BY <1>2, <2>16 DEF Run
<1>3. QED BY <1>1, <1>2

-----------------------------------------------------------------------------
(* What is in the segment, and that it is sane.                            *)

\* Where the head of a redirected function leads, also after a fault.
TopResumes ==
    \A f \in Functions : Hooked(f) =>
        LET x == text[f].arg IN
        /\ heap[x] \in Fixup
        /\ heap[x].size \in MinSpan .. MAX_REDIRECT_LENGTH
        /\ heap[x].size = text[f + BRANCH].arg
        /\ heap[x].resume = f + heap[x].size /\ f + heap[x].size <= TextLen

\* The code that is moved into a fixup still works there.
CallsRelocate ==
    \A x \in FixupIds : heap[x] # Free /\ heap[x].op = "call" /\ heap[x].size # 0 =>
        GoodImage(heap[x].saved, heap[x].size)

\* The first page of a block that holds a fixup was asked for.
StartsEnabled == \A x \in FixupIds :
    heap[x] # Free /\ heap[x].size # 0 => Page(Address[x]) \in executable

RunInv == HookInv /\ TopResumes /\ CallsRelocate /\ StartsEnabled

\* A cell is loaded code, or belongs to the redirect on a function.
LEMMA CellIs ==
    ASSUME HookInv, NEW a \in Text
    PROVE  \/ SameInsn(text[a], Original[a])
           \/ text[a] \in {Inside, Nop} \/ text[a].op = "size"
           \/ a \in Functions /\ Hooked(a)
<1>1. TypeOK /\ HookedHeads /\ UnhookedIsOriginal
      BY DEF HookInv
<1>2. CASE \A f \in Fitting : Hooked(f) => ~InHead(a, f)
      BY <1>1, <1>2 DEF UnhookedIsOriginal
<1>3. CASE \E f \in Fitting : Hooked(f) /\ InHead(a, f)
  <2>1. PICK f \in Fitting : Hooked(f) /\ InHead(a, f)
        BY <1>3
  <2>2. HeadLen[f] \in 9 .. 24 /\ f \in Nat /\ f \in Functions
        BY HeadFacts DEF MinSpan, BRANCH, ENCODEDSIZE, MAX_REDIRECT_LENGTH
  <2>3. PICK i \in 0 .. HeadLen[f] - 1 : a = f + i
        BY <2>1, <2>2 DEF InHead
  <2>4. CASE i = 0
        BY <2>1, <2>2, <2>3, <2>4
  <2>5. CASE i = BRANCH
    <3>1. text[f + BRANCH].op = "size"
          BY <2>1 DEF Hooked, LooksHooked
    <3>2. QED BY <2>3, <2>5, <3>1
  <2>6. CASE i \in (1 .. MinSpan - 1) \ {BRANCH}
    <3>1. text[f + i] = Inside
          BY <1>1, <2>1, <2>2, <2>6 DEF HookedHeads, IsHookAt
    <3>2. QED BY <2>3, <3>1
  <2>7. CASE i \in MinSpan .. HeadLen[f] - 1
    <3>1. text[f + i] = Nop
          BY <1>1, <2>1, <2>2, <2>7 DEF HookedHeads
    <3>2. QED BY <2>3, <3>1
  <2>8. QED
        BY <2>2, <2>3, <2>4, <2>5, <2>6, <2>7 DEF MinSpan, BRANCH, ENCODEDSIZE
<1>4. QED BY <1>2, <1>3

LEMMA TopGoesBack ==
    ASSUME RunInv, NEW f \in Functions, Hooked(f)
    PROVE  /\ text[f].arg \in FixupIds /\ GoesBack(text[f].arg, f)
           /\ heap[text[f].arg].size = text[f + BRANCH].arg
<1> DEFINE x == text[f].arg
<1>1. HookedHeads
      BY DEF RunInv, HookInv
<1>2. x \in FixupIds
      BY <1>1 DEF HookedHeads
<1>3. /\ heap[x] \in Fixup
      /\ heap[x].size \in MinSpan .. MAX_REDIRECT_LENGTH
      /\ heap[x].size = text[f + BRANCH].arg
      /\ heap[x].resume = f + heap[x].size /\ f + heap[x].size <= TextLen
      BY DEF RunInv, TopResumes
<1>4. heap[x] # Free /\ heap[x].op \in {"call", "jmp"} /\ heap[x].size # 0
      BY <1>3 DEF Fixup, Free, MinSpan, MAX_REDIRECT_LENGTH, BRANCH, ENCODEDSIZE
<1>5. heap[x].op # "jmp" => GoodImage(heap[x].saved, heap[x].size)
      BY <1>2, <1>4 DEF RunInv, CallsRelocate
<1> HIDE DEF x
<1>6. x \in FixupIds /\ GoesBack(x, f) /\ heap[x].size = text[f + BRANCH].arg
      BY <1>2, <1>3, <1>4, <1>5 DEF GoesBack
<1>7. QED BY <1>6 DEF x

\* So the first branch of a redirect can be executed.
LEMMA TopRuns ==
    ASSUME RunInv, NEW f \in Functions, Hooked(f)
    PROVE  Runnable(text[f].arg, 0, BRANCH)
<1> DEFINE x == text[f].arg
<1>1. x \in FixupIds /\ heap[x] # Free /\ heap[x].size # 0
      BY TopGoesBack DEF GoesBack, MinSpan, MAX_REDIRECT_LENGTH, BRANCH, ENCODEDSIZE
<1>2. Page(Address[x]) \in executable
      BY <1>1 DEF RunInv, StartsEnabled
<1> HIDE DEF x
<1>3. Pages(Address[x], BRANCH) = {Page(Address[x])} /\ Address[x] + 0 = Address[x]
      BY <1>1, HeapAssumption
<1>4. Runnable(x, 0, BRANCH)
      BY <1>2, <1>3 DEF Runnable
<1>5. QED BY <1>4 DEF x

LEMMA TextIsSane == RunInv => Sane(text)
<1> SUFFICES ASSUME RunInv, NEW a \in Text
             PROVE  /\ text[a].op \in Ops
                    /\ text[a].op \in {"plain", "call", "nop"} => text[a].len \in Nat \ {0}
                    /\ text[a].op = "jmp" /\ text[a].arg \in FixupIds => GoesBack(text[a].arg, a)
    BY DEF Sane
<1>1. HookInv /\ text[a] \in Cell /\ Original[a] \in Cell
      BY OriginalAssumption DEF RunInv, HookInv, TypeOK
<1>2. CASE SameInsn(text[a], Original[a])
  <2>1. text[a].op = Original[a].op /\ text[a].len = Original[a].len
        /\ (text[a].op # "call" => text[a].arg = Original[a].arg)
        BY <1>2 DEF SameInsn
  <2>2. text[a].op # "tail" => text[a].len # 0
        BY <2>1, OriginalAssumption DEF LaidOut
  <2>3. text[a].op = "jmp" => text[a].arg \notin FixupIds
    <3>1. SUFFICES ASSUME text[a].op = "jmp" PROVE text[a].arg \notin FixupIds
          OBVIOUS
    <3>2. text[a].arg \in Targets
          BY <2>1, <3>1, OriginalAssumption
    <3>3. Targets \subseteq Nat \cup Routines
      <4>1. Functions \subseteq 0 .. TextLen - 1
            BY LayoutAssumption DEF Text
      <4>2. 0 .. TextLen - 1 \subseteq Nat
            OBVIOUS
      <4>3. QED BY <4>1, <4>2 DEF Targets
    <3>4. FixupIds \cap (Nat \cup Routines) = {}
          BY LayoutAssumption
    <3>5. QED BY <3>2, <3>3, <3>4
  <2>4. QED BY <1>1, <2>2, <2>3 DEF Cell
<1>3. CASE text[a] \in {Inside, Nop}
      BY <1>3 DEF Inside, Nop, Ops
<1>4. CASE text[a].op = "size"
      BY <1>4 DEF Ops
<1>5. CASE a \in Functions /\ Hooked(a)
  <2>1. text[a].op = "jmp"
        BY <1>5 DEF Hooked, LooksHooked
  <2>2. QED BY <1>5, <2>1, TopGoesBack DEF Ops
<1>6. QED BY <1>1, <1>2, <1>3, <1>4, <1>5, CellIs

-----------------------------------------------------------------------------
(* The invariant.                                                          *)

LEMMA LivingResumes == HookInv /\ fault = "none" => TopResumes
<1> SUFFICES ASSUME HookInv, fault = "none", NEW f \in Functions, Hooked(f), NEW x, x = text[f].arg
             PROVE  /\ heap[x] \in Fixup
                    /\ heap[x].size \in MinSpan .. MAX_REDIRECT_LENGTH
                    /\ heap[x].size = text[f + BRANCH].arg
                    /\ heap[x].resume = f + heap[x].size /\ f + heap[x].size <= TextLen
    BY DEF TopResumes
<1>1. /\ f \in Fitting /\ heap[x] \in Fixup /\ BelongsTo(x, f)
      /\ heap[x].size = text[f + BRANCH].arg
      /\ SavesLoadedCode(x, f) \/ SavesRedirect(x, f)
      BY TopFixup DEF HookInv
<1>2. HeadLen[f] \in 9 .. 24 /\ f \in Nat /\ f + HeadLen[f] <= TextLen /\ TextLen \in Nat
      BY <1>1, HeadFacts, LayoutAssumption DEF MinSpan, BRANCH, ENCODEDSIZE, MAX_REDIRECT_LENGTH
<1>3. heap[x].size = HeadLen[f] \/ heap[x].size = 9
      BY <1>1 DEF SavesLoadedCode, SavesRedirect, MinSpan, BRANCH, ENCODEDSIZE
<1>4. QED
      BY <1>1, <1>2, <1>3 DEF BelongsTo, MinSpan, BRANCH, ENCODEDSIZE, MAX_REDIRECT_LENGTH

LEMMA LivingResumesNext == (HookInv /\ fault = "none" => TopResumes)'
BY LivingResumes, PTL

\* The sweep lets a fixup that calls its callback save only code that can
\* be moved.
LEMMA SweptIsGood ==
    ASSUME HookInv, NEW f \in Functions, NEW flags \in FlagChoices, NEW x \in FixupIds,
           NEW n \in MinSpan .. MAX_REDIRECT_LENGTH, Ready(f, flags, n, x), "replace" \notin flags
    PROVE  GoodImage(Saved(text, f, n), n)
<1>1. TypeOK /\ HookedHeads /\ UnhookedIsOriginal
      BY DEF HookInv
<1>2. f \in Fitting /\ n = IF Hooked(f) THEN MinSpan ELSE HeadLen[f]
      BY <1>1, SpanIsHead
<1>3. /\ HeadLen[f] \in 9 .. 24 /\ f \in Nat /\ f + HeadLen[f] <= TextLen /\ TextLen \in Nat
      /\ n \in 9 .. HeadLen[f] /\ Text = 0 .. TextLen - 1
      BY <1>2, HeadFacts, LayoutAssumption DEF Text, MinSpan, BRANCH, ENCODEDSIZE, MAX_REDIRECT_LENGTH
<1>4. \A a \in f .. f + n - 1 : Boundary(text, a) =>
         Decodes(text, a, f + MAX_REDIRECT_LENGTH) /\ text[a].op \notin ControlFlow
      BY DEF Ready, Accepted, Redirectable
<1>5. ~Hooked(f)
  <2>1. SUFFICES ASSUME Hooked(f) PROVE FALSE
        OBVIOUS
  <2>2. text[f].op = "jmp" /\ f \in f .. f + n - 1
        BY <1>3, <2>1 DEF Hooked, LooksHooked
  <2>3. Boundary(text, f) /\ text[f].op \in ControlFlow
        BY <2>2 DEF Boundary, ControlFlow
  <2>4. QED BY <1>4, <2>2, <2>3
<1>6. n = HeadLen[f]
      BY <1>2, <1>5
<1>7. ASSUME NEW i \in 0 .. n - 1
      PROVE  f + i \in Text /\ f + i \in f .. f + n - 1 /\ SameInsn(text[f + i], Original[f + i])
  <2>1. f + i \in Text /\ f + i \in Nat /\ InHead(f + i, f) /\ f + i \in f .. f + n - 1
        BY <1>3, <1>6 DEF InHead
  <2>2. ASSUME NEW g \in Fitting, Hooked(g) PROVE ~InHead(f + i, g)
        BY <1>2, <1>5, <2>1, <2>2, HeadsDisjoint
  <2>3. QED BY <1>1, <2>1, <2>2 DEF UnhookedIsOriginal
<1> DEFINE image == Saved(text, f, n)
<1>8. ASSUME NEW i \in 0 .. n - 1 PROVE image[i] = text[f + i]
  <2>1. i \in Window /\ i < n
        BY <1>3 DEF Window, MAX_REDIRECT_LENGTH
  <2>2. QED BY <2>1 DEF Saved
<1>9. \A i \in 0 .. n - 1 : image[i].op = Original[f + i].op /\ image[i].len = Original[f + i].len
      BY <1>7, <1>8 DEF SameInsn
<1> HIDE DEF image
<1>10. image[0].op # "tail"
  <2>1. 0 \in 0 .. n - 1 /\ f + 0 = f
        BY <1>3
  <2>2. image[0].op = Original[f + 0].op
        BY <1>9, <2>1
  <2>3. QED BY <2>1, <2>2, OriginalAssumption
<1>11. ASSUME NEW i \in 0 .. n - 1, image[i].op # "tail"
       PROVE  /\ image[i].op \in {"plain", "nop"}
              /\ image[i].len \in Nat \ {0} /\ i + image[i].len <= n
              /\ i + image[i].len < n => image[i + image[i].len].op # "tail"
  <2> DEFINE a == f + i
             l == Original[a].len
  <2>1. /\ a \in Text /\ a \in f .. f + n - 1 /\ image[i] = text[a]
        /\ image[i].op = Original[a].op /\ image[i].len = l
        BY <1>7, <1>8, <1>9
  <2>2. Original[a] \in Cell /\ Original[a].op # "size" /\ LaidOut(a)
        BY <1>11, <2>1, OriginalAssumption
  <2>3. l \in Nat \ {0} /\ a + l <= TextLen /\ Boundary(Original, a + l)
        /\ \A k \in 1 .. l - 1 : Original[a + k].op = "tail"
        BY <2>2 DEF LaidOut, Cell
  <2>4. image[i].op \in {"plain", "nop"}
    <3>1. Boundary(text, a)
          BY <1>11, <2>1 DEF Boundary
    <3>2. text[a].op # "bad" /\ text[a].op \notin ControlFlow
          BY <1>4, <2>1, <3>1 DEF Decodes
    <3>3. image[i].op \in Ops /\ image[i].op # "size"
          BY <2>1, <2>2 DEF Cell
    <3>4. QED BY <1>11, <2>1, <3>2, <3>3 DEF ControlFlow, Ops
  <2>5. Boundary(Original, f + n)
        BY <1>2, <1>6, HeadFacts
  <2>6. i + l <= n
    <3>1. SUFFICES ASSUME n < i + l PROVE FALSE
          BY <1>3, <2>3
    <3> DEFINE k == n - i
    <3> HIDE DEF l
    <3>2. k \in 1 .. l - 1 /\ (f + i) + k = f + n /\ f + n \in Text
      <4>1. i \in Nat /\ i < n /\ n \in Nat /\ l \in Nat /\ f \in Nat /\ (f + i) + l <= TextLen
            BY <1>3, <2>3
      <4>2. k \in 1 .. l - 1 /\ (f + i) + k = f + n
            BY <3>1, <4>1
      <4>3. f + n \in 0 .. TextLen - 1
            BY <1>3, <3>1, <4>1
      <4>4. QED BY <1>3, <4>2, <4>3
    <3> HIDE DEF k
    <3>3. Original[(f + i) + k].op = "tail"
          BY <2>3, <3>2
    <3>4. QED BY <2>5, <3>2, <3>3 DEF Boundary
  <2>7. ASSUME i + l < n PROVE image[i + l].op # "tail"
    <3> HIDE DEF l
    <3>1. i + l \in 0 .. n - 1 /\ f + (i + l) = (f + i) + l
          BY <1>3, <2>3, <2>7
    <3>2. (f + i) + l \in Text
          BY <1>7, <3>1
    <3>3. Original[(f + i) + l].op # "tail"
          BY <2>3, <3>2 DEF Boundary
    <3>4. image[i + l].op = Original[f + (i + l)].op
          BY <1>9, <3>1
    <3>5. QED BY <3>1, <3>3, <3>4
  <2>8. QED BY <2>1, <2>3, <2>4, <2>6, <2>7
<1>12. QED BY <1>10, <1>11 DEF GoodImage, image

LEMMA InitRunInv == Init => RunInv
<1> SUFFICES ASSUME Init PROVE RunInv
    OBVIOUS
<1>1. HookInv /\ fault = "none"
      BY InitHookInv DEF Init
<1>2. CallsRelocate /\ StartsEnabled
      BY DEF Init, CallsRelocate, StartsEnabled
<1>3. QED BY <1>1, <1>2, LivingResumes DEF RunInv

\* A fixup is written once, when it is allocated.
LEMMA HeapGrows ==
    ASSUME RunInv, [Next]_vars, NEW x \in FixupIds, heap'[x] # heap[x]
    PROVE  \/ heap'[x] = Free /\ fault' = "none"
           \/ heap[x] = Free /\ heap'[x].size = 0
           \/ \E f \in Functions, r \in Callbacks, flags \in FlagChoices,
                 n \in MinSpan .. MAX_REDIRECT_LENGTH :
                   /\ Ready(f, flags, n, x) /\ heap'[x] = NewFixup(f, r, flags, n)
                   /\ executable' = Enable(x)
<1>0. TypeOK /\ heap \in [FixupIds -> Fixup \cup {Free}]
      BY DEF RunInv, HookInv, TypeOK
<1>1. ASSUME NEW f \in Functions, NEW r \in Callbacks, NEW flags \in FlagChoices,
             InsertFailsOnFixup(f, r, flags)
      PROVE  heap[x] = Free /\ heap'[x].size = 0
  <2>1. PICK y \in FixupIds, n \in MinSpan .. MAX_REDIRECT_LENGTH :
           Ready(f, flags, n, y) /\ heap' = [heap EXCEPT ![y] = EmptyFixup(r, flags)]
        BY <1>1 DEF InsertFailsOnFixup
  <2>2. x = y
        BY <1>0, <2>1
  <2>3. heap'[x] = EmptyFixup(r, flags)
        BY <1>0, <2>1, <2>2
  <2>4. QED BY <2>1, <2>2, <2>3 DEF EmptyFixup, Ready, Accepted
<1>2. ASSUME NEW f \in Functions, NEW r \in Callbacks, NEW flags \in FlagChoices,
             InsertFailsOnCallsite(f, r, flags) \/ Insert(f, r, flags)
      PROVE  \E n \in MinSpan .. MAX_REDIRECT_LENGTH :
                /\ Ready(f, flags, n, x) /\ heap'[x] = NewFixup(f, r, flags, n)
                /\ executable' = Enable(x)
  <2>1. PICK y \in FixupIds, n \in MinSpan .. MAX_REDIRECT_LENGTH :
           /\ Ready(f, flags, n, y) /\ heap' = [heap EXCEPT ![y] = NewFixup(f, r, flags, n)]
           /\ executable' = Enable(y)
        BY <1>2 DEF InsertFailsOnCallsite, Insert
  <2>2. x = y
        BY <1>0, <2>1
  <2>3. heap'[x] = NewFixup(f, r, flags, n)
        BY <1>0, <2>1, <2>2
  <2>4. QED BY <2>1, <2>2, <2>3
<1>3. ASSUME NEW f \in Functions, Remove(f)
      PROVE  heap'[x] = Free /\ fault' = "none"
  <2>1. heap' = [heap EXCEPT ![text[f].arg] = Free] /\ fault' = "none"
        BY <1>3 DEF Remove
  <2>2. QED BY <1>0, <2>1
<1>4. ASSUME \/ \E f \in Functions, target, r \in Callbacks : RedirectCall(f, target, r)
             \/ \E f \in Functions, flags \in FlagChoices : InsertWithoutMemory(f, flags)
             \/ Dead \/ UNCHANGED vars
      PROVE  FALSE
      BY <1>4 DEF RedirectCall, InsertWithoutMemory, Dead, vars
<1>5. QED BY <1>1, <1>2, <1>3, <1>4 DEF Next

\* Nothing takes back what mprotect granted.
LEMMA ExecutableGrows == [Next]_vars => executable \subseteq executable'
<1> SUFFICES ASSUME [Next]_vars PROVE executable \subseteq executable'
    OBVIOUS
<1>1. ASSUME NEW f \in Functions, NEW r \in Callbacks, NEW flags \in FlagChoices,
             \/ InsertFailsOnFixup(f, r, flags) \/ InsertFailsOnCallsite(f, r, flags)
             \/ Insert(f, r, flags)
      PROVE  executable \subseteq executable'
  <2>1. \E x \in FixupIds : executable' \in {executable, Enable(x)}
        BY <1>1 DEF InsertFailsOnFixup, InsertFailsOnCallsite, Insert
  <2>2. QED BY <2>1 DEF Enable
<1>2. CASE \/ \E f \in Functions, flags \in FlagChoices : InsertWithoutMemory(f, flags)
           \/ \E f \in Functions : Remove(f)
           \/ \E f \in Functions, target, r \in Callbacks : RedirectCall(f, target, r)
           \/ Dead \/ UNCHANGED vars
  <2>1. executable' = executable
        BY <1>2 DEF InsertWithoutMemory, Remove, RedirectCall, Dead, vars
  <2>2. QED BY <2>1
<1>3. QED BY <1>1, <1>2 DEF Next

LEMMA FaultKeepsText ==
    ASSUME HookInv, [Next]_vars, fault' # "none"
    PROVE  text' = text
<1>1. ASSUME NEW f \in Functions, NEW r \in Callbacks, NEW flags \in FlagChoices,
             InsertFailsOnFixup(f, r, flags) \/ InsertFailsOnCallsite(f, r, flags)
      PROVE  text' = text
      BY <1>1 DEF InsertFailsOnFixup, InsertFailsOnCallsite
<1>2. ASSUME NEW f \in Functions, NEW r \in Callbacks, NEW flags \in FlagChoices,
             Insert(f, r, flags)
      PROVE  text' = text
      BY <1>2 DEF Insert, Ready, Accepted
<1>3. ASSUME NEW f \in Functions, Remove(f) PROVE text' = text
      BY <1>3 DEF Remove
<1>4. ASSUME NEW f \in Functions, NEW target \in Callbacks, NEW r \in Callbacks,
             RedirectCall(f, target, r)
      PROVE  text' = text
      BY <1>4 DEF RedirectCall
<1>5. CASE Dead \/ UNCHANGED vars
      BY <1>5 DEF Dead, vars
<1>6. ASSUME NEW f \in Functions, NEW flags \in FlagChoices, InsertWithoutMemory(f, flags)
      PROVE  text' = text
      BY <1>6 DEF InsertWithoutMemory
<1>7. QED BY <1>1, <1>2, <1>3, <1>4, <1>5, <1>6 DEF Next

LEMMA NextRunInv == RunInv /\ [Next]_vars => RunInv'
<1> SUFFICES ASSUME RunInv, [Next]_vars PROVE RunInv'
    OBVIOUS
<1>1. HookInv /\ TopResumes /\ CallsRelocate /\ StartsEnabled /\ HookInv'
      BY NextHookInv DEF RunInv
<1>2. CallsRelocate'
  <2> SUFFICES ASSUME NEW x \in FixupIds, heap'[x] # Free, heap'[x].op = "call", heap'[x].size # 0
               PROVE  GoodImage(heap'[x].saved, heap'[x].size)
      BY DEF CallsRelocate
  <2>1. CASE heap'[x] = heap[x]
        BY <1>1, <2>1 DEF CallsRelocate
  <2>2. CASE heap'[x] # heap[x]
    <3>1. PICK f \in Functions, r \in Callbacks, flags \in FlagChoices,
               n \in MinSpan .. MAX_REDIRECT_LENGTH :
                  Ready(f, flags, n, x) /\ heap'[x] = NewFixup(f, r, flags, n)
          BY <2>2, HeapGrows
    <3>2. "replace" \notin flags /\ heap'[x].saved = Saved(text, f, n) /\ heap'[x].size = n
          BY <3>1 DEF NewFixup, FixupOp
    <3>3. QED BY <1>1, <3>1, <3>2, SweptIsGood
  <2>3. QED BY <2>1, <2>2
<1>3. TopResumes'
  <2>1. CASE fault' = "none"
        BY <1>1, <2>1, LivingResumesNext
  <2>2. CASE fault' # "none"
    <3>1. text' = text
          BY <1>1, <2>2, FaultKeepsText
    <3>2. ASSUME NEW f \in Functions, Hooked(f), NEW x, x = text[f].arg
          PROVE  heap'[x] = heap[x]
      <4>1. x \in FixupIds /\ heap[x] # Free
            BY <1>1, <3>2 DEF HookInv, HookedHeads, TopResumes, Fixup, Free
      <4>2. SUFFICES ASSUME heap'[x] # heap[x] PROVE FALSE
            OBVIOUS
      <4>3. QED BY <2>2, <4>1, <4>2, HeapGrows DEF Ready, Accepted
    <3>3. ASSUME NEW f \in Functions, Hooked(f)'
          PROVE  Hooked(f) /\ text'[f] = text[f] /\ text'[f + BRANCH] = text[f + BRANCH]
                 /\ heap'[text[f].arg] = heap[text[f].arg]
          BY <3>1, <3>2, <3>3 DEF Hooked
    <3>4. QED BY <1>1, <3>3 DEF TopResumes
  <2>3. QED BY <2>1, <2>2
<1>4. StartsEnabled'
  <2> SUFFICES ASSUME NEW x \in FixupIds, heap'[x] # Free, heap'[x].size # 0
               PROVE  Page(Address[x]) \in executable'
      BY DEF StartsEnabled
  <2>1. CASE heap'[x] = heap[x]
        BY <1>1, <2>1, ExecutableGrows DEF StartsEnabled
  <2>2. CASE heap'[x] # heap[x]
    <3>1. executable' = Enable(x)
          BY <2>2, HeapGrows
    <3>2. QED BY <3>1 DEF Enable
  <2>3. QED BY <2>1, <2>2
<1>5. QED BY <1>1, <1>2, <1>3, <1>4 DEF RunInv

LEMMA RunInvariant == Spec => []RunInv
<1>1. QED BY InitRunInv, NextRunInv, PTL DEF Spec

\* A call of a redirected function enters the callback once, and only the
\* callback if the redirect replaces the function: its first branch is in the
\* page that was asked for.  Otherwise the function then runs as it would
\* without that redirect, if no byte of the fixup is in a page that was not:
\* whatever the code of the segment, however many redirects are stacked on
\* this function or on others, and whatever a leaked block or a fault left.
THEOREM RedirectsRun == Spec => []CallRunsRedirect
<1>1. RunInv => CallRunsRedirect
  <2> SUFFICES ASSUME RunInv, NEW f \in Functions, Hooked(f)
               PROVE  LET x  == text[f].arg
                          to == <<<<"redirect", heap[x].redirect>>>>
                      IN  /\ heap[x].op = "jmp" => Run(text, f) = to
                          /\ heap[x].op = "call" /\ AllRunnable(x)
                                => Run(text, f) = to \o Run(Without(f), f)
      BY DEF CallRunsRedirect
  <2> DEFINE x == text[f].arg
             n == text[f + BRANCH].arg
  <2>1. ASSUME heap[x].op = "jmp" \/ AllRunnable(x) PROVE RedirectedHead(f, x, n)
        BY <2>1, TopGoesBack, TopRuns, TextIsSane DEF RedirectedHead
  <2>2. ASSUME heap[x].op = "jmp" \/ AllRunnable(x)
        PROVE  Run(text, f) = IF heap[x].op = "jmp" THEN <<Entered(x)>>
                              ELSE <<Entered(x)>> \o Run(Without(f), f)
        BY <2>1, <2>2, RedirectRuns
  <2>3. heap[x].op = "jmp" => Run(text, f) = <<Entered(x)>>
        BY <2>2
  <2>4. heap[x].op = "call" /\ AllRunnable(x) => Run(text, f) = <<Entered(x)>> \o Run(Without(f), f)
        BY <2>2
  <2> HIDE DEF n
  <2>5. QED BY <2>3, <2>4 DEF Entered
<1>2. QED BY <1>1, RunInvariant, PTL

-----------------------------------------------------------------------------
(* A function that is not redirected.                                      *)

LEMMA BodyIsOriginal ==
    ASSUME HookInv, NEW f \in Functions, ~Hooked(f), NEW e, EndsAt(f, e), NEW a \in f .. e
    PROVE  a \in Text /\ SameInsn(text[a], Original[a])
<1>1. /\ f \in Nat /\ e \in Nat /\ a \in Nat /\ a \in Text
      BY LayoutAssumption DEF EndsAt, Text
<1>2. ASSUME NEW g \in Fitting, Hooked(g), InHead(a, g) PROVE FALSE
  <2>1. g # f /\ g \in Functions
        BY <1>2, HeadFacts
  <2>2. HeadLen[g] \in 9 .. 24 /\ g \in Nat /\ f \notin g .. g + HeadLen[g] - 1
        BY <2>1, HeadFacts DEF MinSpan, BRANCH, ENCODEDSIZE, MAX_REDIRECT_LENGTH
  <2>3. g \notin f .. e
        BY <2>1 DEF EndsAt
  <2>4. QED BY <1>1, <1>2, <2>2, <2>3 DEF InHead
<1>3. QED BY <1>1, <1>2 DEF HookInv, UnhookedIsOriginal

SameEvents(now, was) ==
    Len(now) = Len(was) /\ \A i \in 1 .. Len(now) : Kind(now[i]) = Kind(was[i])

\* Where the processor is in the body of a function.
InBody(pc, f, e) == \E a \in f .. e : pc = AtText(a) /\ Original[a].op # "tail"

\* One instruction does the same now as it did in the loaded image.
LEMMA BodyStep ==
    ASSUME HookInv, NEW f \in Functions, ~Hooked(f), NEW e, EndsAt(f, e),
           NEW a \in f .. e, Original[a].op # "tail"
    PROVE  LET now == ExecText(text, a)
               was == ExecText(Original, a)
           IN  /\ now.pc = was.pc /\ (was.pc = End \/ InBody(was.pc, f, e))
               /\ now.did = <<>> <=> was.did = <<>>
               /\ Kind(now.did) = Kind(was.did)
<1> DEFINE now == ExecText(text, a)
           was == ExecText(Original, a)
           l == Original[a].len
<1>0. /\ f \in Nat /\ e \in Nat /\ a \in Nat /\ TextLen \in Nat /\ Text = 0 .. TextLen - 1
      /\ e \in Text
  <2>1. TextLen \in Nat /\ Text = 0 .. TextLen - 1 /\ f \in Text
        BY LayoutAssumption DEF Text
  <2>2. e \in Text
        BY DEF EndsAt
  <2>3. f \in Nat /\ e \in Nat
        BY <2>1, <2>2
  <2>4. QED BY <2>1, <2>2, <2>3
<1>1. a \in Text /\ SameInsn(text[a], Original[a])
      BY BodyIsOriginal
<1>2. /\ Original[a] \in Cell /\ Original[a].op # "size" /\ LaidOut(a)
      /\ Original[a].op \in {"call", "jmp"} => Original[a].arg \in Targets
      BY <1>1, OriginalAssumption
<1>3. text[a].op = Original[a].op /\ text[a].len = l /\ (text[a].op # "call" => text[a].arg = Original[a].arg)
      BY <1>1 DEF SameInsn
<1>4. Original[a].op \notin {"jmp", "ret"} => InBody(AtText(a + l), f, e)
  <2>1. SUFFICES ASSUME Original[a].op \notin {"jmp", "ret"} PROVE InBody(AtText(a + l), f, e)
        OBVIOUS
  <2>2. l \in Nat \ {0} /\ a + l <= TextLen /\ Boundary(Original, a + l)
        /\ \A k \in 1 .. l - 1 : Original[a + k].op = "tail"
        BY <1>2 DEF LaidOut, Cell
  <2>3. a # e /\ Original[e].op # "tail"
        BY <2>1 DEF EndsAt
  <2> HIDE DEF l
  <2>4. a + l <= e
    <3>1. SUFFICES ASSUME e < a + l PROVE FALSE
          BY <1>0, <2>2
    <3> DEFINE k == e - a
    <3>2. k \in 1 .. l - 1 /\ a + k = e
          BY <1>0, <2>2, <2>3, <3>1
    <3> HIDE DEF k
    <3>3. Original[a + k].op = "tail"
          BY <2>2, <3>2
    <3>4. QED BY <2>3, <3>2, <3>3
  <2>5. a + l \in f .. e /\ a + l \in Text
        BY <1>0, <2>2, <2>4
  <2>6. QED BY <2>2, <2>5 DEF InBody, Boundary
<1>5. CASE Original[a].op = "jmp"
  <2>1. Original[a].arg \notin FixupIds
    <3>1. Targets \subseteq Nat \cup Routines
          BY LayoutAssumption DEF Targets, Text
    <3>2. FixupIds \cap (Nat \cup Routines) = {}
          BY LayoutAssumption
    <3>3. QED BY <1>2, <1>5, <3>1, <3>2
  <2>2. was = [pc |-> End, did |-> <<"tailcall", Original[a].arg>>]
        BY <1>1, <1>5, <2>1, TextIs
  <2>3. now = [pc |-> End, did |-> <<"tailcall", Original[a].arg>>]
        BY <1>1, <1>3, <1>5, <2>1, TextIs
  <2>4. QED BY <2>2, <2>3
<1>6. CASE Original[a].op \in {"ret", "bad"}
  <2>1. now = was /\ was.pc = End
        BY <1>1, <1>3, <1>6, TextIs
  <2>2. QED BY <2>1
<1>7. CASE Original[a].op \in {"plain", "nop"}
  <2>1. now = was /\ was.pc = AtText(a + l)
        BY <1>1, <1>3, <1>7, TextIs
  <2>2. QED BY <1>4, <1>7, <2>1
<1>8. CASE Original[a].op = "call"
  <2>1. was = [pc |-> AtText(a + l), did |-> <<"call", Original[a].arg>>]
        BY <1>1, <1>8, TextIs
  <2>2. now = [pc |-> AtText(a + l), did |-> <<"call", text[a].arg>>]
        BY <1>1, <1>3, <1>8, TextIs
  <2>3. \A to : Kind(<<"call", to>>) = <<"call">> /\ <<"call", to>> # <<>>
        BY DEF Kind
  <2>4. QED BY <1>4, <1>8, <2>1, <2>2, <2>3
<1>9. Original[a].op \in {"plain", "call", "jmp", "ret", "nop", "bad"}
      BY <1>2 DEF Cell, Ops
<1>10. QED BY <1>5, <1>6, <1>7, <1>8, <1>9

LEMMA SameAppended ==
    ASSUME NEW D, NEW now \in Seq(D), NEW was \in Seq(D), NEW c \in D, NEW d \in D,
           SameEvents(now, was), Kind(c) = Kind(d)
    PROVE  SameEvents(Append(now, c), Append(was, d))
<1>1. /\ Len(Append(now, c)) = Len(now) + 1 /\ Append(now, c)[Len(now) + 1] = c
      /\ \A i \in 1 .. Len(now) : Append(now, c)[i] = now[i]
      BY AppendIs
<1>2. /\ Len(Append(was, d)) = Len(was) + 1 /\ Append(was, d)[Len(was) + 1] = d
      /\ \A i \in 1 .. Len(was) : Append(was, d)[i] = was[i]
      BY AppendIs
<1>3. Len(now) \in Nat /\ Len(now) = Len(was)
      BY DEF SameEvents
<1>4. ASSUME NEW i \in 1 .. Len(now) + 1 PROVE Kind(Append(now, c)[i]) = Kind(Append(was, d)[i])
  <2>1. CASE i = Len(now) + 1
        BY <1>1, <1>2, <1>3, <2>1
  <2>2. CASE i # Len(now) + 1
    <3>1. i \in 1 .. Len(now)
          BY <1>3, <2>2
    <3>2. Append(now, c)[i] = now[i] /\ Append(was, d)[i] = was[i] /\ Kind(now[i]) = Kind(was[i])
          BY <1>1, <1>2, <1>3, <3>1 DEF SameEvents
    <3>3. QED BY <3>2
  <2>3. QED BY <2>1, <2>2
<1>5. QED BY <1>1, <1>2, <1>3, <1>4 DEF SameEvents

LEMMA UnhookedRuns ==
    ASSUME HookInv, NEW f \in Functions, ~Hooked(f), NEW e, EndsAt(f, e)
    PROVE  SameEvents(Run(text, f), Run(Original, f)) /\ DOMAIN Run(text, f) = 1 .. Len(Run(text, f))
<1> DEFINE A(k) == Steps(text, f)[k]
           B(k) == Steps(Original, f)[k]
<1>0. Enough \in Nat /\ f \in Nat /\ e \in Nat /\ f \in f .. e
      BY EnoughIs, LayoutAssumption DEF EndsAt, Text
<1>1. PICK D1 : \A k \in 0 .. Enough : /\ Steps(text, f)[k].trace \in Seq(D1)
                                        /\ DidAt(text, Steps(text, f)[k].pc).did \in D1
      BY TracesAre
<1>2. PICK D2 : \A k \in 0 .. Enough : /\ Steps(Original, f)[k].trace \in Seq(D2)
                                        /\ DidAt(Original, Steps(Original, f)[k].pc).did \in D2
      BY TracesAre
<1> DEFINE D == D1 \cup D2
<1>3. \A k \in 0 .. Enough : /\ A(k).trace \in Seq(D) /\ DidAt(text, A(k).pc).did \in D
                              /\ B(k).trace \in Seq(D) /\ DidAt(Original, B(k).pc).did \in D
      BY <1>1, <1>2
<1> HIDE DEF D
<1> DEFINE Alike(k) == /\ A(k).pc = B(k).pc /\ (B(k).pc = End \/ InBody(B(k).pc, f, e))
                       /\ SameEvents(A(k).trace, B(k).trace)
           Good == {k \in Nat : k <= Enough => Alike(k)}
<1>4. \A k \in 1 .. Enough : A(k) = Execute(text, A(k - 1)) /\ B(k) = Execute(Original, B(k - 1))
      BY StepsAre
<1>5. 0 \in Good
  <2>1. A(0) = [pc |-> AtText(f), trace |-> <<>>] /\ B(0) = [pc |-> AtText(f), trace |-> <<>>]
        BY StepsAre
  <2> HIDE DEF A, B
  <2>2. InBody(AtText(f), f, e)
        BY <1>0, OriginalAssumption DEF InBody
  <2>3. A(0).pc = AtText(f) /\ B(0).pc = AtText(f) /\ A(0).trace = <<>> /\ B(0).trace = <<>>
        BY <2>1
  <2>4. SameEvents(<<>>, <<>>)
        BY DEF SameEvents
  <2>5. Alike(0)
        BY <2>2, <2>3, <2>4
  <2> HIDE DEF Alike
  <2>6. QED BY <2>5
<1>6. ASSUME NEW k \in Nat, k \in Good PROVE k + 1 \in Good
  <2> HIDE DEF Alike
  <2>1. SUFFICES ASSUME k + 1 <= Enough PROVE Alike(k + 1)
        OBVIOUS
  <2>2. k + 1 \in 1 .. Enough /\ (k + 1) - 1 = k /\ k \in 0 .. Enough
        BY <1>0, <2>1
  <2>3. A(k + 1) = Execute(text, A(k)) /\ B(k + 1) = Execute(Original, B(k))
    <3>1. A(k + 1) = Execute(text, A((k + 1) - 1)) /\ B(k + 1) = Execute(Original, B((k + 1) - 1))
          BY <1>4, <2>2
    <3> HIDE DEF A, B
    <3>2. QED BY <2>2, <3>1
  <2>4. /\ A(k).trace \in Seq(D) /\ DidAt(text, A(k).pc).did \in D
        /\ B(k).trace \in Seq(D) /\ DidAt(Original, B(k).pc).did \in D
        BY <1>3, <2>2
  <2> HIDE DEF A, B
  <2>5. /\ A(k).pc = B(k).pc /\ (B(k).pc = End \/ InBody(B(k).pc, f, e))
        /\ SameEvents(A(k).trace, B(k).trace)
        BY <1>6, <2>2 DEF Alike
  <2>6. CASE B(k).pc = End
    <3>1. A(k + 1) = A(k) /\ B(k + 1) = B(k)
          BY <2>3, <2>5, <2>6 DEF Execute
    <3>2. QED BY <2>5, <3>1 DEF Alike
  <2>7. CASE InBody(B(k).pc, f, e)
    <3>1. PICK a \in f .. e : B(k).pc = AtText(a) /\ Original[a].op # "tail"
          BY <2>7 DEF InBody
    <3>2. /\ DidAt(text, A(k).pc) = ExecText(text, a) /\ DidAt(Original, B(k).pc) = ExecText(Original, a)
          /\ A(k).pc # End /\ B(k).pc # End
          BY <2>5, <3>1 DEF DidAt, AtText, End
    <3> DEFINE now == ExecText(text, a)
               was == ExecText(Original, a)
    <3>3. /\ now.pc = was.pc /\ (was.pc = End \/ InBody(was.pc, f, e))
          /\ now.did = <<>> <=> was.did = <<>>
          /\ Kind(now.did) = Kind(was.did)
          BY <3>1, BodyStep
    <3>4. A(k + 1) = [pc |-> now.pc, trace |-> IF now.did = <<>> THEN A(k).trace ELSE Append(A(k).trace, now.did)]
          BY <2>3, <3>2 DEF Execute
    <3>5. B(k + 1) = [pc |-> was.pc, trace |-> IF was.did = <<>> THEN B(k).trace ELSE Append(B(k).trace, was.did)]
          BY <2>3, <3>2 DEF Execute
    <3>6. now.did \in D /\ was.did \in D
          BY <2>4, <3>2
    <3> HIDE DEF now, was
    <3>7. A(k + 1).pc = B(k + 1).pc /\ (B(k + 1).pc = End \/ InBody(B(k + 1).pc, f, e))
          BY <3>3, <3>4, <3>5
    <3>8. SameEvents(A(k + 1).trace, B(k + 1).trace)
      <4>1. CASE now.did = <<>>
        <5>1. A(k + 1).trace = A(k).trace /\ B(k + 1).trace = B(k).trace
              BY <3>3, <3>4, <3>5, <4>1
        <5>2. QED BY <2>5, <5>1
      <4>2. CASE now.did # <<>>
        <5>1. A(k + 1).trace = Append(A(k).trace, now.did) /\ B(k + 1).trace = Append(B(k).trace, was.did)
              BY <3>3, <3>4, <3>5, <4>2
        <5>2. SameEvents(Append(A(k).trace, now.did), Append(B(k).trace, was.did))
              BY <2>4, <2>5, <3>3, <3>6, SameAppended
        <5>3. QED BY <5>1, <5>2
      <4>3. QED BY <4>1, <4>2
    <3>9. QED BY <3>7, <3>8 DEF Alike
  <2>8. QED BY <2>5, <2>6, <2>7
<1>7. Nat \subseteq Good
  <2> HIDE DEF Good
  <2>1. QED BY <1>5, <1>6, NatSet
<1>8. SameEvents(A(Enough).trace, B(Enough).trace) /\ A(Enough).trace \in Seq(D)
      BY <1>0, <1>3, <1>7
<1>9. Run(text, f) = A(Enough).trace /\ Run(Original, f) = B(Enough).trace
      BY DEF Run
<1> HIDE DEF A, B
<1>10. DOMAIN A(Enough).trace = 1 .. Len(A(Enough).trace)
       BY <1>8
<1>11. QED BY <1>8, <1>9, <1>10

\* Whatever is redirected and removed around it, a function that is not
\* redirected runs the instructions it was loaded with: in every segment
\* where each function ends before the next one starts.
THEOREM NeighboursRun == FunctionsEnd => (Spec => []UnhookedRunsOriginal)
<1> SUFFICES ASSUME FunctionsEnd PROVE Spec => []UnhookedRunsOriginal
    OBVIOUS
<1>1. HookInv => UnhookedRunsOriginal
  <2> SUFFICES ASSUME HookInv, NEW f \in Functions, ~Hooked(f)
               PROVE  LET now == Run(text, f)
                          was == Run(Original, f)
                      IN  /\ Len(now) = Len(was)
                          /\ \A i \in DOMAIN now : Kind(now[i]) = Kind(was[i])
      BY DEF UnhookedRunsOriginal
  <2>1. PICK e : EndsAt(f, e)
        BY DEF FunctionsEnd
  <2>2. QED BY <2>1, UnhookedRuns DEF SameEvents
<1>2. QED BY <1>1, HookInvariant, PTL
=============================================================================
