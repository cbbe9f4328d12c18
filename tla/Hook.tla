-------------------------------- MODULE Hook --------------------------------
(***************************************************************************)
(* The redirect engine of src/intercept/hook.c: it patches the running     *)
(* image of WordPerfect so that a call to one of wp's functions first      *)
(* enters a callback (HOOK_DEFAULT) or only enters it (the flag            *)
(* HOOK_REPLACE_FUNCTION), undoes such a patch, and changes the target of  *)
(* a single call instruction.                                              *)
(*                                                                         *)
(* The code segment is a function from addresses to cells.  An instruction *)
(* of k bytes is one cell that says what it does and how long it is,       *)
(* followed by k - 1 "tail" cells, so the model sees instruction           *)
(* boundaries, adjacent functions and pages, but no opcode encodings.      *)
(* Branch displacements are held as the absolute address they denote.      *)
(***************************************************************************)
EXTENDS Naturals, FiniteSets

CONSTANTS TextLen,      \* bytes in the code segment of wp
          Functions,    \* the entry points the client passes as "function"
          Original,     \* the code segment as it was loaded
          Routines,     \* addresses outside the segment: callbacks, libraries
          Callbacks,    \* the targets and redirects the client passes
          FixupIds,     \* heap blocks calloc can return (bound of the model)
          Address,      \* where they are in the heap: functions from ids
          FlagChoices,  \* the values of "flags" the client uses
          PageSize,     \* bytes in a page
          Unsealed      \* pages of the segment that are writable from the start

Text    == 0 .. TextLen - 1
Targets == Functions \cup Routines

-----------------------------------------------------------------------------
(* Instructions.                                                           *)

BRANCH              == 5     \* sizeof(struct branch)
ENCODEDSIZE         == 4     \* sizeof(struct encodedsize)
MinSpan             == BRANCH + ENCODEDSIZE
MAX_REDIRECT_LENGTH == 24
MAX_FUNCTION_LENGTH == 2048
Window              == 0 .. MAX_REDIRECT_LENGTH - 1

Ops  == {"plain", "call", "jmp", "ret", "size", "nop", "bad", "tail"}
Args == Text \cup Routines \cup FixupIds \cup 0 .. MAX_REDIRECT_LENGTH
Cell == [op : Ops, len : 0 .. 15, arg : Args]

Branch(op, to)  == [op |-> op, len |-> BRANCH, arg |-> to]
SavedSize(n)    == [op |-> "size", len |-> ENCODEDSIZE, arg |-> n]
Nop             == [op |-> "nop", len |-> 1, arg |-> 0]
Inside          == [op |-> "tail", len |-> 0, arg |-> 0]

ControlFlow     == {"call", "jmp", "ret"}    \* insn.group == insn_controlflow

Page(a)         == a \div PageSize
Pages(lo, n)    == {Page(a) : a \in lo .. lo + n - 1}

FixupSize(n)    == n + 2 * BRANCH     \* of a redirect of n bytes

-----------------------------------------------------------------------------
(* Disassembly of a code segment t.  x86_disasm returns 0 for an address   *)
(* past the end, an instruction it does not know, and one that runs past   *)
(* the window it was given.                                                *)

Boundary(t, a)       == a \in Text => t[a].op # "tail"
Decodes(t, a, limit) == a \in Text /\ t[a].op # "bad" /\ a + t[a].len <= limit

\* The redirect covers whole instructions: it ends at the first boundary at
\* or after the nine bytes it needs.
IsSpan(t, f, n) ==
    /\ n \in MinSpan .. MAX_REDIRECT_LENGTH
    /\ Boundary(t, f + n)
    /\ \A m \in MinSpan .. n - 1 : ~Boundary(t, f + m)

\* (mutant) relative branches in the head are copied like anything else
RedirectableAnyCode(t, f, n, flags) ==
    /\ IsSpan(t, f, n)
    /\ \A a \in f .. f + n - 1 : Boundary(t, a) => Decodes(t, a, f + MAX_REDIRECT_LENGTH)

Redirectable(t, f, n, flags) ==
    /\ IsSpan(t, f, n)
    /\ \A a \in f .. f + n - 1 : Boundary(t, a) =>
          /\ Decodes(t, a, f + MAX_REDIRECT_LENGTH)
          /\ t[a].op \in ControlFlow => flags = {"replace"}

\* The code clobbered by a redirect of n bytes, as it is kept in the fixup.
\* (mutant of the next: only the bytes under the branch)
SavedBranchOnly(t, f, n) == [i \in Window |-> IF i < BRANCH THEN t[f + i] ELSE Inside]

Saved(t, f, n) == [i \in Window |-> IF i < n THEN t[f + i] ELSE Inside]

\* The segment with a redirect through fixup x installed, and with the
\* first n bytes of an image put back.
Patched(t, f, n, x) ==
    [a \in Text |-> IF a \notin f .. f + n - 1 THEN t[a]
                    ELSE IF a = f              THEN Branch("jmp", x)
                    ELSE IF a = f + BRANCH     THEN SavedSize(n)
                    ELSE IF a >= f + MinSpan      THEN Nop
                    ELSE Inside]

\* (mutants of the next: the copy goes the wrong way, or is of a branch only)
RestoredNothing(t, f, n, image) == t
RestoredBranchOnly(t, f, n, image) ==
    [a \in Text |-> IF a \in f .. f + BRANCH - 1 THEN image[a - f] ELSE t[a]]

Restored(t, f, n, image) ==
    [a \in Text |-> IF a \in f .. f + n - 1 THEN image[a - f] ELSE t[a]]

\* What remove_function_redirect accepts as a redirect.
LooksHooked(t, f) ==
    /\ t[f].op = "jmp"
    /\ f + BRANCH \in Text
    /\ t[f + BRANCH].op = "size"
    /\ t[f + BRANCH].arg <= MAX_REDIRECT_LENGTH

\* The call that redirect_call_within_function patches: the first one to
\* target that a linear sweep from f meets before an undecodable byte.
IsFirstCall(t, f, target, c) ==
    /\ c \in Text /\ c >= f
    /\ t[c].op = "call" /\ t[c].arg = target
    /\ \A a \in f .. c : Boundary(t, a) =>
          /\ Decodes(t, a, f + MAX_FUNCTION_LENGTH)
          /\ a < c => ~(t[a].op = "call" /\ t[a].arg = target)

-----------------------------------------------------------------------------
(* What is assumed of the loaded image.  A function whose first            *)
(* instructions reach into the next function may be short, but it must     *)
(* then leave its own body (a return or a jump) before the next one.       *)

HeadFits(f) ==
    \E n \in MinSpan .. MAX_REDIRECT_LENGTH :
        /\ IsSpan(Original, f, n)
        /\ f + n <= TextLen
        /\ \A g \in Functions \ {f} : g \notin f .. f + n - 1

Fitting == {f \in Functions : HeadFits(f)}
HeadLen == [f \in Functions |->
               CHOOSE n \in MinSpan .. MAX_REDIRECT_LENGTH : IsSpan(Original, f, n)]

LeavesEarly(f) ==
    \E a \in f .. f + MinSpan - 1 :
        /\ a \in Text
        /\ Original[a].op \in ControlFlow
        /\ \A g \in Functions \ {f} : g \notin f .. a

ASSUME LayoutAssumption ==
    /\ TextLen \in Nat /\ PageSize \in Nat \ {0}
    /\ Functions \subseteq Text
    /\ Routines \cap Nat = {} /\ FixupIds \cap (Nat \cup Routines) = {}
    /\ IsFiniteSet(FixupIds)
    /\ FlagChoices \subseteq SUBSET {"replace", "fastcall"}
    /\ Unsealed \subseteq Nat
    /\ Callbacks \subseteq Targets

\* Blocks do not overlap, and are aligned: the first branch is in one page.
ASSUME HeapAssumption ==
    /\ Address \in [FixupIds -> Nat]
    /\ \A x, y \in FixupIds :
          x = y \/ \/ Address[x] + FixupSize(MAX_REDIRECT_LENGTH) <= Address[y]
                  \/ Address[y] + FixupSize(MAX_REDIRECT_LENGTH) <= Address[x]
    /\ \A x \in FixupIds : Pages(Address[x], BRANCH) = {Page(Address[x])}

\* The instruction at a is followed by its tail cells and then the next one.
LaidOut(a) ==
    LET n == Original[a].len IN
    /\ n # 0 /\ a + n <= TextLen /\ Boundary(Original, a + n)
    /\ \A k \in 1 .. n - 1 : Original[a + k].op = "tail"

ASSUME OriginalAssumption ==
    /\ Original \in [Text -> Cell]
    /\ \A a \in Text : Original[a].op # "tail" => LaidOut(a)
    /\ \A a \in Text : /\ Original[a].op # "size"
                       /\ Original[a].op \in {"call", "jmp"} => Original[a].arg \in Targets
    /\ \A f \in Functions : /\ Original[f].op # "tail"
                            /\ HeadFits(f) \/ LeavesEarly(f)

-----------------------------------------------------------------------------
VARIABLES text,      \* the code segment
          heap,      \* the fixups: what calloc returned, and what is in it
          leaked,    \* blocks that a failed insertion never gave back (history)
          writable,  \* pages of the segment mprotect has made writable
          executable, \* pages of the heap mprotect has made executable
          fault      \* why the process died, or "none"

vars == <<text, heap, leaked, writable, executable, fault>>

Free  == [op |-> "free"]
Fixup == [op : {"call", "jmp"}, redirect : Targets,
          saved : [Window -> Cell], size : 0 .. MAX_REDIRECT_LENGTH, resume : Nat]

TypeOK ==
    /\ text \in [Text -> Cell]
    /\ heap \in [FixupIds -> Fixup \cup {Free}]
    /\ leaked \in SUBSET FixupIds
    /\ writable \in SUBSET Nat /\ executable \in SUBSET Nat
    /\ fault \in {"none", "null", "write", "call", "free"}

Init ==
    /\ text = Original
    /\ heap = [x \in FixupIds |-> Free]
    /\ leaked = {}
    /\ writable = Unsealed /\ executable = {}
    /\ fault = "none"

-----------------------------------------------------------------------------
(* insert_function_redirect.  A call it refuses (an undecodable or a       *)
(* control flow instruction in the head) changes nothing.                  *)

FixupOp(flags) == IF "replace" \in flags THEN "jmp" ELSE "call"

\* (mutant: back to just after the nine bytes of the redirect)
NewFixupResumesEarly(f, redirect, flags, n) ==
    [op |-> FixupOp(flags), redirect |-> redirect,
     saved |-> Saved(text, f, n), size |-> n, resume |-> f + MinSpan]

NewFixup(f, redirect, flags, n) ==
    [op |-> FixupOp(flags), redirect |-> redirect,
     saved |-> Saved(text, f, n), size |-> n, resume |-> f + n]
EmptyFixup(redirect, flags) ==
    [op |-> FixupOp(flags), redirect |-> redirect,
     saved |-> [i \in Window |-> Inside], size |-> 0, resume |-> 0]

\* The client's duty the code does not check: a function that is to be
\* replaced is long enough to hold the redirect.
LongEnough(f, flags) == flags = {"replace"} => f \in Fitting

\* The sweep accepted n bytes of f.
Accepted(f, flags, n) ==
    /\ fault = "none"
    /\ LongEnough(f, flags)
    /\ Redirectable(text, f, n, flags)

\* And calloc returned x.
Ready(f, flags, n, x) == heap[x] = Free /\ Accepted(f, flags, n)

\* calloc returned NULL, which nobody checks before the first store.
InsertWithoutMemory(f, flags) ==
    /\ \E n \in MinSpan .. MAX_REDIRECT_LENGTH : Accepted(f, flags, n)
    /\ fault' = "null"
    /\ UNCHANGED <<text, heap, leaked, writable, executable>>

InsertFailsOnFixup(f, redirect, flags) ==
    \E x \in FixupIds, n \in MinSpan .. MAX_REDIRECT_LENGTH :
        /\ Ready(f, flags, n, x)
        /\ heap' = [heap EXCEPT ![x] = EmptyFixup(redirect, flags)]
        /\ leaked' = leaked \cup {x}
        /\ UNCHANGED <<text, writable, executable, fault>>

\* mprotect is asked for the page of the fixup's first byte only: the branch
\* back at its end may be in the next page.
Enable(x) == executable \cup {Page(Address[x])}

InsertFailsOnCallsite(f, redirect, flags) ==
    \E x \in FixupIds, n \in MinSpan .. MAX_REDIRECT_LENGTH :
        /\ Ready(f, flags, n, x)
        /\ heap' = [heap EXCEPT ![x] = NewFixup(f, redirect, flags, n)]
        /\ leaked' = leaked \cup {x}
        /\ executable' = Enable(x)
        /\ UNCHANGED <<text, writable, fault>>

\* Here, too, it is asked for the page of the first byte; the stores that
\* follow cover the whole span.
UnlockNothing(f) == writable          \* (mutant)

Unlock(f) == writable \cup {Page(f)}

Insert(f, redirect, flags) ==
    \E x \in FixupIds, n \in MinSpan .. MAX_REDIRECT_LENGTH :
        /\ Ready(f, flags, n, x)
        /\ heap' = [heap EXCEPT ![x] = NewFixup(f, redirect, flags, n)]
        /\ executable' = Enable(x)
        /\ writable' = Unlock(f)
        /\ \/ /\ Pages(f, n) \subseteq writable'
              /\ text' = Patched(text, f, n, x)
              /\ UNCHANGED fault
           \/ /\ ~(Pages(f, n) \subseteq writable')
              /\ fault' = "write"
              /\ UNCHANGED text
        /\ UNCHANGED leaked

(* remove_function_redirect.                                               *)
Remove(f) ==
    /\ fault = "none"
    /\ LooksHooked(text, f)
    /\ LET x == text[f].arg
           n == text[f + BRANCH].arg
       IN \/ /\ heap[x] = Free
             /\ fault' = "free"
             /\ UNCHANGED <<text, heap>>
          \/ /\ heap[x] # Free
             /\ ~(Pages(f, n) \subseteq writable)
             /\ fault' = "write"
             /\ UNCHANGED <<text, heap>>
          \/ /\ heap[x] # Free
             /\ Pages(f, n) \subseteq writable
             /\ text' = Restored(text, f, n, heap[x].saved)
             /\ heap' = [heap EXCEPT ![x] = Free]
             /\ UNCHANGED fault
    /\ UNCHANGED <<leaked, writable, executable>>

(* redirect_call_within_function: the operand is overwritten in place, and *)
(* nothing asks for the page to be writable.                               *)
RedirectCall(f, target, redirect) ==
    /\ fault = "none"
    /\ \E c \in Text :
          /\ IsFirstCall(text, f, target, c)
          /\ \/ /\ Pages(c + 1, BRANCH - 1) \subseteq writable
                /\ text' = [text EXCEPT ![c].arg = redirect]
                /\ UNCHANGED fault
             \/ /\ ~(Pages(c + 1, BRANCH - 1) \subseteq writable)
                /\ fault' = "call"
                /\ UNCHANGED text
    /\ UNCHANGED <<heap, leaked, writable, executable>>

\* A process that took a segmentation fault is gone.
Dead == fault # "none" /\ UNCHANGED vars

Next ==
    \/ \E f \in Functions, r \in Callbacks, flags \in FlagChoices :
          \/ InsertFailsOnFixup(f, r, flags)
          \/ InsertFailsOnCallsite(f, r, flags)
          \/ Insert(f, r, flags)
    \/ \E f \in Functions, flags \in FlagChoices : InsertWithoutMemory(f, flags)
    \/ \E f \in Functions : Remove(f)
    \/ \E f \in Functions, target, r \in Callbacks : RedirectCall(f, target, r)
    \/ Dead

Spec == Init /\ [][Next]_vars

-----------------------------------------------------------------------------
(* Properties.                                                             *)

Hooked(f)   == LooksHooked(text, f)
InHead(a, f) == a \in f .. f + HeadLen[f] - 1

\* Two cells that differ at most in the target of a call, which is all that
\* redirect_call_within_function may change.
SameInsn(c, d) ==
    /\ c.op = d.op /\ c.len = d.len
    /\ c.op # "call" => c.arg = d.arg

\* Code outside the heads of the redirected functions is never disturbed:
\* once every redirect of a function has been removed (and however many were
\* stacked on it, in whatever order other functions were patched), its head
\* is the one that was loaded, up to redirected calls; and no redirect ever
\* reaches into a neighbour.
UnhookedIsOriginal ==
    \A a \in Text :
        (\A f \in Fitting : Hooked(f) => ~InHead(a, f))
            => SameInsn(text[a], Original[a])

\* No two redirects share a fixup and none uses a freed one, whatever the
\* order of insertions and removals: so remove_function_redirect never reads
\* or frees a block twice.
NoUseAfterFree == fault # "free"

\* After mprotect has been called on a redirected function, the stores of
\* insert_function_redirect and remove_function_redirect hit writable pages.
PatchNeverFaults == fault # "write"

=============================================================================
