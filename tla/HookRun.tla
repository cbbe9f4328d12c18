------------------------------ MODULE HookRun -------------------------------
(***************************************************************************)
(* What the patched image does: the redirects a function's head stands     *)
(* for, found by walking from its jump through the fixups, and the         *)
(* instructions the processor executes when wp calls the function.         *)
(***************************************************************************)
EXTENDS Hook, Sequences

-----------------------------------------------------------------------------
(* The redirects on a function: the fixups met when its head is followed  *)
(* through the code that each of them saved, the newest last.              *)

ImageHooked(image) == image[0].op = "jmp" /\ image[BRANCH].op = "size"

IsStack(s, f) ==
    /\ Hooked(f) <=> s # <<>>
    /\ Hooked(f) => s[Len(s)] = text[f].arg
    /\ \A i \in DOMAIN s :
          /\ heap[s[i]] # Free
          /\ ImageHooked(heap[s[i]].saved) <=> i # 1
          /\ i # 1 => heap[s[i]].saved[0].arg = s[i - 1]

Stacks == UNION {[1 .. n -> FixupIds] : n \in 0 .. Cardinality(FixupIds)}

Stack(f) == CHOOSE s \in Stacks : IsStack(s, f)

Chain(f) == [i \in DOMAIN Stack(f) |->
                [to |-> heap[Stack(f)[i]].redirect, mode |-> heap[Stack(f)[i]].op]]

Sites == {a \in Text : Original[a].op = "call"}

\* The instruction at a call site, also while a redirect has moved it.
Callee(s) ==
    IF \E f \in Functions : Hooked(f) /\ InHead(s, f)
    THEN LET f == CHOOSE f \in Functions : Hooked(f) /\ InHead(s, f)
         IN  heap[Stack(f)[1]].saved[s - f].arg
    ELSE text[s].arg

Abs == INSTANCE HookAbs WITH
    Targets      <- Callbacks,
    Modes        <- {"call", "jmp"},
    LoadedCallee <- [s \in Sites |-> Original[s].arg],
    chain        <- [f \in Functions |-> Chain(f)],
    callee       <- [s \in Sites |-> Callee(s)],
    alive        <- (fault = "none")

AbsSpec == Abs!AbsSpec

-----------------------------------------------------------------------------
(* Execution.  The processor is at an address of a segment t ("text") or   *)
(* in a fixup x: at its first branch, in the saved code, or past it.  It   *)
(* runs until the function returns or jumps away; a callee is one event.   *)
(* A branch executed where it was copied to goes astray: its displacement  *)
(* is relative.                                                            *)

End           == [in |-> "end"]
AtText(a)     == [in |-> "text", at |-> a]
InFixup(x, i) == [in |-> "fixup", of |-> x, at |-> i]

\* One instruction: where the processor is next and what it did.
ExecText(t, a) ==
    IF a \notin Text \/ t[a].op \in {"bad", "tail", "size"}
    THEN [pc |-> End, did |-> <<"crash">>]
    ELSE CASE t[a].op = "jmp" /\ t[a].arg \in FixupIds ->
                    [pc |-> InFixup(t[a].arg, 0), did |-> <<>>]
           [] t[a].op = "jmp" /\ t[a].arg \notin FixupIds ->
                    [pc |-> End, did |-> <<"tailcall", t[a].arg>>]
           [] t[a].op = "ret"   -> [pc |-> End, did |-> <<"ret">>]
           [] t[a].op = "call"  -> [pc |-> AtText(a + t[a].len), did |-> <<"call", t[a].arg>>]
           [] t[a].op = "nop"   -> [pc |-> AtText(a + t[a].len), did |-> <<>>]
           [] t[a].op = "plain" -> [pc |-> AtText(a + t[a].len), did |-> <<"exec", t[a].arg>>]

\* A fixup: the branch to the callback, the saved code, the branch back.  Each
\* is executed if it lies in pages that mprotect was asked for.
InsnLen(fx, i) ==
    IF i \in {0, BRANCH + fx.size} THEN BRANCH ELSE fx.saved[i - BRANCH].len

Runnable(x, i, n) == Pages(Address[x] + i, n) \subseteq executable

FixupInsn(x, i) ==
    LET fx == heap[x]
        c  == fx.saved[i - BRANCH]
    IN  IF i = 0 THEN [pc  |-> IF fx.op = "jmp" THEN End ELSE InFixup(x, BRANCH),
                       did |-> <<"redirect", fx.redirect>>]
        ELSE IF i = BRANCH + fx.size THEN [pc |-> AtText(fx.resume), did |-> <<>>]
        ELSE IF c.op \in ControlFlow \cup {"bad", "tail"}
        THEN [pc |-> End, did |-> <<"astray">>]
        ELSE [pc  |-> InFixup(x, i + c.len),
              did |-> IF c.op = "plain" THEN <<"exec", c.arg>> ELSE <<>>]

ExecFixup(x, i) ==
    IF heap[x] = Free \/ ~Runnable(x, i, InsnLen(heap[x], i))
    THEN [pc |-> End, did |-> <<"crash">>]
    ELSE FixupInsn(x, i)

\* Enough steps for whatever is run from a function to end: a redirect adds
\* three to a head of at least nine bytes.
Enough == (4 * TextLen + 12) \div 3

Steps(t, f) ==
    LET run[k \in 0 .. Enough] ==
            IF k = 0 THEN [pc |-> AtText(f), trace |-> <<>>]
            ELSE LET was  == run[k - 1]
                     step == IF was.pc.in = "text" THEN ExecText(t, was.pc.at)
                             ELSE ExecFixup(was.pc.of, was.pc.at)
                 IN  IF was.pc = End THEN was
                     ELSE [pc    |-> step.pc,
                           trace |-> IF step.did = <<>> THEN was.trace
                                     ELSE Append(was.trace, step.did)]
    IN run

Run(t, f) == Steps(t, f)[Enough].trace

\* The segment as it would be if the newest redirect of f were taken off.
Without(f) ==
    Restored(text, f, text[f + BRANCH].arg, heap[text[f].arg].saved)

\* All of the fixup lies in pages that mprotect was asked for, as it does
\* unless the block crosses the end of a page.
AllRunnable(x) == Runnable(x, 0, FixupSize(heap[x].size))

\* Calling a redirected function enters the callback exactly once; with
\* HOOK_REPLACE_FUNCTION nothing of the function runs ("you literally become
\* the function"), otherwise every instruction of the function then runs,
\* once and in order, as if it had not been patched, if the fixup does not
\* reach into a page that cannot be executed.
CallRunsRedirect ==
    \A f \in Functions : Hooked(f) =>
        LET x  == text[f].arg
            to == <<<<"redirect", heap[x].redirect>>>>
        IN  /\ heap[x].op = "jmp" => Run(text, f) = to
            /\ heap[x].op = "call" /\ AllRunnable(x)
                  => Run(text, f) = to \o Run(Without(f), f)

\* A function that is not redirected still runs the instructions it was
\* loaded with, whatever was done to its neighbours: only the targets of its
\* calls may differ.
Kind(did) == IF did[1] = "call" THEN <<"call">> ELSE did
UnhookedRunsOriginal ==
    \A f \in Functions : ~Hooked(f) =>
        LET now == Run(text, f)
            was == Run(Original, f)
        IN  /\ Len(now) = Len(was)
            /\ \A i \in DOMAIN now : Kind(now[i]) = Kind(was[i])

\* The code of a function leaves it, by a return or a jump, before the next
\* entry point.
EndsAt(f, e) ==
    /\ e \in Text /\ e >= f /\ Original[e].op \in {"jmp", "ret"}
    /\ \A g \in Functions \ {f} : g \notin f .. e

FunctionsEnd == \A f \in Functions : \E e \in Text : EndsAt(f, e)
=============================================================================
