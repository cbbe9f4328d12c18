------------------------------- MODULE MCHook -------------------------------
(***************************************************************************)
(* Small code segments for Hook, HookRun and HookProofs.                   *)
(***************************************************************************)
EXTENDS HookProofs, TLC

CONSTANTS r1, r2, x1, x2, x3

\* One block within a page of the heap, and one across the end of a page.
MCAddress == (x1 :> 64) @@ (x2 :> 112)
OneAddress == x1 :> 64

\* The segment made of the instructions <<op, len, arg>> one after the other.
Place(code) ==
    LET at[i \in 1 .. Len(code) + 1] == IF i = 1 THEN 0 ELSE at[i - 1] + code[i - 1][2]
    IN  [a \in 0 .. at[Len(code) + 1] - 1 |->
            IF \E i \in 1 .. Len(code) : at[i] = a
            THEN LET i == CHOOSE i \in 1 .. Len(code) : at[i] = a
                 IN [op |-> code[i][1], len |-> code[i][2],
                     arg |-> IF code[i][1] \in {"call", "jmp"} THEN code[i][3] ELSE a]
            ELSE Inside]

Insn(op, n) == <<op, n, 0>>
Go(op, to)  == <<op, 5, to>>

\* F at 0 is ordinary: push, mov, sub of five bytes (a span of 10), then two
\* calls.  G at 21 has a call in its head, which only HOOK_REPLACE_FUNCTION
\* accepts (a span of 9).  H at 33 is a short accessor, seven bytes before
\* the thunk K at 40, whose first instruction is a jump.
Code == << Insn("plain", 1), Insn("plain", 4), Insn("plain", 5),
           Go("call", r1), Go("call", r2), Insn("ret", 1),
           Insn("plain", 3), Go("call", r1), Insn("plain", 1),
           Insn("plain", 2), Insn("ret", 1),
           Insn("plain", 6), Insn("ret", 1),
           Go("jmp", 21), Insn("plain", 5) >>

MCOriginal  == Place(Code)
MCTextLen   == 50
MCFunctions == {0, 21, 33, 40}
MCFlags     == {{}, {"replace"}, {"replace", "fastcall"}}

\* One function of 25 bytes that calls r1 twice, and one after it that calls
\* it once.
TwoCode      == << Insn("plain", 1), Insn("plain", 4), Insn("plain", 5),
                   Go("call", r1), Go("call", r1), Insn("plain", 4), Insn("ret", 1),
                   Insn("plain", 2), Insn("plain", 9), Go("call", r1), Insn("ret", 1) >>
TwoOriginal  == Place(TwoCode)
TwoTextLen   == 42
TwoFunctions == {0, 25}

ASSUME BodiesEnd == FunctionsEnd
=============================================================================
