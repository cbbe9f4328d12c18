------------------------------ MODULE MCDisasm ------------------------------
(***************************************************************************)
(* The decoder through a widening window over every opcode, and the        *)
(* drivers over small buffers decoded by it.                               *)
(***************************************************************************)
EXTENDS Window, Disasm

\* Buffers of at most 8 bytes: what flows back, into itself, out and nowhere.
MCImages ==
  { <<\h90, \hC3>>,
    <<\hEB, \hFE, \h90>>,                                \* a jump to itself
    <<\h74, \h02, \hEB, \hFC, \hC3>>,                    \* a loop with a way out
    <<\hE8, \h01, \h00, \h00, \h00, \hC3, \h90, \hC3>>,  \* a call over a return
    <<\h75, \hFF, \hC0, \hC3>>,                          \* into its own second byte
    <<\hFF, \hE0, \hC3, \h90, \hC3>>,                    \* through a register
    <<\hFF, \hD0, \h74, \h01, \hC3, \hF4>>,
    <<\hEA, \h04, \h10, \h00, \h00, \h00, \h00, \hC3>>,  \* an absolute one
    <<\h0F, \hFF, \h0F, \hFF, \h74, \hFA>>,              \* no instruction, and back to it
    <<\h90, \hB8, \h01, \h02>> }                         \* cut off

Seen(i) ==
  LET dest == IF i.explicit_count > 0 THEN i.operands[1] ELSE NewOperand
  IN [size |-> i.size, type |-> i.type, operand |-> dest.type, value |-> dest.value]

MCInsn(b, offset, end) == Seen(x86_disasm(SubSeq(b, 1, end), offset, {}))

(* The bytes of a window.  All opcodes, of one and two bytes and behind a   *)
(* prefix; for the groups all ModR/M bytes that choose a member, for the    *)
(* others one for each form; a displacement of 8 or 32 bits, SIB or none.   *)
Extends == {\h66, \h67, \hF2, \hF3}
Before  == Extends \cup {\h26, \h2E, \h3E, \h65, \hF0}
Forms   == {\h00, \h04, \h05, \h06, \h44, \h86, \hC1}
Members == (\hC0 .. \hFF) \cup {8 * r + k : r \in 0 .. 7, k \in {0, 5}} \cup {\h44, \h86}
Groups  == (\h80 .. \h83) \cup (\hC0 .. \hC7) \cup (\hD0 .. \hD3) \cup (\hD8 .. \hDF)
           \cup {\h8F, \hF6, \hF7, \hFE, \hFF}
Groups0F == {\h00, \h01, \h18, \h71, \h72, \h73, \hAE, \hBA, \hC7}
Modes   == { {}, {"opt_16_bit"}, {"opt_ignore_nulls"} }

Now3D(c, first) == c[first + 1] = \h0F /\ c[first + 2] = \h0F

MCNextBytes(c, o) ==
  LET n      == Len(c)
      behind == n > 1 /\ c[1] \in Before        \* a prefix and an opcode
      first  == IF behind THEN 1 ELSE 0
      two    == n > first /\ c[first + 1] = \h0F
      rest   == n - first - (IF two THEN 2 ELSE 1)   \* bytes behind the opcode
      group  == IF two THEN c[first + 2] \in Groups0F ELSE c[first + 1] \in Groups
  IN CASE insn.size > 0                       -> {\h25} \cup (IF "opt_ignore_nulls" \in o THEN {\h00} ELSE {})
       [] "opt_ignore_nulls" \in o            -> {\h00, \h01}
       [] n = 0                               -> 0 .. 255
       [] n = 1 /\ c[1] \in {\h66, \h67}      -> 0 .. 255
       [] n = 1 /\ c[1] \in Extends           -> IF o = {} THEN 0 .. 255 ELSE {}
       [] n = 1 /\ c[1] \in Before            -> {\h0F, \h05, \h70, \h8B, \hA4, \hE8, \hFF}
       [] behind /\ n = 2 /\ c[2] \in Extends -> {\h0F, \h05, \h90, \hE8}
       [] rest < 0                            -> IF o = {} THEN 0 .. 255 ELSE {}
       [] rest = 0 /\ group /\ ~behind        -> Members
       [] rest = 0                            -> Forms
       [] rest = 1 /\ ~behind /\ Now3D(c, first) -> 0 .. 255
       [] rest = 1                            -> {\h25, \h80}
       [] OTHER                               -> {\h9C}

-----------------------------------------------------------------------------
window == <<code, options, insn>>

MCInit == Init /\ WindowInit

Look  == job = "none" /\ Widen /\ UNCHANGED vars
Drive == code = <<>> /\ options = {} /\ Next /\ UNCHANGED window

MCNext == Look \/ Drive

MCSpec == MCInit /\ [][MCNext]_<<vars, window>> /\ Fairness
=============================================================================
