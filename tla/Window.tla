------------------------------- MODULE Window -------------------------------
(***************************************************************************)
(* A client of x86_disasm that sees code through a window, as hook.c does  *)
(* with MAX_REDIRECT_LENGTH and MAX_FUNCTION_LENGTH bytes: the window is   *)
(* widened byte by byte, and the first instruction in it decoded anew.     *)
(***************************************************************************)
EXTENDS Decoder

CONSTANTS
  OptionSets,      \* what x86_init may be given
  NextBytes(_, _), \* bound: the bytes that may follow code, under the options
  MaxLen,          \* bound: the longest window
  Ahead            \* bound: how far it goes past an instruction

ASSUME WindowAssumption ==
  /\ MaxLen \in 0 .. MAX_INSTRUCTION_SIZE /\ Ahead \in Nat
  /\ OptionSets \subseteq SUBSET {"opt_16_bit", "opt_ignore_nulls"}

VARIABLES code, options, insn

WindowInit ==
  /\ code = <<>> /\ insn = InvalidInsn
  /\ options \in OptionSets

Widen ==
  /\ Len(code) < MaxLen
  /\ insn.size = 0 \/ Len(code) < insn.size + Ahead
  /\ \E b \in NextBytes(code, options) :
       /\ code' = Append(code, b)
       /\ insn' = x86_disasm(code', 0, options)
  /\ UNCHANGED options

-----------------------------------------------------------------------------
(* The architecture, for comparison: the length of an instruction in       *)
(* 32 and 16-bit mode as Intel's manual has it, without the tables.        *)

Legacy == {\h26, \h2E, \h36, \h3E, \h64, \h65, \h66, \h67, \hF0, \hF2, \hF3}

\* How many bytes of code are prefixes.
PrefixLen == IF \A i \in 1 .. Len(code) : code[i] \in Legacy THEN Len(code)
            ELSE (CHOOSE i \in 1 .. Len(code) :
                    code[i] \notin Legacy /\ \A j \in 1 .. i - 1 : code[j] \in Legacy) - 1

Has(prefix) == \E i \in 1 .. PrefixLen : code[i] = prefix
Byte(i)     == GetByte(code, PrefixLen + i)    \* of the opcode and after, from 0
Bits16      == "opt_16_bit" \in options
Op16        == Has(\h66) # Bits16
Addr16      == Has(\h67) # Bits16
TwoByte     == Byte(0) = \h0F
Opcode      == IF TwoByte THEN Byte(1) ELSE Byte(0)
OpcodeLen   == IF TwoByte THEN 2 ELSE 1

HasModrm ==
  IF TwoByte
  THEN Opcode \notin (\h05 .. \h0C) \cup {\h0E, \h77, \hB9}
                       \cup (\h30 .. \h37) \cup (\h80 .. \h8F) \cup (\hA0 .. \hA2)
                       \cup (\hA8 .. \hAA) \cup (\hC8 .. \hCF)
  ELSE \/ Opcode < \h40 /\ Opcode % 8 < 4
       \/ Opcode \in {\h62, \h63, \h69, \h6B, \hC0, \hC1, \hF6, \hF7, \hFE, \hFF}
       \/ Opcode \in (\h80 .. \h8F) \cup (\hC4 .. \hC7) \cup (\hD0 .. \hD3) \cup (\hD8 .. \hDF)

M      == byte_decode(Byte(OpcodeLen))
Sib    == byte_decode(Byte(OpcodeLen + 1))

ModrmLen ==
  IF M.mod = 3 THEN 1
  ELSE IF Addr16
  THEN 1 + (IF M.mod = 0 THEN IF M.rm = 6 THEN 2 ELSE 0 ELSE M.mod)
  ELSE 1 + (IF M.rm = 4 THEN 1 ELSE 0)
         + (CASE M.mod = 1 -> 1
              [] M.mod = 2 -> 4
              [] M.mod = 0 /\ M.rm = 5 -> 4
              [] M.mod = 0 /\ M.rm = 4 /\ Sib.rm = 5 -> 4
              [] OTHER -> 0)

Word == IF Op16 THEN 2 ELSE 4

ImmediateLen ==
  IF TwoByte
  THEN CASE Opcode \in \h80 .. \h8F -> Word
         [] Opcode \in (\h70 .. \h73) \cup {\h0F, \hA4, \hAC, \hBA, \hC2, \hC4, \hC5, \hC6} -> 1
         [] OTHER -> 0
  ELSE CASE Opcode < \h40 /\ Opcode % 8 = 4 -> 1
         [] Opcode < \h40 /\ Opcode % 8 = 5 -> Word
         [] Opcode \in {\h68, \h69, \h81, \hA9, \hC7, \hE8, \hE9} \cup (\hB8 .. \hBF) -> Word
         [] Opcode \in {\h6A, \h6B, \h80, \h82, \h83, \hA8, \hC0, \hC1, \hC6, \hCD, \hD4, \hD5, \hEB}
                         \cup (\h70 .. \h7F) \cup (\hB0 .. \hB7) \cup (\hE0 .. \hE7) -> 1
         [] Opcode \in \hA0 .. \hA3    -> IF Addr16 THEN 2 ELSE 4
         [] Opcode \in {\hC2, \hCA}    -> 2
         [] Opcode = \hC8              -> 3
         [] Opcode \in {\h9A, \hEA}    -> Word + 2
         [] Opcode = \hF6 /\ M.reg < 2 -> 1
         [] Opcode = \hF7 /\ M.reg < 2 -> Word
         [] OTHER                      -> 0

Length == PrefixLen + OpcodeLen + (IF HasModrm THEN ModrmLen ELSE 0) + ImmediateLen

-----------------------------------------------------------------------------
(* What the decoder promises.                                              *)

\* The window ends where the SIB byte would be.
SibCut == /\ HasModrm /\ ~Addr16 /\ M.mod # 3 /\ M.rm = 4
          /\ Len(code) = PrefixLen + OpcodeLen + 1

\* The pointer in the code is sized by the address size, not the operand size.
FarPointer == ~TwoByte /\ Opcode \in {\h9A, \hEA} /\ Op16 # Addr16

\* The displacement without a register is left out.
WordDisplacement == HasModrm /\ Addr16 /\ M.mod = 0 /\ M.rm = 6

\* Three of the prefetches name a register instead of what ModR/M says.
Prefetch == TwoByte /\ Opcode = \h18 /\ M.reg \in 1 .. 3

\* opt_ignore_nulls looks at four bytes: they are not code, though the first two
\* of them are an instruction as long as no more are seen.
FourNulls == /\ "opt_ignore_nulls" \in options /\ Len(code) > 3
             /\ \A i \in 1 .. 4 : code[i] = 0

\* An instruction that was accepted stays what it is when the caller shows the
\* decoder more bytes: nothing past its end, in the zeroes that the window of
\* x86_disasm is filled with, decides its length, its operands or their values.
\* Where the SIB byte is cut off the zeroes are taken for an address, and four
\* nulls are refused, if that is asked for, when all of them are there.
SizeIsFinal ==
  [][insn.size > 0 => insn' = insn \/ SibCut \/ (insn'.size = 0 /\ FourNulls')]_<<code, options, insn>>

\* The walk of hook.c from one instruction to the next is right only if every
\* size is the processor's: prefixes, opcode, ModR/M, SIB, displacement and
\* immediates, over all the tables, nested lookups and SSE prefixes.  The four
\* exceptions are what the decoder gets wrong.
LengthIsArchitectural ==
  insn.size > 0
    => \/ insn.size = Length
       \/ SibCut \/ FarPointer \/ WordDisplacement \/ Prefetch

\* The same with the prefixes of both sizes taken away or added.
Toggled == CASE code[1] = \h66 -> <<\h67>> \o Tail(code)
             [] code[1] = \h67 -> <<\h66>> \o Tail(code)
             [] OTHER          -> <<\h66, \h67>> \o code

\* In 16-bit mode an instruction is what it is in 32-bit mode with the opposite
\* prefixes, in its size, its operands and the places they are read from.  (The
\* two-byte opcodes have other meanings with a prefix.)
ModesAgree ==
  Bits16 /\ ~TwoByte /\ insn.size > 0 /\ PrefixLen <= 1
    => LET in32  == x86_disasm(Toggled, 0, {})
           added == Len(Toggled) - Len(code)
           moved == [i \in DOMAIN insn.operands |->
                       [insn.operands[i] EXCEPT !.pos = IF @ = 0 THEN 0 ELSE @ + added]]
       IN in32.size = insn.size + added /\ in32.operands = moved

Enter == ~TwoByte /\ Opcode = \hC8

\* The n bytes at a place of the window are those of a number.
Holds(value, at, n) ==
  at >= 0 /\ \A k \in 0 .. n - 1 : (value \div 256 ^ k) % 256 = GetByte(code, at + k)

\* The place that x86_get_raw_imm computes, from the end of the instruction, is
\* where the decoder read the immediate that a caller wants to patch there.
\* (Of the two of enter it takes the first value with the place of the second.)
RawImmediateInPlace ==
  x86_get_raw_imm(insn) # -1 /\ ~Enter
    => \E op \in Range(insn.operands) :
         op.type = "op_immediate" /\ Holds(op.value, x86_get_raw_imm(insn), x86_operand_size(op))

RelativeOperands == {op \in Range(insn.operands) : op.type \in {"op_relative_near", "op_relative_far"}}

\* The offset by which hook.c finds what a call calls is the displacement in the
\* last bytes of the instruction, that of a short jump with its sign.
RelativeTargets ==
  \A op \in RelativeOperands :
    LET n == x86_operand_size(op)
    IN /\ Holds(x86_get_rel_offset(insn), insn.size - n, n)
       /\ n = 1 => x86_get_rel_offset(insn) \in -128 .. 127

\* "Return as a sign-extended int32_t the near or far relative offset operand"
\* (libdis.h): an offset of one or two bytes has its sign.
OffsetIsSigned ==
  \A op \in RelativeOperands :
    LET n == x86_operand_size(op)
    IN n \in {1, 2} => x86_get_rel_offset(insn) \in -(128 * 256 ^ (n - 1)) .. 128 * 256 ^ (n - 1) - 1

\* Whatever jumps or calls names where to: the first operand of every such
\* instruction is the one it executes, as x86_disasm_forward and hook.c take for
\* granted when they ask for the destination.
FlowHasTarget ==
  insn.size > 0 /\ insn.type \in {"jmp", "jcc", "call", "callcc"}
    => x86_get_branch_target(insn) = 1
=============================================================================
