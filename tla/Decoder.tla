------------------------------ MODULE Decoder -------------------------------
(***************************************************************************)
(* The decoder of libdisasm: x86_disasm for one instruction at an offset   *)
(* of a buffer.  A buffer is a sequence of bytes; what is read past its    *)
(* end is 0, as in the zeroed window of MAX_INSTRUCTION_SIZE bytes that    *)
(* the code copies the buffer to.  (A buffer is at most that long here.)   *)
(* An operand records its type, the register or the address expression it  *)
(* names, or the bytes it was read from; values are 32 bits and signed.    *)
(* Mnemonics, the CPU, notes and eflags are left out.                      *)
(***************************************************************************)
EXTENDS Integers, Sequences, FiniteSets, SequencesExt, Opcodes

MAX_INSTRUCTION_SIZE == 20

GetByte(buf, pos) == IF pos < Len(buf) THEN buf[pos + 1] ELSE 0

-----------------------------------------------------------------------------
(* Registers, by their numbers.                                            *)

REG == [DWORD |-> 1, WORD |-> 9, BYTE |-> 17, MMX |-> 25, SIMD |-> 33, DEBUG |-> 41,
        CTRL |-> 49, TEST |-> 57, SEG |-> 65, LDTR |-> 71, GDTR |-> 72, FPU |-> 73,
        FLAGS |-> 81, EIP |-> 85, IP |-> 86, IDTR |-> 87, MXCSR |-> 88, TR |-> 89]

EAX == REG.DWORD
ECX == REG.DWORD + 1
EDX == REG.DWORD + 2
EBX == REG.DWORD + 3
ESP == REG.DWORD + 4
EBP == REG.DWORD + 5
ESI == REG.DWORD + 6
EDI == REG.DWORD + 7
AX  == REG.WORD
AL  == REG.BYTE
AH  == REG.BYTE + 4
ST0 == REG.FPU

RegSize(id) ==
  CASE id \in REG.DWORD .. EDI        -> 4
    [] id \in AX .. AL - 1            -> 2
    [] id \in AL .. REG.MMX - 1       -> 1
    [] id \in REG.MMX .. REG.SIMD - 1 -> 8
    [] id \in REG.SIMD .. REG.DEBUG - 1 -> 16
    [] id \in REG.SEG .. REG.LDTR - 1 -> 2
    [] id \in ST0 .. ST0 + 7          -> 10
    [] id \in {82, 83, 84, REG.IP}    -> 2
    [] id = REG.TR                    -> 80
    [] OTHER                          -> 4

\* A part of a general register, or an MMX register, stands for the whole.
ia32_true_register_id(id) ==
  CASE id \in AX .. AL - 1            -> id - REG.WORD + EAX
    [] id \in AL .. AH - 1            -> id - AL + EAX
    [] id \in AH .. REG.MMX - 1       -> id - AH + EAX
    [] id \in REG.MMX .. REG.SIMD - 1 -> id - REG.MMX + ST0
    [] id = REG.IP                    -> REG.EIP
    [] OTHER                          -> id

-----------------------------------------------------------------------------
(* Looking up the opcode.                                                  *)

Modrm  == {"E", "M", "Q", "W", "R"}
Exec   == {"jmp", "jcc", "call", "callcc", "return"}
Hints  == {"taken", "not_taken"}
SegReg == {"cs", "ss", "ds", "es", "fs", "gs"}

INVALID_INSN == [ok |-> FALSE, size |-> 0, row |-> Invalid, prefixes |-> {}]

\* Among the first two operands.
uses_modrm(row) == \E i \in DOMAIN row.ops : i <= 2 /\ row.ops[i].method \in Modrm

\* The table for a byte: a coprocessor's opcode has a second one.
Descriptor(desc, table, op) ==
  IF desc.type = "fpu" /\ op > desc.maxlim THEN ia32_tables[FpuExtension[table]] ELSE desc

\* The type of the table a row leads to, if it leads to one.
NextType(row) == IF row.table = NONE THEN "none" ELSE ia32_tables[row.table].type

\* What is left of a prefix before the instruction of row.
HintOrSegment(prefix, row) ==
  IF prefix \cap Hints = {} THEN prefix
  ELSE IF row.kind \in Exec THEN prefix \ SegReg ELSE prefix \ Hints

\* (mutant of the next: ModR/M is counted twice)
OwnBytesAlways(desc, row) == 1

\* 1 if the row's own byte is used up, 0 if the operands read it again.
OwnBytes(desc, row) ==
  IF \/ desc.type = "ext_ext"
     \/ (desc.type \in {"extension", "fpu", "fpu_ext"} /\ uses_modrm(row))
  THEN 0 ELSE 1

\* No row is found, or one without instruction.
IsInvalid(found) == ~found.ok \/ found.row.kind = "invalid"

\* What was found behind a row, seen from its table.
Counted(found, desc, prefix) ==
  IF ~found.ok THEN INVALID_INSN
  ELSE [found EXCEPT !.size     = @ + OwnBytes(desc, found.row),
                     !.prefixes = @ \cup HintOrSegment(prefix, found.row)]

RECURSIVE ia32_table_lookup(_, _, _)

\* From a row of a table to the table it leads to, which is of type next.  A row
\* for a prefix is one unless it begins the opcode of an SSE instruction.
FollowRow(buf, pos, table, desc, row, next) ==
  LET nested == next \notin {"none", "suffix"}
      reuse  == next \in {"ext_ext", "fpu_ext"}
      sub    == ia32_table_lookup(buf, IF reuse THEN pos ELSE pos + 1, row.table)
      prefix == row.prefix # {} /\ (nested => IsInvalid(sub))
  IN CASE nested /\ ~reuse /\ pos + 1 >= Len(buf) -> INVALID_INSN
       [] prefix -> Counted(ia32_table_lookup(buf, pos + 1, table), desc, row.prefix)
       [] nested /\ ~prefix -> Counted(sub, desc, {})
       [] OTHER -> Counted([INVALID_INSN EXCEPT !.ok = TRUE, !.row = row], desc, {})

LookupRow(buf, pos, table, desc, index) ==
  IF index \notin desc.minlim .. desc.maxlim THEN INVALID_INSN
  ELSE LET row == TableRow(desc, index)
       IN FollowRow(buf, pos, table, desc, row, NextType(row))

LookupIn(buf, pos, table, desc) ==
  LookupRow(buf, pos, table, desc, (GetByte(buf, pos) \div desc.shift) % (desc.mask + 1))

ia32_table_lookup(buf, pos, table) ==
  LookupIn(buf, pos, table, Descriptor(ia32_tables[table], table, GetByte(buf, pos)))

-----------------------------------------------------------------------------
(* Operands.                                                               *)

\* (mutant of the next: a byte has no sign)
SignedLate(buf, pos, n) ==
  IF n = 1 THEN GetByte(buf, pos)
  ELSE ((GetByte(buf, pos + 3) % 128) * 65536 + GetByte(buf, pos + 2) * 256
          + GetByte(buf, pos + 1)) * 256 + GetByte(buf, pos)

\* Bytes as a number, the last one with its sign; as a number without sign.
Signed(buf, pos, n) ==
  LET b(i)   == GetByte(buf, pos + i)
      top    == IF b(n - 1) > 127 THEN b(n - 1) - 256 ELSE b(n - 1)
  IN CASE n = 1 -> top
       [] n = 2 -> top * 256 + b(0)
       [] OTHER -> ((b(3) - (IF b(3) > 127 THEN 256 ELSE 0)) * 65536 + b(2) * 256 + b(1)) * 256
                     + b(0)
Unsigned(buf, pos, n) ==
  IF n > 2 THEN Signed(buf, pos, n) ELSE Signed(buf, pos, n) % (256 ^ n)

NoExpression == [base |-> 0, index |-> 0, scale |-> 0, disp |-> 0, disp_size |-> 0]

NewOperand == [type |-> "op_unused", datatype |-> "", exec |-> FALSE, flags |-> {},
               segment |-> {}, reg |-> 0, expression |-> NoExpression, value |-> 0,
               pos |-> 0]

byte_decode(b) == [mod |-> b \div 64, reg |-> (b \div 8) % 8, rm |-> b % 8]

\* Flags of a segment: its number in binary.  They are ORed, and so can add up
\* to another segment.
SegmentFlag  == [es |-> {1}, cs |-> {2}, ss |-> {1, 2}, ds |-> {4}, fs |-> {1, 4}, gs |-> {2, 4}]
PrefixNumber == [cs |-> {1}, ss |-> {2}, ds |-> {1, 2}, es |-> {4}, fs |-> {1, 4}, gs |-> {2, 4}]

apply_seg(prefixes) ==
  LET bits == UNION {PrefixNumber[p] : p \in prefixes \cap SegReg}
  IN UNION {SegmentFlag[s] : s \in {s \in SegReg : PrefixNumber[s] = bits}}

-----------------------------------------------------------------------------
(* ModR/M and SIB bytes.  Each yields an address expression and a size.    *)

Displaced(ea, buf, pos, n) ==
  [ea EXCEPT !.disp = Signed(buf, pos, n), !.disp_size = n]

\* At the end of the buffer there is no SIB byte, and none is counted.
sib_decode(buf, pos, mod) ==
  LET sib    == byte_decode(GetByte(buf, pos))
      index  == IF sib.reg = 4 THEN 0 ELSE sib.reg + 1
      scaled == [NoExpression EXCEPT !.index = index, !.scale = 2 ^ sib.mod]
  IN CASE pos >= Len(buf)          -> [ea |-> NoExpression, size |-> 0]
       [] sib.rm = 5 /\ mod = 0    -> [ea |-> Displaced(scaled, buf, pos + 1, 4), size |-> 5]
       [] OTHER                    -> [ea |-> [scaled EXCEPT !.base = sib.rm + 1], size |-> 1]

\* BX+DI falls through to BP+SI.  BP alone without displacement is no register,
\* and its displacement of two bytes is not read.
modrm_decode16(buf, pos, modrm) ==
  LET pair   == << <<3, 6>>, <<5, 6>>, <<5, 6>>, <<5, 7>>, <<6>>, <<7>>, <<5>>, <<3>> >>
      regs   == IF modrm.rm = 6 /\ modrm.mod = 0 THEN <<>> ELSE pair[modrm.rm + 1]
      word(i) == IF i \in DOMAIN regs THEN REG.WORD + regs[i] ELSE 0
      ea     == [NoExpression EXCEPT !.base = word(1), !.index = word(2)]
      n      == modrm.mod
  IN [ea      |-> IF n = 0 THEN ea ELSE Displaced(ea, buf, pos + 1, n),
      segment |-> IF modrm.rm \in {1, 2, 3} \/ (modrm.rm = 6 /\ n # 0)
                  THEN SegmentFlag.ss ELSE {},
      size    |-> 1 + n]

\* (mutant of the next: a displacement is read and not counted)
Modrm32Uncounted(buf, pos, modrm, addr_size) ==
  [ea |-> Displaced(NoExpression, buf, pos + 1, 1), segment |-> {}, size |-> 1]

Modrm32(buf, pos, modrm, addr_size) ==
  LET sib  == sib_decode(buf, pos + 1, modrm.mod)
      base == IF modrm.rm = 4 THEN sib
              ELSE [ea |-> [NoExpression EXCEPT !.base = modrm.rm + 1], size |-> 0]
      at   == pos + 1 + (IF modrm.rm = 4 THEN 1 ELSE 0)
      with(ea, n, size) == [ea |-> Displaced(ea, buf, at, n), segment |-> {}, size |-> size]
  IN CASE modrm.mod = 0 /\ modrm.rm = 5 -> with(NoExpression, 4, 5)
       [] modrm.mod = 0 -> [ea |-> base.ea, segment |-> {}, size |-> 1 + base.size]
       [] modrm.mod = 1 -> with(base.ea, 1, 2 + base.size)
       [] modrm.mod = 2 -> with(base.ea, addr_size, 5 + base.size)

InMemory(op, mem) ==
  [op |-> [op EXCEPT !.type = "op_expression", !.expression = mem.ea,
                     !.segment = mem.segment, !.flags = @ \cup {"op_pointer"}],
   size |-> mem.size]

ia32_modrm_decode(op, buf, pos, insn, file) ==
  LET modrm == byte_decode(GetByte(buf, pos))
  IN CASE modrm.mod = 3 ->
            [op |-> [op EXCEPT !.type = "op_register", !.reg = file + modrm.rm], size |-> 1]
       [] modrm.mod # 3 /\ insn.addr_size = 2 ->
            InMemory(op, modrm_decode16(buf, pos, modrm))
       [] OTHER -> InMemory(op, Modrm32(buf, pos, modrm, insn.addr_size))

-----------------------------------------------------------------------------
(* The bytes an operand takes in the instruction, and its datatype.        *)

Fixed(size, datatype) == [size |-> size, datatype |-> datatype]

FixedSize ==
  [b  |-> Fixed(1, "op_byte"),    w  |-> Fixed(2, "op_word"),    d    |-> Fixed(4, "op_dword"),
   q  |-> Fixed(8, "op_qword"),   dq |-> Fixed(16, "op_dqword"), ps   |-> Fixed(16, "op_ssimd"),
   pd |-> Fixed(16, "op_dsimd"),  ss |-> Fixed(16, "op_sssimd"), sd   |-> Fixed(16, "op_sdsimd"),
   pi |-> Fixed(8, "op_qword"),   si |-> Fixed(4, "op_dword"),   fs   |-> Fixed(4, "op_sreal"),
   fd |-> Fixed(8, "op_dreal"),   fe |-> Fixed(10, "op_extreal"), fb  |-> Fixed(10, "op_bcd"),
   fx |-> Fixed(512, "op_fpregset"), fp |-> Fixed(10, "op_fpreg"), none |-> Fixed(0, "op_none")]

\* The sizes of bounds and pointers never equal 4 where the code expects it.
decode_operand_size(type, insn) ==
  LET op32   == insn.op_size = 4
      addr32 == insn.addr_size = 4
      Either(c, x, y) == IF c THEN x ELSE y
  IN CASE type \in DOMAIN FixedSize -> FixedSize[type]
       [] type = "c"  -> Fixed(Either(op32, 2, 1), "op_byte")
       [] type = "a"  -> Either(op32, Fixed(8, "op_bounds16"), Fixed(4, "op_bounds32"))
       [] type = "p"  -> Either(addr32, Fixed(6, "op_descr16"), Fixed(4, "op_descr32"))
       [] type = "s"  -> Fixed(6, Either(addr32, "op_pdescr32", "op_pdescr16"))
       [] type = "fv" -> Either(addr32, Fixed(28, "op_fpuenv32"), Fixed(14, "op_fpuenv16"))
       [] type = "ft" -> Either(addr32, Fixed(108, "op_fpustate32"), Fixed(94, "op_fpustate16"))
       [] type = "m"  -> Either(addr32, Fixed(4, "op_dword"), Fixed(2, "op_word"))
       [] OTHER       -> Either(op32, Fixed(4, "op_dword"), Fixed(2, "op_word"))

-----------------------------------------------------------------------------
(* Decoding an operand.                                                    *)

\* The file of registers that a method names one of.
RegisterFile(method, gen_regs) ==
  CASE method \in {"E", "M", "R", "G", "RR"} -> gen_regs
    [] method \in {"Q", "P"}   -> REG.MMX
    [] method \in {"W", "V"}   -> REG.SIMD
    [] method \in {"S", "RS"}  -> REG.SEG
    [] method \in {"T", "RT"}  -> REG.TEST
    [] method = "C"            -> REG.CTRL
    [] method = "D"            -> REG.DEBUG
    [] method = "RF"           -> REG.FPU

\* insn: what is known of the instruction; modrm: the byte after the opcode.
decode_operand_value(op, buf, pos, insn, raw, size, modrm, gen_regs) ==
  LET file == RegisterFile(raw.method, gen_regs)
      Hard(o)      == [op |-> [o EXCEPT !.flags = @ \cup {"op_hardcode"}], size |-> 0]
      String(r, s) == Hard([op EXCEPT !.type = "op_expression",
                                      !.flags = {"op_pointer", "op_string"},
                                      !.segment = SegmentFlag[s],
                                      !.expression = [NoExpression EXCEPT !.base = r]])
      Read(type, value, n) == [op |-> [op EXCEPT !.type = type, !.value = value, !.pos = pos],
                               size |-> n]
      Register(id) == [op EXCEPT !.type = "op_register", !.reg = id]
  IN CASE raw.method \in Modrm -> ia32_modrm_decode(op, buf, pos, insn, file)
       [] raw.method \in {"C", "D", "G", "P", "S", "T", "V"} ->
            [op |-> Register(file + byte_decode(modrm).reg), size |-> 0]
       [] raw.method \in {"RR", "RS", "RF", "RT"} -> Hard(Register(file + raw.value))
       [] raw.method = "F" -> Hard(Register(REG.FLAGS))
       [] raw.method = "X" -> String(ESI, "ds")
       [] raw.method = "Y" -> String(EDI, "es")
       [] raw.method = "II" -> Hard([op EXCEPT !.type = "op_immediate", !.value = raw.value])
       [] raw.method = "A" -> Read("op_absolute", Unsigned(buf, pos, 2),
                                   IF insn.addr_size = 4 THEN 6 ELSE 4)
       [] raw.method = "I" -> Read("op_immediate", Unsigned(buf, pos, size), size)
       [] raw.method = "J" ->
            LET near == size = 1
                value == IF near THEN Signed(buf, pos, 1) ELSE Unsigned(buf, pos, size)
                read  == Read(IF near THEN "op_relative_near" ELSE "op_relative_far", value, size)
            IN [read EXCEPT !.op.flags = @ \cup {"op_signed"}]
       [] raw.method = "O" ->
            [Read("op_offset", Unsigned(buf, pos, insn.addr_size), insn.addr_size)
               EXCEPT !.op.flags = @ \cup {"op_pointer"}]

\* In memory, the segment prefixes count.
WithSegment(decoded, prefixes) ==
  IF decoded.op.type \in {"op_expression", "op_offset"}
  THEN [decoded EXCEPT !.op.segment = @ \cup apply_seg(prefixes)]
  ELSE decoded

DecodeSized(buf, pos, insn, raw, modrm, sized) ==
  LET gen_regs == CASE sized.size = 1 -> REG.BYTE
                    [] sized.size = 2 -> REG.WORD
                    [] OTHER          -> REG.DWORD
      new      == [NewOperand EXCEPT !.datatype = sized.datatype, !.exec = raw.exec]
  IN WithSegment(decode_operand_value(new, buf, pos, insn, raw, sized.size, modrm, gen_regs),
                 insn.prefixes)

ia32_decode_operand(buf, pos, insn, raw, modrm) ==
  DecodeSized(buf, pos, insn, raw, modrm, decode_operand_size(raw.type, insn))

-----------------------------------------------------------------------------
(* The list of operands, those of the row first.                           *)

NewInsn(row, prefixes, op_size, addr_size) ==
  [size |-> 0, type |-> row.kind, prefixes |-> prefixes, op_size |-> op_size,
   addr_size |-> addr_size, operands |-> <<>>, explicit_count |-> 0]

InvalidInsn == NewInsn(Invalid, {}, 0, 0)

x86_operand_new(insn, op) ==
  [insn EXCEPT !.operands = Append(@, op), !.explicit_count = @ + 1]

(* Implicit operands, by the numbers of their lists.                       *)
op_implicit_list == <<
  (* 1 aaa      *) <<AL>>,        (* aad     *) <<AX>>,         (* call     *) <<REG.EIP, ESP>>,
  (* 4 cbw      *) <<AX, AL>>,    (* cwde    *) <<EAX, AX>>,    (* clts     *) <<REG.CTRL>>,
  (* 7 cmpxchg  *) <<AL>>,        (* cmpxchg *) <<EAX>>,
  (* 9 cmpxchg8b *) <<EAX, EDX, ECX, EBX>>, (* cpuid *) <<EAX, ECX, EDX, EBX>>,
  (* 11 cwd     *) <<EAX, EDX>>,  (* daa     *) <<AL>>,         (* idiv     *) <<AX, AL, AH>>,
  (* 14 div     *) <<EDX, EAX>>,  (* enter   *) <<ESP, EBP>>,   (* f2xm1    *) <<ST0>>,
  (* 17 fcom    *) <<ST0>>,       (* fpatan  *) <<ST0>>,        (* fprem    *) <<ST0, ST0 + 1>>,
  (* 20 faddp   *) <<ST0, ST0 + 1>>, (* fucompp *) <<ST0, ST0 + 1>>, (* imul *) <<AL, AX>>,
  (* 23 mul     *) <<EAX, EDX>>,  (* lahf    *) <<REG.FLAGS, AH>>, (* ldmxcsr *) <<REG.MXCSR>>,
  (* 26 leave   *) <<ESP, EBP>>,  (* lgdt    *) <<REG.GDTR>>,   (* lidt     *) <<REG.IDTR>>,
  (* 29 lldt    *) <<REG.LDTR>>,  (* lmsw    *) <<REG.CTRL>>,   (* loop     *) <<ECX>>,
  (* 32 ltr     *) <<REG.TR>>,    (* pop, push *) <<ESP>>,
  (* 34 popad   *) <<ESP, EDI, ESI, EBP, EBX, EDX, ECX, EAX>>,  (* popfd *) <<ESP, REG.FLAGS>>,
  (* 36 pushad  *) <<ESP, EAX, ECX, EDX, EBX, EBP, ESI, EDI>>,  (* pushfd *) <<ESP, REG.FLAGS>>,
  (* 38 rdmsr   *) <<ECX, EDX, EAX>>, (* rdpmc *) <<ECX, EDX, EAX>>, (* rdtsc *) <<EDX, EAX>>,
  (* 41 rep     *) <<ECX>>,       (* rsm     *) <<REG.CTRL + 4, REG.CTRL>>, (* sahf *) <<EAX>>,
  (* 44 sgdt    *) <<EAX>>,       (* sidt    *) <<EAX>>,        (* sldt     *) <<EAX>>,
  (* 47 smsw    *) <<EAX>>,       (* stmxcsr *) <<EAX>>,        (* str      *) <<EAX>>,
  (* 50 sysenter *) <<EAX>>,      (* sysexit *) <<EAX>>,        (* wrmsr    *) <<EAX>>,
  (* 53 xlat    *) <<EAX>>,       (* monitor *) <<EAX>>,        (* mwait    *) <<EAX>> >>

IDX_IMPLICIT_REP == 41

handle_impl_reg(id) ==
  [NewOperand EXCEPT !.type = "op_register", !.reg = id, !.flags = {"op_implied"},
     !.datatype = CASE RegSize(id) = 1 -> "op_byte"     [] RegSize(id) = 2  -> "op_word"
                    [] RegSize(id) = 4 -> "op_dword"    [] RegSize(id) = 8  -> "op_qword"
                    [] RegSize(id) = 10 -> "op_extreal" [] RegSize(id) = 16 -> "op_dqword"
                    [] OTHER -> ""]

\* The first operand that already is the register: only looked for if it is EAX
\* or a part of it.
Listed(insn, id) ==
  {i \in DOMAIN insn.operands :
     /\ ia32_true_register_id(id) = EAX
     /\ insn.operands[i].type = "op_register" /\ insn.operands[i].reg = id
     /\ \A j \in 1 .. i - 1 : insn.operands[j].reg # id}

\* (mutant of the next: what is implied comes first)
AddImplicitFirst(insn, id) == [insn EXCEPT !.operands = <<handle_impl_reg(id)>> \o @]

AddImplicit(insn, id) ==
  IF Listed(insn, id) # {}
  THEN [insn EXCEPT !.operands = [i \in DOMAIN @ |->
          IF i \in Listed(insn, id) THEN [@[i] EXCEPT !.flags = @ \cup {"op_implied"}] ELSE @[i]]]
  ELSE [insn EXCEPT !.operands = Append(@, handle_impl_reg(id))]

ia32_insn_implicit_ops(insn, list) ==
  IF list = 0 THEN insn ELSE FoldLeft(AddImplicit, insn, op_implicit_list[list])

\* With 16-bit operands the general registers are the lower halves.
reg_32_to_16(op) ==
  IF op.type = "op_register" /\ op.reg \in EAX .. EDI
  THEN [op EXCEPT !.reg = @ + 8] ELSE op
Narrowed(insn) ==
  IF insn.op_size # 2 THEN insn
  ELSE [insn EXCEPT !.operands = [i \in DOMAIN @ |-> reg_32_to_16(@[i])]]

WithOperand(insn, decoded) ==
  [x86_operand_new(insn, decoded.op) EXCEPT !.size = @ + decoded.size]

-----------------------------------------------------------------------------
(* The whole instruction.  options: the set of opt_... that x86_init set.  *)

\* (mutant of the next: the prefix only ever halves)
SizeAttributeHalved(prefix, prefixes, options) ==
  IF prefix \in prefixes THEN 2 ELSE 4

\* A size of operands or addresses: 4 bytes, or 2 where one of the prefix and
\* 16-bit mode asks for it.
SizeAttribute(prefix, prefixes, options) ==
  IF (prefix \in prefixes) = ("opt_16_bit" \in options) THEN 4 ELSE 2

ia32_decode_insn(buf, pos, row, prefixes, options) ==
  LET new   == NewInsn(row, prefixes, SizeAttribute("op_size", prefixes, options),
                       SizeAttribute("addr_size", prefixes, options))
      modrm == GetByte(buf, pos)
      Next(insn, raw) ==
        WithOperand(insn, ia32_decode_operand(buf, pos + insn.size, insn, raw, modrm))
      explicit == FoldLeft(Next, new, row.ops)
  IN Narrowed(ia32_insn_implicit_ops(
                ia32_insn_implicit_ops(explicit, row.implicit),
                IF prefixes \cap {"repz", "repnz"} = {} THEN 0 ELSE IDX_IMPLICIT_REP))

\* The byte behind the operands that says which instruction of 3DNow it is.
BySuffix(insn, sfx) ==
  IF IsInvalid(sfx) THEN InvalidInsn
  ELSE [insn EXCEPT !.type = sfx.row.kind, !.size = @ + 1]

handle_insn_suffix(buf, row, insn) ==
  IF row.suffix THEN BySuffix(insn, ia32_table_lookup(buf, insn.size, row.table)) ELSE insn

Counting(size, insn) == [insn EXCEPT !.size = size + @]

DisasmFound(buf, options, found) ==
  IF IsInvalid(found) \/ found.size > Len(buf) THEN InvalidInsn
  ELSE handle_insn_suffix(buf, found.row, Counting(found.size,
         ia32_decode_insn(buf, found.size, found.row, found.prefixes, options)))

ia32_disasm_addr(buf, options) ==
  IF /\ "opt_ignore_nulls" \in options /\ Len(buf) > 3
     /\ \A i \in 1 .. 4 : buf[i] = 0
  THEN InvalidInsn
  ELSE DisasmFound(buf, options, ia32_table_lookup(buf, 0, "Main"))

\* Size 0 if there is no instruction at the offset, or it does not end in the buffer.
Within(size, insn) == IF insn.size > size THEN InvalidInsn ELSE insn

x86_disasm(buf, offset, options) ==
  IF offset >= Len(buf) THEN InvalidInsn
  ELSE Within(Len(buf) - offset,
              ia32_disasm_addr(SubSeq(buf, offset + 1, Len(buf)), options))

-----------------------------------------------------------------------------
(* What is asked of an instruction.                                        *)

\* (mutant of x86_operand_size: the size of most operands)
x86_operand_size_default(op) == 4

SizeOf == [op_byte |-> 1, op_word |-> 2, op_dword |-> 4, op_qword |-> 8, op_none |-> 0]
x86_operand_size(op) == IF op.datatype \in DOMAIN SizeOf THEN SizeOf[op.datatype] ELSE 4

\* The first of these operands; 0 if there are none.
FirstOf(places) ==
  IF places = {} THEN 0 ELSE CHOOSE i \in places : \A j \in places : i <= j

x86_get_branch_target(insn) == FirstOf({i \in DOMAIN insn.operands : insn.operands[i].exec})

x86_get_rel_offset(insn) ==
  LET i == FirstOf({j \in DOMAIN insn.operands :
                      insn.operands[j].type \in {"op_relative_near", "op_relative_far"}})
  IN IF i = 0 THEN 0 ELSE insn.operands[i].value

\* The place of the immediate value among the bytes, -1 if there is none among
\* the first three operands.
x86_get_raw_imm(insn) ==
  LET i == FirstOf({j \in DOMAIN insn.operands \cap (1 .. 3) :
                      /\ insn.operands[j].type = "op_immediate"
                      /\ "op_hardcode" \notin insn.operands[j].flags})
  IN IF i = 0 THEN -1 ELSE insn.size - x86_operand_size(insn.operands[i])
=============================================================================
