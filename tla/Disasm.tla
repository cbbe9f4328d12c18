------------------------------- MODULE Disasm -------------------------------
(***************************************************************************)
(* The drivers of libdisasm: x86_disasm_range, which disassembles a range  *)
(* of a buffer from beginning to end, and x86_disasm_forward, which        *)
(* follows the flow of execution by calling itself at the target of every  *)
(* jump and call.  Insn is x86_disasm: the size of the instruction at an   *)
(* offset of a buffer that ends at a limit (0: there is none), its type    *)
(* and its first operand.                                                  *)
(*                                                                         *)
(* A turn of a loop is two steps: an instruction and the caller's function *)
(* for it, and the decision to follow it.  The caller's function records   *)
(* what it was given.  The caller's resolver is what libdis.h asks for: it *)
(* refuses what has been disassembled (which it knows from that record and *)
(* from its own answers), and may know what a register holds.              *)
(***************************************************************************)
EXTENDS Integers, Sequences

CONSTANTS
  Images,            \* the buffers
  Insn(_, _, _),     \* buffer, offset, limit: size, type, operand, value
  BufRva,            \* the address of a buffer
  MaxFrames          \* bound: nested calls without the caller's resolver

Flow    == {"jmp", "jcc", "call", "callcc"}
Address == {"op_absolute", "op_offset"}
Relative == {"op_relative_near", "op_relative_far"}

Nothing == [size |-> 0, type |-> "invalid", operand |-> "op_unused", value |-> 0]

\* An instruction does not reach past the limit.
ASSUME ConstantAssumption ==
  /\ BufRva \in Nat /\ MaxFrames \in Nat
  /\ Images \subseteq Seq(0 .. 255)
  /\ \A b \in Images : \A limit \in 0 .. Len(b) : \A o \in 0 .. limit :
       LET i == Insn(b, o, limit)
       IN /\ i.size \in 0 .. limit - o /\ i.value \in Int
          /\ i.size = 0 => i.type = "invalid"

VARIABLES
  buf,       \* the buffer
  job,       \* what is running: none, range, forward, done
  resolver,  \* for forward: caller or internal
  limit,     \* the end of the buffer or range
  frames,    \* the calls: [offset, bytes, cont, count], the innermost last
  turn,      \* the instruction of the innermost call's turn, <<>> between two
  count,     \* what the last call returned
  reported,  \* the offsets given to the caller's function
  tried,     \* the offsets that x86_disasm was asked for
  answered   \* the offsets the caller's resolver has returned

vars == <<buf, job, resolver, limit, frames, turn, count, reported, tried, answered>>

x86_disasm_at(offset) == IF offset >= limit THEN Nothing ELSE Insn(buf, offset, limit)

Frame(offset) == [offset |-> offset, bytes |-> 0, cont |-> TRUE, count |-> 0]

Top    == frames[Len(frames)]
Here     == Top.offset + Top.bytes
Caller == SubSeq(frames, 1, Len(frames) - 1)

\* (mutants of the next: byte by byte, and stopped by what is no instruction)
AfterByte(offset, insn) == offset + 1
AfterStays(offset, insn) == offset + insn.size

\* The offset after an instruction; after none, the next byte.
After(offset, insn) == offset + (IF insn.size > 0 THEN insn.size ELSE 1)

\* What is left of a turn of a frame.
Advanced(frame, insn) ==
  LET at == frame.offset + frame.bytes
  IN [frame EXCEPT !.bytes = After(at, insn) - frame.offset,
                   !.count = @ + IF insn.size > 0 THEN 1 ELSE 0,
                   !.cont  = insn.type \notin {"jmp", "return"}]

-----------------------------------------------------------------------------
Init ==
  /\ buf = <<>> /\ job = "none" /\ resolver = "none" /\ limit = 0
  /\ frames = <<>> /\ turn = <<>> /\ count = 0 /\ reported = <<>> /\ tried = {} /\ answered = {}

Start(what, who, b, offset, end) ==
  /\ job = "none"
  /\ buf' = b /\ job' = what /\ resolver' = who /\ limit' = end
  /\ frames' = <<Frame(offset)>>
  /\ UNCHANGED <<turn, count, reported, tried, answered>>

StartRange(b, offset, len) == Start("range", "none", b, offset, offset + len)

StartForward(b, offset, who) == Start("forward", who, b, offset, Len(b))

\* The condition of the loop.
Running == IF job = "range" THEN Here < limit
           ELSE job = "forward" /\ Top.cont /\ Top.bytes < Len(buf)

\* A turn begins: the instruction, and the caller's function if there is one.
Decode ==
  /\ turn = <<>> /\ Running
  /\ turn' = <<x86_disasm_at(Here)>>
  /\ tried' = tried \cup {Here}
  /\ reported' = IF turn'[1].size > 0 THEN Append(reported, Here) ELSE reported
  /\ UNCHANGED <<buf, job, resolver, limit, frames, count, answered>>

RangeStep ==
  /\ job = "range" /\ turn # <<>>
  /\ frames' = <<[Advanced(Top, turn[1]) EXCEPT !.cont = TRUE]>>
  /\ turn' = <<>>
  /\ UNCHANGED <<buf, job, resolver, limit, count, reported, tried, answered>>

RangeReturns ==
  /\ job = "range" /\ turn = <<>> /\ ~Running
  /\ job' = "done" /\ count' = Top.count /\ frames' = <<>>
  /\ UNCHANGED <<buf, resolver, limit, turn, reported, tried, answered>>

-----------------------------------------------------------------------------
(* Following the flow.                                                     *)

\* (mutant of the next: relative to the instruction's start)
resolver_at_start(insn, addr) ==
  IF insn.operand \in Address THEN insn.value
  ELSE IF insn.operand \in Relative THEN addr + insn.value ELSE -1

\* The address an operand denotes, -1 if it is not known.
internal_resolver(insn, addr) ==
  CASE insn.operand \in Address  -> insn.value
    [] insn.operand \in Relative -> addr + insn.size + insn.value
    [] OTHER                     -> -1

Known == answered \cup {reported[i] : i \in DOMAIN reported}

\* The answers a caller's resolver may give.
Answers(insn) ==
  LET addr == internal_resolver(insn, BufRva + Here)
  IN (IF insn.operand \in Address \cup Relative
      THEN {addr} ELSE {BufRva + o : o \in 0 .. Len(buf) - 1} \cup {-1})
     \ {BufRva + o : o \in Known}

Resolved(insn) ==
  IF resolver = "internal" THEN {internal_resolver(insn, BufRva + Here)}
  ELSE IF Answers(insn) = {} THEN {-1} ELSE Answers(insn)

InBuffer(addr) == addr # -1 /\ addr - BufRva \in 0 .. Len(buf) - 1

\* An instruction that is not followed: no jump or call, or a target not in the buffer.
ForwardStep ==
  /\ job = "forward" /\ turn # <<>>
  /\ turn[1].type \in Flow => \E addr \in Resolved(turn[1]) : ~InBuffer(addr)
  /\ frames' = Append(Caller, Advanced(Top, turn[1]))
  /\ turn' = <<>>
  /\ UNCHANGED <<buf, job, resolver, limit, count, reported, tried, answered>>

\* One that is: the function calls itself.
ForwardCall ==
  /\ job = "forward" /\ turn # <<>>
  /\ turn[1].type \in Flow
  /\ resolver = "internal" => Len(frames) < MaxFrames
  /\ \E addr \in Resolved(turn[1]) :
       /\ InBuffer(addr)
       /\ frames' = Append(Append(Caller, Advanced(Top, turn[1])), Frame(addr - BufRva))
       /\ answered' = IF resolver = "internal" THEN answered
                      ELSE answered \cup {addr - BufRva}
  /\ turn' = <<>>
  /\ UNCHANGED <<buf, job, resolver, limit, count, reported, tried>>

\* (mutant of the next: what the nested call returns is lost)
ForwardReturnsNothing ==
  /\ job = "forward" /\ turn = <<>> /\ ~Running
  /\ IF Len(frames) = 1
     THEN job' = "done" /\ count' = Top.count /\ frames' = <<>>
     ELSE frames' = Caller /\ UNCHANGED <<job, count>>
  /\ UNCHANGED <<buf, resolver, limit, turn, reported, tried, answered>>

ForwardReturns ==
  /\ job = "forward" /\ turn = <<>> /\ ~Running
  /\ IF Len(frames) = 1
     THEN job' = "done" /\ count' = Top.count /\ frames' = <<>>
     ELSE /\ frames' = [Caller EXCEPT ![Len(frames) - 1].count = @ + Top.count]
          /\ UNCHANGED <<job, count>>
  /\ UNCHANGED <<buf, resolver, limit, turn, reported, tried, answered>>

Step == Decode \/ RangeStep \/ RangeReturns \/ ForwardStep \/ ForwardCall \/ ForwardReturns

Next ==
  \/ \E b \in Images : \E offset \in 0 .. Len(b) : \E len \in 0 .. Len(b) - offset :
       StartRange(b, offset, len)
  \/ \E b \in Images : \E offset \in 0 .. Len(b) - 1, who \in {"caller", "internal"} :
       StartForward(b, offset, who)
  \/ Step

\* Whoever called goes on as long as there is something to do: the weak fairness of
\* Step with its guard written out, so that TLC need not decode to evaluate it.
Busy == /\ job \in {"range", "forward"}
        /\ resolver = "internal" => Len(frames) < MaxFrames

Fairness == <>[]Busy => []<><<Step>>_vars

Spec == Init /\ [][Next]_vars /\ Fairness

-----------------------------------------------------------------------------
Reported == {reported[i] : i \in DOMAIN reported}

SizeAt(offset) == x86_disasm_at(offset).size

\* Disassembling a range leaves nothing out and takes nothing twice, whatever the
\* bytes are: behind the current offset every byte was tried or lies within
\* exactly one instruction that was reported, and they were reported in order.
RangeTiles ==
  job = "range" /\ turn = <<>> =>
    /\ Top.offset .. Here - 1
         = tried \cup UNION {o .. o + SizeAt(o) - 1 : o \in Reported}
    /\ \A i \in 2 .. Len(reported) :
         reported[i - 1] + SizeAt(reported[i - 1]) <= reported[i]

\* The static target of an instruction, -1 if there is none.
TargetOf(offset) ==
  LET insn == x86_disasm_at(offset)
  IN IF insn.type \notin Flow THEN -1
     ELSE IF insn.operand \in Relative THEN offset + insn.size + insn.value
     ELSE IF insn.operand \in Address THEN insn.value - BufRva ELSE -1

Successors(offset) ==
  (IF x86_disasm_at(offset).type \in {"jmp", "return"} THEN {}
   ELSE {After(offset, x86_disasm_at(offset))})
  \cup {TargetOf(offset)}

\* When x86_disasm_forward is done it has been wherever the code can go from
\* where it has been: with a resolver that refuses what is known no successor is
\* lost, neither behind a call nor at the target of a jump.
FlowCovered ==
  job = "done" /\ resolver # "none"
    => /\ \A o \in tried : Successors(o) \cap (0 .. Len(buf) - 1) \subseteq tried
       /\ Reported = {o \in tried : SizeAt(o) > 0}

\* The count returned is that of the calls of the caller's function, those in
\* the nested calls included.
ReturnsCount == job = "done" => count = Len(reported)

\* A range is finished, and so is a forward disassembly whose resolver refuses
\* what it knows, though the code loops, jumps into itself or is not code.
DriversEnd ==
  (job = "range" \/ (job = "forward" /\ resolver = "caller")) ~> job = "done"
=============================================================================
