---------------------------- MODULE DisasmProofs -----------------------------
(***************************************************************************)
(* Proofs about the drivers of libdisasm, for every decoder whose          *)
(* instructions end in the buffer, every buffer and every resolver.        *)
(***************************************************************************)
EXTENDS Disasm, SequenceTheorems, TLAPS

FrameType == [offset : Nat, bytes : Nat, cont : BOOLEAN, count : Nat]

\* The instruction of a turn is the one at the innermost call's offset.
TypeInv ==
  /\ job \in {"none", "range", "forward", "done"}
  /\ limit \in 0 .. Len(buf)
  /\ job # "none" => buf \in Images
  /\ buf \in Seq(0 .. 255)
  /\ frames \in Seq(FrameType)
  /\ job \in {"range", "forward"} <=> frames # <<>>
  /\ turn # <<>> => /\ frames # <<>>
                    /\ turn = <<x86_disasm_at(Here)>>
                    /\ Here \in tried
  /\ count \in Nat
  /\ reported \in Seq(Nat)
  /\ tried \in SUBSET Nat
  /\ answered \in SUBSET Nat
  /\ job = "none" => /\ reported = <<>> /\ tried = {} /\ answered = {}
                     /\ resolver = "none"

\* What the turn has reported and not yet counted.
Uncounted == IF turn # <<>> THEN IF turn[1].size > 0 THEN 1 ELSE 0 ELSE 0

-----------------------------------------------------------------------------
(* The range.                                                              *)

\* Where the next turn begins.
RangeEnd == IF turn = <<>> THEN Here ELSE After(Here, turn[1])

Sizes == [o \in Nat |-> SizeAt(o)]

\* The byte lies in one of the instructions.
Inside(p, starts, size) ==
  \E i \in DOMAIN starts : starts[i] <= p /\ p < starts[i] + size[starts[i]]

\* The bytes tried and those inside instructions are all from one to another, and
\* the instructions are in order and apart.
Tiles(from, to, bytes, starts, size) ==
  /\ \A p \in Int : (from <= p /\ p < to) <=> p \in bytes \/ Inside(p, starts, size)
  /\ \A i \in DOMAIN starts : starts[i] + size[starts[i]] <= to
  /\ \A i \in 2 .. Len(starts) : starts[i - 1] + size[starts[i - 1]] <= starts[i]

RangeInv ==
  job = "range" =>
    /\ Len(frames) = 1
    /\ RangeEnd <= limit
    /\ Tiles(Top.offset, RangeEnd, tried, reported, Sizes)

-----------------------------------------------------------------------------
(* The count: sums[i] is what the outermost i calls have counted.          *)

Sums(sums, stack, total) ==
  /\ sums \in [0 .. Len(stack) -> Nat]
  /\ sums[0] = 0
  /\ \A i \in 1 .. Len(stack) : sums[i] = sums[i - 1] + stack[i].count
  /\ sums[Len(stack)] = total

CountInv ==
  /\ job \in {"range", "forward"} => \E sums : Sums(sums, frames, Len(reported) - Uncounted)
  /\ job = "done" => count = Len(reported)

-----------------------------------------------------------------------------
(* The flow.                                                               *)

Buffer == 0 .. Len(buf) - 1

\* One of the calls under way will go on there.
Going(stack, q) ==
  \E i \in DOMAIN stack : stack[i].cont /\ q = stack[i].offset + stack[i].bytes

Reach(q) == q \in tried \/ Going(frames, q)

\* What was decoded or answered leads to what was decoded or will be.
FlowInv ==
  resolver # "none" =>
    /\ job \in {"none", "forward", "done"}
    /\ Reported = {o \in tried : SizeAt(o) > 0}
    /\ \A q \in answered : q \in Buffer => Reach(q)
    /\ \A o \in tried :
         \/ turn # <<>> /\ o = Here
         \/ \A q \in Successors(o) : q \in Buffer => Reach(q)

-----------------------------------------------------------------------------
(* Lemmas.                                                                 *)

\* What the decoder may be relied on for.
LEMMA Decoded ==
  ASSUME buf \in Images, buf \in Seq(0 .. 255), limit \in 0 .. Len(buf), NEW o \in Nat
  PROVE  /\ x86_disasm_at(o).size \in Nat /\ x86_disasm_at(o).value \in Int
         /\ o + x86_disasm_at(o).size <= limit \/ x86_disasm_at(o).size = 0
         /\ o >= limit => x86_disasm_at(o).size = 0
         /\ x86_disasm_at(o).size = 0 => x86_disasm_at(o).type = "invalid"
<1>1. CASE o >= limit
      BY <1>1 DEF x86_disasm_at, Nothing
<1>2. CASE o < limit
      <2>1. Len(buf) \in Nat /\ limit \in Nat /\ o \in 0 .. limit
            BY <1>2
      <2>2. /\ Insn(buf, o, limit).size \in 0 .. limit - o
            /\ Insn(buf, o, limit).value \in Int
            /\ Insn(buf, o, limit).size = 0 => Insn(buf, o, limit).type = "invalid"
            BY <2>1, ConstantAssumption
      <2>3. x86_disasm_at(o) = Insn(buf, o, limit)
            BY <1>2, <2>1 DEF x86_disasm_at
      <2>4. QED
            BY <1>2, <2>1, <2>2, <2>3
<1>3. QED
      BY <1>1, <1>2

\* The offset after an instruction lies behind its own, and in the range.
LEMMA AfterIsAhead ==
  ASSUME buf \in Images, buf \in Seq(0 .. 255), limit \in 0 .. Len(buf), NEW o \in Nat
  PROVE  /\ After(o, x86_disasm_at(o)) \in Nat
         /\ After(o, x86_disasm_at(o)) > o
         /\ o < limit => After(o, x86_disasm_at(o)) <= limit
BY Decoded DEF After

\* Replacing the innermost call, and calling or returning.
LEMMA Shortened ==
  ASSUME NEW S, NEW s \in Seq(S), s # <<>>
  PROVE  /\ SubSeq(s, 1, Len(s) - 1) \in Seq(S)
         /\ Len(SubSeq(s, 1, Len(s) - 1)) = Len(s) - 1
         /\ \A i \in 1 .. Len(s) - 1 : SubSeq(s, 1, Len(s) - 1)[i] = s[i]
<1>1. Len(s) \in Nat \ {0}
      BY EmptySeq
<1>2. Len(SubSeq(s, 1, Len(s) - 1)) = Len(s) - 1
      <2>1. CASE Len(s) = 1
            BY <2>1, SubSeqEmpty, EmptySeq
      <2>2. CASE Len(s) > 1
            <3>1. \A i \in 1 .. Len(s) - 1 : s[i] \in S
                  BY <1>1, ElementOfSeq
            <3>2. QED
                  BY <1>1, <2>2, <3>1, SubSeqProperties
      <2>3. QED
            BY <1>1, <2>1, <2>2
<1>3. SubSeq(s, 1, Len(s) - 1) \in Seq(S)
      BY EmptySeq
<1>4. \A i \in 1 .. Len(s) - 1 : SubSeq(s, 1, Len(s) - 1)[i] = s[i]
      BY EmptySeq
<1>5. QED
      BY <1>2, <1>3, <1>4, Zenon

LEMMA Replaced ==
  ASSUME NEW S, NEW s \in Seq(S), s # <<>>, NEW e \in S
  PROVE  LET t == Append(SubSeq(s, 1, Len(s) - 1), e)
         IN /\ t \in Seq(S) /\ Len(t) = Len(s) /\ t # <<>>
            /\ t[Len(s)] = e
            /\ \A i \in 1 .. Len(s) - 1 : t[i] = s[i]
<1> DEFINE u == SubSeq(s, 1, Len(s) - 1)
<1>1. u \in Seq(S) /\ Len(u) = Len(s) - 1 /\ \A i \in 1 .. Len(s) - 1 : u[i] = s[i]
      BY Shortened
<1>2. Len(s) \in Nat \ {0}
      BY EmptySeq
<1> HIDE DEF u
<1>3. /\ Append(u, e) \in Seq(S) /\ Len(Append(u, e)) = Len(u) + 1
      /\ Append(u, e)[Len(u) + 1] = e
      /\ \A i \in 1 .. Len(u) : Append(u, e)[i] = u[i]
      BY <1>1
<1>4. Append(u, e) # <<>>
      <2>1. Len(Append(u, e)) # 0
            BY <1>1, <1>2, <1>3
      <2>2. QED
            BY <2>1, EmptySeq
<1>5. QED
      BY <1>1, <1>2, <1>3, <1>4 DEF u

LEMMA TopType ==
  ASSUME frames \in Seq(FrameType), frames # <<>>
  PROVE  /\ Top \in FrameType /\ Here \in Nat /\ Len(frames) \in Nat \ {0}
         /\ Top.offset \in Nat /\ Top.bytes \in Nat /\ Top.count \in Nat
         /\ Top.cont \in BOOLEAN /\ Here = Top.offset + Top.bytes
<1>1. Len(frames) \in DOMAIN frames /\ Len(frames) \in Nat \ {0}
      OBVIOUS
<1>2. Top \in FrameType
      BY <1>1 DEF Top
<1>3. QED
      BY <1>1, <1>2 DEF Here, FrameType

LEMMA FrameUpdate ==
  ASSUME NEW t \in FrameType, NEW b \in Nat, NEW n \in Nat, NEW c \in BOOLEAN,
         NEW u, u = [t EXCEPT !.bytes = b, !.count = n, !.cont = c]
  PROVE  /\ u \in FrameType
         /\ u.offset = t.offset /\ u.bytes = b /\ u.count = n /\ u.cont = c
BY DEF FrameType

\* A turn moves its frame to the next instruction.
LEMMA AdvancedTop ==
  ASSUME TypeInv, frames # <<>>, turn # <<>>
  PROVE  /\ Advanced(Top, turn[1]) \in FrameType
         /\ Advanced(Top, turn[1]).offset = Top.offset
         /\ Advanced(Top, turn[1]).offset + Advanced(Top, turn[1]).bytes
              = After(Here, x86_disasm_at(Here))
         /\ Advanced(Top, turn[1]).count = Top.count + Uncounted
         /\ Advanced(Top, turn[1]).cont
              = (x86_disasm_at(Here).type \notin {"jmp", "return"})
         /\ turn[1] = x86_disasm_at(Here)
<1>1. job # "none" /\ buf \in Images /\ buf \in Seq(0 .. 255) /\ limit \in 0 .. Len(buf)
      BY DEF TypeInv
<1>2. turn[1] = x86_disasm_at(Here) /\ frames \in Seq(FrameType)
      BY DEF TypeInv
<1>3. Top \in FrameType /\ Here \in Nat /\ Here = Top.offset + Top.bytes
      /\ Top.offset \in Nat /\ Top.bytes \in Nat /\ Top.count \in Nat
      BY <1>2, TopType
<1>4. After(Here, turn[1]) \in Nat /\ After(Here, turn[1]) > Here
      BY <1>1, <1>2, <1>3, AfterIsAhead
<1>5. Advanced(Top, turn[1])
        = [Top EXCEPT !.bytes = After(Here, turn[1]) - Top.offset,
                      !.count = @ + IF turn[1].size > 0 THEN 1 ELSE 0,
                      !.cont  = turn[1].type \notin {"jmp", "return"}]
      BY <1>3 DEF Advanced, FrameType
<1>6. /\ Advanced(Top, turn[1]) \in FrameType
      /\ Advanced(Top, turn[1]).offset = Top.offset
      /\ Advanced(Top, turn[1]).bytes = After(Here, turn[1]) - Top.offset
      /\ Advanced(Top, turn[1]).count = Top.count + IF turn[1].size > 0 THEN 1 ELSE 0
      /\ Advanced(Top, turn[1]).cont = (turn[1].type \notin {"jmp", "return"})
      <2> DEFINE b == After(Here, turn[1]) - Top.offset
                 n == Top.count + IF turn[1].size > 0 THEN 1 ELSE 0
                 c == turn[1].type \notin {"jmp", "return"}
                 u == Advanced(Top, turn[1])
      <2>1. b \in Nat /\ n \in Nat /\ c \in BOOLEAN /\ Top \in FrameType
            BY <1>3, <1>4
      <2>2. u = [Top EXCEPT !.bytes = b, !.count = n, !.cont = c]
            BY <1>5
      <2> HIDE DEF b, n, c, u
      <2>3. u \in FrameType /\ u.offset = Top.offset /\ u.bytes = b /\ u.count = n /\ u.cont = c
            BY <2>1, <2>2 DEF FrameType
      <2>4. QED
            BY <2>3 DEF b, n, c, u
<1>7. QED
      BY <1>2, <1>3, <1>4, <1>6 DEF Uncounted

-----------------------------------------------------------------------------
(* The types.                                                              *)

Starting == \/ \E b \in Images : \E offset \in 0 .. Len(b) :
                 \E len \in 0 .. Len(b) - offset : StartRange(b, offset, len)
            \/ \E b \in Images : \E offset \in 0 .. Len(b) - 1, who \in {"caller", "internal"} :
                 StartForward(b, offset, who)

\* Every start is of one frame in one of the buffers.
LEMMA Started ==
  ASSUME Starting
  PROVE  \E b \in Images, offset \in Nat, end \in Nat :
           /\ b \in Seq(0 .. 255) /\ offset <= end /\ end <= Len(b)
           /\ \/ StartRange(b, offset, end - offset)
              \/ /\ end = Len(b)
                 /\ \E who \in {"caller", "internal"} : StartForward(b, offset, who)
<1>1. CASE \E b \in Images : \E offset \in 0 .. Len(b) :
             \E len \in 0 .. Len(b) - offset : StartRange(b, offset, len)
      <2>1. PICK b \in Images : \E offset \in 0 .. Len(b) :
              \E len \in 0 .. Len(b) - offset : StartRange(b, offset, len)
            BY <1>1
      <2>2. PICK offset \in 0 .. Len(b) :
              \E len \in 0 .. Len(b) - offset : StartRange(b, offset, len)
            BY <2>1
      <2>3. PICK len \in 0 .. Len(b) - offset : StartRange(b, offset, len)
            BY <2>2
      <2>4. b \in Seq(0 .. 255)
            BY ConstantAssumption
      <2>5. Len(b) \in Nat
            BY <2>4
      <2>6. offset \in Nat /\ offset + len \in Nat /\ offset + len <= Len(b)
            /\ (offset + len) - offset = len
            /\ offset <= offset + len
            BY <2>5
      <2>7. QED
            BY <2>3, <2>4, <2>6
<1>2. CASE \E b \in Images : \E offset \in 0 .. Len(b) - 1, who \in {"caller", "internal"} :
             StartForward(b, offset, who)
      <2>1. PICK b \in Images : \E offset \in 0 .. Len(b) - 1, who \in {"caller", "internal"} :
              StartForward(b, offset, who)
            BY <1>2
      <2>2. PICK offset \in 0 .. Len(b) - 1 : \E who \in {"caller", "internal"} :
              StartForward(b, offset, who)
            BY <2>1
      <2>3. b \in Seq(0 .. 255)
            BY ConstantAssumption
      <2>4. Len(b) \in Nat
            BY <2>3
      <2>5. offset \in Nat /\ Len(b) \in Nat /\ offset <= Len(b)
            BY <2>4
      <2>6. QED
            BY <2>2, <2>3, <2>5
<1>3. QED
      BY <1>1, <1>2 DEF Starting

\* What is in a state with a turn.
LEMMA TurnFacts ==
  ASSUME TypeInv, turn # <<>>
  PROVE  /\ frames # <<>> /\ frames \in Seq(FrameType) /\ Len(frames) \in Nat \ {0}
         /\ job \in {"range", "forward"}
         /\ buf \in Images /\ buf \in Seq(0 .. 255) /\ limit \in 0 .. Len(buf)
         /\ Here \in Nat /\ Here \in tried
         /\ turn[1] = x86_disasm_at(Here)
<1>1. frames # <<>> /\ frames \in Seq(FrameType) /\ job \in {"range", "forward"}
      /\ Here \in tried /\ turn = <<x86_disasm_at(Here)>>
      BY DEF TypeInv
<1>2. buf \in Images /\ buf \in Seq(0 .. 255) /\ limit \in 0 .. Len(buf)
      BY <1>1 DEF TypeInv
<1>3. Here \in Nat /\ Len(frames) \in Nat \ {0}
      BY <1>1, TopType
<1>4. turn[1] = x86_disasm_at(Here)
      BY <1>1
<1>5. QED
      BY <1>1, <1>2, <1>3, <1>4

LEMMA TypeStep ==
  ASSUME TypeInv, [Next]_vars
  PROVE  TypeInv'
<1>1. CASE Starting
      <2>1. PICK b \in Images, offset \in Nat, end \in Nat :
              /\ b \in Seq(0 .. 255) /\ offset <= end /\ end <= Len(b)
              /\ \/ StartRange(b, offset, end - offset)
                 \/ /\ end = Len(b)
                    /\ \E who \in {"caller", "internal"} : StartForward(b, offset, who)
            BY <1>1, Started
      <2>2. /\ job = "none" /\ job' \in {"range", "forward"} /\ buf' = b /\ limit' = end
            /\ frames' = <<Frame(offset)>>
            /\ UNCHANGED <<turn, count, reported, tried, answered>>
            BY <2>1 DEF StartRange, StartForward, Start
      <2>3. frames = <<>> /\ turn = <<>>
            BY <2>2 DEF TypeInv
      <2>4. Frame(offset) \in FrameType
            BY DEF Frame, FrameType
      <2>5. frames' \in Seq(FrameType) /\ frames' # <<>>
            BY <2>2, <2>4
      <2>6. QED
            BY <2>1, <2>2, <2>3, <2>5 DEF TypeInv
<1>2. CASE Decode
      <2>1. frames # <<>> /\ job \in {"range", "forward"}
            BY <1>2 DEF Decode, Running, TypeInv
      <2>2. Here \in Nat
            BY <2>1, TopType DEF TypeInv
      <2>3. Here' = Here /\ x86_disasm_at(Here)' = x86_disasm_at(Here)
            BY <1>2 DEF Decode, Here, Top, x86_disasm_at
      <2>4. reported' \in Seq(Nat)
            BY <1>2, <2>2 DEF Decode, TypeInv
      <2>5. QED
            BY <1>2, <2>1, <2>2, <2>3, <2>4 DEF Decode, TypeInv
<1>3. CASE RangeStep
      <2>1. turn # <<>> /\ turn' = <<>>
            BY <1>3 DEF RangeStep
      <2>2. Advanced(Top, turn[1]) \in FrameType
            BY <2>1, TurnFacts, AdvancedTop
      <2>3. [Advanced(Top, turn[1]) EXCEPT !.cont = TRUE] \in FrameType
            BY <2>2 DEF FrameType
      <2>4. frames' \in Seq(FrameType) /\ frames' # <<>>
            BY <1>3, <2>3 DEF RangeStep
      <2>5. QED
            BY <1>3, <2>1, <2>4 DEF RangeStep, TypeInv
<1>4. CASE RangeReturns
      <2>1. frames # <<>> /\ frames \in Seq(FrameType)
            BY <1>4 DEF RangeReturns, TypeInv
      <2>2. Top.count \in Nat
            BY <2>1, TopType
      <2>3. QED
            BY <1>4, <2>2 DEF RangeReturns, TypeInv
<1>5. CASE ForwardStep
      <2>1. turn # <<>> /\ turn' = <<>>
            BY <1>5 DEF ForwardStep
      <2>2. Advanced(Top, turn[1]) \in FrameType /\ frames # <<>> /\ frames \in Seq(FrameType)
            BY <2>1, TurnFacts, AdvancedTop
      <2>3. frames' \in Seq(FrameType) /\ frames' # <<>>
            BY <1>5, <2>2, Replaced DEF ForwardStep, Caller
      <2>4. QED
            BY <1>5, <2>1, <2>3 DEF ForwardStep, TypeInv
<1>6. CASE ForwardCall
      <2>1. turn # <<>> /\ turn' = <<>>
            BY <1>6 DEF ForwardCall
      <2>2. Advanced(Top, turn[1]) \in FrameType /\ frames # <<>> /\ frames \in Seq(FrameType)
            BY <2>1, TurnFacts, AdvancedTop
      <2>3. PICK addr \in Resolved(turn[1]) :
              /\ InBuffer(addr)
              /\ frames' = Append(Append(Caller, Advanced(Top, turn[1])), Frame(addr - BufRva))
              /\ answered' = IF resolver = "internal" THEN answered
                             ELSE answered \cup {addr - BufRva}
            BY <1>6 DEF ForwardCall
      <2>4. addr - BufRva \in Nat
            BY <2>3, TurnFacts, <2>1 DEF InBuffer
      <2>5. Frame(addr - BufRva) \in FrameType
            BY <2>4 DEF Frame, FrameType
      <2>6. Append(Caller, Advanced(Top, turn[1])) \in Seq(FrameType)
            BY <2>2, Replaced DEF Caller
      <2>7. frames' \in Seq(FrameType) /\ frames' # <<>>
            BY <2>3, <2>5, <2>6
      <2>8. answered' \in SUBSET Nat
            BY <2>3, <2>4 DEF TypeInv
      <2>9. QED
            BY <1>6, <2>1, <2>7, <2>8 DEF ForwardCall, TypeInv
<1>7. CASE ForwardReturns
      <2>1. frames # <<>> /\ frames \in Seq(FrameType) /\ turn = <<>>
            BY <1>7 DEF ForwardReturns, TypeInv
      <2>2. Top.count \in Nat /\ Len(frames) \in Nat \ {0}
            BY <2>1, TopType
      <2>3. CASE Len(frames) = 1
            BY <1>7, <2>1, <2>2, <2>3 DEF ForwardReturns, TypeInv
      <2>4. CASE Len(frames) # 1
            <3>1. Caller \in Seq(FrameType) /\ Len(Caller) = Len(frames) - 1
                  BY <2>1, Shortened DEF Caller
            <3>2. Len(frames) - 1 \in 1 .. Len(Caller)
                  BY <2>2, <2>4, <3>1
            <3>3. Caller[Len(frames) - 1] \in FrameType
                  BY <3>1, <3>2, ElementOfSeq
            <3>4. [Caller[Len(frames) - 1] EXCEPT !.count = @ + Top.count] \in FrameType
                  BY <2>2, <3>3 DEF FrameType
            <3>5. frames' = [Caller EXCEPT ![Len(frames) - 1] =
                               [Caller[Len(frames) - 1] EXCEPT !.count = @ + Top.count]]
                  BY <1>7, <2>4 DEF ForwardReturns
            <3>6. frames' \in Seq(FrameType) /\ Len(frames') = Len(Caller)
                  BY <3>1, <3>2, <3>4, <3>5, ExceptSeq
            <3>7. frames' # <<>>
                  BY <3>2, <3>6, EmptySeq
            <3>8. QED
                  BY <1>7, <2>1, <2>4, <3>6, <3>7 DEF ForwardReturns, TypeInv
      <2>5. QED
            BY <2>3, <2>4
<1>8. CASE UNCHANGED vars
      BY <1>8 DEF vars, TypeInv, Here, Top, x86_disasm_at
<1>9. QED
      BY <1>1, <1>2, <1>3, <1>4, <1>5, <1>6, <1>7, <1>8 DEF Next, Step, Starting

-----------------------------------------------------------------------------
(* The range.                                                              *)

LEMMA TilesGrow ==
  ASSUME NEW size \in [Nat -> Nat], NEW starts \in Seq(Nat), NEW bytes \in SUBSET Nat,
         NEW from \in Nat, NEW to \in Nat, from <= to, NEW k \in Nat, k > 0
  PROVE  Tiles(from, to, bytes, starts, size)
           => (size[to] = k => Tiles(from, to + k, bytes \cup {to}, Append(starts, to), size))
<1>0. SUFFICES ASSUME Tiles(from, to, bytes, starts, size), size[to] = k
               PROVE  Tiles(from, to + k, bytes \cup {to}, Append(starts, to), size)
      OBVIOUS
<1> DEFINE n == Len(starts)
           more == Append(starts, to)
<1>1. n \in Nat
      BY LenProperties
<1>11. DOMAIN starts = 1 .. n
      BY LenProperties
<1>2. /\ more \in Seq(Nat) /\ Len(more) = n + 1 /\ DOMAIN more = 1 .. n + 1
      /\ more[n + 1] = to
      BY AppendProperties, LenProperties
<1>3. \A i \in 1 .. n : more[i] = starts[i]
      BY AppendProperties
<1>12. \A i \in 1 .. n : starts[i] \in Nat /\ size[starts[i]] \in Nat
      BY ElementOfSeq
<1> HIDE DEF more, n
<1>4. ASSUME NEW p \in Int
      PROVE  Inside(p, more, size) <=> Inside(p, starts, size) \/ (to <= p /\ p < to + k)
      <2>1. ASSUME Inside(p, more, size)
            PROVE  Inside(p, starts, size) \/ (to <= p /\ p < to + k)
            <3>1. PICK i \in 1 .. n + 1 : more[i] <= p /\ p < more[i] + size[more[i]]
                  BY <1>2, <2>1 DEF Inside
            <3>2. CASE i = n + 1
                  BY <1>0, <1>2, <3>1, <3>2
            <3>3. CASE i \in 1 .. n
                  BY <1>11, <1>3, <3>1, <3>3 DEF Inside
            <3>4. QED
                  BY <1>1, <3>2, <3>3
      <2>2. ASSUME Inside(p, starts, size)
            PROVE  Inside(p, more, size)
            <3>1. PICK i \in 1 .. n : starts[i] <= p /\ p < starts[i] + size[starts[i]]
                  BY <1>11, <2>2 DEF Inside
            <3>2. i \in 1 .. n + 1
                  BY <1>1
            <3>3. more[i] = starts[i]
                  BY <1>3
            <3>4. more[i] <= p /\ p < more[i] + size[more[i]]
                  BY <3>1, <3>3
            <3>5. QED
                  BY <1>2, <3>2, <3>4 DEF Inside
      <2>3. ASSUME (to <= p /\ p < to + k)
            PROVE  Inside(p, more, size)
            <3>1. n + 1 \in 1 .. n + 1 /\ more[n + 1] <= p /\ p < more[n + 1] + size[more[n + 1]]
                  BY <1>0, <1>1, <1>2, <2>3
            <3>2. QED
                  BY <1>2, <3>1 DEF Inside
      <2>4. QED
            BY <2>1, <2>2, <2>3
<1>5. \A p \in Int : (from <= p /\ p < to + k) <=> p \in bytes \cup {to} \/ Inside(p, more, size)
      <2>1. TAKE p \in Int
      <2>2. (from <= p /\ p < to) <=> p \in bytes \/ Inside(p, starts, size)
            BY <1>0 DEF Tiles
      <2>3. (from <= p /\ p < to + k)
              <=> (from <= p /\ p < to) \/ (to <= p /\ p < to + k)
            OBVIOUS
      <2>4. p = to => (to <= p /\ p < to + k)
            OBVIOUS
      <2>5. QED
            BY <1>4, <2>2, <2>3, <2>4
<1>6. \A i \in 1 .. n + 1 : more[i] + size[more[i]] <= to + k
      <2>1. TAKE i \in 1 .. n + 1
      <2>2. CASE i = n + 1
            <3>1. more[i] = to
                  BY <1>2, <2>2
            <3>2. QED
                  BY <1>0, <3>1
      <2>3. CASE i \in 1 .. n
            <3>1. starts[i] + size[starts[i]] <= to
                  BY <1>0, <1>11, <2>3 DEF Tiles
            <3>2. more[i] = starts[i]
                  BY <1>3, <2>3
            <3>3. starts[i] \in Nat /\ size[starts[i]] \in Nat
                  BY <1>12, <2>3
            <3>4. \A a, b \in Nat : a + b <= to => a + b <= to + k
                  OBVIOUS
            <3>5. starts[i] + size[starts[i]] <= to + k
                  BY <3>1, <3>3, <3>4
            <3>6. QED
                  BY <3>2, <3>5
      <2>4. QED
            BY <1>1, <2>2, <2>3
<1>7. \A i \in 2 .. n + 1 : more[i - 1] + size[more[i - 1]] <= more[i]
      <2>1. TAKE i \in 2 .. n + 1
      <2>2. i - 1 \in 1 .. n
            BY <1>1
      <2>3. CASE i = n + 1
            <3>1. starts[i - 1] + size[starts[i - 1]] <= to
                  BY <1>0, <1>11, <2>2 DEF Tiles
            <3>2. QED
                  BY <1>2, <1>3, <2>2, <2>3, <3>1
      <2>4. CASE i \in 2 .. n
            <3>1. starts[i - 1] + size[starts[i - 1]] <= starts[i]
                  BY <1>0, <2>4 DEF Tiles, n
            <3>2. i \in 1 .. n
                  BY <1>1, <2>4
            <3>3. QED
                  BY <1>3, <2>2, <3>1, <3>2
      <2>5. QED
            BY <1>1, <2>3, <2>4
<1>8. QED
      BY <1>2, <1>5, <1>6, <1>7 DEF Tiles, more, n

\* A byte that begins no instruction.
LEMMA TilesSkip ==
  ASSUME NEW size \in [Nat -> Nat], NEW starts \in Seq(Nat), NEW bytes \in SUBSET Nat,
         NEW from \in Nat, NEW to \in Nat, from <= to
  PROVE  Tiles(from, to, bytes, starts, size)
           => Tiles(from, to + 1, bytes \cup {to}, starts, size)
<1>0. SUFFICES ASSUME Tiles(from, to, bytes, starts, size)
               PROVE  Tiles(from, to + 1, bytes \cup {to}, starts, size)
      OBVIOUS
<1>1. \A p \in Int : (from <= p /\ p < to + 1) <=> p \in bytes \cup {to} \/ Inside(p, starts, size)
      <2>1. TAKE p \in Int
      <2>2. (from <= p /\ p < to) <=> p \in bytes \/ Inside(p, starts, size)
            BY <1>0 DEF Tiles
      <2>3. (from <= p /\ p < to + 1) <=> (from <= p /\ p < to) \/ p = to
            OBVIOUS
      <2>4. QED
            BY <2>2, <2>3
<1>2. \A i \in DOMAIN starts : starts[i] + size[starts[i]] <= to + 1
      <2>1. TAKE i \in DOMAIN starts
      <2>2. starts[i] \in Nat /\ size[starts[i]] \in Nat
            BY ZenonT(30), LenProperties
      <2>3. starts[i] + size[starts[i]] <= to
            BY <1>0 DEF Tiles
      <2>4. QED
            BY <2>2, <2>3
<1>3. QED
      BY <1>0, <1>1, <1>2 DEF Tiles

\* Nothing but the turn and the record of it changes in a step of the loop.
LEMMA SizesFacts ==
  ASSUME buf \in Images, buf \in Seq(0 .. 255), limit \in 0 .. Len(buf)
  PROVE  /\ Sizes \in [Nat -> Nat]
         /\ \A o \in Nat : Sizes[o] = x86_disasm_at(o).size
BY Decoded DEF Sizes, SizeAt

LEMMA SizesKept ==
  ASSUME UNCHANGED <<buf, limit>>
  PROVE  Sizes' = Sizes
BY DEF Sizes, SizeAt, x86_disasm_at

LEMMA RangeInvStep ==
  ASSUME TypeInv, RangeInv, [Next]_vars
  PROVE  RangeInv'
<1>1. CASE Starting
      <2>1. PICK b \in Images, offset \in Nat, end \in Nat :
              /\ b \in Seq(0 .. 255) /\ offset <= end /\ end <= Len(b)
              /\ \/ StartRange(b, offset, end - offset)
                 \/ /\ end = Len(b)
                    /\ \E who \in {"caller", "internal"} : StartForward(b, offset, who)
            BY <1>1, Started
      <2>2. /\ job = "none" /\ turn' = turn /\ limit' = end /\ frames' = <<Frame(offset)>>
            /\ UNCHANGED <<reported, tried>>
            BY <2>1 DEF StartRange, StartForward, Start
      <2>3. turn = <<>> /\ reported = <<>> /\ tried = {}
            BY <2>2 DEF TypeInv
      <2>4. Len(frames') = 1 /\ Top' = Frame(offset) /\ Here' = offset /\ Top'.offset = offset
            BY <2>2 DEF Top, Here, Frame
      <2>5. RangeEnd' = offset
            BY <2>2, <2>3, <2>4 DEF RangeEnd
      <2>6. ASSUME NEW size PROVE Tiles(offset, offset, {}, <<>>, size)
            BY DEF Tiles, Inside
      <2>7. QED
            BY <2>1, <2>2, <2>3, <2>4, <2>5, <2>6 DEF RangeInv
<1>2. CASE Decode /\ job = "range"
      <2> DEFINE insn == x86_disasm_at(Here)
      <2>1. /\ turn = <<>> /\ turn' = <<insn>> /\ Here < limit
            /\ tried' = tried \cup {Here}
            /\ reported' = IF insn.size > 0 THEN Append(reported, Here) ELSE reported
            /\ UNCHANGED <<buf, job, limit, frames>>
            BY <1>2 DEF Decode, Running
      <2>2. /\ frames # <<>> /\ frames \in Seq(FrameType) /\ reported \in Seq(Nat)
            /\ tried \in SUBSET Nat
            /\ buf \in Images /\ buf \in Seq(0 .. 255) /\ limit \in 0 .. Len(buf)
            BY <1>2 DEF TypeInv
      <2>3. Here \in Nat /\ Top.offset \in Nat /\ Top.offset <= Here
            BY <2>2, TopType
      <2>4. Here' = Here /\ Top' = Top /\ Sizes' = Sizes
            BY <2>1, SizesKept DEF Here, Top
      <2>5. /\ insn.size \in Nat /\ Sizes \in [Nat -> Nat] /\ Sizes[Here] = insn.size
            BY <2>2, <2>3, Decoded, SizesFacts
      <2>6. RangeEnd = Here /\ RangeEnd' = After(Here, insn)
            BY <2>1, <2>4 DEF RangeEnd, After
      <2>7. After(Here, insn) <= limit
            BY <2>1, <2>2, <2>3, AfterIsAhead
      <2>8. Len(frames) = 1 /\ Tiles(Top.offset, Here, tried, reported, Sizes)
            BY <1>2, <2>6 DEF RangeInv
      <2> HIDE DEF insn
      <2>9. CASE insn.size > 0
            <3>1. Tiles(Top.offset, Here + insn.size, tried \cup {Here}, Append(reported, Here), Sizes)
                  BY <2>2, <2>3, <2>5, <2>8, <2>9, TilesGrow
            <3>2. RangeEnd' = Here + insn.size
                  BY <2>6, <2>9 DEF After
            <3>3. QED
                  BY <2>1, <2>4, <2>6, <2>7, <2>8, <2>9, <3>1, <3>2 DEF RangeInv
      <2>10. CASE insn.size = 0
            <3>1. Tiles(Top.offset, Here + 1, tried \cup {Here}, reported, Sizes)
                  BY <2>2, <2>3, <2>5, <2>8, TilesSkip
            <3>2. RangeEnd' = Here + 1 /\ reported' = reported
                  BY <2>1, <2>6, <2>10 DEF After
            <3>3. QED
                  BY <2>1, <2>4, <2>6, <2>7, <2>8, <3>1, <3>2 DEF RangeInv
      <2>11. QED
            BY <2>5, <2>9, <2>10
<1>3. CASE RangeStep
      <2> DEFINE f == [Advanced(Top, turn[1]) EXCEPT !.cont = TRUE]
      <2>1. turn # <<>> /\ turn' = <<>> /\ frames' = <<f>> /\ job = "range"
            /\ UNCHANGED <<buf, limit, job, reported, tried>>
            BY <1>3 DEF RangeStep
      <2>2. /\ Advanced(Top, turn[1]) \in FrameType
            /\ Advanced(Top, turn[1]).offset = Top.offset
            /\ Advanced(Top, turn[1]).offset + Advanced(Top, turn[1]).bytes
                 = After(Here, x86_disasm_at(Here))
            /\ turn[1] = x86_disasm_at(Here)
            BY <2>1, TurnFacts, AdvancedTop
      <2>3. f.offset = Top.offset /\ f.offset + f.bytes = After(Here, x86_disasm_at(Here))
            BY <2>2 DEF FrameType
      <2> HIDE DEF f
      <2>4. Top' = f /\ Here' = f.offset + f.bytes /\ Len(frames') = 1
            BY <2>1 DEF Top, Here
      <2>5. RangeEnd' = Here' /\ RangeEnd = After(Here, x86_disasm_at(Here))
            BY <2>1, <2>2 DEF RangeEnd
      <2>6. Sizes' = Sizes
            BY <2>1, SizesKept
      <2>7. QED
            BY <2>1, <2>3, <2>4, <2>5, <2>6 DEF RangeInv
<1>4. CASE RangeReturns
      BY <1>4 DEF RangeReturns, RangeInv
<1>5. CASE job = "forward" /\ (Decode \/ ForwardStep \/ ForwardCall \/ ForwardReturns)
      BY <1>5 DEF Decode, ForwardStep, ForwardCall, ForwardReturns, RangeInv
<1>6. CASE UNCHANGED vars
      BY <1>6, SizesKept DEF vars, RangeInv, RangeEnd, Here, Top
<1>7. Decode => job \in {"range", "forward"}
      BY DEF Decode, Running
<1>8. (ForwardStep \/ ForwardCall \/ ForwardReturns) => job = "forward"
      BY DEF ForwardStep, ForwardCall, ForwardReturns
<1>9. QED
      BY <1>1, <1>2, <1>3, <1>4, <1>5, <1>6, <1>7, <1>8 DEF Next, Step, Starting

LEMMA RangeInvTiles ==
  ASSUME TypeInv, RangeInv
  PROVE  RangeTiles
<1> SUFFICES ASSUME job = "range", turn = <<>>
             PROVE  /\ Top.offset .. Here - 1
                         = tried \cup UNION {o .. o + SizeAt(o) - 1 : o \in Reported}
                    /\ \A i \in 2 .. Len(reported) :
                         reported[i - 1] + SizeAt(reported[i - 1]) <= reported[i]
    BY DEF RangeTiles
<1>1. /\ frames # <<>> /\ frames \in Seq(FrameType) /\ reported \in Seq(Nat)
      /\ tried \in SUBSET Nat
      /\ buf \in Images /\ buf \in Seq(0 .. 255) /\ limit \in 0 .. Len(buf)
      BY DEF TypeInv
<1>2. Here \in Nat /\ Top.offset \in Nat
      BY <1>1, TopType
<1>3. Tiles(Top.offset, Here, tried, reported, Sizes)
      BY DEF RangeInv, RangeEnd
<1>4. \A i \in DOMAIN reported : /\ reported[i] \in Nat
                                /\ SizeAt(reported[i]) \in Nat
                                /\ Sizes[reported[i]] = SizeAt(reported[i])
      <2>1. TAKE i \in DOMAIN reported
      <2>2. reported[i] \in Nat
            BY <1>1
      <2>3. QED
            BY <1>1, <2>2, Decoded, SizesFacts DEF SizeAt
<1>5. \A p \in Int : Inside(p, reported, Sizes)
                       <=> p \in UNION {o .. o + SizeAt(o) - 1 : o \in Reported}
      <2>1. TAKE p \in Int
      <2>2. ASSUME NEW i \in DOMAIN reported
            PROVE  (reported[i] <= p /\ p < reported[i] + Sizes[reported[i]])
                     <=> p \in reported[i] .. reported[i] + SizeAt(reported[i]) - 1
            <3>1. \A a, n \in Nat : (a <= p /\ p < a + n) <=> p \in a .. a + n - 1
                  OBVIOUS
            <3>2. QED
                  BY <1>4, <3>1
      <2>3. Inside(p, reported, Sizes)
              <=> \E i \in DOMAIN reported : p \in reported[i] .. reported[i] + SizeAt(reported[i]) - 1
            BY <2>2 DEF Inside
      <2>4. QED
            BY <2>3 DEF Reported
<1>6. \A p \in Int : p \in Top.offset .. Here - 1
                       <=> p \in tried \cup UNION {o .. o + SizeAt(o) - 1 : o \in Reported}
      <2>1. TAKE p \in Int
      <2>2. (Top.offset <= p /\ p < Here) <=> p \in tried \/ Inside(p, reported, Sizes)
            BY <1>3 DEF Tiles
      <2>3. p \in Top.offset .. Here - 1 <=> (Top.offset <= p /\ p < Here)
            BY <1>2
      <2>4. QED
            BY <1>5, <2>2, <2>3
<1>7. tried \cup UNION {o .. o + SizeAt(o) - 1 : o \in Reported} \subseteq Int
      BY <1>1
<1>8. Top.offset .. Here - 1 \subseteq Int
      BY <1>2
<1>9. Top.offset .. Here - 1 = tried \cup UNION {o .. o + SizeAt(o) - 1 : o \in Reported}
      BY <1>6, <1>7, <1>8
<1>10. \A i \in 2 .. Len(reported) : reported[i - 1] + SizeAt(reported[i - 1]) <= reported[i]
      <2>1. TAKE i \in 2 .. Len(reported)
      <2>2. i - 1 \in DOMAIN reported
            BY <1>1
      <2>3. reported[i - 1] + Sizes[reported[i - 1]] <= reported[i]
            BY <1>3 DEF Tiles
      <2>4. QED
            BY <1>4, <2>2, <2>3
<1>11. QED
      BY <1>9, <1>10

\* Whatever the bytes are, disassembling a range leaves no byte out and reports
\* none twice: the loop of x86_disasm_range moves on by what it has decoded, or by
\* a byte.
THEOREM RangeIsTiled == Spec => []RangeTiles
<1>1. Init => TypeInv /\ RangeInv
      <2>1. SUFFICES ASSUME Init PROVE TypeInv /\ RangeInv
            OBVIOUS
      <2>2. <<>> \in Seq(0 .. 255) /\ Len(<<>>) = 0 /\ <<>> \in Seq(FrameType)
            OBVIOUS
      <2>3. QED
            BY <2>1, <2>2 DEF Init, TypeInv, RangeInv
<1>2. TypeInv /\ RangeInv /\ [Next]_vars => TypeInv' /\ RangeInv'
      BY TypeStep, RangeInvStep
<1>3. TypeInv /\ RangeInv => RangeTiles
      BY RangeInvTiles
<1>4. QED
      BY <1>1, <1>2, <1>3, PTL DEF Spec

-----------------------------------------------------------------------------
(* The count.                                                              *)

LEMMA SumsTop ==
  ASSUME NEW s \in Seq(FrameType), s # <<>>, NEW t \in Seq(FrameType), Len(t) = Len(s),
         \A i \in 1 .. Len(s) - 1 : t[i] = s[i],
         NEW k \in Nat, t[Len(s)].count = s[Len(s)].count + k,
         NEW total, \E sums : Sums(sums, s, total)
  PROVE  \E sums : Sums(sums, t, total + k)
<1>1. PICK sums : Sums(sums, s, total)
      OBVIOUS
<1> DEFINE n == Len(s)
           more == [i \in 0 .. n |-> IF i = n THEN sums[n] + k ELSE sums[i]]
<1>2. n \in Nat \ {0}
      BY EmptySeq
<1>3. sums \in [0 .. n -> Nat] /\ sums[0] = 0 /\ sums[n] = total
      /\ \A i \in 1 .. n : sums[i] = sums[i - 1] + s[i].count
      BY <1>1 DEF Sums
<1>4. \A i \in 1 .. n : s[i].count \in Nat
      <2>1. \A i \in 1 .. n : s[i] \in FrameType
            BY ElementOfSeq
      <2>2. QED
            BY <2>1 DEF FrameType
<1> HIDE DEF n
<1>5. more \in [0 .. n -> Nat]
      BY <1>2, <1>3
<1>6. more[0] = 0 /\ more[n] = total + k
      BY <1>2, <1>3
<1>7. \A i \in 1 .. n : more[i] = more[i - 1] + t[i].count
      <2>1. TAKE i \in 1 .. n
      <2>2. i - 1 \in 0 .. n /\ i - 1 # n /\ i \in 0 .. n
            BY <1>2
      <2>3. more[i - 1] = sums[i - 1] /\ sums[i - 1] \in Nat
            BY <2>2, <1>3
      <2>4. CASE i = n
            <3>1. more[i] = sums[i] + k /\ sums[i] = sums[i - 1] + s[i].count /\ s[i].count \in Nat
                  BY <1>3, <1>4, <2>2, <2>4
            <3>2. t[i].count = s[i].count + k
                  BY <2>4 DEF n
            <3>3. QED
                  BY <2>3, <3>1, <3>2
      <2>5. CASE i # n
            <3>1. i \in 1 .. n - 1
                  BY <1>2, <2>5
            <3>2. t[i] = s[i]
                  BY <3>1 DEF n
            <3>3. more[i] = sums[i] /\ sums[i] = sums[i - 1] + s[i].count
                  BY <1>3, <2>2, <2>5
            <3>4. QED
                  BY <2>3, <3>2, <3>3
      <2>6. QED
            BY <2>4, <2>5
<1> HIDE DEF more
<1>8. Sums(more, t, total + k)
      BY <1>5, <1>6, <1>7 DEF Sums, n
<1>9. QED
      BY <1>8

LEMMA SumsPush ==
  ASSUME NEW s \in Seq(FrameType), NEW f \in FrameType, f.count = 0,
         NEW total, \E sums : Sums(sums, s, total)
  PROVE  \E sums : Sums(sums, Append(s, f), total)
<1>1. PICK sums : Sums(sums, s, total)
      OBVIOUS
<1> DEFINE n == Len(s)
           t == Append(s, f)
           more == [i \in 0 .. n + 1 |-> IF i = n + 1 THEN sums[n] ELSE sums[i]]
<1>2. n \in Nat
      BY LenProperties
<1>3. sums \in [0 .. n -> Nat] /\ sums[0] = 0 /\ sums[n] = total
      /\ \A i \in 1 .. n : sums[i] = sums[i - 1] + s[i].count
      BY <1>1 DEF Sums
<1>4. Len(t) = n + 1 /\ t[n + 1] = f /\ \A i \in 1 .. n : t[i] = s[i]
      BY AppendProperties
<1> HIDE DEF n, t
<1>5. more \in [0 .. n + 1 -> Nat]
      BY <1>2, <1>3
<1>6. more[0] = 0 /\ more[n + 1] = total
      BY <1>2, <1>3
<1>7. \A i \in 1 .. n + 1 : more[i] = more[i - 1] + t[i].count
      <2>1. TAKE i \in 1 .. n + 1
      <2>2. i - 1 \in 0 .. n /\ i - 1 # n + 1 /\ i - 1 \in 0 .. n + 1
            BY <1>2
      <2>3. more[i - 1] = sums[i - 1] /\ sums[i - 1] \in Nat
            BY <2>2, <1>3
      <2>4. CASE i = n + 1
            <3>1. more[i] = sums[n] /\ i - 1 = n
                  BY <1>2, <2>4
            <3>2. t[i].count = 0
                  BY <1>4, <2>4
            <3>3. QED
                  BY <2>3, <3>1, <3>2
      <2>5. CASE i # n + 1
            <3>1. i \in 1 .. n /\ i \in 0 .. n + 1
                  BY <1>2, <2>5
            <3>2. more[i] = sums[i] /\ sums[i] = sums[i - 1] + s[i].count /\ t[i] = s[i]
                  BY <1>3, <1>4, <2>5, <3>1
            <3>3. QED
                  BY <2>3, <3>2
      <2>6. QED
            BY <2>4, <2>5
<1> HIDE DEF more
<1>8. Sums(more, t, total)
      BY <1>4, <1>5, <1>6, <1>7 DEF Sums
<1>9. QED
      BY <1>8 DEF t

LEMMA SumsPop ==
  ASSUME NEW s \in Seq(FrameType), NEW t \in Seq(FrameType), t # <<>>, Len(s) = Len(t) + 1,
         \A i \in 1 .. Len(t) - 1 : t[i] = s[i],
         t[Len(t)].count = s[Len(t)].count + s[Len(s)].count,
         NEW total, \E sums : Sums(sums, s, total)
  PROVE  \E sums : Sums(sums, t, total)
<1>1. PICK sums : Sums(sums, s, total)
      OBVIOUS
<1> DEFINE n == Len(t)
           less == [i \in 0 .. n |-> IF i = n THEN sums[n + 1] ELSE sums[i]]
<1>2. n \in Nat \ {0}
      BY EmptySeq
<1>3. sums \in [0 .. n + 1 -> Nat] /\ sums[0] = 0 /\ sums[n + 1] = total
      /\ \A i \in 1 .. n + 1 : sums[i] = sums[i - 1] + s[i].count
      BY <1>1 DEF Sums
<1>4. \A i \in 1 .. n + 1 : s[i].count \in Nat
      <2>1. \A i \in 1 .. n + 1 : s[i] \in FrameType
            BY ElementOfSeq
      <2>2. QED
            BY <2>1 DEF FrameType
<1>5. t[n].count = s[n].count + s[n + 1].count
      OBVIOUS
<1> HIDE DEF n
<1>6. less \in [0 .. n -> Nat]
      BY <1>2, <1>3
<1>7. less[0] = 0 /\ less[n] = total
      BY <1>2, <1>3
<1>8. \A i \in 1 .. n : less[i] = less[i - 1] + t[i].count
      <2>1. TAKE i \in 1 .. n
      <2>2. i - 1 \in 0 .. n /\ i - 1 # n /\ i \in 0 .. n /\ i \in 1 .. n + 1
            BY <1>2
      <2>3. less[i - 1] = sums[i - 1] /\ sums[i - 1] \in Nat
            BY <2>2, <1>2, <1>3
      <2>4. sums[i] = sums[i - 1] + s[i].count /\ s[i].count \in Nat
            BY <1>3, <1>4, <2>2
      <2>5. CASE i = n
            <3>1. PICK m \in 1 .. n + 1 : m = n + 1
                  BY <1>2
            <3>2. sums[n + 1] = sums[n] + s[n + 1].count /\ s[n + 1].count \in Nat
                  <4>1. sums[m] = sums[m - 1] + s[m].count /\ s[m].count \in Nat
                        BY <1>3, <1>4
                  <4>2. m - 1 = n
                        BY <1>2, <3>1
                  <4>3. QED
                        BY <3>1, <4>1, <4>2
            <3>3. less[i] = sums[n + 1] /\ t[i].count = s[i].count + s[n + 1].count
                  BY <1>5, <2>2, <2>5
            <3>4. sums[i] = sums[n]
                  BY <2>5
            <3>5. QED
                  BY <2>3, <2>4, <3>2, <3>3, <3>4
      <2>6. CASE i # n
            <3>1. i \in 1 .. n - 1
                  BY <1>2, <2>6
            <3>2. t[i] = s[i]
                  BY <3>1 DEF n
            <3>3. less[i] = sums[i]
                  BY <2>2, <2>6
            <3>4. QED
                  BY <2>3, <2>4, <3>2, <3>3
      <2>7. QED
            BY <2>5, <2>6
<1> HIDE DEF less
<1>9. Sums(less, t, total)
      BY <1>6, <1>7, <1>8 DEF Sums, n
<1>10. QED
      BY <1>9

LEMMA CountStep ==
  ASSUME TypeInv, RangeInv, CountInv, [Next]_vars
  PROVE  CountInv'
<1> DEFINE total == Len(reported) - Uncounted
<1>1. CASE Starting
      <2>1. PICK b \in Images, offset \in Nat, end \in Nat :
              /\ b \in Seq(0 .. 255) /\ offset <= end /\ end <= Len(b)
              /\ \/ StartRange(b, offset, end - offset)
                 \/ /\ end = Len(b)
                    /\ \E who \in {"caller", "internal"} : StartForward(b, offset, who)
            BY <1>1, Started
      <2>2. /\ job = "none" /\ job' # "done" /\ frames' = <<Frame(offset)>>
            /\ UNCHANGED <<turn, reported>>
            BY <2>1 DEF StartRange, StartForward, Start
      <2>3. turn' = <<>> /\ reported' = <<>>
            BY <2>2 DEF TypeInv
      <2>4. Len(reported') - Uncounted' = 0
            BY <2>3 DEF Uncounted
      <2>5. frames'[1].count = 0 /\ Len(frames') = 1
            BY <2>2 DEF Frame
      <2>6. Sums([i \in 0 .. 1 |-> 0], frames', 0)
            BY <2>5 DEF Sums
      <2>7. QED
            BY <2>2, <2>4, <2>6 DEF CountInv
<1>2. CASE Decode
      <2>1. /\ turn = <<>> /\ turn' = <<x86_disasm_at(Here)>>
            /\ reported' = IF x86_disasm_at(Here).size > 0 THEN Append(reported, Here) ELSE reported
            /\ UNCHANGED <<buf, job, limit, frames>>
            BY <1>2 DEF Decode
      <2>2. job \in {"range", "forward"} /\ frames # <<>> /\ frames \in Seq(FrameType)
            /\ reported \in Seq(Nat)
            BY <1>2 DEF Decode, Running, TypeInv
      <2>3. Here \in Nat
            BY <2>2, TopType
      <2>4. Uncounted = 0 /\ Uncounted' = IF x86_disasm_at(Here).size > 0 THEN 1 ELSE 0
            BY <2>1 DEF Uncounted
      <2>5. Len(reported') - Uncounted' = Len(reported) - Uncounted
            <3>1. CASE x86_disasm_at(Here).size > 0
                  <4>1. Len(reported') = Len(reported) + 1
                        BY <2>1, <2>2, <2>3, <3>1
                  <4>2. QED
                        BY <2>2, <2>4, <3>1, <4>1, LenProperties
            <3>2. CASE ~(x86_disasm_at(Here).size > 0)
                  BY <2>1, <2>4, <3>2
            <3>3. QED
                  BY <3>1, <3>2
      <2>6. QED
            BY <2>1, <2>2, <2>5 DEF CountInv
<1>3. ASSUME turn # <<>>
      PROVE  LET f == Advanced(Top, turn[1])
             IN /\ f \in FrameType /\ f.count = frames[Len(frames)].count + Uncounted
                /\ Uncounted \in Nat /\ reported \in Seq(Nat)
                /\ frames # <<>> /\ frames \in Seq(FrameType)
                /\ \E sums : Sums(sums, frames, total)
                /\ total + Uncounted = Len(reported)
      <2>1. /\ frames # <<>> /\ frames \in Seq(FrameType) /\ job \in {"range", "forward"}
            BY <1>3, TurnFacts
      <2>2. /\ Advanced(Top, turn[1]) \in FrameType
            /\ Advanced(Top, turn[1]).count = Top.count + Uncounted
            BY <1>3, <2>1, AdvancedTop
      <2>3. Uncounted \in Nat /\ reported \in Seq(Nat)
            BY DEF Uncounted, TypeInv
      <2>4. Len(reported) \in Nat
            BY <2>3
      <2>5. total + Uncounted = Len(reported)
            BY <2>3, <2>4
      <2>6. \E sums : Sums(sums, frames, total)
            BY <2>1 DEF CountInv
      <2>7. QED
            BY <2>1, <2>2, <2>3, <2>5, <2>6 DEF Top
<1> HIDE DEF total
<1>4. CASE RangeStep
      <2> DEFINE f == [Advanced(Top, turn[1]) EXCEPT !.cont = TRUE]
      <2>1. turn # <<>> /\ turn' = <<>> /\ job = "range" /\ job' = "range" /\ reported' = reported
            /\ frames' = <<f>>
            BY <1>4 DEF RangeStep
      <2>2. f \in FrameType /\ f.count = frames[Len(frames)].count + Uncounted
            BY <1>3, <2>1 DEF FrameType
      <2> HIDE DEF f
      <2>3. Len(frames) = 1
            BY <2>1 DEF RangeInv
      <2>4. frames' \in Seq(FrameType) /\ Len(frames') = 1 /\ frames'[1] = f
            BY <2>1, <2>2
      <2>5. \E sums : Sums(sums, frames', total + Uncounted)
            <3>1. Len(frames') = Len(frames) /\ \A i \in 1 .. Len(frames) - 1 : frames'[i] = frames[i]
                  BY <2>3, <2>4
            <3>2. frames'[Len(frames)].count = frames[Len(frames)].count + Uncounted
                  BY <2>2, <2>3, <2>4
            <3>3. frames # <<>> /\ frames \in Seq(FrameType) /\ Uncounted \in Nat
                  /\ \E sums : Sums(sums, frames, total)
                  BY <1>3, <2>1
            <3>4. QED
                  BY <2>4, <3>1, <3>2, <3>3, SumsTop
      <2>6. Uncounted' = 0
            BY <2>1 DEF Uncounted
      <2>7. Len(reported') - Uncounted' = total + Uncounted
            BY <1>3, <2>1, <2>6, LenProperties
      <2>8. QED
            BY <2>1, <2>5, <2>7 DEF CountInv
<1>5. CASE ForwardStep
      <2>1. turn # <<>> /\ turn' = <<>> /\ job = "forward" /\ job' = "forward"
            /\ reported' = reported /\ frames' = Append(Caller, Advanced(Top, turn[1]))
            BY <1>5 DEF ForwardStep
      <2>2. /\ frames' \in Seq(FrameType) /\ Len(frames') = Len(frames)
            /\ frames'[Len(frames)] = Advanced(Top, turn[1])
            /\ \A i \in 1 .. Len(frames) - 1 : frames'[i] = frames[i]
            BY <1>3, <2>1, Replaced DEF Caller
      <2>3. \E sums : Sums(sums, frames', total + Uncounted)
            BY <1>3, <2>1, <2>2, SumsTop
      <2>4. Uncounted' = 0
            BY <2>1 DEF Uncounted
      <2>5. Len(reported') - Uncounted' = total + Uncounted
            BY <1>3, <2>1, <2>4, LenProperties
      <2>6. QED
            BY <2>1, <2>3, <2>5 DEF CountInv
<1>6. CASE ForwardCall
      <2> DEFINE t == Append(Caller, Advanced(Top, turn[1]))
      <2>1. turn # <<>> /\ turn' = <<>> /\ job = "forward" /\ job' = "forward"
            /\ reported' = reported
            BY <1>6 DEF ForwardCall
      <2>2. PICK addr \in Resolved(turn[1]) :
              InBuffer(addr) /\ frames' = Append(t, Frame(addr - BufRva))
            BY <1>6 DEF ForwardCall
      <2>3. addr - BufRva \in Nat
            BY <2>2, TurnFacts, <2>1 DEF InBuffer
      <2>4. Frame(addr - BufRva) \in FrameType /\ Frame(addr - BufRva).count = 0
            BY <2>3 DEF Frame, FrameType
      <2>5. /\ t \in Seq(FrameType) /\ Len(t) = Len(frames)
            /\ t[Len(frames)] = Advanced(Top, turn[1])
            /\ \A i \in 1 .. Len(frames) - 1 : t[i] = frames[i]
            BY <1>3, <2>1, Replaced DEF Caller
      <2> HIDE DEF t
      <2>6. \E sums : Sums(sums, t, total + Uncounted)
            BY <1>3, <2>1, <2>5, SumsTop
      <2>7. \E sums : Sums(sums, frames', total + Uncounted)
            BY <2>2, <2>4, <2>5, <2>6, SumsPush
      <2>8. Uncounted' = 0
            BY <2>1 DEF Uncounted
      <2>9. Len(reported') - Uncounted' = total + Uncounted
            BY <1>3, <2>1, <2>8, LenProperties
      <2>10. QED
            BY <2>1, <2>7, <2>9 DEF CountInv
<1>7. ASSUME turn = <<>>, frames # <<>>
      PROVE  /\ frames \in Seq(FrameType) /\ Len(frames) \in Nat \ {0} /\ Top.count \in Nat
             /\ \E sums : Sums(sums, frames, Len(reported))
             /\ Len(frames) = 1 => Top.count = Len(reported)
      <2>1. frames \in Seq(FrameType) /\ job \in {"range", "forward"} /\ Uncounted = 0
            /\ Len(reported) \in Nat
            BY <1>7 DEF TypeInv, Uncounted
      <2>2. Len(frames) \in Nat \ {0} /\ Top.count \in Nat
            BY <1>7, <2>1, TopType
      <2>3. PICK sums : Sums(sums, frames, Len(reported))
            BY <2>1 DEF CountInv
      <2>4. Len(frames) = 1 => Top.count = Len(reported)
            <3>1. HAVE Len(frames) = 1
            <3>2. sums[0] = 0 /\ sums[1] = sums[1 - 1] + frames[1].count /\ sums[1] = Len(reported)
                  BY <2>3, <3>1 DEF Sums
            <3>3. QED
                  BY <2>2, <3>1, <3>2 DEF Top
      <2>5. QED
            BY <2>1, <2>2, <2>3, <2>4
<1>8. CASE RangeReturns
      <2>1. turn = <<>> /\ frames # <<>> /\ job = "range"
            BY <1>8 DEF RangeReturns, TypeInv
      <2>2. Len(frames) = 1
            BY <2>1 DEF RangeInv
      <2>3. QED
            BY <1>7, <1>8, <2>1, <2>2 DEF RangeReturns, CountInv
<1>9. CASE ForwardReturns
      <2>1. turn = <<>> /\ turn' = <<>> /\ frames # <<>> /\ job = "forward" /\ reported' = reported
            BY <1>9 DEF ForwardReturns, TypeInv
      <2>2. CASE Len(frames) = 1
            BY <1>7, <1>9, <2>1, <2>2 DEF ForwardReturns, CountInv
      <2>3. CASE Len(frames) # 1
            <3>1. /\ Caller \in Seq(FrameType) /\ Len(Caller) = Len(frames) - 1
                  /\ \A i \in 1 .. Len(frames) - 1 : Caller[i] = frames[i]
                  BY <1>7, <2>1, Shortened DEF Caller
            <3>2. Len(frames) - 1 \in 1 .. Len(Caller) /\ Len(Caller) # 0
                  BY <1>7, <2>1, <2>3, <3>1
            <3>3. Caller[Len(frames) - 1] \in FrameType
                  BY <3>1, <3>2, ElementOfSeq
            <3>4. [Caller[Len(frames) - 1] EXCEPT !.count = @ + Top.count] \in FrameType
                  <4>1. Top.count \in Nat
                        BY <1>7, <2>1
                  <4>2. QED
                        BY <3>3, <4>1 DEF FrameType
            <3>5. frames' = [Caller EXCEPT ![Len(frames) - 1] =
                               [Caller[Len(frames) - 1] EXCEPT !.count = @ + Top.count]]
                  BY <1>9, <2>3 DEF ForwardReturns
            <3>6. /\ frames' \in Seq(FrameType) /\ Len(frames') = Len(Caller)
                  /\ \A i \in 1 .. Len(Caller) : frames'[i] =
                       IF i = Len(frames) - 1
                       THEN [Caller[Len(frames) - 1] EXCEPT !.count = @ + Top.count]
                       ELSE Caller[i]
                  BY <3>1, <3>2, <3>4, <3>5, ExceptSeq
            <3>7. frames' # <<>>
                  BY <3>2, <3>6, EmptySeq
            <3>8. frames'[Len(frames')].count = frames[Len(frames')].count + frames[Len(frames)].count
                  <4>1. Len(frames') = Len(frames) - 1 /\ Len(frames) - 1 \in 1 .. Len(Caller)
                        BY <3>1, <3>2, <3>6
                  <4>2. frames'[Len(frames')]
                          = [Caller[Len(frames) - 1] EXCEPT !.count = @ + Top.count]
                        BY <3>6, <4>1
                  <4>3. Caller[Len(frames) - 1] = frames[Len(frames')]
                        BY <3>1, <4>1
                  <4>4. QED
                        BY <3>3, <4>2, <4>3 DEF Top, FrameType
            <3>9. \A i \in 1 .. Len(frames') - 1 : frames'[i] = frames[i]
                  <4>1. TAKE i \in 1 .. Len(frames') - 1
                  <4>2. i \in 1 .. Len(Caller) /\ i \in 1 .. Len(frames) - 1 /\ i # Len(frames) - 1
                        BY <1>7, <2>1, <3>1, <3>6
                  <4>3. QED
                        BY <3>1, <3>6, <4>2
            <3>10. Len(frames) = Len(frames') + 1
                  BY <1>7, <2>1, <3>1, <3>6
            <3>11. \E sums : Sums(sums, frames', Len(reported))
                  BY <1>7, <2>1, <3>6, <3>7, <3>8, <3>9, <3>10, SumsPop
            <3>12. Uncounted' = 0 /\ job' = "forward" /\ Len(reported) \in Nat
                  BY <1>9, <2>1, <2>3 DEF Uncounted, ForwardReturns, TypeInv
            <3>13. QED
                  BY <2>1, <3>11, <3>12 DEF CountInv
      <2>4. QED
            BY <2>2, <2>3
<1>10. CASE UNCHANGED vars
      BY <1>10 DEF vars, CountInv, Uncounted
<1>11. QED
      BY <1>1, <1>2, <1>4, <1>5, <1>6, <1>8, <1>9, <1>10 DEF Next, Step, Starting

\* x86_disasm_range and x86_disasm_forward return how often they called the
\* caller's function, in however many nested calls.
THEOREM CountIsRight == Spec => []ReturnsCount
<1>1. Init => TypeInv /\ RangeInv /\ CountInv
      <2>1. SUFFICES ASSUME Init PROVE TypeInv /\ RangeInv /\ CountInv
            OBVIOUS
      <2>2. <<>> \in Seq(0 .. 255) /\ Len(<<>>) = 0 /\ <<>> \in Seq(FrameType)
            OBVIOUS
      <2>3. QED
            BY <2>1, <2>2 DEF Init, TypeInv, RangeInv, CountInv
<1>2. TypeInv /\ RangeInv /\ CountInv /\ [Next]_vars => TypeInv' /\ RangeInv' /\ CountInv'
      BY TypeStep, RangeInvStep, CountStep
<1>3. CountInv => ReturnsCount
      BY DEF CountInv, ReturnsCount
<1>4. QED
      BY <1>1, <1>2, <1>3, PTL DEF Spec

-----------------------------------------------------------------------------
(* The flow.                                                               *)

\* Where a turn leads is where its frame goes on and its target.
LEMMA SuccessorsOf ==
  ASSUME TypeInv, turn # <<>>, NEW q \in Successors(Here), q \in Buffer
  PROVE  \/ turn[1].type \notin {"jmp", "return"} /\ q = After(Here, turn[1])
         \/ /\ turn[1].type \in Flow
            /\ turn[1].operand \in Address \cup Relative
            /\ internal_resolver(turn[1], BufRva + Here) = BufRva + q
<1>1. turn[1] = x86_disasm_at(Here) /\ Here \in Nat
      BY TurnFacts
<1>2. q \in Nat /\ BufRva \in Nat
      BY ConstantAssumption DEF Buffer
<1>3. turn[1].size \in Nat /\ turn[1].value \in Int
      BY <1>1, TurnFacts, Decoded
<1>4. \/ turn[1].type \notin {"jmp", "return"} /\ q = After(Here, turn[1])
      \/ q = TargetOf(Here)
      BY <1>1 DEF Successors
<1>5. CASE q = TargetOf(Here)
      <2>1. q # -1
            BY <1>2
      <2>2. turn[1].type \in Flow
            BY <1>1, <1>5, <2>1 DEF TargetOf
      <2>3. CASE turn[1].operand \in Relative
            <3>1. q = Here + turn[1].size + turn[1].value
                  BY <1>1, <1>5, <2>2, <2>3 DEF TargetOf
            <3>2. turn[1].operand \notin Address
                  BY <2>3 DEF Relative, Address
            <3>3. internal_resolver(turn[1], BufRva + Here)
                    = BufRva + Here + turn[1].size + turn[1].value
                  BY <2>3, <3>2 DEF internal_resolver
            <3>4. QED
                  BY <1>1, <1>2, <1>3, <2>2, <2>3, <3>1, <3>3
      <2>4. CASE turn[1].operand \notin Relative
            <3>1. turn[1].operand \in Address /\ q = turn[1].value - BufRva
                  BY <1>1, <1>5, <2>1, <2>2, <2>4 DEF TargetOf
            <3>2. internal_resolver(turn[1], BufRva + Here) = turn[1].value
                  BY <2>4, <3>1 DEF internal_resolver
            <3>3. QED
                  BY <1>2, <1>3, <2>2, <3>1, <3>2
      <2>5. QED
            BY <2>3, <2>4
<1>6. QED
      BY <1>4, <1>5

\* An answer that is not the target of an instruction whose target is known
\* leaves only the one: the resolver refused it.
LEMMA Refused ==
  ASSUME NEW q \in Int, BufRva + q = internal_resolver(turn[1], BufRva + Here),
         turn[1].operand \in Address \cup Relative,
         NEW addr \in Resolved(turn[1]), addr # BufRva + q
  PROVE  addr = -1 /\ \E o \in Known : BufRva + q = BufRva + o
<1>1. resolver # "internal"
      BY DEF Resolved
<1>2. Answers(turn[1]) \subseteq {BufRva + q}
      BY DEF Answers
<1>3. Answers(turn[1]) = {}
      BY <1>1, <1>2 DEF Resolved
<1>4. BufRva + q \in {BufRva + o : o \in Known}
      BY <1>3 DEF Answers
<1>5. QED
      BY <1>1, <1>3, <1>4 DEF Resolved

\* Replacing the innermost call's frame, the others go on where they did.
LEMMA GoingOn ==
  ASSUME frames \in Seq(FrameType), frames # <<>>, NEW t \in Seq(FrameType),
         Len(t) >= Len(frames), t[Len(frames)] \in FrameType,
         \A i \in 1 .. Len(frames) - 1 : t[i] = frames[i],
         NEW q, Going(frames, q), q # Here
  PROVE  Going(t, q)
<1>1. PICK i \in DOMAIN frames : frames[i].cont /\ q = frames[i].offset + frames[i].bytes
      BY DEF Going
<1>2. i # Len(frames)
      BY <1>1 DEF Here, Top
<1>3. Len(frames) \in Nat /\ Len(t) \in Nat /\ i \in 1 .. Len(frames)
      OBVIOUS
<1>4. i \in 1 .. Len(frames) - 1 /\ i \in 1 .. Len(t)
      BY <1>2, <1>3
<1>5. t[i] = frames[i] /\ i \in DOMAIN t
      BY <1>4
<1>6. QED
      BY <1>1, <1>5 DEF Going

\* The two ends of a turn of x86_disasm_forward.
LEMMA TurnCovered ==
  ASSUME TypeInv, FlowInv, turn # <<>>, turn' = <<>>, resolver # "none",
         UNCHANGED <<buf, job, resolver, limit, count, reported, tried>>,
         frames' \in Seq(FrameType), Len(frames') >= Len(frames),
         frames'[Len(frames)] = Advanced(Top, turn[1]),
         \A i \in 1 .. Len(frames) - 1 : frames'[i] = frames[i],
         \A q \in answered' : q \in Buffer => q \in answered \/ Going(frames', q),
         turn[1].type \in Flow => \E addr \in Resolved(turn[1]) :
            InBuffer(addr) => Going(frames', addr - BufRva)
  PROVE  FlowInv'
<1> DEFINE insn == turn[1]
<1>1. /\ frames # <<>> /\ frames \in Seq(FrameType) /\ Len(frames) \in Nat \ {0}
      /\ Here \in Nat /\ Here \in tried /\ insn = x86_disasm_at(Here)
      BY TurnFacts
<1>2. Advanced(Top, insn) \in FrameType
      BY <1>1, TurnFacts, AdvancedTop
<1>3. ASSUME NEW q, Reach(q) PROVE Reach(q)'
      <2>1. CASE q \in tried
            BY <2>1 DEF Reach
      <2>2. CASE Going(frames, q) /\ q # Here
            <3>1. Going(frames', q)
                  BY <1>1, <1>2, <2>2, GoingOn
            <3>2. QED
                  BY <3>1 DEF Reach, Going
      <2>3. CASE q = Here
            BY <1>1, <2>3 DEF Reach
      <2>4. QED
            BY <1>3, <2>1, <2>2, <2>3 DEF Reach
<1>4. \A o : x86_disasm_at(o)' = x86_disasm_at(o)
      BY DEF x86_disasm_at
<1>5. Reported' = Reported /\ Buffer' = Buffer /\ \A o : SizeAt(o)' = SizeAt(o)
      BY <1>4 DEF Reported, Buffer, SizeAt
<1>6. \A o : Successors(o)' = Successors(o)
      BY <1>4 DEF Successors, TargetOf
<1>7. Known \cap Buffer \subseteq {o \in Buffer : Reach(o)}
      BY DEF Known, FlowInv, Reported, Reach
<1>8. ASSUME NEW q \in answered', q \in Buffer PROVE Reach(q)'
      <2>1. CASE q \in answered
            BY <1>3, <1>8, <2>1 DEF FlowInv
      <2>2. CASE Going(frames', q)
            BY <2>2 DEF Reach, Going
      <2>3. QED
            BY <1>8, <2>1, <2>2
<1>9. ASSUME NEW q \in Successors(Here), q \in Buffer PROVE Reach(q)'
      <2>1. CASE insn.type \notin {"jmp", "return"} /\ q = After(Here, insn)
            <3>1. frames'[Len(frames)].cont
                  BY <1>1, <2>1, TurnFacts, AdvancedTop
            <3>2. frames'[Len(frames)].offset + frames'[Len(frames)].bytes = q
                  BY <1>1, <2>1, TurnFacts, AdvancedTop
            <3>3. Len(frames) \in DOMAIN frames'
                  BY <1>1
            <3>4. Going(frames', q)
                  BY <3>1, <3>2, <3>3 DEF Going
            <3>5. QED
                  BY <3>4 DEF Reach, Going
      <2>2. CASE /\ insn.type \in Flow
                 /\ insn.operand \in Address \cup Relative
                 /\ internal_resolver(insn, BufRva + Here) = BufRva + q
            <3>1. PICK addr \in Resolved(insn) :
                    InBuffer(addr) => Going(frames', addr - BufRva)
                  BY <2>2
            <3>2. q \in Int /\ q \in 0 .. Len(buf) - 1 /\ BufRva \in Nat
                  BY <1>9, ConstantAssumption DEF Buffer
            <3>3. CASE addr = BufRva + q
                  <4>1. addr - BufRva = q /\ addr # -1
                        BY <3>2, <3>3
                  <4>2. InBuffer(addr)
                        BY <3>2, <4>1 DEF InBuffer
                  <4>3. Going(frames', q)
                        BY <3>1, <4>1, <4>2
                  <4>4. QED
                        BY <4>3 DEF Reach, Going
            <3>4. CASE addr # BufRva + q
                  <4>1. PICK o \in Known : BufRva + q = BufRva + o
                        BY <2>2, <3>1, <3>2, <3>4, Refused
                  <4>2. o \in Nat
                        BY <4>1 DEF Known, TypeInv
                  <4>3. o = q
                        BY <3>2, <4>1, <4>2
                  <4>4. QED
                        BY <1>3, <1>7, <1>9, <4>1, <4>3
            <3>5. QED
                  BY <3>3, <3>4
      <2>3. QED
            BY <1>9, <2>1, <2>2, SuccessorsOf
<1>10. ASSUME NEW o \in tried, NEW q \in Successors(o), q \in Buffer PROVE Reach(q)'
      <2>1. CASE o = Here
            BY <1>9, <1>10, <2>1
      <2>2. CASE o # Here
            <3>1. Reach(q)
                  BY <1>10, <2>2 DEF FlowInv
            <3>2. QED
                  BY <1>3, <3>1
      <2>3. QED
            BY <2>1, <2>2
<1>11. QED
      BY <1>5, <1>6, <1>8, <1>10 DEF FlowInv

LEMMA FlowStep ==
  ASSUME TypeInv, FlowInv, [Next]_vars
  PROVE  FlowInv'
<1>1. CASE Starting
      <2>1. PICK b \in Images, offset \in Nat, end \in Nat :
              /\ b \in Seq(0 .. 255) /\ offset <= end /\ end <= Len(b)
              /\ \/ StartRange(b, offset, end - offset)
                 \/ /\ end = Len(b)
                    /\ \E who \in {"caller", "internal"} : StartForward(b, offset, who)
            BY <1>1, Started
      <2>2. /\ job = "none" /\ UNCHANGED <<reported, tried, answered>>
            /\ job' = "forward" \/ resolver' = "none"
            BY <2>1 DEF StartRange, StartForward, Start
      <2>3. reported' = <<>> /\ tried' = {} /\ answered' = {}
            BY <2>2 DEF TypeInv
      <2>4. Reported' = {}
            BY <2>3 DEF Reported
      <2>5. QED
            BY <2>2, <2>3, <2>4 DEF FlowInv
<1>2. CASE Decode
      <2> SUFFICES ASSUME resolver # "none" PROVE FlowInv'
            BY <1>2 DEF Decode, FlowInv
      <2>1. /\ turn = <<>> /\ turn' = <<x86_disasm_at(Here)>> /\ tried' = tried \cup {Here}
            /\ reported' = IF x86_disasm_at(Here).size > 0 THEN Append(reported, Here) ELSE reported
            /\ UNCHANGED <<buf, job, resolver, limit, frames, answered>>
            BY <1>2 DEF Decode
      <2>2. \A o : x86_disasm_at(o)' = x86_disasm_at(o)
            BY <2>1 DEF x86_disasm_at
      <2>3. Here' = Here /\ Buffer' = Buffer /\ \A o : SizeAt(o)' = SizeAt(o)
            BY <2>1, <2>2 DEF Here, Top, Buffer, SizeAt
      <2>4. \A o : Successors(o)' = Successors(o)
            BY <2>1, <2>2 DEF Successors, TargetOf
      <2>5. \A q : Reach(q) => Reach(q)'
            BY <2>1 DEF Reach, Going
      <2>6. Reported' = IF SizeAt(Here) > 0 THEN Reported \cup {Here} ELSE Reported
            <3>1. reported \in Seq(Nat) /\ job \in {"range", "forward"}
                  BY <1>2 DEF TypeInv, Decode, Running
            <3>2. Here \in Nat
                  BY <3>1, TopType DEF TypeInv
            <3>3. CASE SizeAt(Here) > 0
                  <4>1. reported' = Append(reported, Here)
                        BY <2>1, <3>3 DEF SizeAt
                  <4>2. /\ DOMAIN reported' = DOMAIN reported \cup {Len(reported) + 1}
                        /\ reported'[Len(reported) + 1] = Here
                        /\ \A i \in DOMAIN reported :
                             reported'[i] = reported[i]
                        BY <3>1, <3>2, <4>1
                  <4>3. QED
                        BY <3>3, <4>2 DEF Reported
            <3>4. CASE ~(SizeAt(Here) > 0)
                  BY <2>1, <3>4 DEF SizeAt, Reported
            <3>5. QED
                  BY <3>3, <3>4
      <2>7. Reported' = {o \in tried' : SizeAt(o)' > 0}
            BY <2>1, <2>3, <2>6 DEF FlowInv
      <2>8. \A o \in tried' : \/ turn' # <<>> /\ o = Here'
                              \/ \A q \in Successors(o)' : q \in Buffer' => Reach(q)'
            BY <2>1, <2>3, <2>4, <2>5 DEF FlowInv
      <2>9. \A q \in answered' : q \in Buffer' => Reach(q)'
            BY <2>1, <2>3, <2>5 DEF FlowInv
      <2>10. QED
            BY <2>1, <2>7, <2>8, <2>9 DEF FlowInv
<1>3. CASE RangeStep
      BY <1>3 DEF RangeStep, FlowInv
<1>4. CASE RangeReturns
      BY <1>4 DEF RangeReturns, FlowInv
<1>5. ASSUME turn # <<>>
      PROVE  LET t == Append(Caller, Advanced(Top, turn[1]))
             IN /\ t \in Seq(FrameType) /\ Len(t) = Len(frames)
                /\ Len(frames) \in Nat \ {0} /\ t[Len(frames)] = Advanced(Top, turn[1])
                /\ \A i \in 1 .. Len(frames) - 1 : t[i] = frames[i]
      BY <1>5, TurnFacts, AdvancedTop, Replaced DEF Caller
<1>6. CASE ForwardStep
      <2> SUFFICES ASSUME resolver # "none" PROVE FlowInv'
            BY <1>6 DEF ForwardStep, FlowInv
      <2>1. /\ turn # <<>> /\ turn' = <<>>
            /\ frames' = Append(Caller, Advanced(Top, turn[1]))
            /\ UNCHANGED <<buf, job, resolver, limit, count, reported, tried, answered>>
            /\ turn[1].type \in Flow => \E addr \in Resolved(turn[1]) : ~InBuffer(addr)
            BY <1>6 DEF ForwardStep
      <2>2. /\ frames' \in Seq(FrameType) /\ Len(frames') >= Len(frames)
            /\ frames'[Len(frames)] = Advanced(Top, turn[1])
            /\ \A i \in 1 .. Len(frames) - 1 : frames'[i] = frames[i]
            BY <1>5, <2>1
      <2>3. QED
            BY <2>1, <2>2, TurnCovered
<1>7. CASE ForwardCall
      <2> SUFFICES ASSUME resolver # "none" PROVE FlowInv'
            BY <1>7 DEF ForwardCall, FlowInv
      <2> DEFINE t == Append(Caller, Advanced(Top, turn[1]))
      <2>1. /\ turn # <<>> /\ turn' = <<>>
            /\ UNCHANGED <<buf, job, resolver, limit, count, reported, tried>>
            BY <1>7 DEF ForwardCall
      <2>2. PICK addr \in Resolved(turn[1]) :
              /\ InBuffer(addr) /\ frames' = Append(t, Frame(addr - BufRva))
              /\ answered' \in {answered, answered \cup {addr - BufRva}}
            BY <1>7 DEF ForwardCall
      <2>3. addr - BufRva \in Nat
            BY <2>1, <2>2, TurnFacts DEF InBuffer
      <2>4. /\ Frame(addr - BufRva) \in FrameType /\ Frame(addr - BufRva).cont
            /\ Frame(addr - BufRva).offset + Frame(addr - BufRva).bytes = addr - BufRva
            BY <2>3 DEF Frame, FrameType
      <2>5. /\ t \in Seq(FrameType) /\ Len(t) = Len(frames) /\ Len(frames) \in Nat \ {0}
            /\ t[Len(frames)] = Advanced(Top, turn[1])
            /\ \A i \in 1 .. Len(frames) - 1 : t[i] = frames[i]
            BY <1>5, <2>1
      <2> HIDE DEF t
      <2>6. /\ frames' \in Seq(FrameType) /\ Len(frames') = Len(frames) + 1
            /\ frames'[Len(frames) + 1] = Frame(addr - BufRva)
            /\ \A i \in 1 .. Len(frames) : frames'[i] = t[i]
            BY <2>2, <2>4, <2>5, AppendProperties
      <2>7. /\ frames'[Len(frames)] = Advanced(Top, turn[1])
            /\ \A i \in 1 .. Len(frames) - 1 : frames'[i] = frames[i]
            /\ Len(frames') >= Len(frames) /\ Len(frames) + 1 \in DOMAIN frames'
            BY <2>5, <2>6
      <2>8. Going(frames', addr - BufRva)
            BY <2>4, <2>6, <2>7 DEF Going
      <2>9. \A q \in answered' : q \in Buffer => q \in answered \/ Going(frames', q)
            BY <2>2, <2>8
      <2>10. QED
            BY <2>1, <2>2, <2>6, <2>7, <2>8, <2>9, TurnCovered
<1>8. CASE ForwardReturns
      <2> SUFFICES ASSUME resolver # "none" PROVE FlowInv'
            BY <1>8 DEF ForwardReturns, FlowInv
      <2>1. /\ turn = <<>> /\ turn' = <<>> /\ job = "forward" /\ ~Running
            /\ job' \in {"forward", "done"}
            /\ UNCHANGED <<buf, resolver, limit, reported, tried, answered>>
            BY <1>8 DEF ForwardReturns
      <2>2. /\ frames # <<>> /\ frames \in Seq(FrameType) /\ Len(frames) \in Nat \ {0}
            /\ Top \in FrameType /\ Here = Top.offset + Top.bytes
            /\ Top.offset \in Nat /\ Top.bytes \in Nat
            BY <2>1, TopType DEF TypeInv
      <2>3. Top.cont => Here \notin Buffer
            <3>1. SUFFICES ASSUME Top.cont PROVE Here \notin Buffer
                  OBVIOUS
            <3>2. ~(Top.bytes < Len(buf)) /\ Len(buf) \in Nat
                  BY <2>1, <3>1 DEF Running, TypeInv
            <3>3. QED
                  BY <2>2, <3>2 DEF Buffer
      <2>4. \A i \in 1 .. Len(frames) - 1 :
              /\ i \in DOMAIN frames' /\ frames'[i].cont = frames[i].cont
              /\ frames'[i].offset = frames[i].offset /\ frames'[i].bytes = frames[i].bytes
            <3>1. CASE Len(frames) = 1
                  BY <3>1
            <3>2. CASE Len(frames) # 1
                  <4>1. frames' = [Caller EXCEPT ![Len(frames) - 1].count = @ + Top.count]
                        BY <1>8, <3>2 DEF ForwardReturns
                  <4>2. /\ Caller \in Seq(FrameType) /\ Len(Caller) = Len(frames) - 1
                        /\ \A i \in 1 .. Len(frames) - 1 : Caller[i] = frames[i]
                        BY <2>2, Shortened DEF Caller
                  <4>3. \A i \in 1 .. Len(frames) - 1 : i \in DOMAIN Caller /\ Caller[i] \in FrameType
                        BY <2>2, <4>2
                  <4>4. DOMAIN frames' = DOMAIN Caller
                        BY <4>1
                  <4>5. \A i \in 1 .. Len(frames) - 1 :
                          /\ frames'[i].cont = Caller[i].cont
                          /\ frames'[i].offset = Caller[i].offset
                          /\ frames'[i].bytes = Caller[i].bytes
                        BY <4>1, <4>3 DEF FrameType
                  <4>6. QED
                        BY <4>2, <4>3, <4>4, <4>5
            <3>3. QED
                  BY <3>1, <3>2
      <2>5. ASSUME NEW q, q \in Buffer, Reach(q) PROVE Reach(q)'
            <3>1. CASE q \in tried
                  BY <2>1, <3>1 DEF Reach
            <3>2. CASE Going(frames, q)
                  <4>1. PICK i \in DOMAIN frames :
                          frames[i].cont /\ q = frames[i].offset + frames[i].bytes
                        BY <3>2 DEF Going
                  <4>2. i # Len(frames)
                        BY <2>2, <2>3, <2>5, <4>1 DEF Top
                  <4>3. i \in 1 .. Len(frames) - 1
                        BY <2>2, <4>2
                  <4>4. Going(frames', q)
                        BY <2>4, <4>1, <4>3 DEF Going
                  <4>5. QED
                        BY <4>4 DEF Reach, Going
            <3>3. QED
                  BY <2>5, <3>1, <3>2 DEF Reach
      <2>6. \A o : x86_disasm_at(o)' = x86_disasm_at(o)
            BY <2>1 DEF x86_disasm_at
      <2>7. /\ Reported' = Reported /\ Buffer' = Buffer /\ \A o : SizeAt(o)' = SizeAt(o)
            /\ \A o : Successors(o)' = Successors(o)
            BY <2>1, <2>6 DEF Reported, Buffer, SizeAt, Successors, TargetOf
      <2>8. QED
            BY <2>1, <2>5, <2>7 DEF FlowInv
<1>9. CASE UNCHANGED vars
      <2>1. \A o : x86_disasm_at(o)' = x86_disasm_at(o)
            BY <1>9 DEF vars, x86_disasm_at
      <2>2. /\ Reported' = Reported /\ Buffer' = Buffer /\ \A o : SizeAt(o)' = SizeAt(o)
            /\ \A o : Successors(o)' = Successors(o) /\ Here' = Here
            /\ \A q : Reach(q) <=> Reach(q)'
            BY <1>9, <2>1 DEF vars, Reported, Buffer, SizeAt, Successors, TargetOf, Here,
                              Top, Reach, Going
      <2>3. QED
            BY <1>9, <2>2 DEF vars, FlowInv
<1>10. QED
      BY <1>1, <1>2, <1>3, <1>4, <1>6, <1>7, <1>8, <1>9 DEF Next, Step, Starting

\* Following the flow of execution leaves no way out, however the caller's
\* resolver chooses among what it may answer.
THEOREM FlowIsCovered == Spec => []FlowCovered
<1>1. Init => TypeInv /\ FlowInv
      <2>1. SUFFICES ASSUME Init PROVE TypeInv /\ FlowInv
            OBVIOUS
      <2>2. <<>> \in Seq(0 .. 255) /\ Len(<<>>) = 0 /\ <<>> \in Seq(FrameType)
            OBVIOUS
      <2>3. QED
            BY <2>1, <2>2 DEF Init, TypeInv, FlowInv
<1>2. TypeInv /\ FlowInv /\ [Next]_vars => TypeInv' /\ FlowInv'
      BY TypeStep, FlowStep
<1>3. TypeInv /\ FlowInv => FlowCovered
      <2>1. SUFFICES ASSUME TypeInv, FlowInv, job = "done", resolver # "none"
                     PROVE  /\ \A o \in tried : Successors(o) \cap (0 .. Len(buf) - 1) \subseteq tried
                            /\ Reported = {o \in tried : SizeAt(o) > 0}
            BY DEF FlowCovered
      <2>2. frames = <<>> /\ turn = <<>>
            BY <2>1 DEF TypeInv
      <2>3. \A q : Reach(q) => q \in tried
            BY <2>2 DEF Reach, Going
      <2>4. QED
            BY <2>1, <2>2, <2>3 DEF FlowInv, Buffer
<1>4. QED
      BY <1>1, <1>2, <1>3, PTL DEF Spec
=============================================================================
