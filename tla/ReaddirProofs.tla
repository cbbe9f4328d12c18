--------------------------- MODULE ReaddirProofs ----------------------------
(***************************************************************************)
(* Proofs about Readdir, for every finite set of names, whatever their     *)
(* lengths, and any buffer of 512 bytes or more.                           *)
(***************************************************************************)
EXTENDS Readdir, Sums

-----------------------------------------------------------------------------
(* The records.                                                            *)

LEMMA LeastIs ==
    ASSUME NEW S, IsFiniteSet(S), S \subseteq Nat, S # {}
    PROVE  /\ Min(S) \in S /\ \A y \in S : Min(S) <= y
           /\ Max(S) \in S /\ \A y \in S : Max(S) >= y
<1>1. /\ \E x \in S : \A y \in S : x <= y
      /\ \E x \in S : \A y \in S : x >= y
      BY ExtremesExist
<1>2. Min(S) \in S /\ \A y \in S : Min(S) <= y
      BY <1>1 DEF Min
<1>3. Max(S) \in S /\ \A y \in S : Max(S) >= y
      BY <1>1 DEF Max
<1>4. QED BY <1>2, <1>3

\* The old record of a name is never longer than the kernel's.
LEMMA RecordSizes ==
    ASSUME length \in Lengths
    PROVE  \A n \in Names : /\ OldDirentLen[n] \in Nat /\ OldDirentLen[n] >= 15
                            /\ Dirent64Len[n] \in Nat /\ Dirent64Len[n] >= 24
                            /\ OldDirentLen[n] <= Dirent64Len[n]
<1> SUFFICES ASSUME NEW n \in Names
             PROVE  /\ OldDirentLen[n] \in Nat /\ OldDirentLen[n] >= 15
                    /\ Dirent64Len[n] \in Nat /\ Dirent64Len[n] >= 24
                    /\ OldDirentLen[n] <= Dirent64Len[n]
    OBVIOUS
<1>1. length[n] \in 1 .. 255
      BY ReaddirAssumption
<1>2. OldDirentLen[n] = length[n] + 14 /\ Dirent64Len[n] = 8 * ((length[n] + 20 + 7) \div 8)
      BY DEF OldDirentLen, Dirent64Len
<1> DEFINE l == length[n]
           q == (l + 27) \div 8
<1>3. l \in 1 .. 255 /\ l + 20 + 7 = l + 27
      BY <1>1
<1>4. q \in Nat /\ 8 * q >= l + 20 /\ q >= 3
      <2> HIDE DEF l
      <2>1. QED BY <1>3
<1>5. OldDirentLen[n] = l + 14 /\ Dirent64Len[n] = 8 * q
      BY <1>2, <1>3
<1> HIDE DEF l, q
<1>6. QED BY <1>3, <1>4, <1>5

-----------------------------------------------------------------------------
(* The state of the stream: its buffer holds the records of a set B of     *)
(* names one behind the other, and dd_nextloc is the end of the record of  *)
(* the last name returned.                                                 *)

ReadTypes == /\ entries \in SUBSET Names /\ length \in Lengths
             /\ pos \in Nat /\ last \in Nat /\ last <= pos
             /\ dd_max \in Nat /\ dd_max >= OLDDIRENT
             /\ steady \subseteq entries /\ entries \subseteq ever /\ ever \subseteq Names

Holds(B) == /\ B \subseteq ever
            /\ \A n \in B : n <= pos
            /\ dd_size = SumFunctionOnSet(OldDirentLen, B)
            /\ dd_nextloc = SumFunctionOnSet(OldDirentLen, {m \in B : m <= last})
            /\ \A n \in B : /\ OffsetIn(B, n) \in DOMAIN dd_buf
                            /\ dd_buf[OffsetIn(B, n)] = n
            /\ \A m \in steady : last < m /\ m <= pos => m \in B

ReadInv == ReadTypes /\ \E B \in SUBSET Names : Holds(B)

LEMMA CapIs ==
    ASSUME ReadTypes
    PROVE  CappedMax = 268
<1>1. {dd_max, 268} \subseteq Nat /\ IsFiniteSet({dd_max, 268}) /\ {dd_max, 268} # {}
      <2>1. IsFiniteSet({dd_max}) /\ {dd_max, 268} = {dd_max} \cup {268}
            BY FS_Singleton
      <2>2. IsFiniteSet({dd_max} \cup {268})
            BY <2>1, FS_AddElement
      <2>3. QED BY <2>1, <2>2 DEF ReadTypes
<1>2. /\ Min({dd_max, 268}) \in {dd_max, 268}
      /\ \A y \in {dd_max, 268} : Min({dd_max, 268}) <= y
      BY <1>1, LeastIs
<1>3. Min({dd_max, 268}) = 268
      BY <1>2 DEF ReadTypes, OLDDIRENT
<1>4. QED BY <1>3 DEF CappedMax, OLDDIRENT

\* When the buffer is exhausted, none of its names is left; otherwise the
\* least that is left starts at dd_nextloc.
LEMMA WhatIsLeft ==
    ASSUME ReadTypes, NEW B \in SUBSET Names, Holds(B)
    PROVE  /\ Exhausted => \A n \in B : n <= last
           /\ ~Exhausted => \E de \in B : /\ de > last
                                          /\ \A n \in B : n > last => n >= de
                                          /\ OffsetIn(B, de) = dd_nextloc
                                          /\ {m \in B : m <= de} = {m \in B : m <= last} \cup {de}
<1> DEFINE Done == {m \in B : m <= last}
           Left == {m \in B : m > last}
<1>1. /\ IsFiniteSet(B) /\ IsFiniteSet(Left) /\ B \subseteq Nat
      BY ReaddirAssumption, FS_Subset
<1>2. last \in Nat /\ \A n \in B : n \in Nat
      BY <1>1 DEF ReadTypes
<1>3. \A n \in B : OldDirentLen[n] \in Nat /\ OldDirentLen[n] >= 15
      BY RecordSizes DEF ReadTypes
<1>4. ASSUME Exhausted, NEW n \in B PROVE n <= last
      <2>1. SUFFICES ASSUME n > last PROVE FALSE
            BY <1>2
      <2>2. Done \in SUBSET B /\ n \notin Done
            BY <1>2, <2>1
      <2>3. SumFunctionOnSet(OldDirentLen, Done) + OldDirentLen[n] <= SumFunctionOnSet(OldDirentLen, B)
            BY <1>1, <1>3, <2>2, SumOfMoreWith
      <2>4. dd_nextloc + OldDirentLen[n] <= dd_size /\ dd_size <= dd_nextloc
            BY <1>4, <2>3 DEF Exhausted, Holds
      <2>5. dd_nextloc \in Nat /\ dd_size \in Nat
            <3>1. IsFiniteSet(Done) /\ \A m \in Done : OldDirentLen[m] \in Nat
                  BY <1>1, <1>3, FS_Subset
            <3>2. QED BY <1>1, <1>3, <3>1, SumType DEF Holds
      <2>6. QED BY <1>3, <2>4, <2>5
<1>5. ASSUME ~Exhausted
      PROVE  \E de \in B : /\ de > last /\ \A n \in B : n > last => n >= de
                           /\ OffsetIn(B, de) = dd_nextloc
                           /\ {m \in B : m <= de} = {m \in B : m <= last} \cup {de}
      <2>1. Left # {}
            <3>1. SUFFICES ASSUME Left = {} PROVE FALSE
                  OBVIOUS
            <3>2. Done = B
                  BY <1>2, <3>1
            <3>3. dd_size = dd_nextloc /\ dd_size \in Nat
                  BY <1>1, <1>3, <3>2, SumType DEF Holds
            <3>4. QED BY <1>5, <3>3 DEF Exhausted
      <2>2. PICK de \in Left : \A n \in Left : de <= n
            BY <1>1, <2>1, ExtremesExist
      <2>3. {m \in B : m < de} = Done
            BY <1>2, <2>2
      <2>4. OffsetIn(B, de) = dd_nextloc
            BY <2>3 DEF OffsetIn, Holds
      <2>5. {m \in B : m <= de} = {m \in B : m <= last} \cup {de}
            BY <1>2, <2>2
      <2>6. QED BY <1>2, <2>2, <2>4, <2>5
<1>6. QED BY <1>4, <1>5

\* Taking the least name left, at dd_nextloc, moves dd_nextloc to its end.
LEMMA NextlocMoves ==
    ASSUME ReadTypes, NEW B \in SUBSET Names, NEW S \in SUBSET B, NEW de \in B, de \notin S,
           {m \in B : m <= de} = S \cup {de}
    PROVE  SumFunctionOnSet(OldDirentLen, {m \in B : m <= de})
             = SumFunctionOnSet(OldDirentLen, S) + OldDirentLen[de]
<1>1. IsFiniteSet(S)
      BY ReaddirAssumption, FS_Subset
<1>2. \A x \in S \cup {de} : OldDirentLen[x] \in Nat
      BY RecordSizes DEF ReadTypes
<1>3. SumFunctionOnSet(OldDirentLen, S \cup {de}) = OldDirentLen[de] + SumFunctionOnSet(OldDirentLen, S)
      BY <1>1, <1>2, SumWith
<1>4. SumFunctionOnSet(OldDirentLen, S) \in Nat
      <2>1. \A x \in S : OldDirentLen[x] \in Nat
            BY <1>2
      <2>2. QED BY <1>1, <2>1, SumType
<1>5. OldDirentLen[de] + SumFunctionOnSet(OldDirentLen, S)
        = SumFunctionOnSet(OldDirentLen, S) + OldDirentLen[de]
      BY <1>2, <1>4
<1>6. QED BY <1>3, <1>5

-----------------------------------------------------------------------------
(* The batch.                                                              *)

LEMMA BatchIs ==
    ASSUME ReadTypes
    PROVE  /\ Rest \subseteq Names /\ IsFiniteSet(Rest) /\ Rest \subseteq Nat
           /\ Batch(268) \subseteq Rest /\ IsFiniteSet(Batch(268))
           /\ \A n \in Batch(268), m \in Rest : m <= n => m \in Batch(268)
           /\ \A n \in Batch(268) : UpTo(n) \subseteq Batch(268)
<1>1. Rest \subseteq Names /\ Batch(268) \subseteq Rest
      BY DEF Rest, Batch, ReadTypes
<1>2. IsFiniteSet(Rest) /\ Rest \subseteq Nat
      BY <1>1, ReaddirAssumption, FS_Subset
<1>3. IsFiniteSet(Batch(268))
      BY <1>1, <1>2, FS_Subset
<1>4. ASSUME NEW n \in Batch(268), NEW m \in Rest, m <= n PROVE m \in Batch(268)
      <2>1. n \in Rest /\ n \in Nat /\ m \in Nat /\ \A k \in Rest : k \in Nat
            BY <1>1, <1>2
      <2>2. UpTo(m) \subseteq UpTo(n) /\ IsFiniteSet(UpTo(n)) /\ UpTo(n) \subseteq Names
            <3>1. UpTo(m) \subseteq UpTo(n)
                  <4>1. \A k \in Rest : k <= m => k <= n
                        BY <1>4, <2>1
                  <4>2. QED BY <4>1 DEF UpTo
            <3>2. UpTo(n) \subseteq Rest
                  BY DEF UpTo
            <3>3. QED BY <1>1, <1>2, <3>1, <3>2, FS_Subset
      <2>3. \A x \in UpTo(n) : Dirent64Len[x] \in Nat
            BY <2>2, RecordSizes DEF ReadTypes
      <2>4. SumFunctionOnSet(Dirent64Len, UpTo(m)) <= SumFunctionOnSet(Dirent64Len, UpTo(n))
            BY <2>2, <2>3, SumOfMore
      <2>5. SumFunctionOnSet(Dirent64Len, UpTo(n)) <= 268
            BY DEF Batch
      <2>6. SumFunctionOnSet(Dirent64Len, UpTo(m)) \in Nat /\ SumFunctionOnSet(Dirent64Len, UpTo(n)) \in Nat
            <3>1. IsFiniteSet(UpTo(m)) /\ \A x \in UpTo(m) : Dirent64Len[x] \in Nat
                  BY <2>2, <2>3, FS_Subset
            <3>2. QED BY <2>2, <2>3, <3>1, SumType
      <2>7. SumFunctionOnSet(Dirent64Len, UpTo(m)) <= 268
            <3> DEFINE a == SumFunctionOnSet(Dirent64Len, UpTo(m))
                       b == SumFunctionOnSet(Dirent64Len, UpTo(n))
            <3>1. a <= b /\ b <= 268 /\ a \in Nat /\ b \in Nat
                  BY <2>4, <2>5, <2>6
            <3> HIDE DEF a, b
            <3>2. a <= 268
                  BY <3>1
            <3>3. QED BY <3>2 DEF a
      <2>8. QED BY <2>7 DEF Batch
<1>5. ASSUME NEW n \in Batch(268), NEW m \in UpTo(n) PROVE m \in Batch(268)
      BY <1>4 DEF UpTo
<1>6. QED BY <1>1, <1>2, <1>3, <1>4, <1>5

\* All of a batch together is no more than was asked for.
LEMMA BatchFits ==
    ASSUME ReadTypes, Batch(268) # {}
    PROVE  SumFunctionOnSet(Dirent64Len, Batch(268)) <= 268
<1> DEFINE n == Max(Batch(268))
<1>1. n \in Batch(268) /\ \A m \in Batch(268) : n >= m /\ m \in Rest
      BY BatchIs, LeastIs
<1>2. UpTo(n) = Batch(268)
      <2>1. UpTo(n) \subseteq Batch(268)
            BY <1>1, BatchIs
      <2>2. \A m \in Batch(268) : m \in Rest /\ m <= n
            BY <1>1, BatchIs
      <2>3. QED BY <2>1, <2>2 DEF UpTo
<1>3. SumFunctionOnSet(Dirent64Len, UpTo(n)) <= 268
      BY <1>1 DEF Batch
<1>4. QED BY <1>2, <1>3

LEMMA WrittenFits ==
    ASSUME ReadTypes, Batch(268) # {}
    PROVE  WrittenEnd(Batch(268)) <= 510
<1> DEFINE B == Batch(268)
           n == Max(B)
           F == B \ {n}
           a == SumFunctionOnSet(OldDirentLen, F)
           b == SumFunctionOnSet(Dirent64Len, F)
           c == SumFunctionOnSet(Dirent64Len, B)
<1>1. IsFiniteSet(B) /\ IsFiniteSet(F) /\ B \subseteq Names /\ B \subseteq Nat
      BY BatchIs, FS_Subset
<1>2. n \in B /\ \A m \in B : n >= m
      BY <1>1, LeastIs
<1>3. {m \in B : m < n} = F
      BY <1>1, <1>2
<1>4. /\ \A x \in B : Dirent64Len[x] \in Nat /\ OldDirentLen[x] \in Nat
      /\ \A x \in B : OldDirentLen[x] <= Dirent64Len[x] /\ Dirent64Len[x] >= 24
      BY <1>1, RecordSizes DEF ReadTypes
<1>5. c = Dirent64Len[n] + b
      BY <1>1, <1>2, <1>4, SumWithout
<1>6. a <= b
      BY <1>1, <1>4, SumOfLess
<1>7. c <= 268
      BY BatchFits
<1>8. a \in Nat /\ b \in Nat
      BY <1>1, <1>4, SumType
<1>9. WrittenEnd(B) = a + 266
      <2>1. OffsetIn(B, n) = a
            BY <1>3 DEF OffsetIn
      <2>2. WrittenEnd(B) = OffsetIn(B, n) + 10 + 256
            BY DEF WrittenEnd, NAMEAT, NAMESIZE
      <2> HIDE DEF a, n, B
      <2>3. QED BY <1>8, <2>1, <2>2
<1>10. Dirent64Len[n] \in Nat /\ Dirent64Len[n] >= 24
      BY <1>2, <1>4
<1> HIDE DEF a, b, c, n, B, F
<1>11. WrittenEnd(B) <= 510
      BY <1>5, <1>6, <1>7, <1>8, <1>9, <1>10
<1>12. QED BY <1>11 DEF B

\* Every record of a batch can be found at its offset, whatever the buffer
\* held before.
LEMMA TranslationIs ==
    ASSUME ReadTypes, Batch(268) # {}, NEW old, NEW n \in Batch(268)
    PROVE  /\ OffsetIn(Batch(268), n) \in DOMAIN Translated(Batch(268), old)
           /\ Translated(Batch(268), old)[OffsetIn(Batch(268), n)] = n
<1> DEFINE B == Batch(268)
           Off(k) == OffsetIn(B, k)
<1>1. IsFiniteSet(B) /\ B \subseteq Names /\ B \subseteq Nat
      BY BatchIs
<1>2. \A x \in B : OldDirentLen[x] \in Nat /\ OldDirentLen[x] >= 15
      BY <1>1, RecordSizes DEF ReadTypes
<1>3. \A k \in B : Off(k) \in Nat
      <2>1. SUFFICES ASSUME NEW k \in B PROVE Off(k) \in Nat
            OBVIOUS
      <2>2. IsFiniteSet({m \in B : m < k}) /\ \A x \in {m \in B : m < k} : OldDirentLen[x] \in Nat
            BY <1>1, <1>2, FS_Subset
      <2>3. QED BY <2>2, SumType DEF OffsetIn
<1>4. ASSUME NEW k \in B, NEW j \in B, k < j PROVE Off(k) < Off(j)
      <2> DEFINE K == {m \in B : m < k}
                 J == {m \in B : m < j}
      <2>1. \A m \in B : m \in Nat
            BY <1>1
      <2>2. K \in SUBSET J /\ k \in J /\ k \notin K
            BY <1>4, <2>1
      <2>3. IsFiniteSet(J) /\ \A x \in J : OldDirentLen[x] \in Nat
            BY <1>1, <1>2, FS_Subset
      <2>4. SumFunctionOnSet(OldDirentLen, K) + OldDirentLen[k] <= SumFunctionOnSet(OldDirentLen, J)
            BY <2>2, <2>3, SumOfMoreWith
      <2>5. Off(k) + OldDirentLen[k] <= Off(j)
            BY <2>4 DEF OffsetIn
      <2> HIDE DEF Off
      <2>6. QED BY <1>2, <1>3, <2>5
<1>5. \A k, j \in B : Off(k) = Off(j) => k = j
      <2>1. SUFFICES ASSUME NEW k \in B, NEW j \in B, Off(k) = Off(j) PROVE k = j
            OBVIOUS
      <2>2. k \in Nat /\ j \in Nat /\ Off(k) \in Nat
            BY <1>1, <1>3
      <2>3. ~(k < j) /\ ~(j < k)
            BY <1>4, <2>1, <2>2
      <2>4. QED BY <2>2, <2>3
<1>6. Off(n) < WrittenEnd(B)
      <2>1. Max(B) \in B /\ Max(B) >= n
            BY <1>1, LeastIs
      <2>2. Off(n) <= Off(Max(B))
            <3>1. CASE n = Max(B)
                  BY <1>3, <3>1
            <3>2. CASE n # Max(B)
                  <4>1. n < Max(B)
                        BY <1>1, <2>1, <3>2
                  <4>2. Off(n) < Off(Max(B))
                        BY <1>4, <2>1, <4>1
                  <4>3. QED BY <1>3, <2>1, <4>2
            <3>3. QED BY <3>1, <3>2
      <2>3. WrittenEnd(B) = Off(Max(B)) + 10 + 256
            BY DEF WrittenEnd, NAMEAT, NAMESIZE
      <2>4. Off(n) \in Nat /\ Off(Max(B)) \in Nat
            BY <1>3, <2>1
      <2> HIDE DEF Off, B
      <2>5. QED BY <2>2, <2>3, <2>4
<1>7. ~(Off(n) >= WrittenEnd(B))
      <2>1. Off(n) \in Nat /\ WrittenEnd(B) \in Nat
            <3>1. Max(B) \in B
                  BY <1>1, LeastIs
            <3>2. WrittenEnd(B) = Off(Max(B)) + 10 + 256
                  BY DEF WrittenEnd, NAMEAT, NAMESIZE
            <3>3. Off(n) \in Nat /\ Off(Max(B)) \in Nat
                  BY <1>3, <3>1
            <3> HIDE DEF Off, B
            <3>4. QED BY <3>2, <3>3
      <2> HIDE DEF Off, B
      <2>2. QED BY <1>6, <2>1
<1>8. Off(n) \in DOMAIN Translated(B, old) /\ Translated(B, old)[Off(n)] = CHOOSE k \in B : Off(k) = Off(n)
      BY <1>7 DEF Translated
<1>9. (CHOOSE k \in B : Off(k) = Off(n)) = n
      <2> HIDE DEF Off, B
      <2>1. n \in B
            BY DEF B
      <2>2. QED BY <1>5, <2>1
<1>10. QED BY <1>8, <1>9

-----------------------------------------------------------------------------
(* The invariant is inductive, and each step is one that DirAbs allows.    *)

AbsNext == \/ Abs!AbsOpen \/ Abs!AbsCreate \/ Abs!AbsDelete
           \/ Abs!AbsRead \/ Abs!AbsEnd \/ Abs!AbsTooLong \/ Abs!AbsFail

LEMMA InitHolds == Init => ReadInv /\ Abs!AbsInit /\ BufferHolds
<1> SUFFICES ASSUME Init PROVE ReadInv /\ Abs!AbsInit /\ BufferHolds
    OBVIOUS
<1>1. /\ entries \in SUBSET Names /\ length \in Lengths /\ pos = 0 /\ last = 0
      /\ dd_size = 0 /\ dd_nextloc = 0 /\ dd_max = Alloc /\ steady = entries /\ ever = entries
      BY DEF Init, Opened
<1>2. ReadTypes
      BY <1>1, ReaddirAssumption DEF ReadTypes, OLDDIRENT
<1>3. Holds({})
      <2>1. {m \in {} : m <= last} = {}
            OBVIOUS
      <2>2. SumFunctionOnSet(OldDirentLen, {}) = 0
            BY SumEmpty
      <2>3. \A m \in steady : ~(last < m /\ m <= pos)
            BY <1>1, ReaddirAssumption
      <2>4. QED BY <1>1, <2>1, <2>2, <2>3 DEF Holds
<1>4. {n \in Names : Dirent64Len[n] > OLDDIRENT} \in SUBSET Names
      OBVIOUS
<1>5. Abs!AbsInit
      BY <1>1, <1>4 DEF Init, Opened, Abs!AbsInit, Abs!Opened, NULL, Abs!NULL
<1>6. BufferHolds
      BY ReaddirAssumption DEF Init, Opened, BufferHolds
<1>7. QED BY <1>2, <1>3, <1>5, <1>6 DEF ReadInv

\* What readdir does when it hands out de, which starts at loc of buf.
LEMMA TakeIs ==
    ASSUME NEW buf, NEW loc, NEW de, loc \in DOMAIN buf, buf[loc] = de, de # -1,
           TakeFrom(buf, loc)
    PROVE  /\ result' = de /\ last' = de /\ errno' = "none"
           /\ dd_nextloc' = loc + OldDirentLen[de]
BY DEF TakeFrom

LEMMA OpenStep ==
    ASSUME ReadInv, BufferHolds, Open
    PROVE  ReadInv' /\ Abs!AbsOpen /\ BufferHolds'
<1>1. /\ entries \in SUBSET Names /\ length \in Lengths /\ entries' = entries /\ length' = length
      /\ pos' = 0 /\ last' = 0 /\ dd_size' = 0 /\ dd_nextloc' = 0 /\ dd_max' = Alloc
      /\ steady' = entries /\ ever' = entries /\ written' = 0
      BY DEF ReadInv, ReadTypes, Open
<1>2. ReadTypes'
      BY <1>1, ReaddirAssumption DEF ReadTypes, OLDDIRENT
<1>3. Holds({})'
      <2>1. {m \in {} : m <= last'} = {}
            OBVIOUS
      <2>2. SumFunctionOnSet(OldDirentLen', {}) = 0
            BY SumEmpty
      <2>3. \A m \in steady' : ~(last' < m /\ m <= pos')
            BY <1>1, ReaddirAssumption
      <2>4. QED BY <1>1, <2>1, <2>2, <2>3 DEF Holds
<1>4. Abs!AbsOpen
      <2>1. UNCHANGED {n \in Names : Dirent64Len[n] > OLDDIRENT}
            BY <1>1 DEF Dirent64Len, OLDDIRENT
      <2>2. QED BY <1>1, <2>1 DEF Open, Abs!AbsOpen, NULL, Abs!NULL
<1>5. BufferHolds'
      BY <1>1, ReaddirAssumption DEF BufferHolds
<1>6. {} \in SUBSET Names
      OBVIOUS
<1>7. QED BY <1>2, <1>3, <1>4, <1>5, <1>6 DEF ReadInv

LEMMA LengthsStay ==
    ASSUME UNCHANGED length
    PROVE  /\ OldDirentLen' = OldDirentLen /\ Dirent64Len' = Dirent64Len
           /\ \A B, n : OffsetIn(B, n)' = OffsetIn(B, n)
           /\ UNCHANGED {n \in Names : Dirent64Len[n] > OLDDIRENT}
<1>1. OldDirentLen' = OldDirentLen /\ Dirent64Len' = Dirent64Len
      BY DEF OldDirentLen, Dirent64Len
<1>2. \A B, n : OffsetIn(B, n)' = OffsetIn(B, n)
      BY <1>1 DEF OffsetIn
<1>3. UNCHANGED {n \in Names : Dirent64Len[n] > OLDDIRENT}
      BY <1>1 DEF OLDDIRENT
<1>4. QED BY <1>1, <1>2, <1>3

\* The changes of others leave the stream as it is.
LEMMA StreamStays ==
    ASSUME ReadInv, UNCHANGED <<length, pos, last, dd_buf, dd_size, dd_nextloc>>,
           dd_max' \in Nat, dd_max' >= OLDDIRENT,
           entries' \in SUBSET Names, steady' \subseteq steady, steady' \subseteq entries',
           entries' \subseteq ever', ever \subseteq ever', ever' \subseteq Names
    PROVE  ReadInv'
<1>1. PICK B \in SUBSET Names : Holds(B)
      BY DEF ReadInv
<1>2. /\ OldDirentLen' = OldDirentLen /\ \A n : OffsetIn(B, n)' = OffsetIn(B, n)
      BY LengthsStay
<1>3. ReadTypes'
      BY DEF ReadInv, ReadTypes, OLDDIRENT
<1>4. Holds(B)'
      <2>1. B \subseteq ever' /\ \A n \in B : n <= pos'
            BY <1>1 DEF Holds
      <2>2. /\ dd_size' = SumFunctionOnSet(OldDirentLen', B)
            /\ dd_nextloc' = SumFunctionOnSet(OldDirentLen', {m \in B : m <= last'})
            BY <1>1, <1>2 DEF Holds
      <2>3. \A n \in B : /\ OffsetIn(B, n)' \in DOMAIN dd_buf'
                         /\ dd_buf'[OffsetIn(B, n)'] = n
            BY <1>1, <1>2 DEF Holds
      <2>4. \A m \in steady' : last' < m /\ m <= pos' => m \in B
            BY <1>1 DEF Holds
      <2>5. QED BY <2>1, <2>2, <2>3, <2>4 DEF Holds
<1>5. QED BY <1>3, <1>4 DEF ReadInv

LEMMA OthersStep ==
    ASSUME ReadInv, BufferHolds, Create \/ Delete
    PROVE  ReadInv' /\ (Abs!AbsCreate \/ Abs!AbsDelete) /\ BufferHolds'
<1>1. /\ UNCHANGED <<length, pos, last, dd_buf, dd_size, dd_nextloc, dd_max, written>>
      BY DEF Create, Delete, stream
<1>2. /\ dd_max' \in Nat /\ dd_max' >= OLDDIRENT
      /\ entries' \in SUBSET Names /\ steady' \subseteq steady /\ steady' \subseteq entries'
      /\ entries' \subseteq ever' /\ ever \subseteq ever' /\ ever' \subseteq Names
      BY <1>1 DEF Create, Delete, ReadInv, ReadTypes, OLDDIRENT
<1>3. ReadInv'
      BY <1>1, <1>2, StreamStays
<1>4. UNCHANGED {n \in Names : Dirent64Len[n] > OLDDIRENT}
      BY <1>1, LengthsStay
<1>5. Abs!AbsCreate \/ Abs!AbsDelete
      BY <1>4 DEF Create, Delete, Abs!AbsCreate, Abs!AbsDelete
<1>6. BufferHolds'
      BY <1>1 DEF BufferHolds
<1>7. QED BY <1>3, <1>5, <1>6

LEMMA NothingStep ==
    ASSUME ReadInv, BufferHolds, NEW e, NothingRead(e)
    PROVE  ReadInv' /\ BufferHolds'
<1>1. /\ UNCHANGED <<length, pos, last, dd_buf, dd_size, dd_nextloc, entries, steady, ever, written>>
      /\ dd_max' = 268
      BY CapIs DEF NothingRead, history, ReadInv
<1>2. /\ dd_max' \in Nat /\ dd_max' >= OLDDIRENT
      /\ entries' \in SUBSET Names /\ steady' \subseteq steady /\ steady' \subseteq entries'
      /\ entries' \subseteq ever' /\ ever \subseteq ever' /\ ever' \subseteq Names
      BY <1>1 DEF ReadInv, ReadTypes, OLDDIRENT
<1>3. ReadInv'
      BY <1>1, <1>2, StreamStays
<1>4. QED BY <1>1, <1>3 DEF BufferHolds

\* Once the buffer is exhausted, what stayed and has not been returned is
\* what the kernel has yet to pass.
LEMMA LeftIsRest ==
    ASSUME ReadInv, Exhausted
    PROVE  \A m \in steady : m > last => m > pos /\ m \in Rest
<1>1. PICK B \in SUBSET Names : Holds(B)
      BY DEF ReadInv
<1>2. \A n \in B : n <= last
      BY <1>1, WhatIsLeft DEF ReadInv
<1>3. \A m \in steady : m \in entries /\ m \in Nat /\ pos \in Nat /\ last \in Nat
      BY ReaddirAssumption DEF ReadInv, ReadTypes
<1>4. ASSUME NEW m \in steady, m > last PROVE m > pos
      <2>1. \/ m \in B \/ ~(m <= pos)
            BY <1>1, <1>3, <1>4 DEF Holds
      <2>2. QED BY <1>2, <1>3, <1>4, <2>1
<1>5. QED BY <1>3, <1>4 DEF Rest

LEMMA EndStep ==
    ASSUME ReadInv, AtEnd
    PROVE  Abs!AbsEnd
<1>1. /\ UNCHANGED <<entries, length, steady, ever, last>> /\ result' = 0 /\ errno' = "none"
      /\ Exhausted /\ Rest = {}
      BY DEF AtEnd, NothingRead, history, NULL
<1>2. \A m \in steady : ~(m > last)
      BY <1>1, LeftIsRest
<1>3. \A m \in steady : m <= last
      <2>1. \A m \in steady : m \in Nat /\ last \in Nat
            BY ReaddirAssumption DEF ReadInv, ReadTypes
      <2>2. QED BY <1>2, <2>1
<1>4. UNCHANGED {n \in Names : Dirent64Len[n] > OLDDIRENT}
      BY <1>1, LengthsStay
<1>5. QED BY <1>1, <1>3, <1>4 DEF Abs!AbsEnd, Abs!NULL

LEMMA FailStep ==
    ASSUME ReadFails
    PROVE  Abs!AbsFail
<1>1. /\ UNCHANGED <<entries, length, steady, ever, last>> /\ result' = 0 /\ errno' = "EIO"
      BY DEF ReadFails, NothingRead, history, NULL
<1>2. UNCHANGED {n \in Names : Dirent64Len[n] > OLDDIRENT}
      BY <1>1, LengthsStay
<1>3. QED BY <1>1, <1>2 DEF Abs!AbsFail, Abs!NULL

LEMMA TooLongStep ==
    ASSUME ReadInv, TooLong
    PROVE  Abs!AbsTooLong
<1>1. /\ UNCHANGED <<entries, length, steady, ever, last>> /\ result' = 0 /\ errno' = "EINVAL"
      /\ Exhausted /\ Rest # {} /\ Batch(268) = {}
      BY CapIs DEF TooLong, NothingRead, history, NULL, ReadInv
<1>2. PICK n \in Rest : \A m \in Rest : n <= m
      BY <1>1, BatchIs, ExtremesExist DEF ReadInv
<1>3. n \in Names /\ n \in entries /\ n > pos /\ n \in Nat /\ Dirent64Len[n] \in Nat
      BY BatchIs, RecordSizes DEF Rest, ReadInv, ReadTypes
<1>4. Dirent64Len[n] > 268
      <2>1. UpTo(n) = {n}
            <3>1. \A m \in Rest : m \in Nat
                  BY BatchIs DEF ReadInv
            <3>2. \A m \in Rest : m <= n <=> m = n
                  BY <1>2, <3>1
            <3>3. QED BY <3>2 DEF UpTo
      <2>2. ~(SumFunctionOnSet(Dirent64Len, UpTo(n)) <= 268)
            BY <1>1 DEF Batch
      <2>3. SumFunctionOnSet(Dirent64Len, {n}) = Dirent64Len[n]
            BY <1>3, SumOfOne
      <2>4. ~(Dirent64Len[n] <= 268)
            BY <2>1, <2>2, <2>3
      <2>5. QED BY <1>3, <2>4
<1>5. n > last /\ \A m \in steady : m > last => m >= n
      <2>1. n > last
            BY <1>3 DEF ReadInv, ReadTypes
      <2>2. ASSUME NEW m \in steady, m > last PROVE m >= n
            <3>1. m \in Rest
                  BY <1>1, <2>2, LeftIsRest
            <3>2. QED BY <1>2, <3>1
      <2>3. QED BY <2>1, <2>2
<1>6. UNCHANGED {k \in Names : Dirent64Len[k] > OLDDIRENT}
      BY <1>1, LengthsStay
<1>7. n \in {k \in Names : Dirent64Len[k] > OLDDIRENT} \cap entries
      BY <1>3, <1>4 DEF OLDDIRENT
<1>8. QED BY <1>1, <1>5, <1>6, <1>7 DEF Abs!AbsTooLong, Abs!NULL

\* The name handed out is the next in order.
LEMMA ReadImplements ==
    ASSUME ReadInv, UNCHANGED <<entries, length, steady, ever>>, NEW de,
           de \in ever, de > last, \A m \in steady : m > last => m >= de,
           result' = de, last' = de, errno' = "none"
    PROVE  Abs!AbsRead
<1>1. UNCHANGED {n \in Names : Dirent64Len[n] > OLDDIRENT}
      BY LengthsStay
<1>2. QED BY <1>1 DEF Abs!AbsRead

LEMMA BufferedStep ==
    ASSUME ReadInv, BufferHolds, ReadBuffered
    PROVE  ReadInv' /\ Abs!AbsRead /\ BufferHolds'
<1>1. /\ UNCHANGED <<entries, length, pos, dd_buf, dd_size, written, steady, ever>>
      /\ dd_max' = 268 /\ ~Exhausted /\ TakeFrom(dd_buf, dd_nextloc)
      BY CapIs DEF ReadBuffered, history, ReadInv
<1>2. PICK B \in SUBSET Names : Holds(B)
      BY DEF ReadInv
<1>3. PICK de \in B : /\ de > last
                      /\ \A n \in B : n > last => n >= de
                      /\ OffsetIn(B, de) = dd_nextloc
                      /\ {m \in B : m <= de} = {m \in B : m <= last} \cup {de}
      BY <1>1, <1>2, WhatIsLeft DEF ReadInv
<1>4. /\ de \in Nat /\ de <= pos /\ pos \in Nat /\ last \in Nat /\ de \in ever /\ de # -1
      /\ \A m \in Names : m \in Nat
      BY <1>2, ReaddirAssumption DEF ReadInv, ReadTypes, Holds
<1>5. dd_nextloc \in DOMAIN dd_buf /\ dd_buf[dd_nextloc] = de
      BY <1>2, <1>3 DEF Holds
<1>6. result' = de /\ last' = de /\ errno' = "none" /\ dd_nextloc' = dd_nextloc + OldDirentLen[de]
      BY <1>1, <1>4, <1>5, TakeIs
<1>7. \A m \in steady : m > last => m >= de
      <2>1. SUFFICES ASSUME NEW m \in steady, m > last PROVE m >= de
            OBVIOUS
      <2>2. m \in Nat
            BY <1>4 DEF ReadInv, ReadTypes
      <2>3. CASE m <= pos
            BY <1>2, <1>3, <2>1, <2>2, <2>3, <1>4 DEF Holds
      <2>4. CASE ~(m <= pos)
            BY <1>4, <2>2, <2>4
      <2>5. QED BY <2>3, <2>4
<1>8. Abs!AbsRead
      BY <1>1, <1>3, <1>4, <1>6, <1>7, ReadImplements
<1>9. ReadTypes'
      BY <1>1, <1>4, <1>6 DEF ReadInv, ReadTypes, OLDDIRENT
<1>10. Holds(B)'
      <2>1. /\ OldDirentLen' = OldDirentLen /\ \A n : OffsetIn(B, n)' = OffsetIn(B, n)
            BY <1>1, LengthsStay
      <2>2. B \subseteq ever' /\ \A n \in B : n <= pos'
            BY <1>1, <1>2 DEF Holds
      <2>3. dd_size' = SumFunctionOnSet(OldDirentLen', B)
            BY <1>1, <1>2, <2>1 DEF Holds
      <2>4. dd_nextloc' = SumFunctionOnSet(OldDirentLen', {m \in B : m <= last'})
            <3> DEFINE S == {m \in B : m <= last}
            <3>1. S \in SUBSET B /\ de \notin S /\ {m \in B : m <= de} = S \cup {de}
                  BY <1>3, <1>4
            <3>2. SumFunctionOnSet(OldDirentLen, {m \in B : m <= de})
                    = SumFunctionOnSet(OldDirentLen, S) + OldDirentLen[de]
                  <4> HIDE DEF S
                  <4>1. ReadTypes
                        BY DEF ReadInv
                  <4>2. QED BY <3>1, <4>1, NextlocMoves
            <3>3. dd_nextloc = SumFunctionOnSet(OldDirentLen, S)
                  BY <1>2 DEF Holds
            <3>4. QED BY <1>6, <2>1, <3>2, <3>3
      <2>5. \A n \in B : /\ OffsetIn(B, n)' \in DOMAIN dd_buf'
                         /\ dd_buf'[OffsetIn(B, n)'] = n
            BY <1>1, <1>2, <2>1 DEF Holds
      <2>6. \A m \in steady' : last' < m /\ m <= pos' => m \in B
            <3>1. SUFFICES ASSUME NEW m \in steady, de < m, m <= pos PROVE m \in B
                  BY <1>1, <1>6
            <3>2. m \in Nat
                  BY <1>4 DEF ReadInv, ReadTypes
            <3>3. last < m
                  BY <1>3, <1>4, <3>1, <3>2
            <3>4. QED BY <1>2, <3>1, <3>3 DEF Holds
      <2>7. QED BY <2>2, <2>3, <2>4, <2>5, <2>6 DEF Holds
<1>11. QED BY <1>1, <1>8, <1>9, <1>10 DEF ReadInv, BufferHolds

LEMMA RefillStep ==
    ASSUME ReadInv, BufferHolds, Refill
    PROVE  ReadInv' /\ Abs!AbsRead /\ BufferHolds'
<1>0. ReadTypes
      BY DEF ReadInv
<1>b. PICK B \in SUBSET Names : B = Batch(268)
      BY <1>0, BatchIs
<1>1. /\ UNCHANGED <<entries, length, steady, ever>>
      /\ Exhausted /\ B # {} /\ dd_max' = 268 /\ pos' = Max(B)
      /\ dd_buf' = Translated(B, dd_buf) /\ dd_size' = TranslatedSize(B)
      /\ written' = WrittenEnd(B) /\ TakeFrom(dd_buf', 0)
      BY <1>0, <1>b, CapIs DEF Refill, history
<1>2. /\ IsFiniteSet(B) /\ B \subseteq Rest /\ B \subseteq Names /\ B \subseteq Nat
      /\ \A m \in Names : m \in Nat
      BY <1>0, <1>b, BatchIs, ReaddirAssumption
<1>3. \A n \in B, m \in Rest : m <= n => m \in B
      BY <1>0, <1>b, BatchIs
<1>4. \A n \in B : OffsetIn(B, n) \in DOMAIN dd_buf' /\ dd_buf'[OffsetIn(B, n)] = n
      BY <1>0, <1>b, <1>1, TranslationIs
<1>5. WrittenEnd(B) <= 510
      BY <1>0, <1>b, <1>1, WrittenFits
<1>6. Max(B) \in B /\ \A n \in B : Max(B) >= n
      BY <1>1, <1>2, LeastIs
<1>7. PICK de \in B : \A n \in B : de <= n
      BY <1>1, <1>2, ExtremesExist
<1>8. OffsetIn(B, de) = 0
      <2>1. \A m \in B : ~(m < de)
            BY <1>2, <1>7
      <2>2. {m \in B : m < de} = {}
            BY <2>1
      <2>3. QED BY <2>2, SumEmpty DEF OffsetIn
<1>9. /\ de \in Nat /\ de # -1 /\ de \in entries /\ de > pos /\ pos \in Nat /\ last \in Nat /\ last <= pos
      /\ de \in Names /\ de \in ever
      BY <1>0, <1>2, <1>7 DEF Rest, ReadTypes
<1>10. result' = de /\ last' = de /\ errno' = "none" /\ dd_nextloc' = 0 + OldDirentLen[de]
      <2>1. 0 \in DOMAIN dd_buf' /\ dd_buf'[0] = de
            BY <1>4, <1>7, <1>8
      <2>2. \A b : b = dd_buf' => /\ TakeFrom(b, 0) /\ 0 \in DOMAIN b /\ b[0] = de
            BY <1>1, <2>1
      <2>3. \A b : TakeFrom(b, 0) /\ 0 \in DOMAIN b /\ b[0] = de =>
                   result' = de /\ last' = de /\ errno' = "none" /\ dd_nextloc' = 0 + OldDirentLen[de]
            BY <1>9, TakeIs
      <2>4. QED BY <2>2, <2>3
<1>11. \A m \in steady : m > last => m > pos /\ m \in Rest
      BY <1>1, LeftIsRest
<1>12. \A m \in steady : m > last => m >= de
      <2>1. SUFFICES ASSUME NEW m \in steady, m > last PROVE m >= de
            OBVIOUS
      <2>2. m \in Rest /\ m \in Nat
            BY <1>0, <1>2, <1>11, <2>1 DEF ReadTypes
      <2>3. CASE m <= de
            BY <1>3, <1>7, <2>2, <2>3
      <2>4. CASE ~(m <= de)
            BY <1>9, <2>2, <2>4
      <2>5. QED BY <2>3, <2>4
<1>13. Abs!AbsRead
      <2>1. de > last
            BY <1>9
      <2>2. QED BY <1>1, <1>9, <1>10, <1>12, <2>1, ReadImplements
<1>14. ReadTypes'
      <2>1. pos' \in Nat /\ last' \in Nat /\ last' <= pos'
            BY <1>1, <1>2, <1>6, <1>7, <1>10
      <2>2. QED BY <1>0, <1>1, <2>1 DEF ReadTypes, OLDDIRENT
<1>15. Holds(B)'
      <2>1. /\ OldDirentLen' = OldDirentLen /\ \A n : OffsetIn(B, n)' = OffsetIn(B, n)
            BY <1>1, LengthsStay
      <2>2. B \subseteq ever' /\ \A n \in B : n <= pos'
            <3>1. \A n \in B : n <= Max(B)
                  BY <1>2, <1>6
            <3>2. B \subseteq ever
                  BY <1>0, <1>2 DEF Rest, ReadTypes
            <3>3. QED BY <1>1, <3>1, <3>2
      <2>3. dd_size' = SumFunctionOnSet(OldDirentLen', B)
            BY <1>1, <2>1 DEF TranslatedSize
      <2>4. dd_nextloc' = SumFunctionOnSet(OldDirentLen', {m \in B : m <= last'})
            <3>1. {m \in B : m <= de} = {de}
                  <4>1. \A m \in B : m <= de <=> m = de
                        BY <1>2, <1>7
                  <4>2. QED BY <4>1
            <3>2. OldDirentLen[de] \in Nat
                  BY <1>0, <1>9, RecordSizes DEF ReadTypes
            <3>3. SumFunctionOnSet(OldDirentLen, {de}) = OldDirentLen[de]
                  BY <3>2, SumOfOne
            <3>4. 0 + OldDirentLen[de] = OldDirentLen[de]
                  BY <3>2
            <3>5. QED BY <1>10, <2>1, <3>1, <3>3, <3>4
      <2>5. \A n \in B : /\ OffsetIn(B, n)' \in DOMAIN dd_buf'
                         /\ dd_buf'[OffsetIn(B, n)'] = n
            BY <1>4, <2>1
      <2>6. \A m \in steady' : last' < m /\ m <= pos' => m \in B
            <3>1. SUFFICES ASSUME NEW m \in steady, de < m, m <= Max(B) PROVE m \in B
                  BY <1>1, <1>10
            <3>2. m \in Nat
                  BY <1>0, <1>2 DEF ReadTypes
            <3>3. m \in Rest
                  BY <1>9, <1>11, <3>1, <3>2
            <3>4. QED BY <1>3, <1>6, <3>1, <3>3
      <2>7. QED BY <2>2, <2>3, <2>4, <2>5, <2>6 DEF Holds
<1>16. BufferHolds'
      <2>1. written' <= 510 /\ written' = WrittenEnd(B)
            BY <1>1, <1>5
      <2>2. written' \in Nat
            <3>1. OffsetIn(B, Max(B)) \in Nat
                  <4>1. IsFiniteSet({m \in B : m < Max(B)})
                        BY <1>2, FS_Subset
                  <4>2. \A m \in {m \in B : m < Max(B)} : OldDirentLen[m] \in Nat
                        BY <1>0, RecordSizes DEF ReadTypes
                  <4>3. QED BY <4>1, <4>2, SumType DEF OffsetIn
            <3>2. WrittenEnd(B) = OffsetIn(B, Max(B)) + 10 + 256
                  BY DEF WrittenEnd, NAMEAT, NAMESIZE
            <3>3. QED BY <2>1, <3>1, <3>2
      <2>3. Alloc \in Nat /\ Alloc >= 512 /\ Alloc' = Alloc
            BY ReaddirAssumption
      <2>4. QED BY <2>1, <2>2, <2>3 DEF BufferHolds
<1>17. QED BY <1>13, <1>14, <1>15, <1>16 DEF ReadInv

LEMMA StepHolds == ReadInv /\ BufferHolds /\ [Next]_vars => ReadInv' /\ BufferHolds' /\ [AbsNext]_(Abs!absVars)
<1> SUFFICES ASSUME ReadInv, BufferHolds, [Next]_vars
             PROVE  ReadInv' /\ BufferHolds' /\ [AbsNext]_(Abs!absVars)
    OBVIOUS
<1>1. CASE Open
      BY <1>1, OpenStep DEF AbsNext
<1>2. CASE Create \/ Delete
      BY <1>2, OthersStep DEF AbsNext
<1>3. CASE ReadBuffered
      BY <1>3, BufferedStep DEF AbsNext
<1>4. CASE Refill
      BY <1>4, RefillStep DEF AbsNext
<1>5. CASE AtEnd
      BY <1>5, NothingStep, EndStep DEF AbsNext, AtEnd
<1>6. CASE TooLong
      BY <1>6, NothingStep, TooLongStep DEF AbsNext, TooLong
<1>7. CASE ReadFails
      BY <1>7, NothingStep, FailStep DEF AbsNext, ReadFails
<1>8. CASE UNCHANGED vars
      <2>1. UNCHANGED <<entries, length, stream, steady, ever, last, result, errno>>
            BY <1>8 DEF vars, history
      <2>2. ReadInv'
            BY <2>1, StreamStays DEF stream, ReadInv, ReadTypes, OLDDIRENT
      <2>3. UNCHANGED {n \in Names : Dirent64Len[n] > OLDDIRENT}
            BY <2>1, LengthsStay
      <2>4. UNCHANGED Abs!absVars
            BY <2>1, <2>3 DEF Abs!absVars
      <2>5. QED BY <2>1, <2>2, <2>4 DEF stream, BufferHolds
<1>9. QED BY <1>1, <1>2, <1>3, <1>4, <1>5, <1>6, <1>7, <1>8 DEF Next, Readdir

-----------------------------------------------------------------------------
\* The stream's offsets always lead to the record that is next, and what
\* stayed and was passed by the kernel is in the buffer: the invariant
\* everything else rests on.
THEOREM StreamIsSound == Spec => []ReadInv
<1>1. QED BY InitHolds, StepHolds, PTL DEF Spec

\* The write of strncpy past the last record of a batch stays in the buffer,
\* for any names and any buffer of 512 bytes or more.
THEOREM NothingPastTheBuffer == Spec => []BufferHolds
<1>1. QED BY InitHolds, StepHolds, PTL DEF Spec

\* readdir implements DirAbs: for any names of any lengths, in whatever order
\* the directory changes and the buffer is refilled, names come in order,
\* none twice and none that stayed is missing, and NULL comes at the end.
THEOREM ReaddirImplementsDirAbs == Spec => AbsSpec
<1>1. Init => Abs!AbsInit
      BY InitHolds
<1>2. ReadInv /\ BufferHolds /\ [Next]_vars => [AbsNext]_(Abs!absVars)
      BY StepHolds
<1>3. QED BY <1>1, <1>2, StreamIsSound, NothingPastTheBuffer, PTL DEF Spec, AbsSpec, Abs!AbsSpec, AbsNext
=============================================================================
