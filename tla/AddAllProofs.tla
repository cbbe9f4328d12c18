---------------------------- MODULE AddAllProofs ----------------------------
(***************************************************************************)
(* Proofs about AddAll, for every command line, charmap and outcome of the *)
(* programs that the script starts.                                        *)
(***************************************************************************)
EXTENDS AddAll, Sums

IsOperation(f) == f[2] = "ADD"

\* Until the operations file of a font is written there is none in the
\* directory; when it is merged, it is the only one, and that of the font.
MergeInv ==
  /\ phase \in {"parse", "charmap", "krn", "kerning", "spc", "typ", "map", "add"}
       => \A f \in DOMAIN dir : ~IsOperation(f)
  /\ phase = "merge" => /\ toMerge \subseteq {File("ADD")}
                        /\ File("ADD") \in DOMAIN dir
                        /\ dir[File("ADD")] = Operation(fi, Stem(fi.fontName))

-----------------------------------------------------------------------------
\* What is put under a name is there, next to the others.
LEMMA WithIs ==
  ASSUME NEW f, NEW x, NEW value
  PROVE  /\ DOMAIN With(f, x, value) = DOMAIN f \cup {x}
         /\ With(f, x, value)[x] = value
         /\ \A y \in DOMAIN f : y # x => With(f, x, value)[y] = f[y]
BY DEF With

\* The file of another table is no operations file.
LEMMA OtherFiles ==
  ASSUME NEW ext \in {"KRN", "SPC", "TYP", "MAP"}, NEW contents,
         \A f \in DOMAIN dir : ~IsOperation(f),
         dir' = With(dir, File(ext), contents)
  PROVE  \A f \in DOMAIN dir' : ~IsOperation(f)
<1>1. DOMAIN dir' = DOMAIN dir \cup {File(ext)}
      BY WithIs
<1>2. ~IsOperation(File(ext))
      BY DEF IsOperation, File
<1>3. QED BY <1>1, <1>2

LEMMA MergeInvStep == MergeInv /\ [Next]_vars => MergeInv'
<1> SUFFICES ASSUME MergeInv, [Next]_vars PROVE MergeInv'
    OBVIOUS
<1>1. CASE NextFile
      BY <1>1 DEF NextFile, MergeInv, Empty
<1>2. CASE \/ Done \/ CharmapFailed \/ KerningFailed \/ CannotCreate
           \/ MergeFails \/ Merged
      BY <1>2 DEF Done, CharmapFailed, KerningFailed, CannotCreate, MergeFails, Merged, MergeInv
<1>3. CASE Parse \/ Parsed \/ ReadCharmap \/ CharmapRead
      BY <1>3 DEF Parse, Parsed, ReadCharmap, CharmapRead, MergeInv
<1>4. CASE Kerning \/ KerningPass
  <2>1. CASE Kerning
        BY <2>1, OtherFiles DEF Kerning, MergeInv
  <2>2. CASE KerningPass
        BY <2>2 DEF KerningPass, MergeInv
  <2>3. QED BY <1>4, <2>1, <2>2
<1>5. CASE KerningDone \/ Spacing \/ Typeface \/ CharacterMap
  <2>1. \A f \in DOMAIN dir' : ~IsOperation(f)
        BY <1>5, OtherFiles DEF KerningDone, Spacing, Typeface, CharacterMap, Put, MergeInv
  <2>2. phase' # "merge"
        BY <1>5 DEF KerningDone, Spacing, Typeface, CharacterMap, Put
  <2>3. QED BY <2>1, <2>2 DEF MergeInv
<1>6. CASE Aborts
      BY <1>6 DEF Aborts, Put, MergeInv
<1>7. CASE Operations
  <2>1. /\ phase = "add" /\ phase' = "merge" /\ fi' = fi
        /\ dir' = With(dir, File("ADD"), Operation(fi, Stem(fi.fontName)))
        /\ toMerge' = {f \in DOMAIN dir' : f[2] = "ADD"}
        BY <1>7 DEF Operations, Put, afmVars
  <2>2. /\ DOMAIN dir' = DOMAIN dir \cup {File("ADD")}
        /\ dir'[File("ADD")] = Operation(fi, Stem(fi.fontName))
        BY <2>1 DEF With
  <2>3. \A f \in DOMAIN dir : ~IsOperation(f)
        BY <2>1 DEF MergeInv
  <2>4. toMerge' \subseteq {File("ADD")}
        BY <2>1, <2>2, <2>3 DEF IsOperation
  <2>5. File("ADD")' = File("ADD") /\ Operation(fi, Stem(fi.fontName))' = Operation(fi, Stem(fi.fontName))
        BY <2>1 DEF File, Operation
  <2>6. QED BY <2>1, <2>2, <2>4, <2>5 DEF MergeInv
<1>8. CASE \E f \in toMerge : Merge(f)
  <2>1. /\ UNCHANGED <<phase, dir, fi>> /\ toMerge' \subseteq toMerge /\ phase = "merge"
        BY <1>8 DEF Merge, afmVars
  <2>2. QED BY <2>1 DEF MergeInv, File, Operation
<1>9. CASE UNCHANGED vars
  <2>1. UNCHANGED <<phase, dir, fi, toMerge>>
        BY <1>9 DEF vars, afmVars
  <2>2. QED BY <2>1 DEF MergeInv, File, Operation
<1>10. QED
       BY <1>1, <1>2, <1>3, <1>4, <1>5, <1>6, <1>7, <1>8, <1>9 DEF Next, Proceed

-----------------------------------------------------------------------------
Changes ==
  /\ all'[FontName([font |-> fi.fullName])].op.select = fi.fontName
  /\ \A name \in DOMAIN all :
       all'[name] # all[name] => name = FontName([font |-> fi.fullName])
  /\ \A name \in DOMAIN all' \ DOMAIN all : name = FontName([font |-> fi.fullName])

\* A merge puts the font under its own name, with its own tables.
LEMMA MergeChanges ==
  ASSUME MergeInv, NEW f \in toMerge, Merge(f)
  PROVE  Changes
<1>1. f = File("ADD") /\ dir[f] = Operation(fi, Stem(fi.fontName))
      BY DEF Merge, MergeInv
<1>2. FontName(dir[f]) = FontName([font |-> fi.fullName])
      BY <1>1 DEF FontName, Operation
<1>3. Resources(dir[f]).op = dir[f] /\ dir[f].select = fi.fontName
      BY <1>1 DEF Resources, Operation
<1>4. all' = With(all, FontName(dir[f]), Resources(dir[f]))
      BY DEF Merge
<1>5. /\ DOMAIN all' = DOMAIN all \cup {FontName(dir[f])}
      /\ all'[FontName(dir[f])] = Resources(dir[f])
      /\ \A name \in DOMAIN all : name # FontName(dir[f]) => all'[name] = all[name]
      BY <1>4 DEF With
<1>6. QED BY <1>2, <1>3, <1>5 DEF Changes

\* Whatever was left behind by fonts that failed, or by the one before, a merge
\* changes only the font that was translated last (the two loops of addall.sh).
THEOREM OnlyTheNewFontIsMerged == Spec => MergesOnlyNew
<1>1. Init => MergeInv
      BY DEF Init, MergeInv
<1>2. MergeInv /\ [Next]_vars =>
        [all' # all =>
         /\ all'[FontName([font |-> fi.fullName])].op.select = fi.fontName
         /\ \A name \in DOMAIN all :
               all'[name] # all[name] => name = FontName([font |-> fi.fullName])
         /\ \A name \in DOMAIN all' \ DOMAIN all :
               name = FontName([font |-> fi.fullName])]_vars
  <2> SUFFICES ASSUME MergeInv, Next, all' # all
               PROVE  Changes
      BY DEF Changes
  <2>1. ASSUME ~\E f \in toMerge : Merge(f) PROVE FALSE
        BY <2>1 DEF Next, Proceed, NextFile, Done, Parse, Parsed, CharmapFailed, CharmapRead,
                    Kerning, KerningPass, KerningFailed, KerningDone, Spacing, Typeface,
                    CharacterMap, Aborts, Operations, CannotCreate, MergeFails, Merged,
                    ReadCharmap, Put, vars
  <2>2. QED BY <2>1, MergeChanges
<1>3. QED BY <1>1, <1>2, MergeInvStep, PTL DEF Spec, MergesOnlyNew

-----------------------------------------------------------------------------
(* The members of a set of numbers from 1 to L, numbered in their order.   *)

Rank(S, n) == Cardinality({j \in S : j <= n})

LEMMA Ranks ==
  ASSUME NEW L \in Nat, NEW S, \A j \in S : j \in 1 .. L
  PROVE  /\ IsFiniteSet(S) /\ Cardinality(S) \in Nat
         /\ Rank(S, 0) = 0 /\ Rank(S, L) = Cardinality(S)
         /\ \A n \in 0 .. L : Rank(S, n) \in Nat
         /\ \A n \in 1 .. L : Rank(S, n) = IF n \in S THEN Rank(S, n - 1) + 1 ELSE Rank(S, n - 1)
<1>1. IsFiniteSet(S)
  <2>1. IsFiniteSet(1 .. L)
        BY FS_Interval
  <2>2. S \subseteq 1 .. L
        OBVIOUS
  <2>3. QED BY <2>1, <2>2, FS_Subset
<1>2. \A n : IsFiniteSet({j \in S : j <= n})
      BY <1>1, FS_Subset
<1>3. {j \in S : j <= 0} = {} /\ {j \in S : j <= L} = S
      OBVIOUS
<1>4. ASSUME NEW n \in 1 .. L
      PROVE  Rank(S, n) = IF n \in S THEN Rank(S, n - 1) + 1 ELSE Rank(S, n - 1)
  <2> DEFINE T == {j \in S : j <= n - 1}
  <2>1. CASE n \in S
    <3>1. {j \in S : j <= n} = T \cup {n} /\ n \notin T
      <4>1. \A j, m \in Int : j <= m <=> (j <= m - 1 \/ j = m)
            OBVIOUS
      <4>2. n \in Int /\ \A j \in S : j \in Int
            OBVIOUS
      <4>3. \A j \in S : j <= n <=> (j <= n - 1 \/ j = n)
            BY <4>1, <4>2, Zenon
      <4>4. ~(n <= n - 1)
            BY <4>2
      <4>5. ASSUME NEW j PROVE j \in {k \in S : k <= n} <=> j \in T \cup {n}
            BY <2>1, <4>3, Zenon
      <4>6. n \notin T
            BY <4>4, Zenon
      <4>7. QED BY <4>5, <4>6, Zenon
    <3>2. Cardinality(T \cup {n}) = Cardinality(T) + 1
      <4>1. IsFiniteSet(T) /\ n \notin T
            BY <1>2, <3>1
      <4> HIDE DEF T
      <4>2. QED BY <4>1, FS_AddElement
    <3>3. QED BY <2>1, <3>1, <3>2 DEF Rank
  <2>2. CASE n \notin S
    <3>1. {j \in S : j <= n} = T
      <4>1. ASSUME NEW j \in S PROVE j <= n <=> j <= n - 1
        <5>1. j \in Int /\ n \in Int /\ j # n
              BY <2>2
        <5>2. QED BY <5>1
      <4>2. QED BY <4>1, Zenon
    <3>2. QED BY <2>2, <3>1 DEF Rank
  <2>3. QED BY <2>1, <2>2
<1>5. \A n : Rank(S, n) \in Nat
      BY <1>2, FS_CardinalityType DEF Rank
<1>6. Cardinality({}) = 0
      BY FS_EmptySet
<1>7. Rank(S, 0) = 0 /\ Rank(S, L) = Cardinality(S)
      BY <1>3, <1>6 DEF Rank
<1>8. QED BY <1>1, <1>4, <1>5, <1>7, FS_CardinalityType

LEMMA RanksGrow ==
  ASSUME NEW L \in Nat, NEW S, \A j \in S : j \in 1 .. L, NEW m \in 0 .. L, NEW n \in 0 .. L, m <= n
  PROVE  /\ Rank(S, m) <= Rank(S, n)
         /\ m < n /\ n \in S => Rank(S, m) < Rank(S, n)
<1>1. ASSUME NEW k \in 0 .. L, m <= k PROVE Rank(S, m) <= Rank(S, k)
  <2>1. {j \in S : j <= m} \subseteq {j \in S : j <= k}
        BY <1>1
  <2>2. IsFiniteSet({j \in S : j <= k})
        BY Ranks, FS_Subset
  <2>3. QED BY <2>1, <2>2, FS_Subset DEF Rank
<1>2. ASSUME m < n, n \in S PROVE Rank(S, m) < Rank(S, n)
  <2>1. n \in 1 .. L /\ n - 1 \in 0 .. L /\ m <= n - 1
        BY <1>2
  <2>2. Rank(S, n) = Rank(S, n - 1) + 1 /\ Rank(S, n - 1) \in Nat /\ Rank(S, m) \in Nat
        BY <1>2, <2>1, Ranks
  <2>3. Rank(S, m) <= Rank(S, n - 1)
        BY <1>1, <2>1
  <2>4. QED BY <2>2, <2>3
<1>3. QED BY <1>1, <1>2

LEMMA RanksReach ==
  ASSUME NEW L \in Nat, NEW S, \A j \in S : j \in 1 .. L
  PROVE  \A k \in 1 .. Cardinality(S) : \E i \in S : Rank(S, i) = k
<1> DEFINE Good == {n \in Nat : n <= L => \A k \in 1 .. Rank(S, n) : \E i \in S : Rank(S, i) = k}
<1>1. 0 \in Good
  <2>1. Rank(S, 0) = 0
        BY Ranks
  <2>2. QED BY <2>1
<1>2. ASSUME NEW n \in Nat, n \in Good PROVE n + 1 \in Good
  <2>1. SUFFICES ASSUME n + 1 <= L, NEW k \in 1 .. Rank(S, n + 1)
                 PROVE  \E i \in S : Rank(S, i) = k
        OBVIOUS
  <2>2. n + 1 \in 1 .. L /\ n \in 0 .. L /\ (n + 1) - 1 = n
        BY <2>1
  <2>3. /\ Rank(S, n + 1) = IF n + 1 \in S THEN Rank(S, n) + 1 ELSE Rank(S, n)
        /\ Rank(S, n) \in Nat
    <3>1. Rank(S, n + 1) = IF n + 1 \in S THEN Rank(S, (n + 1) - 1) + 1 ELSE Rank(S, (n + 1) - 1)
          BY <2>2, Ranks
    <3>2. QED BY <2>2, <3>1, Ranks
  <2>4. CASE k \in 1 .. Rank(S, n)
        BY <1>2, <2>2, <2>4
  <2>5. CASE k \notin 1 .. Rank(S, n)
    <3>1. n + 1 \in S /\ k = Rank(S, n + 1)
          BY <2>1, <2>3, <2>5
    <3>2. QED BY <3>1
  <2>6. QED BY <2>4, <2>5
<1>3. Nat \subseteq Good
  <2> HIDE DEF Good
  <2>1. QED BY <1>1, <1>2, NatSet
<1>4. L \in Good /\ L <= L /\ Rank(S, L) = Cardinality(S)
      BY <1>3, Ranks
<1>5. QED BY <1>4

-----------------------------------------------------------------------------
(* The kerning table.  Pass p of 2 to 5 writes a cell for each pair of its *)
(* kind, behind those of the passes before it.                             *)

KernPairs == {p \in [left : Nat, right : Nat, xamt : Int] : -32768 <= Scaled(p) /\ Scaled(p) <= 32767}
Cells     == Nat \cup (Nat \X Nat)

Of(p) == IF p \in {2, 4} THEN AsciiPairs ELSE GlyphPairs
NumAscii == Cardinality(AsciiPairs)
NumGlyph == Cardinality(GlyphPairs)
Base(p) == IF p <= 2 THEN 0
           ELSE IF p = 3 THEN NumAscii
           ELSE IF p = 4 THEN NumAscii + NumGlyph
           ELSE IF p = 5 THEN (NumAscii + NumGlyph) + NumAscii
           ELSE (NumAscii + NumGlyph) + (NumAscii + NumGlyph)

\* The width that the first n pairs need.
Size(n) == IF \A j \in 1 .. n : Recognized(pkd[j]) => FitsByte(Scaled(pkd[j])) THEN 1 ELSE 2

Cell(p, i) == IF p <= 3 THEN <<pkd[i].left, pkd[i].right>>
              ELSE Wrap(Scaled(pkd[i]), Size(Len(pkd)))

\* How many pairs pass p has seen.
Far(p) == IF pass > p THEN Len(pkd) ELSE IF pass = p THEN nth - 1 ELSE 0

KernTypes ==
  /\ pkd \in Seq(KernPairs) /\ Len(pkd) <= 65535
  /\ pass \in 1 .. 6 /\ nth \in 1 .. Len(pkd) + 1
  /\ kerned \in {"running", "done", "failed"}
  /\ kerned = "done" => sorted /\ pass = 6
  /\ kerned = "running" => pass <= 5

CountsInv ==
  /\ pass = 1 => /\ asciipair = Rank(AsciiPairs, nth - 1)
                 /\ glyphpair = Rank(GlyphPairs, nth - 1)
                 /\ valsize = Size(nth - 1)
  /\ pass > 1 => /\ header = <<NumAscii, NumGlyph, Size(Len(pkd))>>
                 /\ valsize = Size(Len(pkd))

OutInv ==
  /\ out \in Seq(Cells)
  /\ Len(out) = Base(pass) + IF pass \in 2 .. 5 THEN Rank(Of(pass), nth - 1) ELSE 0
  /\ \A p \in 2 .. 5 : \A i \in Of(p) :
        i <= Far(p) => out[Base(p) + Rank(Of(p), i)] = Cell(p, i)

SortedInv ==
  IF sorted THEN \A j, k \in DOMAIN pkd : j < k => ~Before(pkd[k], pkd[j])
            ELSE pass = 1 /\ nth = 1

KernInv == KernTypes /\ (kerned # "failed" => CountsInv /\ OutInv /\ SortedInv)

-----------------------------------------------------------------------------
\* The pairs that are kept, by their numbers.
LEMMA KeptIs ==
  ASSUME KernTypes, NEW S, S = AsciiPairs \/ S = GlyphPairs
  PROVE  /\ Len(pkd) \in Nat /\ DOMAIN pkd = 1 .. Len(pkd)
         /\ \A j \in S : j \in 1 .. Len(pkd)
         /\ Cardinality(S) \in Nat
         /\ Rank(S, 0) = 0
         /\ Rank(S, Len(pkd)) = Cardinality(S)
         /\ \A n \in 0 .. Len(pkd) : /\ Rank(S, n) \in Nat
                                      /\ Rank(S, n) <= n
                                      /\ Rank(S, n) <= Cardinality(S)
         /\ \A n \in 1 .. Len(pkd) :
               Rank(S, n) = IF n \in S THEN Rank(S, n - 1) + 1
                                        ELSE Rank(S, n - 1)
<1> DEFINE L == Len(pkd)
<1>1. L \in Nat /\ DOMAIN pkd = 1 .. L
      BY DEF KernTypes
<1>2. \A j \in S : j \in 1 .. L
      BY <1>1 DEF AsciiPairs, GlyphPairs
<1>3. /\ Cardinality(S) \in Nat
      /\ Rank(S, 0) = 0 /\ Rank(S, L) = Cardinality(S)
      /\ \A n \in 0 .. L : Rank(S, n) \in Nat
      /\ \A n \in 1 .. L : Rank(S, n) = IF n \in S THEN Rank(S, n - 1) + 1 ELSE Rank(S, n - 1)
      BY <1>1, <1>2, Ranks
<1>4. \A n \in 0 .. L : Rank(S, n) <= Cardinality(S)
  <2> TAKE n \in 0 .. L
  <2>1. L \in 0 .. L /\ n <= L
        BY <1>1
  <2>2. Rank(S, n) <= Rank(S, L)
        BY <1>1, <1>2, <2>1, RanksGrow
  <2>3. QED BY <1>3, <2>2
<1>5. \A n \in 0 .. L : Rank(S, n) <= n
  <2> DEFINE Good == {n \in Nat : n <= L => Rank(S, n) <= n}
  <2>1. 0 \in Good
        BY <1>3
  <2>2. ASSUME NEW n \in Nat, n \in Good PROVE n + 1 \in Good
    <3>1. SUFFICES ASSUME n + 1 <= L PROVE Rank(S, n + 1) <= n + 1
          OBVIOUS
    <3>2. n + 1 \in 1 .. L /\ n \in 0 .. L /\ (n + 1) - 1 = n
          BY <1>1, <3>1
    <3>3. Rank(S, n + 1) = IF n + 1 \in S THEN Rank(S, (n + 1) - 1) + 1 ELSE Rank(S, (n + 1) - 1)
          BY <1>3, <3>2
    <3>4. Rank(S, n) \in Nat /\ Rank(S, n) <= n
          BY <1>3, <2>2, <3>2
    <3>5. QED BY <3>2, <3>3, <3>4
  <2>3. Nat \subseteq Good
    <3> HIDE DEF Good
    <3>1. QED BY <2>1, <2>2, NatSet
  <2>4. QED BY <2>3
<1>6. QED BY <1>1, <1>2, <1>3, <1>4, <1>5

LEMMA SizeIs ==
  ASSUME KernTypes
  PROVE  /\ \A n : Size(n) \in {1, 2}
         /\ Size(0) = 1
         /\ \A n \in 1 .. Len(pkd) :
               Size(n) = IF Recognized(pkd[n]) /\ ~FitsByte(Scaled(pkd[n])) THEN 2 ELSE Size(n - 1)
         /\ \A n \in 1 .. Len(pkd) :
               Recognized(pkd[n]) /\ ~FitsByte(Scaled(pkd[n])) => Size(Len(pkd)) = 2
<1>1. \A n \in 1 .. Len(pkd) :
         Size(n) = IF Recognized(pkd[n]) /\ ~FitsByte(Scaled(pkd[n])) THEN 2 ELSE Size(n - 1)
  <2> TAKE n \in 1 .. Len(pkd)
  <2> DEFINE Fits(j) == Recognized(pkd[j]) => FitsByte(Scaled(pkd[j]))
  <2>0. Len(pkd) \in Nat
        BY DEF KernTypes
  <2>1. (\A j \in 1 .. n : Fits(j)) <=> Fits(n) /\ \A j \in 1 .. n - 1 : Fits(j)
    <3> HIDE DEF Fits
    <3>1. n \in 1 .. n /\ \A j \in 1 .. n - 1 : j \in 1 .. n
          BY <2>0
    <3>2. \A j \in 1 .. n : j = n \/ j \in 1 .. n - 1
          BY <2>0
    <3>3. QED BY <3>1, <3>2
  <2>2. QED BY <2>1 DEF Size
<1>2. \A n \in 1 .. Len(pkd) :
         Recognized(pkd[n]) /\ ~FitsByte(Scaled(pkd[n])) => Size(Len(pkd)) = 2
      BY DEF Size
<1>3. QED BY <1>1, <1>2 DEF Size

-----------------------------------------------------------------------------
LEMMA SamePairs ==
  ASSUME pkd' = pkd
  PROVE  /\ AsciiPairs' = AsciiPairs /\ NumAscii' = NumAscii
         /\ GlyphPairs' = GlyphPairs /\ NumGlyph' = NumGlyph
         /\ \A p : Base(p)' = Base(p) /\ Of(p)' = Of(p)
         /\ \A n : Size(n)' = Size(n)
         /\ \A p, i : Cell(p, i)' = Cell(p, i)
<1>1. AsciiPairs' = AsciiPairs /\ GlyphPairs' = GlyphPairs
      BY DEF AsciiPairs, GlyphPairs
<1>2. NumAscii' = NumAscii /\ NumGlyph' = NumGlyph
      BY <1>1 DEF NumAscii, NumGlyph
<1>3. \A n : Size(n)' = Size(n)
      BY DEF Size
<1>4. \A p : Base(p)' = Base(p)
      BY <1>2 DEF Base
<1>5. \A p, i : Cell(p, i)' = Cell(p, i)
      BY <1>3 DEF Cell
<1>6. \A p : Of(p)' = Of(p)
      BY <1>1 DEF Of
<1>7. QED BY <1>1, <1>2, <1>3, <1>4, <1>5, <1>6

LEMMA PassIs ==
  ASSUME pass \in 1 .. 5
  PROVE  /\ Passes[pass] = "count" <=> pass = 1
         /\ Passes[pass] = "asciipairs" <=> pass = 2
         /\ Passes[pass] = "glyphpairs" <=> pass = 3
         /\ Passes[pass] = "asciivals" <=> pass = 4
         /\ Passes[pass] = "glyphvals" <=> pass = 5
         /\ Len(Passes) = 5
<1>1. pass = 1 \/ pass = 2 \/ pass = 3 \/ pass = 4 \/ pass = 5
      OBVIOUS
<1>2. QED BY <1>1 DEF Passes

LEMMA SortKeeps == KernInv /\ Sort => KernInv'
<1> SUFFICES ASSUME KernInv, Sort PROVE KernInv'
    OBVIOUS
<1>1. /\ kerned = "running" /\ ~sorted /\ sorted' = TRUE
      /\ pkd' \in [DOMAIN pkd -> Range(pkd)]
      /\ \A j, k \in DOMAIN pkd' : j < k => ~Before(pkd'[k], pkd'[j])
      /\ UNCHANGED <<pass, nth, asciipair, glyphpair, valsize, out, header, kerned>>
      BY DEF Sort
<1>2. KernTypes /\ CountsInv /\ OutInv /\ pass = 1 /\ nth = 1
      BY <1>1 DEF KernInv, SortedInv
<1>3. pkd' \in Seq(KernPairs) /\ Len(pkd') = Len(pkd) /\ Len(pkd) \in Nat
  <2>1. pkd \in Seq(KernPairs) /\ DOMAIN pkd = 1 .. Len(pkd) /\ Len(pkd) \in Nat
        BY <1>2 DEF KernTypes
  <2>2. \A x \in Range(pkd) : x \in KernPairs
        BY <2>1 DEF Range
  <2>3. pkd' \in [1 .. Len(pkd) -> KernPairs]
        BY <1>1, <2>1, <2>2
  <2>4. QED BY <2>1, <2>3
<1>4. KernTypes'
      BY <1>1, <1>2, <1>3 DEF KernTypes
<1>5. /\ Rank(AsciiPairs, 0) = 0 /\ Rank(AsciiPairs', 0) = 0
      /\ Rank(GlyphPairs, 0) = 0 /\ Rank(GlyphPairs', 0) = 0
  <2>1. ASSUME NEW S, S = AsciiPairs \/ S = GlyphPairs \/ S = AsciiPairs' \/ S = GlyphPairs'
        PROVE  Rank(S, 0) = 0
    <3>1. \A j \in S : j \in 1 .. Len(pkd)
      <4>1. DOMAIN pkd = 1 .. Len(pkd) /\ DOMAIN pkd' = 1 .. Len(pkd)
            BY <1>2, <1>3 DEF KernTypes
      <4>2. QED BY <2>1, <4>1 DEF AsciiPairs, GlyphPairs
    <3>2. QED BY <1>3, <3>1, Ranks
  <2>2. QED BY <2>1
<1>6. CountsInv'
  <2>1. Size(0) = 1 /\ Size(0)' = 1
        BY DEF Size
  <2>2. nth - 1 = 0 /\ pass' = 1 /\ nth' = 1
        BY <1>1, <1>2
  <2>3. asciipair = 0 /\ glyphpair = 0 /\ valsize = 1
        BY <1>2, <1>5, <2>1, <2>2 DEF CountsInv
  <2>4. /\ asciipair' = Rank(AsciiPairs, nth - 1)'
        /\ glyphpair' = Rank(GlyphPairs, nth - 1)'
        BY <1>1, <1>5, <2>2, <2>3
  <2>5. valsize' = Size(nth - 1)'
        BY <1>1, <2>2, <2>3 DEF Size
  <2>6. QED BY <2>2, <2>4, <2>5 DEF CountsInv
<1>7. OutInv'
  <2>1. out' = out /\ pass' = 1 /\ nth' = 1 /\ Base(pass) = 0 /\ Base(pass)' = 0
        BY <1>1, <1>2 DEF Base
  <2>2. out \in Seq(Cells) /\ Len(out) = 0
        BY <1>2, <2>1 DEF OutInv
  <2>3. ASSUME NEW p \in 2 .. 5, NEW i \in Of(p)' PROVE ~(i <= Far(p)')
    <3>1. Far(p)' = 0
          BY <2>1 DEF Far
    <3>2. i \in 1 .. Len(pkd')
          BY <1>3 DEF Of, AsciiPairs, GlyphPairs
    <3>3. QED BY <3>1, <3>2
  <2>4. QED BY <2>1, <2>2, <2>3 DEF OutInv
<1>8. SortedInv'
      BY <1>1 DEF SortedInv
<1>9. QED BY <1>4, <1>6, <1>7, <1>8 DEF KernInv

\* The first pass: one more pair is counted, or skipped.
LEMMA CountKeeps ==
  ASSUME KernInv, pass = 1, Count \/ SkipPair
  PROVE  KernInv'
<1>0. pass = 1 /\ (Count \/ SkipPair)
      OBVIOUS
<1>1. /\ kerned = "running" /\ sorted /\ nth <= Len(pkd) /\ nth' = nth + 1
      /\ UNCHANGED <<pkd, sorted, pass, header, kerned, out>>
      BY DEF Count, SkipPair, NextPair, InPass, Writing
<1>2. KernTypes /\ CountsInv /\ OutInv /\ SortedInv
      BY <1>1 DEF KernInv
<1>3. nth \in 1 .. Len(pkd) /\ Len(pkd) \in Nat /\ (nth + 1) - 1 = nth
      BY <1>1, <1>2, KeptIs DEF KernTypes
<1>4. KernTypes'
      BY <1>1, <1>2, <1>3 DEF KernTypes
<1>5. SortedInv'
      BY <1>1, <1>2 DEF SortedInv
<1>6. OutInv'
  <2>1. Far(2)' = Far(2) /\ Far(3)' = Far(3) /\ Far(4)' = Far(4) /\ Far(5)' = Far(5)
        BY <1>1 DEF Far
  <2>2. \A p \in 2 .. 5 : p = 2 \/ p = 3 \/ p = 4 \/ p = 5
        OBVIOUS
  <2>3. \A p \in 2 .. 5 : Far(p)' = Far(p)
        BY <2>1, <2>2
  <2>4. pass' = pass /\ pass \notin 2 .. 5
        BY <1>1
  <2>5. out \in Seq(Cells) /\ Len(out) = Base(pass) + 0
        BY <1>2, <2>4 DEF OutInv
  <2>6. QED BY <1>1, <1>2, <2>3, <2>4, <2>5, SamePairs DEF OutInv
<1>7. CountsInv'
  <2> DEFINE a0 == Rank(AsciiPairs, nth - 1)
             a1 == Rank(AsciiPairs, nth)
             g0 == Rank(GlyphPairs, nth - 1)
             g1 == Rank(GlyphPairs, nth)
  <2>1. asciipair = a0 /\ glyphpair = g0 /\ valsize = Size(nth - 1)
        BY <1>2 DEF CountsInv
  <2>2. /\ a1 = IF nth \in AsciiPairs THEN a0 + 1 ELSE a0
        /\ g1 = IF nth \in GlyphPairs THEN g0 + 1 ELSE g0
        BY <1>2, <1>3, KeptIs
  <2>3. a0 \in Nat /\ a1 \in Nat /\ a1 <= 65535 /\ g0 \in Nat /\ g1 \in Nat /\ g1 <= 65535
    <3>1. ASSUME NEW S, S = AsciiPairs \/ S = GlyphPairs
          PROVE  Rank(S, nth - 1) \in Nat /\ Rank(S, nth) \in Nat /\ Rank(S, nth) <= 65535
      <4>1. nth \in 0 .. Len(pkd) /\ nth - 1 \in 0 .. Len(pkd) /\ nth <= 65535
            BY <1>2, <1>3 DEF KernTypes
      <4>2. Rank(S, nth) \in Nat /\ Rank(S, nth) <= nth /\ Rank(S, nth - 1) \in Nat
            BY <1>2, <3>1, <4>1, KeptIs
      <4>3. Rank(S, nth) <= 65535
            BY <1>3, <4>1, <4>2
      <4>4. QED BY <4>2, <4>3
    <3>2. QED BY <3>1
  <2>4. /\ nth \in AsciiPairs <=> Recognized(pkd[nth]) /\ AsciiPair(pkd[nth])
        /\ nth \in GlyphPairs <=> Recognized(pkd[nth]) /\ ~AsciiPair(pkd[nth])
    <3>1. nth \in DOMAIN pkd
          BY <1>2, <1>3 DEF KernTypes
    <3>2. QED BY <3>1 DEF AsciiPairs, GlyphPairs
  <2> HIDE DEF a0, a1, g0, g1
  <2>5. asciipair' = a1 /\ glyphpair' = g1
    <3>1. CASE Count
      <4>1. CASE AsciiPair(pkd[nth])
        <5>1. asciipair' = (asciipair + 1) % 65536 /\ glyphpair' = glyphpair /\ Recognized(pkd[nth])
              BY <3>1, <4>1 DEF Count
        <5>2. a0 + 1 = a1 /\ g0 = g1
              BY <2>2, <2>4, <4>1, <5>1
        <5>3. QED BY <2>1, <2>3, <5>1, <5>2
      <4>2. CASE ~AsciiPair(pkd[nth])
        <5>1. glyphpair' = (glyphpair + 1) % 65536 /\ asciipair' = asciipair /\ Recognized(pkd[nth])
              BY <3>1, <4>2 DEF Count
        <5>2. g0 + 1 = g1 /\ a0 = a1
              BY <2>2, <2>4, <4>2, <5>1
        <5>3. QED BY <2>1, <2>3, <5>1, <5>2
      <4>3. QED BY <4>1, <4>2
    <3>2. CASE SkipPair
      <4>1. asciipair' = asciipair /\ glyphpair' = glyphpair /\ ~Recognized(pkd[nth])
            BY <3>2 DEF SkipPair
      <4>2. QED BY <2>1, <2>2, <2>4, <4>1
    <3>3. QED BY <1>0, <3>1, <3>2
  <2>6. valsize' = Size(nth)
    <3>1. Size(nth) = IF Recognized(pkd[nth]) /\ ~FitsByte(Scaled(pkd[nth])) THEN 2 ELSE Size(nth - 1)
          BY <1>2, <1>3, SizeIs
    <3>2. CASE Count
          BY <2>1, <3>1, <3>2 DEF Count, Widen
    <3>3. CASE SkipPair
          BY <2>1, <3>1, <3>3 DEF SkipPair
    <3>4. QED BY <1>0, <3>2, <3>3
  <2>7. nth' - 1 = nth /\ pass' = 1
        BY <1>0, <1>1, <1>3
  <2>8. /\ asciipair' = Rank(AsciiPairs, nth - 1)'
        /\ glyphpair' = Rank(GlyphPairs, nth - 1)'
        BY <1>1, <2>5, <2>7, SamePairs DEF a1, g1
  <2>9. valsize' = Size(nth - 1)'
        BY <1>1, <2>6, <2>7 DEF Size
  <2>10. QED BY <2>7, <2>8, <2>9 DEF CountsInv
<1>8. QED BY <1>4, <1>5, <1>6, <1>7 DEF KernInv

-----------------------------------------------------------------------------
\* The cells of a pass come right behind those of the pass before.
LEMMA BasesAre ==
  ASSUME KernTypes
  PROVE  /\ NumAscii \in Nat /\ NumGlyph \in Nat
         /\ \A p \in 2 .. 6 : Base(p) \in Nat
         /\ \A p \in 2 .. 5 : Base(p + 1) = Base(p) + Cardinality(Of(p))
         /\ \A p, q \in 2 .. 6 : p <= q => Base(p) <= Base(q)
         /\ \A p : Of(p) = AsciiPairs \/ Of(p) = GlyphPairs
<1>1. NumAscii \in Nat /\ NumGlyph \in Nat
      BY KeptIs DEF NumAscii, NumGlyph
<1>2. /\ Cardinality(Of(2)) = NumAscii /\ Cardinality(Of(3)) = NumGlyph
      /\ Cardinality(Of(4)) = NumAscii /\ Cardinality(Of(5)) = NumGlyph
      BY DEF Of, NumAscii, NumGlyph
<1>3. /\ Base(2) = 0 /\ Base(3) = NumAscii
      /\ Base(4) = NumAscii + NumGlyph
      /\ Base(5) = (NumAscii + NumGlyph) + NumAscii
      /\ Base(6) = (NumAscii + NumGlyph) + (NumAscii + NumGlyph)
      BY DEF Base
<1>4. \A p : Of(p) = AsciiPairs \/ Of(p) = GlyphPairs
      BY DEF Of
<1> HIDE DEF NumAscii, NumGlyph
<1>5. \A p \in 2 .. 6 : p = 2 \/ p = 3 \/ p = 4 \/ p = 5 \/ p = 6
      OBVIOUS
<1>6. \A p \in 2 .. 6 : Base(p) \in Nat
      BY <1>1, <1>3, <1>5
<1>7. ASSUME NEW p \in 2 .. 5 PROVE Base(p + 1) = Base(p) + Cardinality(Of(p))
  <2>1. /\ Base(3) = Base(2) + Cardinality(Of(2)) /\ Base(4) = Base(3) + Cardinality(Of(3))
        /\ Base(5) = Base(4) + Cardinality(Of(4)) /\ Base(6) = Base(5) + Cardinality(Of(5))
        BY <1>1, <1>2, <1>3
  <2>2. p = 2 \/ p = 3 \/ p = 4 \/ p = 5
        OBVIOUS
  <2>3. QED BY <2>1, <2>2
<1>8. ASSUME NEW p \in 2 .. 6, NEW q \in 2 .. 6, p <= q PROVE Base(p) <= Base(q)
      BY <1>1, <1>3, <1>5, <1>8
<1>9. QED BY <1>1, <1>4, <1>6, <1>7, <1>8

\* What a cell holds.
LEMMA CellIs ==
  ASSUME KernTypes, NEW p, NEW i \in 1 .. Len(pkd)
  PROVE  Cell(p, i) \in Cells
<1>1. /\ pkd[i].left \in Nat /\ pkd[i].right \in Nat /\ Scaled(pkd[i]) \in Int
  <2>1. pkd[i] \in KernPairs
        BY DEF KernTypes
  <2>2. pkd[i] \in [left : Nat, right : Nat, xamt : Int]
        BY <2>1 DEF KernPairs
  <2>3. pkd[i].left \in Nat /\ pkd[i].right \in Nat /\ pkd[i].xamt \in Int
        BY <2>2
  <2>4. Scaled(pkd[i]) \in Int
        BY <2>3 DEF Scaled
  <2>5. QED BY <2>3, <2>4
<1>2. <<pkd[i].left, pkd[i].right>> \in Nat \X Nat
      BY <1>1
<1>3. \A v \in Int : v % 256 \in Nat /\ v % 65536 \in Nat
      OBVIOUS
<1>4. \A n : Wrap(Scaled(pkd[i]), n) \in Nat
      BY <1>1, <1>3 DEF Wrap
<1>5. QED BY <1>2, <1>4 DEF Cell, Cells

\* A cell that was written is one of those that are there.
LEMMA PlaceIs ==
  ASSUME KernTypes, OutInv, pass \in 2 .. 6,
         NEW p \in 2 .. 5, NEW i \in Of(p), i <= Far(p)
  PROVE  /\ Base(p) + Rank(Of(p), i) \in 1 .. Len(out) /\ i \in 1 .. Len(pkd)
         /\ Rank(Of(p), i) \in Nat \ {0} /\ Rank(Of(p), i) <= Cardinality(Of(p))
<1> DEFINE r == Rank(Of(p), i)
<1>1. \A S : S = AsciiPairs \/ S = GlyphPairs =>
         /\ \A j \in S : j \in 1 .. Len(pkd)
         /\ \A n \in 0 .. Len(pkd) : Rank(S, n) \in Nat /\ Rank(S, n) <= Cardinality(S)
         /\ Rank(S, 0) = 0 /\ Len(pkd) \in Nat /\ Cardinality(S) \in Nat
      BY KeptIs
<1>2. Of(p) = AsciiPairs \/ Of(p) = GlyphPairs
      BY DEF Of
<1>3. i \in 1 .. Len(pkd) /\ i \in 0 .. Len(pkd) /\ 0 \in 0 .. Len(pkd) /\ 0 < i
      BY <1>1, <1>2
<1>4. r \in Nat /\ r <= Cardinality(Of(p)) /\ Cardinality(Of(p)) \in Nat
      BY <1>1, <1>2, <1>3
<1>5. 0 < r
  <2>1. Rank(Of(p), 0) < r
        BY <1>1, <1>2, <1>3, RanksGrow
  <2>2. QED BY <1>1, <1>2, <2>1
<1>6. Base(p) \in Nat /\ Base(p + 1) = Base(p) + Cardinality(Of(p)) /\ p + 1 \in 2 .. 6
      BY BasesAre
<1>7. Base(p) + r <= Len(out)
  <2>1. CASE p < pass
    <3>1. Base(p + 1) <= Base(pass) /\ Base(pass) \in Nat
          BY <1>6, <2>1, BasesAre
    <3>2. Base(pass) <= Len(out)
      <4>1. CASE pass \in 2 .. 5
        <5>1. Len(out) = Base(pass) + Rank(Of(pass), nth - 1)
              BY <4>1 DEF OutInv
        <5>2. nth - 1 \in 0 .. Len(pkd)
              BY <1>3 DEF KernTypes
        <5>3. Of(pass) = AsciiPairs \/ Of(pass) = GlyphPairs
              BY DEF Of
        <5>4. Rank(Of(pass), nth - 1) \in Nat
              BY <1>1, <5>2, <5>3
        <5>5. QED BY <3>1, <5>1, <5>4
      <4>2. CASE pass \notin 2 .. 5
            BY <3>1, <4>2 DEF OutInv
      <4>3. QED BY <4>1, <4>2
    <3> HIDE DEF r
    <3>3. Len(out) \in Nat
          BY DEF OutInv
    <3>4. QED BY <1>4, <1>6, <3>1, <3>2, <3>3
  <2>2. CASE p = pass
    <3>1. Len(out) = Base(p) + Rank(Of(p), nth - 1)
          BY <2>2 DEF OutInv
    <3>2. i <= nth - 1 /\ nth - 1 \in 0 .. Len(pkd)
          BY <1>1, <1>2, <2>2 DEF Far, KernTypes
    <3>3. r <= Rank(Of(p), nth - 1) /\ Rank(Of(p), nth - 1) \in Nat
          BY <1>1, <1>2, <1>3, <3>2, RanksGrow
    <3> HIDE DEF r
    <3>4. QED BY <1>4, <1>6, <3>1, <3>3
  <2>3. CASE p > pass
    <3>1. Far(p) = 0
          BY <2>3 DEF Far
    <3>2. QED BY <1>3, <3>1
  <2>4. QED BY <2>1, <2>2, <2>3
<1> HIDE DEF r
<1>8. r \in Nat \ {0} /\ Base(p) + r \in Nat \ {0} /\ Len(out) \in Nat
      BY <1>4, <1>5, <1>6 DEF OutInv
<1>9. Base(p) + r \in 1 .. Len(out)
      BY <1>7, <1>8
<1>10. QED BY <1>3, <1>4, <1>8, <1>9 DEF r

-----------------------------------------------------------------------------
(* A pass that writes appends the cell of the next pair if it is one of    *)
(* its kind, and leaves the rest.                                          *)
Writes ==
  /\ kerned = "running" /\ sorted /\ nth <= Len(pkd)
  /\ NextPair /\ valsize' = valsize
  /\ IF nth \in Of(pass) THEN out' = Append(out, Cell(pass, nth)) ELSE out' = out

LEMMA WriteKeeps == KernInv /\ pass \in 2 .. 5 /\ Writes => KernInv'
<1> SUFFICES ASSUME KernInv, pass \in 2 .. 5, Writes PROVE KernInv'
    OBVIOUS
<1>1. /\ kerned = "running" /\ sorted /\ nth <= Len(pkd) /\ nth' = nth + 1 /\ valsize' = valsize
      /\ UNCHANGED <<pkd, sorted, pass, header, kerned>>
      BY DEF Writes, NextPair
<1>2. KernTypes /\ CountsInv /\ OutInv /\ SortedInv
      BY <1>1 DEF KernInv
<1>3. nth \in 1 .. Len(pkd) /\ Len(pkd) \in Nat /\ (nth + 1) - 1 = nth
      BY <1>1, <1>2, KeptIs DEF KernTypes
<1>4. KernTypes'
      BY <1>1, <1>2, <1>3 DEF KernTypes
<1>5. SortedInv'
      BY <1>1, <1>2 DEF SortedInv
<1>6. CountsInv'
  <2>1. pass > 1 /\ pass' > 1 /\ ~(pass' = 1)
        BY <1>1
  <2>2. header = <<NumAscii, NumGlyph, Size(Len(pkd))>> /\ valsize = Size(Len(pkd))
        BY <1>2, <2>1 DEF CountsInv
  <2>3. Size(Len(pkd))' = Size(Len(pkd)) /\ NumAscii' = NumAscii /\ NumGlyph' = NumGlyph
        BY <1>1, SamePairs
  <2>4. QED BY <1>1, <2>1, <2>2, <2>3 DEF CountsInv
<1>7. OutInv'
  <2> DEFINE L  == Len(out)
             r0 == Rank(Of(pass), nth - 1)
             r1 == Rank(Of(pass), nth)
  <2>1. L = Base(pass) + r0 /\ out \in Seq(Cells) /\ L \in Nat
        BY <1>2 DEF OutInv
  <2>2. r1 = (IF nth \in Of(pass) THEN r0 + 1 ELSE r0) /\ r0 \in Nat
    <3>1. Of(pass) = AsciiPairs \/ Of(pass) = GlyphPairs
          BY DEF Of
    <3>2. nth - 1 \in 0 .. Len(pkd)
          BY <1>3
    <3>3. QED BY <1>2, <1>3, <3>1, <3>2, KeptIs
  <2>3. Base(pass) \in Nat
        BY <1>2, BasesAre
  <2>4. Cell(pass, nth) \in Cells
        BY <1>2, <1>3, CellIs
  <2> HIDE DEF r0, r1
  <2>5. /\ out' \in Seq(Cells) /\ Len(out') = Base(pass) + r1
        /\ \A q \in 1 .. L : out'[q] = out[q]
        /\ nth \in Of(pass) => out'[Base(pass) + r1] = Cell(pass, nth)
    <3>1. CASE nth \in Of(pass)
      <4>1. out' = Append(out, Cell(pass, nth))
            BY <3>1 DEF Writes
      <4>2. /\ out' \in Seq(Cells) /\ Len(out') = L + 1 /\ out'[L + 1] = Cell(pass, nth)
            /\ \A q \in 1 .. L : out'[q] = out[q]
            BY <2>1, <2>4, <4>1
      <4>3. Base(pass) + r1 = L + 1
            BY <2>1, <2>2, <2>3, <3>1
      <4>4. QED BY <4>2, <4>3
    <3>2. CASE nth \notin Of(pass)
          BY <2>1, <2>2, <3>2 DEF Writes
    <3>3. QED BY <3>1, <3>2
  <2>6. ASSUME NEW p \in 2 .. 5, NEW i \in Of(p), i <= Far(p)'
        PROVE  out'[Base(p) + Rank(Of(p), i)] = Cell(p, i)
    <3>1. CASE i <= Far(p)
      <4>1. pass \in 2 .. 6
            OBVIOUS
      <4>2. Base(p) + Rank(Of(p), i) \in 1 .. L
            BY <1>2, <2>6, <3>1, <4>1, PlaceIs
      <4>3. out[Base(p) + Rank(Of(p), i)] = Cell(p, i)
            BY <1>2, <2>6, <3>1 DEF OutInv
      <4>4. QED BY <2>5, <4>2, <4>3
    <3>2. CASE ~(i <= Far(p))
      <4>1. i \in 1 .. Len(pkd)
        <5>1. Of(p) = AsciiPairs \/ Of(p) = GlyphPairs
              BY DEF Of
        <5>2. QED BY <1>2, <5>1, KeptIs
      <4>2. p = pass /\ i = nth
        <5>1. Far(p)' = IF pass > p THEN Len(pkd) ELSE IF pass = p THEN nth ELSE 0
              BY <1>1, <1>3 DEF Far
        <5>2. QED BY <1>3, <2>6, <3>2, <4>1, <5>1 DEF Far
      <4>3. QED BY <2>5, <2>6, <4>2 DEF r1
    <3>3. QED BY <3>1, <3>2
  <2>7. /\ \A p : Base(p)' = Base(p) /\ Of(p)' = Of(p)
        /\ \A p, i : Cell(p, i)' = Cell(p, i)
        BY <1>1, SamePairs
  <2>8. Len(out') = Base(pass)' + Rank(Of(pass), nth - 1)' /\ pass' \in 2 .. 5
    <3>1. Base(pass)' = Base(pass) /\ Of(pass)' = Of(pass) /\ nth' - 1 = nth
          BY <1>1, <1>3 DEF Base, Of, NumAscii, NumGlyph, AsciiPairs, GlyphPairs
    <3>2. QED BY <1>1, <2>5, <3>1 DEF r1
  <2>9. \A p \in 2 .. 5 : \A i \in Of(p)' :
           i <= Far(p)' => out'[Base(p)' + Rank(Of(p)', i)] = Cell(p, i)'
        BY <2>6, <2>7
  <2>10. QED BY <2>5, <2>8, <2>9 DEF OutInv
<1>8. QED BY <1>4, <1>5, <1>6, <1>7 DEF KernInv

\* A pass that writes sees a pair, and so skips or writes it.
LEMMA PassesWrite ==
  KernInv /\ pass \in 2 .. 5 /\ (SkipPair \/ PutPair \/ PutValue) => Writes
<1> SUFFICES ASSUME KernInv, pass \in 2 .. 5, SkipPair \/ PutPair \/ PutValue PROVE Writes
    OBVIOUS
<1>0. SkipPair \/ PutPair \/ PutValue
      OBVIOUS
<1>1. /\ kerned = "running" /\ sorted /\ nth <= Len(pkd) /\ NextPair
      BY <1>0 DEF SkipPair, PutPair, PutValue, InPass, Writing
<1>2. KernTypes /\ CountsInv
      BY <1>1 DEF KernInv
<1>3. nth \in 1 .. Len(pkd) /\ Len(pkd) \in Nat /\ DOMAIN pkd = 1 .. Len(pkd)
      BY <1>1, <1>2 DEF KernTypes
<1>4. valsize = Size(Len(pkd))
      BY <1>2 DEF CountsInv
<1>5. nth \in Of(pass) <=> Recognized(pkd[nth]) /\ (AsciiPair(pkd[nth]) <=> pass \in {2, 4})
      BY <1>3 DEF Of, AsciiPairs, GlyphPairs
<1>6. Recognized(pkd[nth]) /\ Widen => valsize' = valsize
  <2>1. Recognized(pkd[nth]) /\ ~FitsByte(Scaled(pkd[nth])) => Size(Len(pkd)) = 2
        BY <1>2, <1>3, SizeIs
  <2>2. QED BY <1>4, <2>1 DEF Widen
<1>7. pass \in 1 .. 5
      OBVIOUS
<1>8. CASE SkipPair
      BY <1>1, <1>5, <1>8 DEF SkipPair, Writes
<1>9. CASE PutPair
  <2>1. /\ pass = 2 \/ pass = 3
        /\ Recognized(pkd[nth]) /\ Widen
        /\ Passes[pass] = "asciipairs" <=> pass = 2
        BY <1>7, <1>9, PassIs DEF PutPair, InPass
  <2>2. CASE AsciiPair(pkd[nth]) <=> pass = 2
    <3>1. nth \in Of(pass)
          BY <1>5, <2>1, <2>2
    <3>2. out' = Append(out, <<pkd[nth].left, pkd[nth].right>>)
          BY <1>9, <2>1, <2>2 DEF PutPair, AsciiPair
    <3>3. Cell(pass, nth) = <<pkd[nth].left, pkd[nth].right>>
          BY <2>1 DEF Cell
    <3>4. QED BY <1>1, <1>6, <2>1, <3>1, <3>2, <3>3 DEF Writes
  <2>3. CASE ~(AsciiPair(pkd[nth]) <=> pass = 2)
    <3>1. nth \notin Of(pass)
          BY <1>5, <2>1, <2>3
    <3>2. out' = out
          BY <1>9, <2>1, <2>3 DEF PutPair, AsciiPair
    <3>3. QED BY <1>1, <1>6, <2>1, <3>1, <3>2 DEF Writes
  <2>4. QED BY <2>2, <2>3
<1>10. CASE PutValue
  <2>1. /\ pass = 4 \/ pass = 5
        /\ Recognized(pkd[nth]) /\ Widen
        /\ Passes[pass] = "asciivals" <=> pass = 4
        BY <1>7, <1>10, PassIs DEF PutValue, InPass
  <2>2. CASE AsciiPair(pkd[nth]) <=> pass = 4
    <3>1. nth \in Of(pass)
          BY <1>5, <2>1, <2>2
    <3>2. out' = Append(out, Wrap(Scaled(pkd[nth]), valsize'))
          BY <1>10, <2>1, <2>2 DEF PutValue, AsciiPair
    <3>3. Cell(pass, nth) = Wrap(Scaled(pkd[nth]), valsize')
          BY <1>4, <1>6, <2>1 DEF Cell
    <3>4. QED BY <1>1, <1>6, <2>1, <3>1, <3>2, <3>3 DEF Writes
  <2>3. CASE ~(AsciiPair(pkd[nth]) <=> pass = 4)
    <3>1. nth \notin Of(pass)
          BY <1>5, <2>1, <2>3
    <3>2. out' = out
          BY <1>10, <2>1, <2>3 DEF PutValue, AsciiPair
    <3>3. QED BY <1>1, <1>6, <2>1, <3>1, <3>2 DEF Writes
  <2>4. QED BY <2>2, <2>3
<1>11. QED BY <1>0, <1>8, <1>9, <1>10

\* The end of a pass, the first of which announces what the others write.
LEMMA EndKeeps == KernInv /\ EndOfPass => KernInv'
<1> SUFFICES ASSUME KernInv, EndOfPass PROVE KernInv'
    OBVIOUS
<1>1. /\ kerned = "running" /\ sorted /\ nth > Len(pkd)
      /\ UNCHANGED <<pkd, sorted, asciipair, glyphpair, valsize, out>>
      BY DEF EndOfPass, Writing
<1>2. KernTypes /\ CountsInv /\ OutInv /\ SortedInv
      BY <1>1 DEF KernInv
<1>3. pass \in 1 .. 5 /\ nth - 1 = Len(pkd) /\ Len(pkd) \in Nat
      BY <1>1, <1>2, KeptIs DEF KernTypes
<1>4. Passes[pass] = "count" <=> pass = 1
      BY <1>3, PassIs
<1>5. Len(Passes) = 5
      BY <1>3, PassIs
<1>6. CASE kerned' = "failed"
  <2>1. pass' = pass /\ nth' = nth
        BY <1>3, <1>4, <1>5, <1>1, <1>6 DEF EndOfPass
  <2>2. KernTypes'
        BY <1>1, <1>2, <1>6, <2>1 DEF KernTypes
  <2>3. QED BY <1>6, <2>2 DEF KernInv
<1>7. CASE kerned' # "failed"
  <2>1. /\ pass' = pass + 1 /\ nth' = 1
        /\ kerned' = IF pass = 5 THEN "done" ELSE kerned
        /\ header' = IF pass = 1 THEN <<asciipair, glyphpair, valsize>> ELSE header
        BY <1>4, <1>5, <1>7 DEF EndOfPass
  <2>2. KernTypes'
    <3>1. pkd' \in Seq(KernPairs) /\ Len(pkd') <= 65535 /\ nth' \in 1 .. Len(pkd') + 1
          BY <1>1, <1>2, <1>3, <2>1 DEF KernTypes
    <3>2. pass' \in 1 .. 6 /\ (kerned' = "running" => pass' <= 5) /\ (kerned' = "done" => pass' = 6)
          BY <1>1, <1>3, <2>1
    <3>3. kerned' \in {"running", "done", "failed"} /\ sorted'
          BY <1>1, <2>1
    <3>4. QED BY <3>1, <3>2, <3>3 DEF KernTypes
  <2>3. SortedInv'
        BY <1>1, <1>2 DEF SortedInv
  <2>4. CountsInv'
    <3>1. header' = <<NumAscii, NumGlyph, Size(Len(pkd))>> /\ valsize = Size(Len(pkd))
      <4>1. CASE pass = 1
        <5>1. /\ asciipair = Rank(AsciiPairs, Len(pkd)) /\ glyphpair = Rank(GlyphPairs, Len(pkd))
              /\ valsize = Size(Len(pkd))
              BY <1>2, <1>3, <4>1 DEF CountsInv
        <5>2. Rank(AsciiPairs, Len(pkd)) = NumAscii /\ Rank(GlyphPairs, Len(pkd)) = NumGlyph
              BY <1>2, KeptIs DEF NumAscii, NumGlyph
        <5>3. QED BY <2>1, <4>1, <5>1, <5>2
      <4>2. CASE pass > 1
            BY <1>2, <2>1, <4>2 DEF CountsInv
      <4>3. QED BY <1>3, <4>1, <4>2
    <3>2. Size(Len(pkd))' = Size(Len(pkd)) /\ NumAscii' = NumAscii /\ NumGlyph' = NumGlyph
          BY <1>1, SamePairs
    <3>3. ~(pass' = 1)
          BY <1>3, <2>1
    <3>4. QED BY <1>1, <3>1, <3>2, <3>3 DEF CountsInv
  <2>5. OutInv'
    <3>1. Len(out) = Base(pass + 1)
      <4>1. CASE pass = 1
        <5>1. Len(out) = Base(pass) + 0 /\ Base(1) = 0 /\ Base(2) = 0
              BY <1>2, <4>1 DEF OutInv, Base
        <5>2. QED BY <4>1, <5>1
      <4>2. CASE pass \in 2 .. 5
        <5>1. Len(out) = Base(pass) + Rank(Of(pass), Len(pkd))
              BY <1>2, <1>3, <4>2 DEF OutInv
        <5>2. Rank(Of(pass), Len(pkd)) = Cardinality(Of(pass))
          <6>1. Of(pass) = AsciiPairs \/ Of(pass) = GlyphPairs
                BY DEF Of
          <6>2. QED BY <1>2, <6>1, KeptIs
        <5>3. Base(pass + 1) = Base(pass) + Cardinality(Of(pass))
              BY <1>2, <4>2, BasesAre
        <5>4. QED BY <5>1, <5>2, <5>3
      <4>3. QED BY <1>3, <4>1, <4>2
    <3>2. pass' \in 2 .. 6 /\ nth' - 1 = 0
          BY <1>3, <2>1
    <3>3. \A p \in 2 .. 6 : Base(p) \in Nat
          BY <1>2, BasesAre
    <3>4. \A p : Base(p)' = Base(p) /\ Of(p)' = Of(p)
          BY <1>1, SamePairs
    <3>5. \A p, i : Cell(p, i)' = Cell(p, i)
          BY <1>1, SamePairs
    <3>6. Base(pass)' = Base(pass + 1)
          BY <1>1, <2>1 DEF Base, NumAscii, NumGlyph, AsciiPairs, GlyphPairs
    <3>7. Rank(Of(pass), nth - 1)' = 0
      <4>1. Of(pass)' = AsciiPairs \/ Of(pass)' = GlyphPairs
            BY <1>1 DEF Of, AsciiPairs, GlyphPairs
      <4>2. Rank(AsciiPairs, 0) = 0 /\ Rank(GlyphPairs, 0) = 0
            BY <1>2, KeptIs
      <4>3. QED BY <3>2, <4>1, <4>2
    <3>8. /\ out' \in Seq(Cells)
          /\ Len(out') = Base(pass)' + (IF pass' \in 2 .. 5 THEN Rank(Of(pass), nth - 1)' ELSE 0)
      <4>1. out' \in Seq(Cells) /\ Len(out') = Base(pass + 1) /\ Base(pass + 1) \in Nat
            BY <1>1, <1>2, <2>1, <3>1, <3>2, <3>3 DEF OutInv
      <4>2. QED BY <3>6, <3>7, <4>1
    <3>9. ASSUME NEW p \in 2 .. 5 PROVE Far(p)' = Far(p)
      <4>1. Far(p)' = IF pass + 1 > p THEN Len(pkd) ELSE 0
            BY <1>1, <2>1, <3>2 DEF Far
      <4>2. QED BY <1>3, <4>1 DEF Far
    <3>10. ASSUME NEW p \in 2 .. 5, NEW i \in Of(p)', i <= Far(p)'
           PROVE  out'[Base(p)' + Rank(Of(p)', i)] = Cell(p, i)'
      <4>1. out[Base(p) + Rank(Of(p), i)] = Cell(p, i)
            BY <1>2, <3>4, <3>9, <3>10 DEF OutInv
      <4>2. QED BY <1>1, <3>4, <3>5, <4>1
    <3>11. QED BY <3>8, <3>10 DEF OutInv
  <2>6. QED BY <2>2, <2>3, <2>4, <2>5 DEF KernInv
<1>8. QED BY <1>6, <1>7

\* Every step of a table keeps the invariant.
LEMMA KernKeeps == KernInv /\ KernNext => KernInv'
<1> SUFFICES ASSUME KernInv, KernNext PROVE KernInv'
    OBVIOUS
<1>1. Sort \/ SkipPair \/ Count \/ PutPair \/ PutValue \/ EndOfPass
      BY DEF KernNext
<1>2. CASE Sort
      BY <1>2, SortKeeps
<1>3. CASE EndOfPass
      BY <1>3, EndKeeps
<1>4. CASE SkipPair \/ Count \/ PutPair \/ PutValue
  <2>1. pass \in 1 .. 5
    <3>1. kerned = "running" /\ KernTypes
          BY <1>4 DEF SkipPair, Count, PutPair, PutValue, InPass, Writing, KernInv
    <3>2. QED BY <3>1 DEF KernTypes
  <2>2. CASE pass = 1
    <3>1. Count \/ SkipPair
      <4>1. ~PutPair /\ ~PutValue
            BY <2>1, <2>2, PassIs DEF PutPair, PutValue, InPass
      <4>2. QED BY <1>4, <4>1
    <3>2. QED BY <2>2, <3>1, CountKeeps
  <2>3. CASE pass \in 2 .. 5
    <3>1. ~Count
      <4>1. ~(Passes[pass] = "count")
            BY <2>1, <2>3, PassIs
      <4>2. QED BY <4>1 DEF Count, InPass
    <3>2. Writes
          BY <1>4, <2>3, <3>1, PassesWrite
    <3>3. QED BY <2>3, <3>2, WriteKeeps
  <2>4. QED BY <2>1, <2>2, <2>3
<1>5. QED BY <1>1, <1>2, <1>3, <1>4

\* A table that is about to be written.
LEMMA KernStarts ==
  ASSUME NEW pairs \in Seq(KernPairs), Len(pairs) <= 65535, KernStart(pairs)
  PROVE  KernInv'
<1>1. /\ pkd' = pairs /\ ~sorted' /\ pass' = 1 /\ nth' = 1
      /\ asciipair' = 0 /\ glyphpair' = 0 /\ valsize' = 1
      /\ out' = <<>> /\ kerned' = "running"
      BY DEF KernStart
<1>2. KernTypes'
  <2>1. Len(pairs) \in Nat
        OBVIOUS
  <2>2. QED BY <1>1, <2>1 DEF KernTypes
<1>3. Rank(AsciiPairs', 0) = 0 /\ Rank(GlyphPairs', 0) = 0
  <2>1. DOMAIN pkd' = 1 .. Len(pairs) /\ Len(pairs) \in Nat
        BY <1>1
  <2>2. \A j \in AsciiPairs' \cup GlyphPairs' : j \in 1 .. Len(pairs)
        BY <2>1 DEF AsciiPairs, GlyphPairs
  <2>3. ASSUME NEW S, \A j \in S : j \in 1 .. Len(pairs) PROVE Rank(S, 0) = 0
        BY <2>1, <2>3, Ranks
  <2>4. QED BY <2>2, <2>3
<1>4. nth' - 1 = 0
      BY <1>1
<1>5. CountsInv'
  <2>1. /\ asciipair' = Rank(AsciiPairs, nth - 1)'
        /\ glyphpair' = Rank(GlyphPairs, nth - 1)'
        BY <1>1, <1>3, <1>4
  <2>2. valsize' = Size(nth - 1)'
        BY <1>1, <1>4 DEF Size
  <2>3. QED BY <1>1, <2>1, <2>2 DEF CountsInv
<1>6. OutInv'
  <2>1. out' \in Seq(Cells) /\ Len(out') = 0 /\ Base(pass)' = 0
        BY <1>1 DEF Base
  <2>2. ASSUME NEW p \in 2 .. 5, NEW i \in Of(p)' PROVE ~(i <= Far(p)')
    <3>1. Far(p)' = 0
          BY <1>1 DEF Far
    <3>2. DOMAIN pkd' = 1 .. Len(pairs) /\ Len(pairs) \in Nat
          BY <1>1
    <3>3. i \in 1 .. Len(pairs)
          BY <3>2 DEF Of, AsciiPairs, GlyphPairs
    <3>4. QED BY <3>1, <3>2, <3>3
  <2>3. QED BY <1>1, <2>1, <2>2 DEF OutInv
<1>7. SortedInv'
      BY <1>1 DEF SortedInv
<1>8. QED BY <1>2, <1>5, <1>6, <1>7 DEF KernInv

-----------------------------------------------------------------------------
(* What the finished table holds: the k-th pair of a kind at its place.    *)
LEMMA NthIs ==
  ASSUME KernTypes, NEW S, S = AsciiPairs \/ S = GlyphPairs, NEW k \in 1 .. Cardinality(S)
  PROVE  /\ Nth(S, k) \in S /\ Rank(S, Nth(S, k)) = k /\ Nth(S, k) \in 1 .. Len(pkd)
<1>1. Len(pkd) \in Nat /\ \A j \in S : j \in 1 .. Len(pkd)
      BY KeptIs
<1>2. \E i \in S : Rank(S, i) = k
      BY <1>1, RanksReach
<1>3. \E i \in S : Cardinality({j \in S : j <= i}) = k
      BY <1>2 DEF Rank
<1>4. Nth(S, k) \in S /\ Cardinality({j \in S : j <= Nth(S, k)}) = k
      BY <1>3 DEF Nth
<1>5. QED BY <1>1, <1>4 DEF Rank

LEMMA DoneHolds ==
  ASSUME KernInv, kerned = "done"
  PROVE  /\ header = <<NumAscii, NumGlyph, Size(Len(pkd))>>
         /\ NumAscii \in Nat /\ NumGlyph \in Nat
         /\ Len(out) = (NumAscii + NumGlyph) + (NumAscii + NumGlyph)
         /\ \A k \in 1 .. NumAscii :
              /\ out[k] = Cell(2, Nth(AsciiPairs, k))
              /\ out[(NumAscii + NumGlyph) + k] = Cell(4, Nth(AsciiPairs, k))
         /\ \A k \in 1 .. NumGlyph :
              /\ out[NumAscii + k] = Cell(3, Nth(GlyphPairs, k))
              /\ out[((NumAscii + NumGlyph) + NumAscii) + k] = Cell(5, Nth(GlyphPairs, k))
<1>1. KernTypes /\ CountsInv /\ OutInv /\ pass = 6
      BY DEF KernInv, KernTypes
<1>2. NumAscii \in Nat /\ NumGlyph \in Nat
      BY <1>1, BasesAre
<1>3. header = <<NumAscii, NumGlyph, Size(Len(pkd))>>
      BY <1>1 DEF CountsInv
<1>4. Len(out) = (NumAscii + NumGlyph) + (NumAscii + NumGlyph)
  <2>1. Len(out) = Base(6) + 0
        BY <1>1 DEF OutInv
  <2>2. Base(6) = (NumAscii + NumGlyph) + (NumAscii + NumGlyph)
        BY DEF Base
  <2> HIDE DEF NumAscii, NumGlyph
  <2>3. QED BY <1>2, <2>1, <2>2
<1>5. ASSUME NEW p \in 2 .. 5, NEW k \in 1 .. Cardinality(Of(p))
      PROVE  out[Base(p) + k] = Cell(p, Nth(Of(p), k))
  <2>1. Of(p) = AsciiPairs \/ Of(p) = GlyphPairs
        BY DEF Of
  <2>2. /\ Nth(Of(p), k) \in Of(p) /\ Rank(Of(p), Nth(Of(p), k)) = k
        /\ Nth(Of(p), k) \in 1 .. Len(pkd)
        BY <1>1, <2>1, NthIs
  <2>3. Far(p) = Len(pkd) /\ Len(pkd) \in Nat
        BY <1>1, KeptIs DEF Far
  <2>4. Nth(Of(p), k) <= Far(p)
        BY <2>2, <2>3
  <2>5. QED BY <1>1, <2>2, <2>4 DEF OutInv
<1>6. /\ Of(2) = AsciiPairs /\ Of(3) = GlyphPairs /\ Of(4) = AsciiPairs /\ Of(5) = GlyphPairs
      /\ Base(2) = 0 /\ Base(3) = NumAscii /\ Base(4) = NumAscii + NumGlyph
      /\ Base(5) = (NumAscii + NumGlyph) + NumAscii
      BY DEF Of, Base
<1>7. ASSUME NEW k \in 1 .. NumAscii
      PROVE  /\ out[k] = Cell(2, Nth(AsciiPairs, k))
             /\ out[(NumAscii + NumGlyph) + k] = Cell(4, Nth(AsciiPairs, k))
  <2>1. k \in 1 .. Cardinality(Of(2)) /\ k \in 1 .. Cardinality(Of(4))
        BY <1>6 DEF NumAscii
  <2>2. out[Base(2) + k] = Cell(2, Nth(Of(2), k)) /\ out[Base(4) + k] = Cell(4, Nth(Of(4), k))
        BY <1>5, <2>1
  <2>3. 0 + k = k
        BY <1>2
  <2>4. QED BY <1>6, <2>2, <2>3
<1>8. ASSUME NEW k \in 1 .. NumGlyph
      PROVE  /\ out[NumAscii + k] = Cell(3, Nth(GlyphPairs, k))
             /\ out[((NumAscii + NumGlyph) + NumAscii) + k] = Cell(5, Nth(GlyphPairs, k))
  <2>1. k \in 1 .. Cardinality(Of(3)) /\ k \in 1 .. Cardinality(Of(5))
        BY <1>6 DEF NumGlyph
  <2>2. out[Base(3) + k] = Cell(3, Nth(Of(3), k)) /\ out[Base(5) + k] = Cell(5, Nth(Of(5), k))
        BY <1>5, <2>1
  <2>3. QED BY <1>6, <2>2
<1>9. QED BY <1>2, <1>3, <1>4, <1>7, <1>8

\* The width holds the value of every known pair.
LEMMA WidthHolds ==
  ASSUME KernTypes, NEW i \in AsciiPairs \cup GlyphPairs
  PROVE  Signed(Wrap(Scaled(pkd[i]), Size(Len(pkd))), Size(Len(pkd))) = Scaled(pkd[i])
<1> DEFINE v == Scaled(pkd[i])
           z == Size(Len(pkd))
<1>1. i \in 1 .. Len(pkd) /\ Recognized(pkd[i])
      BY DEF AsciiPairs, GlyphPairs, KernTypes
<1>2. v \in Int /\ -32768 <= v /\ v <= 32767
  <2>1. pkd[i] \in KernPairs
        BY <1>1 DEF KernTypes
  <2>2. pkd[i].xamt \in Int /\ -32768 <= v /\ v <= 32767
        BY <2>1 DEF KernPairs
  <2>3. v \in Int
        BY <2>2 DEF Scaled
  <2>4. QED BY <2>2, <2>3
<1>3. z = 2 \/ (z = 1 /\ -128 <= v /\ v <= 127)
  <2>1. z \in {1, 2} /\ (~FitsByte(v) => z = 2)
        BY <1>1, SizeIs
  <2>2. FitsByte(v) => -128 <= v /\ v <= 127
        BY DEF FitsByte
  <2> HIDE DEF v, z
  <2>3. QED BY <2>1, <2>2
<1> HIDE DEF v, z
<1>4. CASE z = 2
  <2>1. (((v % 65536) + 32768) % 65536) - 32768 = v
        BY <1>2
  <2>2. QED BY <1>4, <2>1 DEF Signed, Wrap, v, z
<1>5. CASE z = 1 /\ -128 <= v /\ v <= 127
  <2>1. (((v % 256) + 128) % 256) - 128 = v
        BY <1>2, <1>5
  <2>2. QED BY <1>5, <2>1 DEF Signed, Wrap, v, z
<1>6. QED BY <1>3, <1>4, <1>5

LEMMA FirstNumbers ==
  ASSUME NEW n \in Nat, NEW D, NEW s, s = [k \in 1 .. n |-> s[k]], \A k \in 1 .. n : s[k] \in D
  PROVE  s \in Seq(D) /\ Len(s) = n
<1>1. s \in [1 .. n -> D]
      OBVIOUS
<1>2. QED BY <1>1

\* An element of a sequence is replaced.
LEMMA SeqExcept ==
  ASSUME NEW D, NEW s \in Seq(D), NEW k, NEW d \in D
  PROVE  [s EXCEPT ![k] = d] \in Seq(D) /\ Len([s EXCEPT ![k] = d]) = Len(s)
<1>1. s \in [1 .. Len(s) -> D] /\ Len(s) \in Nat
      OBVIOUS
<1>2. [s EXCEPT ![k] = d] \in [1 .. Len(s) -> D]
      BY <1>1
<1>3. QED BY <1>1, <1>2

\* One function on the first numbers behind another.
IsJoin(f, s, m, t, n) ==
  /\ s = [k \in 1 .. m |-> s[k]] /\ t = [k \in 1 .. n |-> t[k]]
  /\ f = [k \in 1 .. m + n |-> f[k]]
  /\ \A k \in 1 .. m + n : f[k] = IF k <= m THEN s[k] ELSE t[k - m]

LEMMA JoinOfTwo ==
  ASSUME NEW m \in Nat, NEW n \in Nat, NEW s, NEW t, NEW f, IsJoin(f, s, m, t, n)
  PROVE  s \o t = f
<1> DEFINE D == {s[k] : k \in 1 .. m} \cup {t[k] : k \in 1 .. n}
<1>0. /\ s = [k \in 1 .. m |-> s[k]] /\ t = [k \in 1 .. n |-> t[k]]
      /\ f = [k \in 1 .. m + n |-> f[k]]
      /\ \A k \in 1 .. m + n : f[k] = IF k <= m THEN s[k] ELSE t[k - m]
      BY DEF IsJoin
<1>1. (\A k \in 1 .. m : s[k] \in D) /\ (\A k \in 1 .. n : t[k] \in D)
      OBVIOUS
<1> HIDE DEF D
<1>2. s \in Seq(D) /\ Len(s) = m
      BY <1>0, <1>1, FirstNumbers
<1>3. t \in Seq(D) /\ Len(t) = n
      BY <1>0, <1>1, FirstNumbers
<1>4. s \o t \in Seq(D) /\ Len(s \o t) = m + n
      BY <1>2, <1>3
<1>5. \A k \in 1 .. m + n : (s \o t)[k] = IF k <= m THEN s[k] ELSE t[k - m]
      BY <1>2, <1>3
<1>6. s \o t = [k \in 1 .. m + n |-> (s \o t)[k]]
  <2>1. \A u \in Seq(D) : u = [k \in 1 .. Len(u) |-> u[k]]
        OBVIOUS
  <2>2. QED BY <1>4, <2>1
<1>7. \A k \in 1 .. m + n : f[k] = (s \o t)[k]
      BY <1>0, <1>5
<1>8. QED BY <1>0, <1>6, <1>7

LEMMA ReadsBack == KernInv => TableReadsBack
<1> SUFFICES ASSUME KernInv, kerned = "done"
             PROVE  /\ Len(out) = 2 * (header[1] + header[2])
                    /\ ReadTable(header, out) = Kept(AsciiPairs) \o Kept(GlyphPairs)
    BY DEF TableReadsBack
<1> DEFINE n == NumAscii + NumGlyph
           z == Size(Len(pkd))
           Shown(i) == [left |-> pkd[i].left, right |-> pkd[i].right, value |-> Scaled(pkd[i])]
           At(k) == [left |-> out[k][1], right |-> out[k][2], value |-> Signed(out[n + k], z)]
<1>1. KernTypes
      BY DEF KernInv
<1>2. /\ header = <<NumAscii, NumGlyph, z>>
      /\ NumAscii \in Nat /\ NumGlyph \in Nat /\ n \in Nat
      /\ Len(out) = n + n
      BY DoneHolds
<1>3. header[1] = NumAscii /\ header[2] = NumGlyph /\ header[3] = z
      BY <1>2
<1>4. ReadTable(header, out) = [k \in 1 .. n |-> At(k)]
      BY <1>3 DEF ReadTable
<1>5. /\ Kept(AsciiPairs) = [k \in 1 .. NumAscii |-> Shown(Nth(AsciiPairs, k))]
      /\ Kept(GlyphPairs) = [k \in 1 .. NumGlyph |-> Shown(Nth(GlyphPairs, k))]
      BY DEF Kept, NumAscii, NumGlyph
<1>6. ASSUME NEW i \in AsciiPairs \cup GlyphPairs, NEW k, NEW p \in 2 .. 3,
             out[k] = Cell(p, i), out[n + k] = Cell(p + 2, i)
      PROVE  At(k) = Shown(i)
  <2>1. Cell(p, i) = <<pkd[i].left, pkd[i].right>> /\ Cell(p + 2, i) = Wrap(Scaled(pkd[i]), z)
        BY DEF Cell
  <2>2. out[k][1] = pkd[i].left /\ out[k][2] = pkd[i].right
        BY <1>6, <2>1
  <2>3. Signed(out[n + k], z) = Scaled(pkd[i])
        BY <1>1, <1>6, <2>1, WidthHolds
  <2>4. QED BY <2>2, <2>3
<1>7. ASSUME NEW k \in 1 .. NumAscii PROVE At(k) = Shown(Nth(AsciiPairs, k))
  <2>1. out[k] = Cell(2, Nth(AsciiPairs, k)) /\ out[n + k] = Cell(2 + 2, Nth(AsciiPairs, k))
        BY <1>7, DoneHolds
  <2>2. Nth(AsciiPairs, k) \in AsciiPairs
        BY <1>1, <1>7, NthIs DEF NumAscii
  <2> HIDE DEF At, Shown, n
  <2>3. QED BY <1>6, <2>1, <2>2
<1>8. ASSUME NEW k \in 1 .. NumGlyph PROVE At(NumAscii + k) = Shown(Nth(GlyphPairs, k))
  <2>1. n + (NumAscii + k) = (n + NumAscii) + k
        BY <1>2
  <2>2. /\ out[NumAscii + k] = Cell(3, Nth(GlyphPairs, k))
        /\ out[n + (NumAscii + k)] = Cell(3 + 2, Nth(GlyphPairs, k))
        BY <1>8, <2>1, DoneHolds
  <2>3. Nth(GlyphPairs, k) \in GlyphPairs
        BY <1>1, <1>8, NthIs DEF NumGlyph
  <2> HIDE DEF At, Shown, n
  <2>4. QED BY <1>6, <2>2, <2>3
<1>9. Kept(AsciiPairs) \o Kept(GlyphPairs) = [k \in 1 .. n |-> At(k)]
  <2> DEFINE s == [k \in 1 .. NumAscii |-> Shown(Nth(AsciiPairs, k))]
             t == [k \in 1 .. NumGlyph |-> Shown(Nth(GlyphPairs, k))]
             f == [k \in 1 .. n |-> At(k)]
  <2> HIDE DEF At, Shown
  <2>1. s = [k \in 1 .. NumAscii |-> s[k]] /\ t = [k \in 1 .. NumGlyph |-> t[k]]
        OBVIOUS
  <2>2. \A k \in 1 .. NumAscii : s[k] = At(k)
        BY <1>7
  <2>3. \A k \in 1 .. NumGlyph : t[k] = At(NumAscii + k)
        BY <1>8
  <2> HIDE DEF s, t
  <2>4. f = [k \in 1 .. NumAscii + NumGlyph |-> f[k]] /\ \A k \in 1 .. n : f[k] = At(k)
        OBVIOUS
  <2> HIDE DEF f
  <2>5. \A k \in 1 .. NumAscii + NumGlyph : f[k] = IF k <= NumAscii THEN s[k] ELSE t[k - NumAscii]
    <3> TAKE k \in 1 .. NumAscii + NumGlyph
    <3>1. CASE k <= NumAscii
      <4>1. k \in 1 .. NumAscii
            BY <1>2, <3>1
      <4>2. QED BY <2>2, <2>4, <3>1, <4>1
    <3>2. CASE ~(k <= NumAscii)
      <4>1. k - NumAscii \in 1 .. NumGlyph /\ NumAscii + (k - NumAscii) = k
            BY <1>2, <3>2
      <4>2. QED BY <2>3, <2>4, <3>2, <4>1
    <3>3. QED BY <3>1, <3>2
  <2>6. s \o t = f
    <3>1. NumAscii \in Nat /\ NumGlyph \in Nat
          BY <1>2
    <3>2. IsJoin(f, s, NumAscii, t, NumGlyph)
          BY <2>1, <2>4, <2>5 DEF IsJoin
    <3>3. QED BY <3>1, <3>2, JoinOfTwo
  <2>7. QED BY <1>5, <2>6 DEF s, t, f
<1>10. Len(out) = 2 * (header[1] + header[2])
       BY <1>2, <1>3
<1>11. QED BY <1>4, <1>9, <1>10

LEMMA SortedTable == KernInv => TableIsSorted
<1> SUFFICES ASSUME KernInv, kerned = "done",
                    NEW j \in 1 .. header[1] + header[2], NEW k \in 1 .. header[1] + header[2],
                    j < k, k <= header[1] \/ j > header[1]
             PROVE  ~Before([left |-> out[k][1], right |-> out[k][2]],
                            [left |-> out[j][1], right |-> out[j][2]])
    BY DEF TableIsSorted
<1>1. KernTypes /\ \A a, b \in DOMAIN pkd : a < b => ~Before(pkd[b], pkd[a])
      BY DEF KernInv, KernTypes, SortedInv
<1>2. header[1] = NumAscii /\ header[2] = NumGlyph /\ NumAscii \in Nat /\ NumGlyph \in Nat
      BY DoneHolds
<1>3. DOMAIN pkd = 1 .. Len(pkd) /\ Len(pkd) \in Nat
      BY <1>1 DEF KernTypes
<1>4. ASSUME NEW S, S = AsciiPairs \/ S = GlyphPairs, NEW p \in 2 .. 3,
             NEW x \in 1 .. Cardinality(S), NEW y \in 1 .. Cardinality(S), x < y,
             out[j] = Cell(p, Nth(S, x)), out[k] = Cell(p, Nth(S, y))
      PROVE  ~Before([left |-> out[k][1], right |-> out[k][2]],
                     [left |-> out[j][1], right |-> out[j][2]])
  <2> DEFINE a == Nth(S, x)
             b == Nth(S, y)
  <2>1. /\ a \in S /\ Rank(S, a) = x /\ a \in 1 .. Len(pkd)
        /\ b \in S /\ Rank(S, b) = y /\ b \in 1 .. Len(pkd)
        BY <1>1, <1>4, NthIs
  <2>2. out[j] = <<pkd[a].left, pkd[a].right>> /\ out[k] = <<pkd[b].left, pkd[b].right>>
        BY <1>4 DEF Cell
  <2> HIDE DEF a, b
  <2>3. a < b
    <3>1. SUFFICES ASSUME ~(a < b) PROVE FALSE
          OBVIOUS
    <3>2. b <= a /\ a \in 0 .. Len(pkd) /\ b \in 0 .. Len(pkd)
          BY <1>3, <2>1, <3>1
    <3>3. \A i \in S : i \in 1 .. Len(pkd)
          BY <1>1, <1>4, KeptIs
    <3>4. Rank(S, b) <= Rank(S, a)
          BY <1>3, <3>2, <3>3, RanksGrow
    <3>5. x \in Int /\ y \in Int /\ y <= x
          BY <2>1, <3>4
    <3>6. QED BY <1>4, <3>5
  <2>4. ~Before(pkd[b], pkd[a])
        BY <1>1, <1>3, <2>1, <2>3
  <2>5. QED BY <2>2, <2>4 DEF Before
<1>5. CASE k <= NumAscii
  <2>1. j \in 1 .. NumAscii /\ k \in 1 .. NumAscii
        BY <1>2, <1>5
  <2>2. out[j] = Cell(2, Nth(AsciiPairs, j)) /\ out[k] = Cell(2, Nth(AsciiPairs, k))
        BY <2>1, DoneHolds
  <2>3. QED BY <1>4, <2>1, <2>2 DEF NumAscii
<1>6. CASE j > NumAscii
  <2> DEFINE x == j - NumAscii
             y == k - NumAscii
  <2>1. x \in 1 .. NumGlyph /\ y \in 1 .. NumGlyph /\ x < y /\ NumAscii + x = j /\ NumAscii + y = k
        BY <1>2, <1>6
  <2> HIDE DEF x, y
  <2>2. out[j] = Cell(3, Nth(GlyphPairs, x)) /\ out[k] = Cell(3, Nth(GlyphPairs, y))
        BY <2>1, DoneHolds
  <2>3. QED BY <1>4, <2>1, <2>2 DEF NumGlyph
<1>7. QED BY <1>2, <1>5, <1>6

-----------------------------------------------------------------------------
(* What a table is made of: the pairs of a font, whose file fits.          *)

Files     == UNION {Range(job.files) : job \in Jobs}
PairsOf(e) == {e[i].val : i \in {j \in DOMAIN e : e[j].key = "KPX"}}
FilePairs == {NoPair} \cup UNION {PairsOf(e) : e \in Files}

FontInv ==
  /\ file = <<>> \/ file \in Files
  /\ queue \in Seq(Files)
  /\ at \in Nat \ {0}
  /\ "pairs" \in DOMAIN fi
  /\ fi.pairs \in Seq(FilePairs) /\ Len(fi.pairs) <= 65535

LEMMA FilesAre ==
  ASSUME PairsFit
  PROVE  /\ \A e \in Files : /\ e \in Seq(Range(e))
                             /\ \A i \in DOMAIN e : e[i].key = "StartKernPairs" =>
                                    e[i].val \in Nat /\ e[i].val <= 65535
         /\ \A p \in FilePairs : /\ p.xamt \in Int
                                 /\ -32768 <= Scaled(p) /\ Scaled(p) <= 32767
<1>1. ASSUME NEW e \in Files
      PROVE  /\ e \in Seq(Range(e))
             /\ \A i \in DOMAIN e :
                  /\ e[i].key = "StartKernPairs" => e[i].val \in Nat /\ e[i].val <= 65535
                  /\ e[i].key = "KPX" => /\ e[i].val.xamt \in Int
                                         /\ -32768 <= Scaled(e[i].val) /\ Scaled(e[i].val) <= 32767
  <2>1. PICK job \in Jobs : e \in Range(job.files)
        BY DEF Files
  <2>2. e \in Seq(Range(e))
        BY <2>1, AddAllAssumption DEF AddAllAssumption
  <2>3. \A i \in DOMAIN e :
          /\ e[i].key = "StartKernPairs" => e[i].val <= 65535
          /\ e[i].key = "KPX" => /\ e[i].val.xamt \in Int
                                 /\ -32768 <= Scaled(e[i].val) /\ Scaled(e[i].val) <= 32767
        BY <2>1 DEF PairsFit
  <2>4. \A i \in DOMAIN e : e[i].key = "StartKernPairs" => e[i].val \in Nat
        BY <2>1, AddAllAssumption DEF AddAllAssumption
  <2>5. QED BY <2>2, <2>3, <2>4
<1>2. NoPair.xamt \in Int /\ -32768 <= Scaled(NoPair) /\ Scaled(NoPair) <= 32767
  <2>1. NoPair.xamt = 0
        BY DEF NoPair
  <2>2. Scaled(NoPair) = (0 * 12) \div 100
        BY <2>1 DEF Scaled
  <2>3. Scaled(NoPair) = 0
        BY <2>2
  <2>4. QED BY <2>1, <2>3
<1>3. ASSUME NEW p \in FilePairs
      PROVE  p.xamt \in Int /\ -32768 <= Scaled(p) /\ Scaled(p) <= 32767
  <2>1. CASE p = NoPair
        BY <1>2, <2>1
  <2>2. CASE p # NoPair
    <3>1. PICK e \in Files : p \in PairsOf(e)
          BY <2>2 DEF FilePairs
    <3>2. PICK i \in DOMAIN e : e[i].key = "KPX" /\ p = e[i].val
          BY <3>1 DEF PairsOf
    <3>3. QED BY <1>1, <3>1, <3>2
  <2>3. QED BY <2>1, <2>2
<1>4. QED BY <1>1, <1>3

\* A character's number is one.
LEMMA CharIs == \A glyph : GlyphToChar(glyph) \in Nat
<1> TAKE glyph
<1> DEFINE found == {p \in Positions : CharToGlyph(p[1], p[2]) = glyph}
           S == {p[1] * 256 + p[2] : p \in found}
<1>1. \A p \in Positions : p[1] * 256 + p[2] \in Nat
  <2> TAKE p \in Positions
  <2>1. PICK i \in DOMAIN CharmapLines : p = <<CharmapLines[i][2], CharmapLines[i][3]>>
        BY DEF Positions
  <2>2. CharmapLines[i][2] \in 0 .. NumSets - 1 /\ CharmapLines[i][3] \in 0 .. 254 /\ NumSets \in Nat
        BY FontTablesAssumption DEF FontTablesAssumption, Sets
  <2>3. p[1] = CharmapLines[i][2] /\ p[2] = CharmapLines[i][3]
        BY <2>1
  <2>4. p[1] \in Nat /\ p[2] \in Nat
        BY <2>2, <2>3
  <2>5. QED BY <2>4
<1>2. \A x \in S : x \in Nat
      BY <1>1
<1>3. ASSUME found # {} PROVE Min(S) \in Nat
  <2>1. S # {}
        BY <1>3
  <2> HIDE DEF S
  <2>2. \E x \in S : \A y \in S : x <= y
        BY <1>2, <2>1, LeastOf
  <2>3. QED BY <1>2, <2>2 DEF Min
<1>4. GlyphToChar(glyph) = IF found = {} THEN 0 ELSE Min(S)
      BY DEF GlyphToChar
<1> HIDE DEF S, found
<1>5. QED BY <1>3, <1>4

\* The pairs that the passes see.
LEMMA PairsAre ==
  ASSUME PairsFit, FontInv
  PROVE  WpPairs(fi) \in Seq(KernPairs) /\ Len(WpPairs(fi)) <= 65535
<1> DEFINE n == Len(fi.pairs)
           W(i) == [left |-> GlyphToChar(fi.pairs[i].left), right |-> GlyphToChar(fi.pairs[i].right),
                    xamt |-> fi.pairs[i].xamt]
<1>1. n \in Nat /\ n <= 65535 /\ DOMAIN fi.pairs = 1 .. n /\ \A i \in 1 .. n : fi.pairs[i] \in FilePairs
      BY DEF FontInv
<1>2. ASSUME NEW i \in 1 .. n PROVE W(i) \in KernPairs
  <2>1. /\ fi.pairs[i].xamt \in Int
        /\ -32768 <= Scaled(fi.pairs[i]) /\ Scaled(fi.pairs[i]) <= 32767
        BY <1>1, FilesAre
  <2>2. W(i) \in [left : Nat, right : Nat, xamt : Int] /\ W(i).xamt = fi.pairs[i].xamt
        BY <2>1, CharIs
  <2>3. Scaled(W(i)) = Scaled(fi.pairs[i])
        BY <2>2 DEF Scaled
  <2> HIDE DEF W
  <2>4. QED BY <2>1, <2>2, <2>3 DEF KernPairs
<1>3. WpPairs(fi) = [i \in 1 .. n |-> W(i)]
      BY <1>1 DEF WpPairs
<1> HIDE DEF n, W
<1>4. WpPairs(fi) \in Seq(KernPairs) /\ Len(WpPairs(fi)) = n
      BY <1>1, <1>2, <1>3, FirstNumbers
<1>5. QED BY <1>1, <1>4

-----------------------------------------------------------------------------
(* The parser keeps the pairs of the file, and no more than it announces.  *)

LEMMA FontSame ==
  ASSUME FontInv, file' = file, queue' = queue, at' = at \/ at' = at + 1,
         "pairs" \in DOMAIN fi', fi'.pairs = fi.pairs
  PROVE  FontInv'
<1>1. at' \in Nat \ {0}
      BY DEF FontInv
<1>2. QED BY <1>1 DEF FontInv

LEMMA AfmKeeps ==
  ASSUME PairsFit, FontInv, AfmNext, queue' = queue
  PROVE  FontInv'
<1>1. "pairs" \in DOMAIN fi
      BY DEF FontInv
<1>2. CASE EndCharMetrics \/ EndKernPairs \/ EndSkipped \/ Skip \/ StartSkipped
           \/ KernData \/ Comment \/ Unexpected \/ EndFontMetrics \/ CharCode
  <2>1. file' = file /\ at' = at + 1 /\ fi' = fi
    <3>1. CASE EndCharMetrics \/ EndKernPairs \/ EndSkipped \/ Skip \/ StartSkipped
          BY <3>1 DEF EndCharMetrics, EndKernPairs, EndSkipped, Skip, StartSkipped, Consume
    <3>2. CASE KernData \/ Comment \/ EndFontMetrics \/ CharCode
          BY <3>2 DEF KernData, Comment, EndFontMetrics, CharCode, Consume
    <3>3. CASE Unexpected
          BY <3>3 DEF Unexpected, Misplaced, Consume
    <3>4. QED BY <1>2, <3>1, <3>2, <3>3
  <2>2. QED BY <1>1, <2>1, FontSame
<1>3. CASE EndOfFile
      BY <1>1, <1>3, FontSame DEF EndOfFile
<1>4. CASE Global
  <2>1. /\ file' = file /\ at' = at + 1 /\ file[at].key \in GlobalKeys
        /\ fi' = [fi EXCEPT ![GlobalField[file[at].key]] = file[at].val]
        BY <1>4 DEF Global, Consume
  <2>2. \A k \in GlobalKeys : GlobalField[k] # "pairs"
        BY DEF GlobalKeys, GlobalField
  <2>3. "pairs" \in DOMAIN fi' /\ fi'["pairs"] = fi["pairs"]
        BY <1>1, <2>1, <2>2
  <2>4. QED BY <2>1, <2>3, FontSame
<1>5. CASE StartCharMetrics \/ CharWidth \/ CharName
  <2>1. /\ file' = file /\ at' = at + 1
        /\ \E v : fi' = [fi EXCEPT !.chars = v]
    <3>1. CASE StartCharMetrics
          BY <3>1 DEF StartCharMetrics, Consume
    <3>2. CASE CharWidth
          BY <3>2 DEF CharWidth, Consume
    <3>3. CASE CharName
          BY <3>3 DEF CharName, Consume
    <3>4. QED BY <1>5, <3>1, <3>2, <3>3
  <2>2. "pairs" \in DOMAIN fi' /\ fi'["pairs"] = fi["pairs"]
        BY <1>1, <2>1
  <2>3. QED BY <2>1, <2>2, FontSame
<1>6. ASSUME at <= Len(file) PROVE file \in Files /\ at \in DOMAIN file
  <2>1. file # <<>>
    <3>1. Len(<<>>) = 0 /\ at \in Nat \ {0}
          BY DEF FontInv
    <3>2. QED BY <1>6, <3>1
  <2>2. file \in Files /\ file \in Seq(Range(file)) /\ at \in Nat \ {0}
        BY <2>1, FilesAre DEF FontInv
  <2>3. DOMAIN file = 1 .. Len(file) /\ Len(file) \in Nat
        BY <2>2
  <2>4. QED BY <1>6, <2>2, <2>3
<1>7. CASE KernPair
  <2>1. file' = file /\ at' = at + 1 /\ at <= Len(file) /\ file[at].key = "KPX"
        BY <1>7 DEF KernPair, Consume, Entry
  <2>2. CASE fi' = fi
        BY <1>1, <2>1, <2>2, FontSame
  <2>3. CASE fi' = [fi EXCEPT !.pairs[count + 1] = file[at].val]
    <3>1. file[at].val \in FilePairs
          BY <1>6, <2>1 DEF FilePairs, PairsOf
    <3>2. fi'.pairs = [fi.pairs EXCEPT ![count + 1] = file[at].val] /\ "pairs" \in DOMAIN fi'
          BY <1>1, <2>3
    <3>3. fi.pairs \in Seq(FilePairs)
          BY DEF FontInv
    <3> HIDE DEF FilePairs
    <3>4. [fi.pairs EXCEPT ![count + 1] = file[at].val] \in Seq(FilePairs)
          BY <3>1, <3>3, SeqExcept
    <3>5. Len([fi.pairs EXCEPT ![count + 1] = file[at].val]) = Len(fi.pairs)
          BY <3>1, <3>3, SeqExcept
    <3>6. at' \in Nat \ {0}
          BY <2>1 DEF FontInv
    <3>7. QED BY <2>1, <3>2, <3>4, <3>5, <3>6 DEF FontInv
  <2>4. QED BY <1>7, <2>2, <2>3 DEF KernPair
<1>8. CASE StartKernPairs
  <2>1. /\ file' = file /\ at' = at + 1 /\ at <= Len(file) /\ file[at].key = "StartKernPairs"
        /\ fi' = [fi EXCEPT !.pairs = Blank(file[at].val, NoPair)]
        BY <1>8 DEF StartKernPairs, Consume, Entry
  <2>2. file[at].val \in Nat /\ file[at].val <= 65535
        BY <1>6, <2>1, FilesAre
  <2>3. fi'.pairs = Blank(file[at].val, NoPair) /\ "pairs" \in DOMAIN fi'
        BY <1>1, <2>1
  <2>4. ASSUME NEW n \in Nat PROVE Blank(n, NoPair) \in Seq(FilePairs) /\ Len(Blank(n, NoPair)) = n
    <3>1. NoPair \in FilePairs
          BY DEF FilePairs
    <3> HIDE DEF FilePairs
    <3>2. Blank(n, NoPair) = [i \in 1 .. n |-> NoPair]
          BY DEF Blank
    <3>3. QED BY <3>1, <3>2, FirstNumbers
  <2>5. at' \in Nat \ {0}
        BY <2>1 DEF FontInv
  <2>6. QED BY <2>1, <2>2, <2>3, <2>4, <2>5 DEF FontInv
<1>9. QED BY <1>2, <1>3, <1>4, <1>5, <1>7, <1>8 DEF AfmNext

-----------------------------------------------------------------------------
(* The invariant of the script.                                            *)

LEMMA KernSame == KernInv /\ UNCHANGED kernVars => KernInv'
<1> SUFFICES ASSUME KernInv, UNCHANGED kernVars PROVE KernInv'
    OBVIOUS
<1>1. UNCHANGED <<pkd, sorted, pass, nth, asciipair, glyphpair, valsize, out, header, kerned>>
      BY DEF kernVars
<1>2. KernTypes'
      BY <1>1 DEF KernInv, KernTypes
<1>3. CASE kerned = "failed"
      BY <1>1, <1>2, <1>3 DEF KernInv
<1>4. CASE kerned # "failed"
  <2>1. CountsInv /\ OutInv /\ SortedInv
        BY <1>4 DEF KernInv
  <2>2. CountsInv'
        BY <1>1, <2>1 DEF CountsInv, Size, NumAscii, NumGlyph, AsciiPairs, GlyphPairs
  <2>3. OutInv'
    <3>1. /\ \A p : Base(p)' = Base(p) /\ Of(p)' = Of(p)
          /\ \A p, i : Cell(p, i)' = Cell(p, i)
          BY <1>1, SamePairs
    <3>2. \A p : Far(p)' = Far(p)
          BY <1>1 DEF Far
    <3>3. Base(pass)' = Base(pass) /\ Of(pass)' = Of(pass)
          BY <1>1 DEF Base, Of, NumAscii, NumGlyph, AsciiPairs, GlyphPairs
    <3>4. out' \in Seq(Cells) /\ out' = out /\ pass' = pass /\ nth' = nth
          BY <1>1, <2>1 DEF OutInv
    <3>5. Len(out') = Base(pass)' + (IF pass' \in 2 .. 5 THEN Rank(Of(pass)', nth' - 1) ELSE 0)
          BY <2>1, <3>3, <3>4 DEF OutInv
    <3>6. \A p \in 2 .. 5 : \A i \in Of(p)' :
             i <= Far(p)' => out'[Base(p)' + Rank(Of(p)', i)] = Cell(p, i)'
          BY <2>1, <3>1, <3>2, <3>4 DEF OutInv
    <3>7. QED BY <3>4, <3>5, <3>6 DEF OutInv
  <2>4. SortedInv'
        BY <1>1, <2>1 DEF SortedInv
  <2>5. QED BY <1>2, <2>2, <2>3, <2>4 DEF KernInv
<1>5. QED BY <1>3, <1>4

TablesInv == FontInv /\ KernInv

LEMMA TablesInit == Init => TablesInv
<1> SUFFICES ASSUME Init PROVE TablesInv
    OBVIOUS
<1>1. PICK job \in Jobs : queue = job.files
      BY DEF Init
<1>2. queue \in Seq(Files)
  <2>1. job.files \in Seq(Range(job.files))
        BY AddAllAssumption DEF AddAllAssumption
  <2>2. \A x \in Range(job.files) : x \in Files
        BY DEF Files
  <2>3. Len(queue) \in Nat /\ queue = [k \in 1 .. Len(queue) |-> queue[k]]
        /\ \A k \in 1 .. Len(queue) : queue[k] \in Range(job.files)
        BY <1>1, <2>1
  <2>4. QED BY <2>2, <2>3, FirstNumbers
<1>3. FontInv
  <2>1. file = <<>> /\ at = 1 /\ fi = NoFont
        BY DEF Init, AfmStart
  <2>2. "pairs" \in DOMAIN NoFont /\ NoFont.pairs = <<>>
        BY DEF NoFont
  <2>3. QED BY <1>2, <2>1, <2>2 DEF FontInv
<1>4. KernInv
      BY DEF Init, KernIdle, KernInv, KernTypes
<1>5. QED BY <1>3, <1>4 DEF TablesInv

LEMMA TablesStep ==
  ASSUME PairsFit, TablesInv, [Next]_vars
  PROVE  TablesInv'
<1>1. FontInv /\ KernInv
      BY DEF TablesInv
<1>2. CASE NextFile
  <2>1. UNCHANGED kernVars /\ queue # <<>> /\ queue' = Tail(queue) /\ queue \in Seq(Files)
        BY <1>1, <1>2 DEF NextFile, FontInv
  <2>2. Tail(queue) \in Seq(Files) /\ Head(queue) \in Files
        BY <2>1
  <2>3. CASE AfmRestart(Head(queue))
    <3>1. file' = Head(queue) /\ at' = 1 /\ fi' = NoFont
          BY <2>3 DEF AfmRestart
    <3>2. "pairs" \in DOMAIN NoFont /\ NoFont.pairs = <<>>
          BY DEF NoFont
    <3>3. FontInv'
          BY <2>1, <2>2, <3>1, <3>2 DEF FontInv
    <3>4. QED BY <1>1, <2>1, <3>3, KernSame DEF TablesInv
  <2>4. CASE UNCHANGED afmVars
    <3>1. file' = file /\ at' = at /\ fi' = fi
          BY <2>4 DEF afmVars
    <3>2. FontInv'
          BY <1>1, <2>1, <2>2, <3>1 DEF FontInv
    <3>3. QED BY <1>1, <2>1, <3>2, KernSame DEF TablesInv
  <2>5. QED BY <1>2, <2>3, <2>4 DEF NextFile
<1>3. CASE Parse
  <2>1. UNCHANGED kernVars /\ queue' = queue /\ AfmNext
        BY <1>3 DEF Parse
  <2>2. QED BY <1>1, <2>1, AfmKeeps, KernSame DEF TablesInv
<1>4. ASSUME UNCHANGED afmVars, queue' = queue PROVE FontInv'
  <2>1. file' = file /\ at' = at /\ fi' = fi
        BY <1>4 DEF afmVars
  <2>2. QED BY <1>1, <1>4, <2>1 DEF FontInv
<1>5. CASE Kerning
  <2>1. UNCHANGED afmVars /\ queue' = queue /\ KernStart(WpPairs(fi))
        BY <1>5 DEF Kerning
  <2>2. KernInv'
        BY <1>1, <2>1, PairsAre, KernStarts
  <2>3. QED BY <1>4, <2>1, <2>2 DEF TablesInv
<1>6. CASE KerningPass
  <2>1. UNCHANGED afmVars /\ queue' = queue /\ KernNext
        BY <1>6 DEF KerningPass
  <2>2. QED BY <1>1, <1>4, <2>1, KernKeeps DEF TablesInv
<1>7. ASSUME UNCHANGED <<afmVars, kernVars, queue>> PROVE TablesInv'
      BY <1>1, <1>4, <1>7, KernSame DEF TablesInv
<1>8. CASE Done \/ Parsed \/ CharmapFailed \/ CharmapRead \/ KerningFailed \/ ReadCharmap
      BY <1>7, <1>8 DEF Done, Parsed, CharmapFailed, CharmapRead, KerningFailed, ReadCharmap
<1>9. CASE KerningDone \/ Spacing \/ Typeface \/ CharacterMap
      BY <1>7, <1>9 DEF KerningDone, Spacing, Typeface, CharacterMap, Put
<1>10. CASE Aborts \/ Operations \/ CannotCreate \/ MergeFails \/ Merged
      BY <1>7, <1>10 DEF Aborts, Operations, CannotCreate, MergeFails, Merged, Put
<1>11. CASE \E f \in toMerge : Merge(f)
      BY <1>7, <1>11 DEF Merge
<1>12. CASE UNCHANGED vars
      BY <1>7, <1>12 DEF vars
<1>13. QED
       BY <1>2, <1>3, <1>5, <1>6, <1>8, <1>9, <1>10, <1>11, <1>12 DEF Next, Proceed

\* Whatever the pairs of a font are, in whatever order qsort leaves equal ones and
\* whichever of them decides the width: who reads the finished table by its
\* header finds every known pair, each with its own value (kerning.c).
THEOREM TablesReadBack == PairsFit => (Spec => []TableReadsBack)
<1> SUFFICES ASSUME PairsFit PROVE Spec => []TableReadsBack
    OBVIOUS
<1>1. TablesInv /\ [Next]_vars => TablesInv'
      BY TablesStep
<1>2. TablesInv => TableReadsBack
      BY ReadsBack DEF TablesInv
<1>3. QED BY <1>1, <1>2, TablesInit, PTL DEF Spec

\* The pairs of each kind are in ascending order in the finished table, by the
\* right character first, as WordPerfect wants them (kerning.c).
THEOREM TablesAreSorted == PairsFit => (Spec => []TableIsSorted)
<1> SUFFICES ASSUME PairsFit PROVE Spec => []TableIsSorted
    OBVIOUS
<1>1. TablesInv /\ [Next]_vars => TablesInv'
      BY TablesStep
<1>2. TablesInv => TableIsSorted
      BY SortedTable DEF TablesInv
<1>3. QED BY <1>1, <1>2, TablesInit, PTL DEF Spec

-----------------------------------------------------------------------------
(* What parseFile keeps of a file that is in order.                        *)

Vals      == {NULL, 0} \cup UNION {{e[i].val : i \in DOMAIN e} : e \in Files}
FontChars == [name : Vals, wx : Vals]

PairEnds == {"EndKernPairs", "EndKernData"}
Numbers  == Places(file, "C")
Kerns    == Places(file, "KPX")

\* Since its start no end of the list that is skipped has come.
SkipsSince(start, ends) ==
  \E s \in 1 .. at - 1 : file[s].key = start /\ \A k \in s + 1 .. at - 1 : file[k].key \notin ends

ParseTypes ==
  /\ file = <<>> \/ file \in Files
  /\ queue \in Seq(Files)
  /\ at \in Nat \ {0} /\ at <= Len(file) + 1
  /\ section \in {"globals", "metrics", "file", "pairs", "tracks", "composites", "end"}
  /\ count \in Nat /\ code \in {"ok", "parseError"} /\ error \in {"ok", "parseError", "earlyEOF"}
  /\ "chars" \in DOMAIN fi /\ fi.chars \in Seq(FontChars)
  /\ "pairs" \in DOMAIN fi /\ fi.pairs \in Seq(FilePairs)
  /\ section = "metrics" => count <= Len(fi.chars) /\ 1 <= Len(fi.chars)
  /\ section = "tracks" => SkipsSince("StartTrackKern", {"EndTrackKern", "EndKernData"})
  /\ section = "composites" => SkipsSince("StartComposites", {"EndComposites"})
  /\ Places(file, "StartKernPairs") = {} => fi.pairs = <<>>

\* The character that was begun last has no name yet.
Unnamed ==
  \/ at - 1 \in Numbers
  \/ at - 2 \in Numbers /\ file[at - 1].key = "WX"

CharsInv(i, j) ==
  /\ section = "globals" => at <= i
  /\ section = "metrics" =>
        /\ i < at /\ at <= j
        /\ code = "ok" => /\ count = Rank(Numbers, at - 1)
                          /\ \A k \in 1 .. count : fi.chars[k].name # NULL \/ (k = count /\ Unnamed)
  /\ section \notin {"globals", "metrics"} /\ error = "ok" =>
        /\ at > j
        /\ Len(fi.chars) = Cardinality(Numbers)
        /\ \A k \in DOMAIN fi.chars : fi.chars[k].name # NULL
  /\ section = "end" => at > Len(file)

PairsInv(i, j) ==
  /\ section \in {"globals", "metrics"} /\ code = "ok" /\ error = "ok" => at <= i
  /\ section = "pairs" =>
        /\ i < at /\ at <= j
        /\ code = "ok" => /\ count = Rank(Kerns, at - 1)
                          /\ \A k \in 1 .. count : fi.pairs[k] # NoPair
  /\ section \in {"file", "tracks", "composites", "end"} /\ error = "ok" =>
        \/ at <= i
        \/ /\ at > j
           /\ Len(fi.pairs) = Cardinality(Kerns)
           /\ \A k \in DOMAIN fi.pairs : fi.pairs[k] # NoPair

InOrder(i, j) ==
  Filled(file) /\ Places(file, "EndFontMetrics") = {Len(file)} /\ IsCharList(file, i, j)

ParseInv ==
  /\ ParseTypes
  /\ \A i, j : InOrder(i, j) => CharsInv(i, j)
  /\ \A i, j, k, l : InOrder(i, j) /\ IsPairList(file, k, l) => PairsInv(k, l)

-----------------------------------------------------------------------------
\* An entry is passed over, with or without an error, ...
PassedOver ==
  /\ at <= Len(file) /\ at' = at + 1 /\ section' = section /\ section # "end"
  /\ "chars" \in DOMAIN fi' /\ fi'.chars = fi.chars
  /\ "pairs" \in DOMAIN fi' /\ fi'.pairs = fi.pairs
  /\ count' = count /\ error' = error
  /\ code' = code \/ code' = "parseError"
  /\ file[at].key # "EndFontMetrics"
  /\ section = "globals" => /\ file[at].key # "StartCharMetrics"
                            /\ code' = "ok" => file[at].key # "StartKernPairs"
  /\ section = "metrics" => /\ file[at].key # "EndCharMetrics"
                            /\ code' = "ok" => file[at].key = "Comment"
  /\ section = "pairs"   => /\ file[at].key \notin PairEnds
                            /\ code' = "ok" => file[at].key = "Comment"
  /\ section = "file" => file[at].key # "StartKernPairs"
  /\ section = "tracks" => file[at].key \notin {"EndTrackKern", "EndKernData"}
  /\ section = "composites" => file[at].key # "EndComposites"
  /\ fi' = fi \/ Global
  /\ section = "globals" /\ file[at].key \in GlobalKeys => Global
  /\ section = "metrics" => file[at].key \notin {"C", "WX", "N"}
  /\ section = "pairs" => file[at].key # "KPX"

\* ... or the function that reads gives up.
GivenUp ==
  /\ fi' = fi /\ count' = 0 /\ code' = "ok" /\ error' \in Failures
  /\ \/ at <= Len(file) /\ at' = at + 1 /\ section' = "file"
     \/ at > Len(file) /\ at' = at /\ section' = "end"
  /\ section # "end"
  /\ \/ at > Len(file)
     \/ section = "file" /\ file[at].key \notin Expected["file"] \cup {"EndFontMetrics"}
     \/ section = "metrics" /\ file[at].key = "C" /\ ~(count < Len(fi.chars))
     \/ section = "pairs" /\ file[at].key = "KPX" /\ ~(count < Len(fi.pairs))

LEMMA AfmOutcome ==
  ASSUME ParseTypes, AfmNext
  PROVE  /\ file' = file
         /\ \/ PassedOver \/ GivenUp
            \/ StartCharMetrics \/ CharWidth \/ CharName \/ EndCharMetrics
            \/ (CharCode /\ count < Len(fi.chars))
            \/ (KernPair /\ count < Len(fi.pairs))
            \/ EndKernPairs \/ EndSkipped \/ StartKernPairs \/ StartSkipped \/ EndFontMetrics
<1>1. file' = file
  <2>1. CASE Global \/ StartCharMetrics \/ CharCode \/ CharWidth \/ CharName \/ EndCharMetrics
        BY <2>1 DEF Global, StartCharMetrics, CharCode, CharWidth, CharName, EndCharMetrics, Consume
  <2>2. CASE KernPair \/ EndKernPairs \/ EndSkipped \/ Skip \/ StartKernPairs \/ StartSkipped
        BY <2>2 DEF KernPair, EndKernPairs, EndSkipped, Skip, StartKernPairs, StartSkipped, Consume
  <2>3. CASE KernData \/ Comment \/ Unexpected \/ EndFontMetrics \/ EndOfFile
        BY <2>3 DEF KernData, Comment, Unexpected, Misplaced, EndFontMetrics, EndOfFile, Consume
  <2>4. QED BY <2>1, <2>2, <2>3 DEF AfmNext
<1>a. /\ "chars" \in DOMAIN fi /\ "pairs" \in DOMAIN fi
      /\ code \in {"ok", "parseError"}
      BY DEF ParseTypes
<1>b. code' = "ok" /\ (code' = code \/ code' = "parseError") => code = "ok"
      BY <1>a
<1>2. CASE Global
  <2>1. /\ at' = at + 1 /\ file[at].key \in GlobalKeys /\ section = "globals" /\ at <= Len(file)
        /\ fi' = [fi EXCEPT ![GlobalField[file[at].key]] = file[at].val]
        /\ UNCHANGED <<section, count, code, error>>
        BY <1>2 DEF Global, Consume
  <2>2. \A k \in GlobalKeys : GlobalField[k] # "pairs" /\ GlobalField[k] # "chars"
        BY DEF GlobalKeys, GlobalField
  <2>3. \A k \in GlobalKeys : k \notin {"StartCharMetrics", "StartKernPairs", "EndFontMetrics"}
        BY DEF GlobalKeys, GlobalField
  <2>4. /\ "chars" \in DOMAIN fi' /\ fi'["chars"] = fi["chars"]
        /\ "pairs" \in DOMAIN fi' /\ fi'["pairs"] = fi["pairs"]
        BY <1>a, <2>1, <2>2
  <2>5. PassedOver
        BY <1>2, <2>1, <2>3, <2>4 DEF PassedOver
  <2>6. QED BY <1>1, <2>5
<1>3. CASE Skip \/ KernData \/ Comment
  <2>1. PassedOver
    <3>1. CASE Skip
          BY <1>a, <3>1 DEF Skip, PassedOver, Consume, Entry
    <3>2. CASE KernData
          BY <1>a, <3>2 DEF KernData, PassedOver, Consume, Entry
    <3>3. CASE Comment
          BY <1>a, <3>3 DEF Comment, PassedOver, Consume, Entry, PairEnds, GlobalKeys, GlobalField
    <3>4. QED BY <1>3, <3>1, <3>2, <3>3
  <2>2. QED BY <1>1, <2>1
<1>4. CASE Unexpected
  <2>1. /\ at <= Len(file) /\ file[at].key \notin Expected[section] \cup {"EndFontMetrics"}
        /\ section \in {"globals", "metrics", "pairs", "file"}
        BY <1>4 DEF Unexpected
  <2>2. CASE section = "file"
    <3>1. GivenUp
          BY <1>4, <2>1, <2>2 DEF Unexpected, GivenUp, Return, Consume, Failures
    <3>2. QED BY <1>1, <3>1
  <2>3. CASE section # "file"
    <3>1. Misplaced
          BY <1>4, <2>3 DEF Unexpected
    <3>2. /\ section = "globals" => "StartCharMetrics" \in Expected[section]
          /\ section = "metrics" => "EndCharMetrics" \in Expected[section]
          /\ section = "pairs" => "EndKernPairs" \in Expected[section] /\ "EndKernData" \in Expected[section]
          BY DEF Expected
    <3>5. /\ section = "globals" => GlobalKeys \subseteq Expected[section]
          /\ section = "metrics" => {"C", "WX", "N"} \subseteq Expected[section]
          /\ section = "pairs" => "KPX" \in Expected[section]
          BY DEF Expected
    <3>3. PassedOver
          BY <1>a, <2>1, <2>3, <3>1, <3>2, <3>5 DEF Misplaced, PassedOver, Consume, PairEnds
    <3>4. QED BY <1>1, <3>3
  <2>4. QED BY <2>2, <2>3
<1>5. CASE EndOfFile
  <2>1. GivenUp
        BY <1>5 DEF EndOfFile, GivenUp, Return, Failures
  <2>2. QED BY <1>1, <2>1
<1>6. CASE CharCode /\ ~(count < Len(fi.chars))
  <2>1. GivenUp
        BY <1>6 DEF CharCode, GivenUp, Return, Failures, Consume, Entry
  <2>2. QED BY <1>1, <2>1
<1>7. CASE KernPair /\ ~(count < Len(fi.pairs))
  <2>1. GivenUp
        BY <1>7 DEF KernPair, GivenUp, Return, Failures, Consume, Entry
  <2>2. QED BY <1>1, <2>1
<1>8. CASE CharCode
      BY <1>1, <1>6, <1>8
<1>9. CASE KernPair
      BY <1>1, <1>7, <1>9
<1>10. CASE \/ StartCharMetrics \/ CharWidth \/ CharName \/ EndCharMetrics \/ EndKernPairs
            \/ EndSkipped \/ StartKernPairs \/ StartSkipped \/ EndFontMetrics
       BY <1>1, <1>10
<1>11. QED BY <1>2, <1>3, <1>4, <1>5, <1>8, <1>9, <1>10 DEF AfmNext

\* What the next entry is.
LEMMA EntryIs ==
  ASSUME ParseTypes
  PROVE  /\ Len(file) \in Nat /\ DOMAIN file = 1 .. Len(file)
         /\ at <= Len(file) =>
               /\ file \in Files /\ at \in DOMAIN file
               /\ file[at].val \in Vals
               /\ file[at].key = "KPX" => file[at].val \in FilePairs
               /\ file[at].key = "StartCharMetrics" => file[at].val \in Nat \ {0}
               /\ file[at].key = "StartKernPairs" => file[at].val \in Nat
<1>1. CASE file = <<>>
  <2>1. Len(file) = 0 /\ DOMAIN file = 1 .. 0
        BY <1>1
  <2>2. ~(at <= 0)
        BY DEF ParseTypes
  <2>3. QED BY <2>1, <2>2
<1>2. CASE file \in Files
  <2>1. PICK job \in Jobs : file \in Range(job.files)
        BY <1>2 DEF Files
  <2>2. /\ file \in Seq(Range(file))
        /\ \A i \in DOMAIN file :
              /\ file[i].key = "StartCharMetrics" => file[i].val \in Nat \ {0}
              /\ file[i].key = "StartKernPairs" => file[i].val \in Nat
        BY <2>1, AddAllAssumption DEF AddAllAssumption
  <2>3. Len(file) \in Nat /\ DOMAIN file = 1 .. Len(file)
        BY <2>2
  <2>4. ASSUME at <= Len(file)
        PROVE  /\ at \in DOMAIN file
               /\ file[at].val \in Vals
               /\ file[at].key = "KPX" => file[at].val \in FilePairs
    <3>1. at \in DOMAIN file
          BY <2>3, <2>4 DEF ParseTypes
    <3>2. file[at].val \in Vals
          BY <1>2, <3>1 DEF Vals
    <3>3. file[at].key = "KPX" => file[at].val \in FilePairs
          BY <1>2, <3>1 DEF FilePairs, PairsOf
    <3>4. QED BY <3>1, <3>2, <3>3
  <2>5. QED BY <1>2, <2>2, <2>3, <2>4
<1>3. QED BY <1>1, <1>2 DEF ParseTypes

LEMMA BlankIs ==
  ASSUME NEW n \in Nat, NEW D, NEW d \in D
  PROVE  Blank(n, d) \in Seq(D) /\ Len(Blank(n, d)) = n /\ DOMAIN Blank(n, d) = 1 .. n
         /\ \A k \in 1 .. n : Blank(n, d)[k] = d
<1>1. Blank(n, d) = [i \in 1 .. n |-> d]
      BY DEF Blank
<1>2. QED BY <1>1, FirstNumbers

\* A list is still skipped after an entry that is not its end.
LEMMA SkipsOn ==
  ASSUME ParseTypes, NEW start, NEW ends, SkipsSince(start, ends), file' = file, at' = at + 1,
         file[at].key \notin ends
  PROVE  SkipsSince(start, ends)'
<1>1. PICK s \in 1 .. at - 1 : file[s].key = start /\ \A k \in s + 1 .. at - 1 : file[k].key \notin ends
      BY DEF SkipsSince
<1>2. at \in Nat
      BY DEF ParseTypes
<1>3. s \in 1 .. at' - 1 /\ \A k \in s + 1 .. at' - 1 : k \in s + 1 .. at - 1 \/ k = at
      BY <1>2
<1>4. QED BY <1>1, <1>3 DEF SkipsSince

\* A width, or a name, is that of one character and changes nothing else.
LEMMA AttributeIs ==
  ASSUME "chars" \in DOMAIN fi, "pairs" \in DOMAIN fi, fi.chars \in Seq(FontChars),
         Temp \in 1 .. Len(fi.chars), file[at].val \in Vals, CharWidth \/ CharName
  PROVE  /\ "chars" \in DOMAIN fi' /\ fi'.chars \in Seq(FontChars) /\ Len(fi'.chars) = Len(fi.chars)
         /\ "pairs" \in DOMAIN fi' /\ fi'.pairs = fi.pairs
         /\ \A k \in 1 .. Len(fi.chars) :
               fi'.chars[k].name = IF CharName /\ k = Temp THEN file[at].val ELSE fi.chars[k].name
         /\ \A k \in 1 .. Len(fi.chars) : k # Temp => fi'.chars[k] = fi.chars[k]
         /\ fi'.chars[Temp].wx = IF CharWidth THEN file[at].val ELSE fi.chars[Temp].wx
<1> DEFINE c == fi.chars[Temp]
<1>1. c \in FontChars
      OBVIOUS
<1>2. ASSUME NEW d \in FontChars, fi' = [fi EXCEPT !.chars[Temp] = d]
      PROVE  /\ "chars" \in DOMAIN fi' /\ fi'.chars \in Seq(FontChars) /\ Len(fi'.chars) = Len(fi.chars)
             /\ "pairs" \in DOMAIN fi' /\ fi'.pairs = fi.pairs
             /\ \A k \in 1 .. Len(fi.chars) : fi'.chars[k] = IF k = Temp THEN d ELSE fi.chars[k]
  <2>1. /\ "chars" \in DOMAIN fi' /\ fi'.chars = [fi.chars EXCEPT ![Temp] = d]
        /\ "pairs" \in DOMAIN fi' /\ fi'.pairs = fi.pairs
        BY <1>2
  <2>2. /\ [fi.chars EXCEPT ![Temp] = d] \in Seq(FontChars)
        /\ Len([fi.chars EXCEPT ![Temp] = d]) = Len(fi.chars)
        BY SeqExcept
  <2>3. QED BY <2>1, <2>2
<1>3. CASE CharWidth
  <2> DEFINE d == [c EXCEPT !.wx = file[at].val]
  <2>1. d \in FontChars /\ d.name = c.name /\ d.wx = file[at].val
        BY <1>1 DEF FontChars
  <2>2. fi' = [fi EXCEPT !.chars[Temp] = d]
        BY <1>3 DEF CharWidth
  <2>3. ~CharName
        BY <1>3 DEF CharWidth, CharName, Entry
  <2> HIDE DEF d
  <2>4. QED BY <1>2, <1>3, <2>1, <2>2, <2>3
<1>4. CASE CharName
  <2> DEFINE d == [c EXCEPT !.name = file[at].val]
  <2>1. d \in FontChars /\ d.name = file[at].val /\ d.wx = c.wx
        BY <1>1 DEF FontChars
  <2>2. fi' = [fi EXCEPT !.chars[Temp] = d]
        BY <1>4 DEF CharName
  <2>3. ~CharWidth
        BY <1>4 DEF CharWidth, CharName, Entry
  <2> HIDE DEF d
  <2>4. QED BY <1>2, <1>4, <2>1, <2>2, <2>3
<1>5. QED BY <1>3, <1>4

\* What every action of the parser keeps.
LEMMA ParseTypesKeep ==
  ASSUME ParseTypes, AfmNext, queue' = queue
  PROVE  ParseTypes'
<1>1. /\ file = <<>> \/ file \in Files
      /\ queue \in Seq(Files)
      /\ at \in Nat \ {0} /\ at <= Len(file) + 1
      /\ section \in {"globals", "metrics", "file", "pairs", "tracks", "composites", "end"}
      /\ count \in Nat /\ code \in {"ok", "parseError"} /\ error \in {"ok", "parseError", "earlyEOF"}
      /\ "chars" \in DOMAIN fi /\ fi.chars \in Seq(FontChars)
      /\ "pairs" \in DOMAIN fi /\ fi.pairs \in Seq(FilePairs)
      /\ section = "metrics" => count <= Len(fi.chars) /\ 1 <= Len(fi.chars)
      /\ section = "tracks" => SkipsSince("StartTrackKern", {"EndTrackKern", "EndKernData"})
      /\ section = "composites" => SkipsSince("StartComposites", {"EndComposites"})
      /\ Places(file, "StartKernPairs") = {} => fi.pairs = <<>>
      BY DEF ParseTypes
<1>2. file' = file
      BY AfmOutcome
<1>3. Len(file) \in Nat
      BY EntryIs
<1>4. ASSUME at <= Len(file), at' = at + 1 PROVE at' \in Nat \ {0} /\ at' <= Len(file') + 1
      BY <1>1, <1>2, <1>3, <1>4
<1>5. CASE PassedOver
  <2>1. /\ at <= Len(file) /\ at' = at + 1 /\ section' = section
        /\ "chars" \in DOMAIN fi' /\ fi'.chars = fi.chars /\ "pairs" \in DOMAIN fi' /\ fi'.pairs = fi.pairs
        /\ count' = count /\ error' = error /\ code' \in {"ok", "parseError"}
        BY <1>1, <1>5 DEF PassedOver
  <2>2. section' = "tracks" => SkipsSince("StartTrackKern", {"EndTrackKern", "EndKernData"})'
        BY <1>1, <1>2, <1>5, <2>1, SkipsOn DEF PassedOver
  <2>3. section' = "composites" => SkipsSince("StartComposites", {"EndComposites"})'
        BY <1>1, <1>2, <1>5, <2>1, SkipsOn DEF PassedOver
  <2>4. QED BY <1>1, <1>2, <1>4, <2>1, <2>2, <2>3 DEF ParseTypes, Places
<1>6. CASE GivenUp
  <2>1. at' \in Nat \ {0} /\ at' <= Len(file') + 1
        BY <1>1, <1>2, <1>4, <1>6 DEF GivenUp
  <2>2. fi' = fi /\ count' = 0 /\ code' = "ok" /\ error' \in Failures /\ section' \in {"file", "end"}
        BY <1>6 DEF GivenUp
  <2>3. QED BY <1>1, <1>2, <2>1, <2>2 DEF ParseTypes, Failures, Places
<1>7. CASE StartCharMetrics
  <2>1. /\ at <= Len(file) /\ at' = at + 1 /\ section' = "metrics" /\ count' = 0 /\ code' = "ok"
        /\ error' \in {"ok", "parseError", "earlyEOF"}
        /\ fi' = [fi EXCEPT !.chars = Blank(file[at].val, NoChar)] /\ file[at].key = "StartCharMetrics"
        BY <1>1, <1>7 DEF StartCharMetrics, Entry, Consume, Failures
  <2>2. file[at].val \in Nat \ {0}
        BY <2>1, EntryIs
  <2>3. NoChar \in FontChars
        BY DEF NoChar, FontChars, Vals
  <2>4. /\ "chars" \in DOMAIN fi' /\ fi'.chars = Blank(file[at].val, NoChar)
        /\ "pairs" \in DOMAIN fi' /\ fi'.pairs = fi.pairs
        BY <1>1, <2>1
  <2>5. fi'.chars \in Seq(FontChars) /\ 1 <= Len(fi'.chars)
    <3> DEFINE n == file[at].val
               b == Blank(n, NoChar)
    <3>1. n \in Nat /\ 1 <= n
          BY <2>2
    <3> HIDE DEF n
    <3>2. b \in Seq(FontChars) /\ Len(b) = n
          BY <2>3, <3>1, BlankIs
    <3>3. fi'.chars = b
          BY <2>4 DEF n
    <3> HIDE DEF b
    <3>4. QED BY <3>1, <3>2, <3>3
  <2>6. QED BY <1>1, <1>2, <1>4, <2>1, <2>4, <2>5 DEF ParseTypes, Places
<1>8. CASE CharCode /\ count < Len(fi.chars)
  <2>1. /\ at <= Len(file) /\ at' = at + 1 /\ section' = section /\ section = "metrics"
        /\ count' = count + 1 /\ code' = code /\ error' = error /\ fi' = fi
        BY <1>8 DEF CharCode, Entry, Consume
  <2>2. Len(fi.chars) \in Nat
        BY <1>1
  <2>3. count' \in Nat /\ count' <= Len(fi.chars)
        BY <1>1, <1>8, <2>1, <2>2
  <2>4. QED BY <1>1, <1>2, <1>4, <2>1, <2>3 DEF ParseTypes, Places
<1>9. CASE CharWidth \/ CharName
  <2>1. /\ at <= Len(file) /\ at' = at + 1 /\ section' = section /\ section = "metrics"
        /\ count' = count /\ code' = code /\ error' = error
        BY <1>9 DEF CharWidth, CharName, Entry, Consume
  <2>2. Temp \in 1 .. Len(fi.chars)
    <3>1. Len(fi.chars) \in Nat
          BY <1>1
    <3>2. QED BY <1>1, <2>1, <3>1 DEF Temp
  <2>3. file[at].val \in Vals
        BY <2>1, EntryIs
  <2>4. /\ "chars" \in DOMAIN fi' /\ fi'.chars \in Seq(FontChars) /\ Len(fi'.chars) = Len(fi.chars)
        /\ "pairs" \in DOMAIN fi' /\ fi'.pairs = fi.pairs
        BY <1>1, <1>9, <2>2, <2>3, AttributeIs
  <2>5. QED BY <1>1, <1>2, <1>4, <2>1, <2>4 DEF ParseTypes, Places
<1>10. CASE EndCharMetrics \/ EndKernPairs \/ EndSkipped \/ EndFontMetrics
  <2>1. /\ at <= Len(file) /\ at' = at + 1 /\ fi' = fi
        /\ \E c \in {"ok", "parseError", "normalEOF"} : Return(c)
    <3>1. \A n : Counted(n) \in {"ok", "parseError"}
          BY <1>1 DEF Counted
    <3>2. QED BY <1>10, <3>1 DEF EndCharMetrics, EndKernPairs, EndSkipped, EndFontMetrics, Entry, Consume
  <2>2. /\ section' \in {"file", "end"} /\ code' = "ok" /\ count' = 0
        /\ error' \in {"ok", "parseError", "earlyEOF"}
        BY <1>1, <2>1 DEF Return, Failures
  <2>3. QED BY <1>1, <1>2, <1>4, <2>1, <2>2 DEF ParseTypes, Places
<1>11. CASE KernPair /\ count < Len(fi.pairs)
  <2>1. /\ at <= Len(file) /\ at' = at + 1 /\ section' = section /\ section = "pairs"
        /\ count' = count + 1 /\ code' = code /\ error' = error /\ file[at].key = "KPX"
        /\ fi' = [fi EXCEPT !.pairs[count + 1] = file[at].val]
        BY <1>11 DEF KernPair, Entry, Consume
  <2>2. file[at].val \in FilePairs
        BY <2>1, EntryIs
  <2>3. /\ "pairs" \in DOMAIN fi' /\ "chars" \in DOMAIN fi' /\ fi'.chars = fi.chars
        BY <1>1, <2>1
  <2>4. fi'.pairs \in Seq(FilePairs)
    <3>1. [fi.pairs EXCEPT ![count + 1] = file[at].val] \in Seq(FilePairs)
          BY <1>1, <2>2, SeqExcept
    <3>2. fi'.pairs = [fi.pairs EXCEPT ![count + 1] = file[at].val]
          BY <1>1, <2>1
    <3>3. QED BY <3>1, <3>2
  <2>5. Places(file, "StartKernPairs") # {}
        BY <1>1, <1>11
  <2>6. /\ at' \in Nat \ {0} /\ at' <= Len(file') + 1
        /\ section' = "pairs" /\ count' \in Nat /\ code' = code /\ error' = error
        BY <1>1, <1>4, <2>1
  <2>7. QED BY <1>1, <1>2, <2>3, <2>4, <2>5, <2>6 DEF ParseTypes, Places
<1>12. CASE StartKernPairs
  <2>1. /\ at <= Len(file) /\ at' = at + 1 /\ section' = "pairs" /\ count' = 0 /\ code' = "ok"
        /\ error' = error /\ file[at].key = "StartKernPairs"
        /\ fi' = [fi EXCEPT !.pairs = Blank(file[at].val, NoPair)]
        BY <1>12 DEF StartKernPairs, Entry, Consume
  <2>2. file[at].val \in Nat /\ at \in DOMAIN file
        BY <2>1, EntryIs
  <2>3. NoPair \in FilePairs
        BY DEF FilePairs
  <2>4. /\ "pairs" \in DOMAIN fi' /\ fi'.pairs = Blank(file[at].val, NoPair)
        /\ "chars" \in DOMAIN fi' /\ fi'.chars = fi.chars
        BY <1>1, <2>1
  <2>5. fi'.pairs \in Seq(FilePairs)
        BY <2>2, <2>3, <2>4, BlankIs
  <2>6. at \in Places(file, "StartKernPairs")
        BY <2>1, <2>2 DEF Places
  <2>7. QED BY <1>1, <1>2, <1>4, <2>1, <2>4, <2>5, <2>6 DEF ParseTypes, Places
<1>13. CASE StartSkipped
  <2>1. /\ at <= Len(file) /\ at' = at + 1 /\ count' = 0 /\ code' = "ok" /\ error' = error /\ fi' = fi
        /\ \/ section' = "tracks" /\ file[at].key = "StartTrackKern"
           \/ section' = "composites" /\ file[at].key = "StartComposites"
        BY <1>13 DEF StartSkipped, Entry, Consume
  <2>2. ASSUME NEW start, NEW ends, file[at].key = start PROVE SkipsSince(start, ends)'
    <3>1. at \in 1 .. at' - 1 /\ \A k \in at + 1 .. at' - 1 : FALSE
          BY <1>1, <2>1
    <3>2. QED BY <1>2, <2>2, <3>1 DEF SkipsSince
  <2>3. QED BY <1>1, <1>2, <1>4, <2>1, <2>2 DEF ParseTypes, Places
<1>14. QED
       BY <1>5, <1>6, <1>7, <1>8, <1>9, <1>10, <1>11, <1>12, <1>13, AfmOutcome

\* Where a list that comes once begins and ends, and how many of its entries
\* have come.
LEMMA ListIs ==
  ASSUME ParseTypes, NEW start, NEW ends, NEW key, NEW i, NEW j, IsList(file, start, ends, key, i, j)
  PROVE  /\ Len(file) \in Nat /\ DOMAIN file = 1 .. Len(file)
         /\ i \in 1 .. Len(file) /\ j \in 1 .. Len(file) /\ i < j /\ file[j].key \in ends
         /\ \A n \in 1 .. Len(file) : file[n].key = start <=> n = i
         /\ \A n \in i + 1 .. j - 1 : file[n].key \notin ends
         /\ Rank(Places(file, key), i) = 0
         /\ Rank(Places(file, key), j - 1) = Cardinality(Places(file, key))
         /\ \A n \in 1 .. Len(file) :
               Rank(Places(file, key), n) = IF file[n].key = key THEN Rank(Places(file, key), n - 1) + 1
                                            ELSE Rank(Places(file, key), n - 1)
<1> DEFINE P == Places(file, key)
           L == Len(file)
<1>1. L \in Nat /\ DOMAIN file = 1 .. L
      BY EntryIs
<1>2. /\ i \in 1 .. L /\ j \in 1 .. L /\ i < j /\ file[j].key \in ends
      /\ Places(file, start) = {i}
      /\ \A n \in i + 1 .. j - 1 : file[n].key \notin ends
      /\ \A n \in P : i < n /\ n < j
      BY <1>1 DEF IsList
<1>3. \A n \in 1 .. L : file[n].key = start <=> n = i
      BY <1>1, <1>2 DEF Places
<1>4. \A n \in 1 .. L : file[n].key = key <=> n \in P
      BY <1>1 DEF Places
<1>5. \A n \in P : n \in 1 .. L
      BY <1>1 DEF Places
<1> HIDE DEF P, L
<1>6. {n \in P : n <= i} = {n \in P : n <= 0} /\ {n \in P : n <= j - 1} = {n \in P : n <= L}
      BY <1>1, <1>2, <1>5
<1>7. /\ Rank(P, 0) = 0 /\ Rank(P, L) = Cardinality(P)
      /\ \A n \in 1 .. L : Rank(P, n) = IF n \in P THEN Rank(P, n - 1) + 1 ELSE Rank(P, n - 1)
      BY <1>1, <1>5, Ranks
<1>8. Rank(P, i) = 0 /\ Rank(P, j - 1) = Cardinality(P)
      BY <1>6, <1>7 DEF Rank
<1>9. QED BY <1>1, <1>2, <1>3, <1>4, <1>7, <1>8 DEF P, L

\* Behind the code of a character come its width and its name.
LEMMA UnnamedIs ==
  ASSUME ParseTypes, NEW i, NEW j, InOrder(i, j)
  PROVE  /\ at - 1 \in Numbers => file[at].key = "WX"
         /\ at - 2 \in Numbers => file[at].key = "N"
         /\ \A n \in DOMAIN file : file[n].key = "N" => file[n].val # NULL
         /\ \A n \in Kerns : file[n].val # NoPair
<1>1. at \in Nat /\ (at - 1) + 1 = at /\ (at - 2) + 2 = at
      BY DEF ParseTypes
<1>2. /\ \A n \in Numbers : file[n + 1].key = "WX" /\ file[n + 2].key = "N"
      /\ \A n \in Places(file, "N") : file[n].val # NULL
      /\ \A n \in Kerns : file[n].val # NoPair
      BY DEF InOrder, Filled, Numbers, Kerns
<1>3. at - 1 \in Numbers => file[at].key = "WX"
      BY <1>1, <1>2
<1>4. at - 2 \in Numbers => file[at].key = "N"
      BY <1>1, <1>2
<1>5. QED BY <1>2, <1>3, <1>4 DEF Places

\* The characters are read one after the other, up to the end of their list.
LEMMA CharsKeep ==
  ASSUME ParseTypes, AfmNext, NEW i, NEW j, InOrder(i, j), CharsInv(i, j)
  PROVE  CharsInv(i, j)'
<1> DEFINE R(n) == Rank(Numbers, n)
           L    == Len(file)
           C    == Cardinality(Numbers)
<1>1. /\ L \in Nat /\ DOMAIN file = 1 .. L
      /\ i \in 1 .. L /\ j \in 1 .. L /\ i < j /\ file[j].key = "EndCharMetrics"
      /\ \A n \in 1 .. L : file[n].key = "StartCharMetrics" <=> n = i
      /\ \A n \in i + 1 .. j - 1 : file[n].key # "EndCharMetrics"
      /\ R(i) = 0 /\ R(j - 1) = C
      /\ \A n \in 1 .. L : R(n) = IF file[n].key = "C" THEN R(n - 1) + 1 ELSE R(n - 1)
  <2>1. IsList(file, "StartCharMetrics", {"EndCharMetrics"}, "C", i, j)
        BY DEF InOrder, IsCharList
  <2>2. QED BY <2>1, ListIs DEF Numbers
<1>2. /\ at \in Nat \ {0} /\ at <= L + 1
      /\ "chars" \in DOMAIN fi /\ "pairs" \in DOMAIN fi /\ fi.chars \in Seq(FontChars)
      /\ count \in Nat /\ code \in {"ok", "parseError"} /\ error \in {"ok", "parseError", "earlyEOF"}
      /\ section = "metrics" => count <= Len(fi.chars) /\ 1 <= Len(fi.chars)
      /\ Len(fi.chars) \in Nat
      BY DEF ParseTypes
<1>3. \A n \in 1 .. L : file[n].key = "EndFontMetrics" <=> n = L
      BY <1>1 DEF InOrder, Places
<1>4. file' = file /\ Numbers' = Numbers
      BY AfmOutcome DEF Numbers, Places
<1>5. at <= L => at \in 1 .. L
      BY <1>1, <1>2
<1>6. /\ at - 1 \in Numbers => file[at].key = "WX"
      /\ at - 2 \in Numbers => file[at].key = "N"
      /\ at \in 1 .. L /\ file[at].key = "N" => file[at].val # NULL
      BY <1>1, UnnamedIs
<1>7. /\ section = "globals" => at <= i
      /\ section = "metrics" => i < at /\ at <= j
      /\ section = "metrics" /\ code = "ok" =>
            /\ count = R(at - 1)
            /\ \A k \in 1 .. count : fi.chars[k].name # NULL \/ (k = count /\ Unnamed)
      /\ section \notin {"globals", "metrics"} /\ error = "ok" =>
            /\ at > j
            /\ Len(fi.chars) = C
            /\ \A k \in DOMAIN fi.chars : fi.chars[k].name # NULL
      /\ section = "end" => at > L
      BY DEF CharsInv
<1> HIDE DEF R, L, C
<1>8. /\ R(i)' = R(i) /\ L' = L /\ C' = C
      /\ \A n : R(n)' = R(n)
      BY <1>4 DEF R, L, C
<1>9. ASSUME section \notin {"globals", "metrics"}, section' \notin {"globals", "metrics"},
             error' = "ok" => error = "ok", at' \in {at, at + 1}, fi'.chars = fi.chars,
             section' = "end" => at' > L
      PROVE  CharsInv(i, j)'
      BY <1>1, <1>2, <1>4, <1>7, <1>9 DEF CharsInv, L, C
<1>10. CASE PassedOver
  <2>1. /\ at <= L /\ at' = at + 1 /\ section' = section /\ section # "end" /\ fi'.chars = fi.chars
        /\ count' = count /\ error' = error /\ (code' = code \/ code' = "parseError")
        /\ section = "globals" => file[at].key # "StartCharMetrics"
        /\ section = "metrics" => /\ file[at].key # "EndCharMetrics"
                                  /\ code' = "ok" => file[at].key = "Comment"
        BY <1>10 DEF PassedOver, L
  <2>2. CASE section = "globals"
    <3>1. at' <= i
          BY <1>1, <1>2, <1>5, <1>7, <2>1, <2>2
    <3>2. QED BY <2>1, <2>2, <3>1 DEF CharsInv
  <2>3. CASE section = "metrics"
    <3>1. i < at' /\ at' <= j
          BY <1>1, <1>2, <1>5, <1>7, <2>1, <2>3
    <3>2. ASSUME code' = "ok" PROVE count' = R(at' - 1)
      <4>1. code = "ok" /\ file[at].key = "Comment"
            BY <1>2, <2>1, <2>3, <3>2
      <4>2. R(at) = R(at - 1) /\ at' - 1 = at
        <5>1. file[at].key # "C" /\ at \in 1 .. L
              BY <1>5, <2>1, <4>1
        <5>2. QED BY <1>1, <1>2, <2>1, <5>1
      <4>3. QED BY <1>7, <2>1, <2>3, <4>1, <4>2
    <3>3. ASSUME code' = "ok", NEW k \in 1 .. count' PROVE fi'.chars[k].name # NULL
      <4>1. code = "ok" /\ file[at].key = "Comment"
            BY <1>2, <2>1, <2>3, <3>3
      <4>2. ~Unnamed
            BY <1>6, <4>1 DEF Unnamed
      <4>3. QED BY <1>7, <2>1, <2>3, <3>3, <4>1, <4>2
    <3>4. QED BY <1>4, <1>8, <2>1, <2>3, <3>1, <3>2, <3>3 DEF CharsInv, R
  <2>4. CASE section \notin {"globals", "metrics"}
        BY <1>9, <2>1, <2>4
  <2>5. QED BY <2>2, <2>3, <2>4
<1>11. CASE GivenUp
  <2>1. error' # "ok" /\ section' \in {"file", "end"} /\ (section' = "end" => at' > Len(file'))
        BY <1>4, <1>11 DEF GivenUp, Failures
  <2>2. QED BY <2>1 DEF CharsInv
<1>12. CASE StartCharMetrics
  <2>1. section' = "metrics" /\ count' = 0 /\ at' = at + 1 /\ at = i
        BY <1>1, <1>5, <1>12 DEF StartCharMetrics, Entry, Consume, L
  <2>2. i < at' /\ at' <= j /\ at' - 1 = i
        BY <1>1, <1>2, <2>1
  <2>3. count' = Rank(Numbers', at' - 1) /\ \A k \in 1 .. count' : FALSE
        BY <1>1, <1>4, <2>1, <2>2 DEF R
  <2>4. QED BY <2>1, <2>2, <2>3 DEF CharsInv
<1>13. CASE CharCode /\ count < Len(fi.chars)
  <2>1. /\ at <= L /\ at' = at + 1 /\ section = "metrics" /\ section' = section /\ fi' = fi
        /\ count' = count + 1 /\ code' = code /\ error' = error /\ file[at].key = "C"
        BY <1>13 DEF CharCode, Entry, Consume, L
  <2>2. i < at' /\ at' <= j
        BY <1>1, <1>2, <1>5, <1>7, <2>1
  <2>3. at' - 1 = at /\ R(at) = R(at - 1) + 1
        BY <1>1, <1>2, <1>5, <2>1
  <2>4. ~Unnamed
        BY <1>6, <2>1 DEF Unnamed
  <2>5. Unnamed'
    <3>1. at \in Numbers
          BY <1>1, <1>5, <2>1 DEF Numbers, Places
    <3>2. QED BY <1>4, <2>3, <3>1 DEF Unnamed
  <2>6. ASSUME code' = "ok"
        PROVE  /\ count' = R(at' - 1)
               /\ \A k \in 1 .. count' : fi'.chars[k].name # NULL \/ k = count'
    <3>1. count' = R(at' - 1)
          BY <1>2, <1>7, <2>1, <2>3, <2>6
    <3>2. ASSUME NEW k \in 1 .. count', k # count' PROVE fi'.chars[k].name # NULL
          BY <1>2, <1>7, <2>1, <2>4, <2>6, <3>2
    <3>3. QED BY <3>1, <3>2
  <2>7. QED BY <1>4, <2>1, <2>2, <2>5, <2>6 DEF CharsInv, R
<1>14. CASE CharWidth \/ CharName
  <2>1. /\ at <= L /\ at' = at + 1 /\ section = "metrics" /\ section' = section
        /\ count' = count /\ code' = code /\ error' = error
        /\ CharWidth => file[at].key = "WX"
        /\ CharName => file[at].key = "N"
        BY <1>14 DEF CharWidth, CharName, Entry, Consume, L
  <2>2. i < at' /\ at' <= j
        BY <1>1, <1>2, <1>5, <1>7, <1>14, <2>1
  <2>3. at' - 1 = at /\ at' - 2 = at - 1 /\ R(at) = R(at - 1)
        BY <1>1, <1>2, <1>5, <1>14, <2>1
  <2>4. Temp \in 1 .. Len(fi.chars) /\ (count # 0 => Temp = count)
        BY <1>2, <2>1 DEF Temp
  <2>5. \A k \in 1 .. Len(fi.chars) :
           fi'.chars[k].name = IF CharName /\ k = Temp THEN file[at].val ELSE fi.chars[k].name
    <3>1. file[at].val \in Vals
          BY <1>5, <2>1, EntryIs DEF L
    <3>2. QED BY <1>2, <1>14, <2>4, <3>1, AttributeIs
  <2>6. ASSUME code' = "ok", NEW k \in 1 .. count'
        PROVE  fi'.chars[k].name # NULL \/ (k = count' /\ Unnamed')
    <3>1. k \in 1 .. Len(fi.chars) /\ (fi.chars[k].name # NULL \/ (k = count /\ Unnamed))
          BY <1>2, <1>7, <2>1, <2>6
    <3>2. CASE CharName
      <4>1. file[at].val # NULL /\ ~(at - 1 \in Numbers)
            BY <1>5, <1>6, <2>1, <3>2
      <4>2. k = count => k = Temp
            BY <2>1, <2>4, <2>6
      <4>3. QED BY <2>5, <3>1, <3>2, <4>1, <4>2
    <3>3. CASE CharWidth
      <4>1. ~CharName
            BY <2>1, <3>3
      <4>2. Unnamed => Unnamed'
        <5>1. Unnamed => at - 1 \in Numbers
              BY <1>6, <2>1, <3>3 DEF Unnamed
        <5>2. at - 1 \in Numbers => Unnamed'
              BY <1>4, <2>1, <2>3, <3>3 DEF Unnamed
        <5>3. QED BY <5>1, <5>2
      <4>3. QED BY <2>1, <2>5, <3>1, <4>1, <4>2
    <3>4. QED BY <1>14, <3>2, <3>3
  <2>7. code' = "ok" => count' = R(at' - 1)
        BY <1>7, <2>1, <2>3
  <2>8. QED BY <1>4, <2>1, <2>2, <2>6, <2>7 DEF CharsInv, R
<1>15. CASE EndCharMetrics
  <2>1. /\ at <= L /\ at' = at + 1 /\ section = "metrics" /\ fi' = fi /\ file[at].key = "EndCharMetrics"
        /\ Return(Counted(Len(fi.chars)))
        BY <1>15 DEF EndCharMetrics, Entry, Consume, L
  <2>2. at = j /\ at' > j
        BY <1>1, <1>2, <1>7, <2>1
  <2>3. section' = "file" /\ (error' = "ok" => code = "ok" /\ count = Len(fi.chars))
    <3>1. Counted(Len(fi.chars)) \in {"ok", "parseError"}
          BY <1>2 DEF Counted
    <3>2. section' = "file" /\ (error' = "ok" => Counted(Len(fi.chars)) = "ok")
          BY <2>1, <3>1 DEF Return, Failures
    <3>3. QED BY <3>2 DEF Counted
  <2>4. ~Unnamed
        BY <1>6, <2>1 DEF Unnamed
  <2>5. ASSUME error' = "ok"
        PROVE  Len(fi.chars) = C /\ \A k \in DOMAIN fi.chars : fi.chars[k].name # NULL
    <3>1. code = "ok" /\ count = Len(fi.chars)
          BY <2>3, <2>5
    <3>2. count = R(j - 1) /\ \A k \in 1 .. count : fi.chars[k].name # NULL
          BY <1>7, <2>1, <2>2, <2>4, <3>1
    <3>3. DOMAIN fi.chars = 1 .. count
          BY <1>2, <3>1
    <3>4. QED BY <1>1, <3>1, <3>2, <3>3
  <2>6. QED BY <1>4, <2>1, <2>2, <2>3, <2>5 DEF CharsInv, C
<1>16. CASE EndKernPairs \/ EndSkipped
  <2>1. at' = at + 1 /\ fi' = fi /\ section \in {"pairs", "tracks", "composites"}
        /\ (Return("ok") \/ Return(Counted(Len(fi.pairs))))
        BY <1>16 DEF EndKernPairs, EndSkipped, Consume
  <2>2. Counted(Len(fi.pairs)) \in {"ok", "parseError"}
        BY <1>2 DEF Counted
  <2>3. section' = "file" /\ (error' = "ok" => error = "ok")
        BY <2>1, <2>2 DEF Return, Failures
  <2>4. QED BY <1>9, <2>1, <2>3
<1>17. CASE KernPair /\ count < Len(fi.pairs)
  <2>1. /\ at' = at + 1 /\ section = "pairs" /\ section' = section /\ error' = error
        /\ fi' = [fi EXCEPT !.pairs[count + 1] = file[at].val]
        BY <1>17 DEF KernPair, Consume
  <2>2. fi'.chars = fi.chars
        BY <1>2, <2>1
  <2>3. QED BY <1>9, <2>1, <2>2
<1>18. CASE StartKernPairs \/ StartSkipped
  <2>1. /\ at' = at + 1 /\ section = "file" /\ section' \in {"pairs", "tracks", "composites"}
        /\ error' = error
        /\ fi' = fi \/ fi' = [fi EXCEPT !.pairs = Blank(file[at].val, NoPair)]
        BY <1>18 DEF StartKernPairs, StartSkipped, Consume
  <2>2. fi'.chars = fi.chars
        BY <1>2, <2>1
  <2>3. QED BY <1>9, <2>1, <2>2
<1>19. CASE EndFontMetrics
  <2>1. /\ at <= L /\ at' = at + 1 /\ fi' = fi /\ section # "end" /\ file[at].key = "EndFontMetrics"
        /\ error' = error /\ section' = "end"
        BY <1>19 DEF EndFontMetrics, Return, Failures, Entry, Consume, L
  <2>2. at = L
        BY <1>3, <1>5, <2>1
  <2>3. section \notin {"globals", "metrics"}
    <3>1. section # "globals"
          BY <1>1, <1>2, <1>7, <2>2
    <3>2. section = "metrics" => at = j
          BY <1>1, <1>2, <1>7, <2>2
    <3>3. QED BY <1>1, <2>1, <3>1, <3>2
  <2>4. at' > L
        BY <1>2, <2>1, <2>2
  <2>5. QED BY <1>9, <2>1, <2>3, <2>4
<1>20. QED
       BY <1>10, <1>11, <1>12, <1>13, <1>14, <1>15, <1>16, <1>17, <1>18, <1>19, AfmOutcome

\* What is skipped does not hold the list.
LEMMA NotSkipped ==
  ASSUME ParseTypes, NEW i, NEW j, IsPairList(file, i, j), section \in {"tracks", "composites"}
  PROVE  at # i
<1>1. CASE section = "tracks"
  <2>1. SkipsSince("StartTrackKern", {"EndTrackKern", "EndKernData"})
        BY <1>1 DEF ParseTypes
  <2>2. Skipped(file, at)
        BY <2>1 DEF Skipped, SkipsSince
  <2>3. QED BY <2>2 DEF IsPairList, IsList
<1>2. CASE section = "composites"
  <2>1. SkipsSince("StartComposites", {"EndComposites"})
        BY <1>2 DEF ParseTypes
  <2>2. Skipped(file, at)
        BY <2>1 DEF Skipped, SkipsSince
  <2>3. QED BY <2>2 DEF IsPairList, IsList
<1>3. QED BY <1>1, <1>2

\* The pairs are read one after the other, up to the end of their list.
LEMMA PairsKeep ==
  ASSUME ParseTypes, AfmNext, NEW g, NEW h, InOrder(g, h), CharsInv(g, h),
         NEW i, NEW j, IsPairList(file, i, j), PairsInv(i, j)
  PROVE  PairsInv(i, j)'
<1> DEFINE R(n) == Rank(Kerns, n)
           L    == Len(file)
           C    == Cardinality(Kerns)
<1>1. /\ L \in Nat /\ DOMAIN file = 1 .. L
      /\ i \in 1 .. L /\ j \in 1 .. L /\ i < j /\ file[j].key \in PairEnds
      /\ \A n \in 1 .. L : file[n].key = "StartKernPairs" <=> n = i
      /\ \A n \in i + 1 .. j - 1 : file[n].key \notin PairEnds
      /\ R(i) = 0 /\ R(j - 1) = C
      /\ \A n \in 1 .. L : R(n) = IF file[n].key = "KPX" THEN R(n - 1) + 1 ELSE R(n - 1)
  <2>1. IsList(file, "StartKernPairs", PairEnds, "KPX", i, j)
        BY DEF IsPairList, PairEnds
  <2>2. QED BY <2>1, ListIs DEF Kerns
<1>2. /\ at \in Nat \ {0} /\ at <= L + 1
      /\ "chars" \in DOMAIN fi /\ "pairs" \in DOMAIN fi /\ fi.pairs \in Seq(FilePairs)
      /\ count \in Nat /\ code \in {"ok", "parseError"} /\ error \in {"ok", "parseError", "earlyEOF"}
      /\ section \in {"globals", "metrics", "file", "pairs", "tracks", "composites", "end"}
      /\ Len(fi.pairs) \in Nat
      BY DEF ParseTypes
<1>3. \A n \in 1 .. L : file[n].key = "EndFontMetrics" <=> n = L
      BY <1>1 DEF InOrder, Places
<1>4. file' = file /\ Kerns' = Kerns
      BY AfmOutcome DEF Kerns, Places
<1>5. at <= L => at \in 1 .. L
      BY <1>1, <1>2
<1>6. at <= L /\ file[at].key = "KPX" => file[at].val # NoPair
      BY <1>1, <1>5, UnnamedIs DEF Kerns, Places
<1>7. /\ section \in {"globals", "metrics"} /\ code = "ok" /\ error = "ok" => at <= i
      /\ section = "pairs" => i < at /\ at <= j
      /\ section = "pairs" /\ code = "ok" =>
            count = R(at - 1) /\ \A k \in 1 .. count : fi.pairs[k] # NoPair
      /\ section \in {"file", "tracks", "composites", "end"} /\ error = "ok" =>
            \/ at <= i
            \/ at > j /\ Len(fi.pairs) = C /\ \A k \in DOMAIN fi.pairs : fi.pairs[k] # NoPair
      BY DEF PairsInv
<1> HIDE DEF R, L, C
<1>8. L' = L /\ C' = C /\ \A n : R(n)' = R(n)
      BY <1>4 DEF R, L, C
<1>9. ASSUME at \in 1 .. L, at' = at + 1, fi'.pairs = fi.pairs, file[at].key # "StartKernPairs",
             section \in {"file", "tracks", "composites"} \/ (section # "pairs" /\ code = "ok"),
             error' = "ok" => error = "ok",
             section' \in {"file", "tracks", "composites", "end"}
      PROVE  PairsInv(i, j)'
  <2>1. at' <= i \/ ~(at <= i)
        BY <1>1, <1>9
  <2>2. at > j => at' > j
        BY <1>1, <1>9
  <2>3. ASSUME error' = "ok"
        PROVE  \/ at' <= i
               \/ at' > j /\ Len(fi'.pairs) = C /\ \A k \in DOMAIN fi'.pairs : fi'.pairs[k] # NoPair
        BY <1>2, <1>7, <1>9, <2>1, <2>2, <2>3
  <2>4. section' # "pairs" /\ section' \notin {"globals", "metrics"}
        BY <1>9
  <2>5. QED BY <1>4, <2>3, <2>4 DEF PairsInv, C
<1>10. ASSUME at \in 1 .. L, at' = at + 1, file[at].key # "StartKernPairs",
              section \in {"globals", "metrics"}, section' \in {"globals", "metrics"},
              code' = "ok" /\ error' = "ok" => code = "ok" /\ error = "ok"
       PROVE  PairsInv(i, j)'
  <2>1. code' = "ok" /\ error' = "ok" => at' <= i
        BY <1>1, <1>7, <1>10
  <2>2. QED BY <1>10, <2>1 DEF PairsInv
<1>11. CASE PassedOver
  <2>1. /\ at <= L /\ at' = at + 1 /\ section' = section /\ section # "end" /\ fi'.pairs = fi.pairs
        /\ count' = count /\ error' = error /\ (code' = code \/ code' = "parseError")
        BY <1>11 DEF PassedOver, L
  <2>2. /\ section = "globals" /\ code' = "ok" => file[at].key # "StartKernPairs"
        /\ section = "metrics" /\ code' = "ok" => file[at].key = "Comment"
        /\ section = "pairs" => file[at].key \notin PairEnds
        /\ section = "pairs" /\ code' = "ok" => file[at].key = "Comment"
        /\ section = "file" => file[at].key # "StartKernPairs"
        BY <1>11 DEF PassedOver
  <2>3. CASE section \in {"globals", "metrics"}
    <3>1. CASE code' = "ok"
      <4>1. file[at].key # "StartKernPairs" /\ code = "ok"
            BY <1>2, <2>1, <2>2, <2>3, <3>1
      <4>2. QED BY <1>5, <1>10, <2>1, <2>3, <4>1
    <3>2. CASE code' # "ok"
          BY <2>1, <2>3, <3>2 DEF PairsInv
    <3>3. QED BY <3>1, <3>2
  <2>4. CASE section = "pairs"
    <3>1. i < at' /\ at' <= j
          BY <1>1, <1>2, <1>5, <1>7, <2>1, <2>2, <2>4
    <3>2. ASSUME code' = "ok"
          PROVE  count' = R(at' - 1) /\ \A k \in 1 .. count' : fi'.pairs[k] # NoPair
      <4>1. code = "ok" /\ file[at].key # "KPX"
            BY <1>2, <2>1, <2>2, <2>4, <3>2
      <4>2. R(at) = R(at - 1) /\ at' - 1 = at
            BY <1>1, <1>2, <1>5, <2>1, <4>1
      <4>3. QED BY <1>7, <2>1, <2>4, <4>1, <4>2
    <3>3. QED BY <1>4, <2>1, <2>4, <3>1, <3>2 DEF PairsInv, R
  <2>5. CASE section \in {"file", "tracks", "composites"}
    <3>1. at # i
      <4>1. CASE section = "file"
            BY <1>1, <2>2, <4>1
      <4>2. CASE section \in {"tracks", "composites"}
            BY <4>2, NotSkipped
      <4>3. QED BY <2>5, <4>1, <4>2
    <3>2. file[at].key # "StartKernPairs"
          BY <1>1, <1>5, <2>1, <3>1
    <3>3. QED BY <1>5, <1>9, <2>1, <2>5, <3>2
  <2>6. QED BY <1>2, <2>1, <2>3, <2>4, <2>5
<1>12. CASE GivenUp
  <2>1. error' # "ok" /\ section' \in {"file", "end"}
        BY <1>12 DEF GivenUp, Failures
  <2>2. QED BY <2>1 DEF PairsInv
<1>13. CASE StartCharMetrics
  <2>1. /\ at <= L /\ at' = at + 1 /\ section = "globals" /\ section' = "metrics"
        /\ file[at].key = "StartCharMetrics"
        /\ error' = IF code \in Failures THEN code ELSE error
        BY <1>13 DEF StartCharMetrics, Entry, Consume, L
  <2>2. error' = "ok" => code = "ok" /\ error = "ok"
        BY <1>2, <2>1 DEF Failures
  <2>3. QED BY <1>5, <1>10, <2>1, <2>2
<1>14. CASE (CharCode /\ count < Len(fi.chars)) \/ CharWidth \/ CharName
  <2>1. /\ at <= L /\ at' = at + 1 /\ section = "metrics" /\ section' = section
        /\ code' = code /\ error' = error /\ file[at].key \in {"C", "WX", "N"}
        BY <1>14 DEF CharCode, CharWidth, CharName, Entry, Consume, L
  <2>2. QED BY <1>5, <1>10, <2>1
<1>15. CASE EndCharMetrics
  <2>1. /\ at <= L /\ at' = at + 1 /\ section = "metrics" /\ fi' = fi /\ file[at].key = "EndCharMetrics"
        /\ Return(Counted(Len(fi.chars)))
        BY <1>15 DEF EndCharMetrics, Entry, Consume, L
  <2>2. /\ section' = "file"
        /\ error' = "ok" => code = "ok" /\ error = "ok"
        BY <1>2, <2>1 DEF Return, Failures, Counted
  <2>3. CASE error' = "ok"
        BY <1>5, <1>9, <2>1, <2>2, <2>3
  <2>4. CASE error' # "ok"
        BY <2>2, <2>4 DEF PairsInv
  <2>5. QED BY <2>3, <2>4
<1>16. CASE KernPair /\ count < Len(fi.pairs)
  <2>1. /\ at <= L /\ at' = at + 1 /\ section = "pairs" /\ section' = section
        /\ count' = count + 1 /\ code' = code /\ file[at].key = "KPX"
        /\ fi' = [fi EXCEPT !.pairs[count + 1] = file[at].val]
        BY <1>16 DEF KernPair, Entry, Consume, L
  <2>2. fi'.pairs = [fi.pairs EXCEPT ![count + 1] = file[at].val]
        BY <1>2, <2>1
  <2>3. i < at' /\ at' <= j
    <3>1. file[at].key \notin PairEnds
          BY <2>1 DEF PairEnds
    <3>2. QED BY <1>1, <1>2, <1>5, <1>7, <2>1, <3>1
  <2>4. at' - 1 = at /\ R(at) = R(at - 1) + 1
        BY <1>1, <1>2, <1>5, <2>1
  <2>5. ASSUME code' = "ok"
        PROVE  count' = R(at' - 1) /\ \A k \in 1 .. count' : fi'.pairs[k] # NoPair
    <3>1. count' = R(at' - 1)
          BY <1>2, <1>7, <2>1, <2>4, <2>5
    <3>2. ASSUME NEW k \in 1 .. count' PROVE fi'.pairs[k] # NoPair
      <4>1. k \in 1 .. Len(fi.pairs) /\ (k # count + 1 => k \in 1 .. count)
            BY <1>2, <1>16, <2>1
      <4>2. fi'.pairs[k] = IF k = count + 1 THEN file[at].val ELSE fi.pairs[k]
            BY <1>2, <2>2, <4>1
      <4>3. \A n \in 1 .. count : fi.pairs[n] # NoPair
            BY <1>7, <2>1, <2>5
      <4>4. QED BY <1>6, <2>1, <4>1, <4>2, <4>3
    <3>3. QED BY <3>1, <3>2
  <2>6. QED BY <1>4, <2>1, <2>3, <2>5 DEF PairsInv, R
<1>17. CASE EndKernPairs
  <2>1. /\ at <= L /\ at' = at + 1 /\ section = "pairs" /\ fi' = fi /\ file[at].key \in PairEnds
        /\ Return(Counted(Len(fi.pairs)))
        BY <1>17 DEF EndKernPairs, Entry, Consume, PairEnds, L
  <2>2. at = j /\ at' > j
        BY <1>1, <1>2, <1>7, <2>1
  <2>3. section' = "file" /\ (error' = "ok" => code = "ok" /\ count = Len(fi.pairs))
    <3>1. Counted(Len(fi.pairs)) \in {"ok", "parseError"}
          BY <1>2 DEF Counted
    <3>2. section' = "file" /\ (error' = "ok" => Counted(Len(fi.pairs)) = "ok")
          BY <2>1, <3>1 DEF Return, Failures
    <3>3. QED BY <3>2 DEF Counted
  <2>4. ASSUME error' = "ok"
        PROVE  Len(fi.pairs) = C /\ \A k \in DOMAIN fi.pairs : fi.pairs[k] # NoPair
    <3>1. count = R(j - 1) /\ \A k \in 1 .. count : fi.pairs[k] # NoPair
          BY <1>7, <2>1, <2>2, <2>3, <2>4
    <3>2. DOMAIN fi.pairs = 1 .. count
          BY <1>2, <2>3, <2>4
    <3>3. QED BY <1>1, <2>3, <2>4, <3>1, <3>2
  <2>5. QED BY <1>4, <2>1, <2>2, <2>3, <2>4 DEF PairsInv, C
<1>18. CASE EndSkipped \/ StartSkipped
  <2>1. /\ at <= L /\ at' = at + 1 /\ fi' = fi /\ section \in {"file", "tracks", "composites"}
        /\ section' \in {"file", "tracks", "composites"} /\ error' = error
        /\ file[at].key # "StartKernPairs"
        BY <1>18 DEF EndSkipped, StartSkipped, Return, Failures, Entry, Consume, L
  <2>2. QED BY <1>5, <1>9, <2>1
<1>19. CASE StartKernPairs
  <2>1. /\ at <= L /\ at' = at + 1 /\ section' = "pairs" /\ count' = 0 /\ file[at].key = "StartKernPairs"
        BY <1>19 DEF StartKernPairs, Entry, Consume, L
  <2>2. at = i
        BY <1>1, <1>5, <2>1
  <2>3. i < at' /\ at' <= j /\ at' - 1 = i
        BY <1>1, <1>2, <2>1, <2>2
  <2>4. count' = R(at' - 1) /\ \A k \in 1 .. count' : FALSE
        BY <1>1, <2>1, <2>3
  <2>5. QED BY <1>4, <2>1, <2>3, <2>4 DEF PairsInv, R
<1>20. CASE EndFontMetrics
  <2>1. /\ at <= L /\ at' = at + 1 /\ fi' = fi /\ section # "end" /\ file[at].key = "EndFontMetrics"
        /\ error' = error /\ section' = "end"
        BY <1>20 DEF EndFontMetrics, Return, Failures, Entry, Consume, L
  <2>2. at = L
        BY <1>3, <1>5, <2>1
  <2>3. section # "pairs"
    <3>1. section = "pairs" => at = j
          BY <1>1, <1>2, <1>7, <2>2
    <3>2. "EndFontMetrics" \notin PairEnds
          BY DEF PairEnds
    <3>3. QED BY <1>1, <2>1, <3>1, <3>2
  <2>4. section \notin {"globals", "metrics"}
    <3>1. /\ g \in 1 .. L /\ h \in 1 .. L /\ g < h /\ file[h].key = "EndCharMetrics"
      <4>1. IsList(file, "StartCharMetrics", {"EndCharMetrics"}, "C", g, h)
            BY DEF InOrder, IsCharList
      <4>2. QED BY <4>1, ListIs DEF L
    <3>2. /\ section = "globals" => at <= g
          /\ section = "metrics" => at <= h
          BY DEF CharsInv
    <3>3. section # "globals"
          BY <1>1, <2>2, <3>1, <3>2
    <3>4. section = "metrics" => at = h
          BY <1>1, <1>2, <2>2, <3>1, <3>2
    <3>5. QED BY <2>1, <3>1, <3>3, <3>4
  <2>5. section \in {"file", "tracks", "composites"}
        BY <1>2, <2>1, <2>3, <2>4
  <2>6. QED BY <1>5, <1>9, <2>1, <2>5
<1>21. QED
       BY <1>11, <1>12, <1>13, <1>14, <1>15, <1>16, <1>17, <1>18, <1>19, <1>20, AfmOutcome

LEMMA ParseKeeps == ParseInv /\ AfmNext /\ queue' = queue => ParseInv'
<1> SUFFICES ASSUME ParseInv, AfmNext, queue' = queue PROVE ParseInv'
    OBVIOUS
<1>1. ParseTypes
      BY DEF ParseInv
<1>2. ParseTypes'
      BY <1>1, ParseTypesKeep
<1>3. file' = file
      BY <1>1, AfmOutcome
<1>4. \A i, j : InOrder(i, j)' = InOrder(i, j)
      BY <1>3 DEF InOrder
<1>5. \A i, j : InOrder(i, j)' => CharsInv(i, j)'
  <2>1. SUFFICES ASSUME NEW i, NEW j, InOrder(i, j) PROVE CharsInv(i, j)'
        BY <1>4
  <2>2. QED BY <1>1, <2>1, CharsKeep DEF ParseInv
<1>6. \A i, j, k, l : InOrder(i, j)' /\ IsPairList(file', k, l) => PairsInv(k, l)'
  <2>1. SUFFICES ASSUME NEW i, NEW j, NEW k, NEW l, InOrder(i, j), IsPairList(file, k, l)
                 PROVE  PairsInv(k, l)'
        BY <1>3, <1>4
  <2>2. CharsInv(i, j) /\ PairsInv(k, l)
        BY <2>1 DEF ParseInv
  <2>3. QED BY <1>1, <2>1, <2>2, PairsKeep
<1>7. QED BY <1>2, <1>5, <1>6 DEF ParseInv

\* Before its first entry, nothing has been read of a file.
LEMMA ParseStarts ==
  ASSUME file' = <<>> \/ file' \in Files, queue' \in Seq(Files), at' = 1, section' = "globals",
         fi' = NoFont, count' = 0, code' = "ok", error' = "ok"
  PROVE  ParseInv'
<1>1. /\ "chars" \in DOMAIN NoFont /\ NoFont.chars = <<>>
      /\ "pairs" \in DOMAIN NoFont /\ NoFont.pairs = <<>>
      BY DEF NoFont
<1>2. <<>> \in Seq(FontChars) /\ <<>> \in Seq(FilePairs)
      OBVIOUS
<1>3. Len(file') \in Nat /\ DOMAIN file' = 1 .. Len(file')
  <2>1. CASE file' = <<>>
        BY <2>1
  <2>2. CASE file' \in Files
    <3>1. PICK job \in Jobs : file' \in Range(job.files)
          BY <2>2 DEF Files
    <3>2. file' \in Seq(Range(file'))
          BY <3>1, AddAllAssumption DEF AddAllAssumption
    <3>3. QED BY <3>2
  <2>3. QED BY <2>1, <2>2
<1>4. ParseTypes'
      BY <1>1, <1>2, <1>3 DEF ParseTypes
<1>5. ASSUME NEW i, NEW j, InOrder(i, j)' PROVE CharsInv(i, j)'
  <2>1. i \in DOMAIN file'
        BY <1>5 DEF InOrder, IsCharList, IsList
  <2>2. 1 <= i
        BY <1>3, <2>1
  <2>3. QED BY <2>2 DEF CharsInv
<1>6. ASSUME NEW k, NEW l, IsPairList(file', k, l) PROVE PairsInv(k, l)'
  <2>1. k \in DOMAIN file'
        BY <1>6 DEF IsPairList, IsList
  <2>2. 1 <= k
        BY <1>3, <2>1
  <2>3. QED BY <2>2 DEF PairsInv
<1>7. QED BY <1>4, <1>5, <1>6 DEF ParseInv

LEMMA ParseSame == ParseInv /\ UNCHANGED <<afmVars, queue>> => ParseInv'
<1> SUFFICES ASSUME ParseInv, UNCHANGED <<afmVars, queue>> PROVE ParseInv'
    OBVIOUS
<1>1. UNCHANGED <<file, at, section, fi, count, code, error, queue>>
      BY DEF afmVars
<1>2. ParseTypes'
      BY <1>1 DEF ParseInv, ParseTypes, Places, SkipsSince
<1>3. \A i, j : InOrder(i, j)' = InOrder(i, j) /\ CharsInv(i, j)' = CharsInv(i, j)
      BY <1>1 DEF InOrder, CharsInv, Numbers, Unnamed
<1>4. \A k, l : PairsInv(k, l)' = PairsInv(k, l)
      BY <1>1 DEF PairsInv, Kerns
<1>5. QED BY <1>1, <1>2, <1>3, <1>4 DEF ParseInv

LEMMA ParseStep == ParseInv /\ [Next]_vars => ParseInv'
<1> SUFFICES ASSUME ParseInv, [Next]_vars PROVE ParseInv'
    OBVIOUS
<1>1. CASE NextFile
  <2>1. queue # <<>> /\ queue' = Tail(queue) /\ queue \in Seq(Files)
        BY <1>1 DEF NextFile, ParseInv, ParseTypes
  <2>2. Tail(queue) \in Seq(Files) /\ Head(queue) \in Files
        BY <2>1
  <2>3. CASE AfmRestart(Head(queue))
        BY <2>1, <2>2, <2>3, ParseStarts DEF AfmRestart
  <2>4. CASE UNCHANGED afmVars
    <3>1. UNCHANGED <<file, at, section, fi, count, code, error>>
          BY <2>4 DEF afmVars
    <3>2. ParseTypes'
          BY <2>1, <2>2, <3>1 DEF ParseInv, ParseTypes, Places, SkipsSince
    <3>3. \A i, j : InOrder(i, j)' = InOrder(i, j) /\ CharsInv(i, j)' = CharsInv(i, j)
          BY <3>1 DEF InOrder, CharsInv, Numbers, Unnamed
    <3>4. \A k, l : PairsInv(k, l)' = PairsInv(k, l)
          BY <3>1 DEF PairsInv, Kerns
    <3>5. QED BY <3>1, <3>2, <3>3, <3>4 DEF ParseInv
  <2>5. QED BY <1>1, <2>3, <2>4 DEF NextFile
<1>2. CASE Parse
      BY <1>2, ParseKeeps DEF Parse
<1>3. CASE \/ Done \/ Parsed \/ CharmapFailed \/ CharmapRead \/ ReadCharmap
           \/ Kerning \/ KerningPass \/ KerningFailed
      BY <1>3, ParseSame DEF Done, Parsed, CharmapFailed, CharmapRead, ReadCharmap,
                             Kerning, KerningPass, KerningFailed
<1>4. CASE KerningDone \/ Spacing \/ Typeface \/ CharacterMap \/ Aborts \/ Operations
      BY <1>4, ParseSame DEF KerningDone, Spacing, Typeface, CharacterMap, Aborts, Operations, Put
<1>5. CASE CannotCreate \/ MergeFails \/ Merged \/ \E f \in toMerge : Merge(f)
      BY <1>5, ParseSame DEF CannotCreate, MergeFails, Merged, Merge
<1>6. CASE UNCHANGED vars
      BY <1>6, ParseSame DEF vars
<1>7. QED BY <1>1, <1>2, <1>3, <1>4, <1>5, <1>6 DEF Next, Proceed

LEMMA ParseInit == Init => ParseInv
<1> SUFFICES ASSUME Init PROVE ParseInv
    OBVIOUS
<1>1. file = <<>> /\ at = 1 /\ section = "globals" /\ fi = NoFont /\ code = "ok" /\ error = "ok" /\ count = 0
      BY DEF Init, AfmStart
<1>2. queue \in Seq(Files)
      BY TablesInit DEF TablesInv, FontInv
<1>3. ParseTypes
      BY <1>1, <1>2 DEF ParseTypes, NoFont
<1>4. ASSUME NEW i, NEW j, NEW start, NEW ends, NEW key PROVE ~IsList(file, start, ends, key, i, j)
      BY <1>1 DEF IsList
<1>5. QED BY <1>3, <1>4 DEF ParseInv, InOrder, IsCharList

\* At the end of a file that is in order all of it is there.
LEMMA ParseComplete == ParseInv => CleanIsComplete
<1> SUFFICES ASSUME ParseInv, section = "end", error = "ok", Closed(file), Filled(file)
             PROVE  /\ Len(fi.chars) = Cardinality(Numbers)
                    /\ Len(fi.pairs) = Cardinality(Kerns)
                    /\ \A k \in DOMAIN fi.chars : fi.chars[k] # NoChar
                    /\ \A k \in DOMAIN fi.pairs : fi.pairs[k] # NoPair
    BY DEF CleanIsComplete, Numbers, Kerns
<1>1. PICK i, j : InOrder(i, j)
      BY DEF Closed, InOrder
<1>2. CharsInv(i, j)
      BY <1>1 DEF ParseInv
<1>3. /\ Len(fi.chars) = Cardinality(Numbers) /\ at > Len(file)
      /\ \A k \in DOMAIN fi.chars : fi.chars[k].name # NULL
      BY <1>2 DEF CharsInv
<1>4. \A k \in DOMAIN fi.chars : fi.chars[k] # NoChar
      BY <1>3 DEF NoChar
<1>5. Len(fi.pairs) = Cardinality(Kerns) /\ \A k \in DOMAIN fi.pairs : fi.pairs[k] # NoPair
  <2>1. CASE Places(file, "StartKernPairs") = {} /\ Places(file, "KPX") = {}
    <3>1. fi.pairs = <<>>
          BY <2>1 DEF ParseInv, ParseTypes
    <3>2. Cardinality(Kerns) = 0
          BY <2>1, FS_EmptySet DEF Kerns
    <3>3. QED BY <3>1, <3>2
  <2>2. CASE \E k \in Places(file, "StartKernPairs"), l \in DOMAIN file : IsPairList(file, k, l)
    <3>1. PICK k, l : IsPairList(file, k, l)
          BY <2>2
    <3>2. PairsInv(k, l) /\ ParseTypes
          BY <1>1, <3>1 DEF ParseInv
    <3>3. k \in 1 .. Len(file) /\ Len(file) \in Nat /\ at \in Nat
      <4>1. k \in DOMAIN file
            BY <3>1 DEF IsPairList, IsList
      <4>2. QED BY <3>2, <4>1, EntryIs DEF ParseTypes
    <3>4. ~(at <= k)
          BY <1>3, <3>3
    <3>5. QED BY <3>2, <3>4 DEF PairsInv
  <2>3. QED BY <2>1, <2>2 DEF Closed
<1>6. QED BY <1>3, <1>4, <1>5

\* For every font metrics file whose lists come once and have their ends, and in
\* which each character has a width and a name (Closed, Filled): if
\* parseFile, through all its functions and the errors they pass over, reports none,
\* it has kept as many characters and pairs as the file holds, and none of them is
\* still empty (parseafm.c).
THEOREM CleanFontsAreComplete == Spec => []CleanIsComplete
<1>1. Init => ParseInv
      BY ParseInit
<1>2. ParseInv /\ [Next]_vars => ParseInv'
      BY ParseStep
<1>3. ParseInv => CleanIsComplete
      BY ParseComplete
<1>4. QED BY <1>1, <1>2, <1>3, PTL DEF Spec

-----------------------------------------------------------------------------
(* Tables whose rows are joined.                                           *)

\* The rows joined by the library, and by Sums.
LEMMA FlattenIsJoined ==
  ASSUME NEW s
  PROVE  FlattenSeq(s) = Joined(s)
BY DEF FlattenSeq, Joined

AreLengths(f, s) == \A i \in 1 .. Len(s) : f[i] = Len(s[i])

\* The first k rows are as long as all of them together, ...
LEMMA JoinedLength ==
  ASSUME NEW D, NEW s \in Seq(Seq(D)), NEW f, AreLengths(f, s),
         NEW k \in 0 .. Len(s)
  PROVE  Len(FirstJoined(s, k)) = SumFunctionOnSet(f, 1 .. k)
<1> DEFINE Good == {j \in Nat : j <= Len(s) => Len(FirstJoined(s, j)) = SumFunctionOnSet(f, 1 .. j)}
<1>1. 0 \in Good
  <2>1. FirstJoined(s, 0) = <<>>
        BY JoinedStarts
  <2>2. SumFunctionOnSet(f, {}) = 0
        BY SumEmpty
  <2>3. 1 .. 0 = {} /\ Len(<<>>) = 0
        OBVIOUS
  <2>4. QED BY <2>1, <2>2, <2>3
<1>2. ASSUME NEW j \in Nat, j \in Good PROVE j + 1 \in Good
  <2> SUFFICES ASSUME j + 1 <= Len(s)
               PROVE  Len(FirstJoined(s, j + 1)) = SumFunctionOnSet(f, 1 .. j + 1)
      OBVIOUS
  <2>1. j \in 0 .. Len(s) /\ j \in 0 .. Len(s) - 1 /\ s[j + 1] \in Seq(D) /\ j + 1 \in 1 .. Len(s)
        OBVIOUS
  <2>2. FirstJoined(s, j) \in Seq(D)
        BY <2>1, FirstJoinedType
  <2>3. FirstJoined(s, j + 1) = FirstJoined(s, j) \o s[j + 1]
        BY <2>1, JoinedStep
  <2>4. Len(FirstJoined(s, j) \o s[j + 1]) = Len(FirstJoined(s, j)) + Len(s[j + 1])
        BY <2>1, <2>2, SeqBehind
  <2>5. SumFunctionOnSet(f, 1 .. j + 1) = f[j + 1] + SumFunctionOnSet(f, 1 .. j)
    <3>1. IsFiniteSet(1 .. j)
          BY FS_Interval
    <3>4. j + 1 \notin 1 .. j /\ 1 .. j + 1 = 1 .. j \cup {j + 1}
          OBVIOUS
    <3>2. \A x \in 1 .. j \cup {j + 1} : f[x] \in Nat
      <4>1. \A x \in 1 .. j \cup {j + 1} : x \in 1 .. Len(s)
            BY <2>1
      <4>2. \A x \in 1 .. Len(s) : Len(s[x]) \in Nat
            OBVIOUS
      <4>3. QED BY <4>1, <4>2 DEF AreLengths
    <3>3. QED BY <3>1, <3>2, <3>4, SumWith
  <2>6. Len(FirstJoined(s, j)) = SumFunctionOnSet(f, 1 .. j)
        BY <1>2, <2>1
  <2>7. f[j + 1] = Len(s[j + 1]) /\ Len(s[j + 1]) \in Nat /\ Len(FirstJoined(s, j)) \in Nat
        BY <2>1, <2>2 DEF AreLengths
  <2>8. QED BY <2>3, <2>4, <2>5, <2>6, <2>7
<1>3. Nat \subseteq Good
  <2> HIDE DEF Good
  <2>1. QED BY <1>1, <1>2, NatSet
<1>4. QED BY <1>3

\* ... so that an entry is found behind the rows before its own, ...
LEMMA JoinedAt ==
  ASSUME NEW D, NEW s \in Seq(Seq(D)), NEW f, AreLengths(f, s)
  PROVE  \A i \in 1 .. Len(s) : \A p \in 1 .. Len(s[i]) :
            /\ SumFunctionOnSet(f, 1 .. i - 1) + p \in 1 .. Len(Joined(s))
            /\ Joined(s)[SumFunctionOnSet(f, 1 .. i - 1) + p] = s[i][p]
<1> SUFFICES ASSUME NEW i \in 1 .. Len(s), NEW p \in 1 .. Len(s[i])
             PROVE  /\ SumFunctionOnSet(f, 1 .. i - 1) + p \in 1 .. Len(Joined(s))
                    /\ Joined(s)[SumFunctionOnSet(f, 1 .. i - 1) + p] = s[i][p]
    OBVIOUS
<1> DEFINE a == FirstJoined(s, i - 1)
           b == FirstJoined(s, i)
           c == s[i]
           m == Len(s)
<1>1. m \in Nat /\ i \in 1 .. m /\ i - 1 \in 0 .. m /\ i \in 0 .. m /\ i - 1 \in 0 .. m - 1 /\ (i - 1) + 1 = i
      OBVIOUS
<1>2. c \in Seq(D)
      OBVIOUS
<1>3. a \in Seq(D) /\ b \in Seq(D) /\ Joined(s) \in Seq(D) /\ FirstJoined(s, m) = Joined(s)
      BY <1>1, FirstJoinedType, JoinedType, JoinedStarts
<1>4. FirstJoined(s, (i - 1) + 1) = a \o s[(i - 1) + 1]
      BY <1>1, JoinedStep
<1>5. b = a \o c
      BY <1>1, <1>4
<1>6. Len(a) = SumFunctionOnSet(f, 1 .. i - 1)
      BY <1>1, JoinedLength
<1>7. /\ Len(b) <= Len(Joined(s))
      /\ \A q \in 1 .. Len(b) : Joined(s)[q] = b[q]
  <2>1. m \in i .. Len(s)
        OBVIOUS
  <2>2. /\ Len(FirstJoined(s, i)) <= Len(FirstJoined(s, m))
        /\ \A q \in 1 .. Len(FirstJoined(s, i)) : FirstJoined(s, m)[q] = FirstJoined(s, i)[q]
        BY <1>1, <2>1, JoinedPrefix
  <2>3. QED BY <1>3, <2>2
<1> HIDE DEF a, b, c, m
<1>8. /\ Len(a \o c) = Len(a) + Len(c)
      /\ \A q \in 1 .. Len(c) : (a \o c)[Len(a) + q] = c[q]
      BY <1>2, <1>3, SeqBehind
<1>9. Len(a) \in Nat /\ Len(c) \in Nat /\ Len(Joined(s)) \in Nat
      BY <1>2, <1>3
<1>14. p \in 1 .. Len(c)
       BY DEF c
<1>10. Len(a) + p \in 1 .. Len(b)
       BY <1>5, <1>8, <1>9, <1>14
<1>11. b[Len(a) + p] = c[p]
       BY <1>5, <1>8, <1>14
<1>12. Len(a) + p \in 1 .. Len(Joined(s))
       BY <1>3, <1>7, <1>9, <1>10
<1>13. QED BY <1>6, <1>7, <1>10, <1>11, <1>12 DEF c

\* What a row holds the whole holds, and the other way round.
LEMMA JoinedHas ==
  ASSUME NEW D, NEW s \in Seq(Seq(D))
  PROVE  \A i \in 1 .. Len(s) : \A p \in 1 .. Len(s[i]) :
            \E q \in 1 .. Len(Joined(s)) : Joined(s)[q] = s[i][p]
<1> DEFINE f == [i \in 1 .. Len(s) |-> Len(s[i])]
<1>1. AreLengths(f, s)
      BY DEF AreLengths
<1> HIDE DEF f
<1>2. QED BY <1>1, JoinedAt

\* ... and every entry is one of a row.
LEMMA JoinedFrom ==
  ASSUME NEW D, NEW s \in Seq(Seq(D)), NEW q \in 1 .. Len(Joined(s))
  PROVE  \E i \in 1 .. Len(s) : \E p \in 1 .. Len(s[i]) : Joined(s)[q] = s[i][p]
<1> DEFINE Held(x) == \E i \in 1 .. Len(s) : \E p \in 1 .. Len(s[i]) : x = s[i][p]
           Good == {j \in Nat : j <= Len(s) => \A x \in 1 .. Len(FirstJoined(s, j)) : Held(FirstJoined(s, j)[x])}
<1>0. Len(s) \in Nat
      OBVIOUS
<1>1. 0 \in Good
  <2>1. FirstJoined(s, 0) = <<>>
        BY JoinedStarts
  <2>2. 1 .. Len(<<>>) = {}
        OBVIOUS
  <2>3. QED BY <2>1, <2>2
<1>2. ASSUME NEW j \in Nat, j \in Good PROVE j + 1 \in Good
  <2> HIDE DEF Held
  <2> SUFFICES ASSUME j + 1 <= Len(s), NEW x \in 1 .. Len(FirstJoined(s, j + 1))
               PROVE  Held(FirstJoined(s, j + 1)[x])
      OBVIOUS
  <2> DEFINE a == FirstJoined(s, j)
             b == s[j + 1]
  <2>1. j \in 0 .. Len(s) /\ j \in 0 .. Len(s) - 1 /\ b \in Seq(D) /\ j + 1 \in 1 .. Len(s)
    <3>1. j \in 0 .. Len(s) /\ j \in 0 .. Len(s) - 1 /\ j + 1 \in 1 .. Len(s)
          BY <1>0
    <3>2. b \in Seq(D)
          BY <3>1
    <3>3. QED BY <3>1, <3>2
  <2>2. a \in Seq(D)
        BY <2>1, FirstJoinedType
  <2>3. FirstJoined(s, j + 1) = a \o b
        BY <2>1, JoinedStep
  <2>4. \A y \in 1 .. Len(a) : Held(a[y])
        BY <1>2, <2>1
  <2>5. \A y \in 1 .. Len(b) : Held(b[y])
        BY <2>1 DEF Held
  <2> HIDE DEF a, b
  <2>6. /\ Len(a \o b) = Len(a) + Len(b)
        /\ \A y \in 1 .. Len(a) : (a \o b)[y] = a[y]
        /\ \A y \in 1 .. Len(b) : (a \o b)[Len(a) + y] = b[y]
        BY <2>1, <2>2, SeqBehind
  <2>7. Len(a) \in Nat /\ Len(b) \in Nat
        BY <2>1, <2>2
  <2>8. x \in 1 .. Len(a) + Len(b)
        BY <2>3, <2>6
  <2>9. CASE x <= Len(a)
    <3>1. x \in 1 .. Len(a)
          BY <2>7, <2>8, <2>9
    <3>2. QED BY <2>3, <2>4, <2>6, <3>1, Zenon
  <2>10. CASE ~(x <= Len(a))
    <3>1. x - Len(a) \in 1 .. Len(b) /\ Len(a) + (x - Len(a)) = x
          BY <2>7, <2>8, <2>10
    <3>2. (a \o b)[Len(a) + (x - Len(a))] = b[x - Len(a)]
          BY <2>6, <3>1, Zenon
    <3>3. (a \o b)[x] = b[x - Len(a)]
          BY <3>1, <3>2
    <3>4. QED BY <2>3, <2>5, <3>1, <3>3, Zenon
  <2>11. QED BY <2>9, <2>10
<1>3. Nat \subseteq Good
  <2> HIDE DEF Good
  <2>1. QED BY <1>1, <1>2, NatSet
<1>4. \A x \in 1 .. Len(FirstJoined(s, Len(s))) : Held(FirstJoined(s, Len(s))[x])
  <2>1. Len(s) \in Good
        BY <1>3
  <2>2. QED BY <2>1
<1>5. FirstJoined(s, Len(s)) = Joined(s)
      BY JoinedStarts
<1>6. QED BY <1>4, <1>5

\* The largest and the smallest number of a set.
LEMMA LargestIs ==
  ASSUME NEW S, IsFiniteSet(S), S \subseteq Nat, S # {}
  PROVE  Max(S) \in S /\ \A y \in S : y <= Max(S)
<1>1. \E x \in S : \A y \in S : x >= y
      BY ExtremesExist
<1>2. Max(S) \in S /\ \A y \in S : Max(S) >= y
      BY <1>1 DEF Max
<1>3. QED BY <1>2

LEMMA SmallestIs ==
  ASSUME NEW S, S \subseteq Nat, S # {}
  PROVE  Min(S) \in S /\ \A y \in S : Min(S) <= y
<1>1. \E x \in S : \A y \in S : x <= y
      BY LeastOf
<1>2. QED BY <1>1 DEF Min

\* A bounded set of numbers is finite.
LEMMA PartIsFinite ==
  ASSUME NEW n \in Nat, NEW S, \A x \in S : x \in Nat /\ x <= n
  PROVE  IsFiniteSet(S)
<1>1. S \subseteq 0 .. n
      OBVIOUS
<1>2. IsFiniteSet(0 .. n)
      BY FS_Interval
<1>3. QED BY <1>1, <1>2, FS_Subset

\* The lines of charmap.ini.
LEMMA LinesAre ==
  /\ NumSets \in Nat \ {0} /\ AsciiSize \in Nat /\ Implicit \in 1 .. AsciiSize
  /\ Len(CharmapLines) \in Nat /\ DOMAIN CharmapLines = 1 .. Len(CharmapLines)
  /\ \A i \in DOMAIN CharmapLines :
        /\ CharmapLines[i][1] # NoGlyph
        /\ CharmapLines[i][2] \in 0 .. NumSets - 1
        /\ CharmapLines[i][3] \in Nat /\ CharmapLines[i][3] < 255
        /\ CharmapLines[i][2] = WP_ASCII => CharmapLines[i][3] \in Implicit .. AsciiSize - 1
<1>1. /\ NumSets \in Nat \ {0} /\ AsciiSize \in Nat /\ Implicit \in 1 .. AsciiSize
      /\ CharmapLines \in Seq(Range(CharmapLines))
      BY FontTablesAssumption DEF FontTablesAssumption
<1>2. Len(CharmapLines) \in Nat /\ DOMAIN CharmapLines = 1 .. Len(CharmapLines)
      BY <1>1
<1>3. ASSUME NEW i \in DOMAIN CharmapLines
      PROVE  /\ CharmapLines[i][1] # NoGlyph
             /\ CharmapLines[i][2] \in 0 .. NumSets - 1
             /\ CharmapLines[i][3] \in Nat /\ CharmapLines[i][3] < 255
             /\ CharmapLines[i][2] = WP_ASCII => CharmapLines[i][3] \in Implicit .. AsciiSize - 1
  <2>1. CharmapLines[i][1] # NoGlyph /\ CharmapLines[i][2] \in 0 .. NumSets - 1
        BY FontTablesAssumption DEF FontTablesAssumption, Sets
  <2>2. CharmapLines[i][3] \in 0 .. 254
        BY FontTablesAssumption DEF FontTablesAssumption
  <2>3. CharmapLines[i][2] = WP_ASCII => CharmapLines[i][3] \in Implicit .. AsciiSize - 1
        BY FontTablesAssumption DEF FontTablesAssumption
  <2>4. QED BY <2>1, <2>2, <2>3
<1>4. QED BY <1>1, <1>2, <1>3

\* A position of a line has a glyph.
LEMMA PositionIs ==
  ASSUME NEW p \in Positions
  PROVE  /\ p = <<p[1], p[2]>>
         /\ p[1] \in 0 .. NumSets - 1 /\ p[2] \in Nat /\ p[2] < 255
         /\ p[1] = WP_ASCII => p[2] \in Implicit .. AsciiSize - 1
         /\ CharToGlyph(p[1], p[2]) # NoGlyph
<1>1. PICK i \in DOMAIN CharmapLines : p = <<CharmapLines[i][2], CharmapLines[i][3]>>
      BY DEF Positions
<1>2. p[1] = CharmapLines[i][2] /\ p[2] = CharmapLines[i][3]
      BY <1>1
<1>3. /\ p[1] \in 0 .. NumSets - 1 /\ p[2] \in Nat /\ p[2] < 255
      /\ p[1] = WP_ASCII => p[2] \in Implicit .. AsciiSize - 1
      BY <1>2, LinesAre
<1> DEFINE S == LinesFor(p[1], p[2])
<1>4. i \in S /\ \A n \in S : n \in DOMAIN CharmapLines
      BY <1>2 DEF LinesFor
<1>5. S \subseteq 1 .. Len(CharmapLines) /\ S # {} /\ S \subseteq Nat
      BY <1>4, LinesAre
<1>6. IsFiniteSet(S)
  <2>1. \A n \in S : n \in Nat /\ n <= Len(CharmapLines)
        BY <1>4, LinesAre
  <2>2. QED BY <2>1, LinesAre, PartIsFinite
<1>7. CharToGlyph(p[1], p[2]) = CharmapLines[Max(S)][1]
      BY <1>5 DEF CharToGlyph
<1> HIDE DEF S
<1>8. Max(S) \in DOMAIN CharmapLines
      BY <1>4, <1>5, <1>6, LargestIs
<1>9. CharToGlyph(p[1], p[2]) # NoGlyph
      BY <1>7, <1>8, LinesAre
<1>10. QED BY <1>1, <1>2, <1>3, <1>9

\* Where there is no line, there is no glyph.
LEMMA GlyphHasPosition ==
  ASSUME NEW set, NEW c, CharToGlyph(set, c) # NoGlyph
  PROVE  <<set, c>> \in Positions
<1>1. PICK i \in DOMAIN CharmapLines : CharmapLines[i][2] = set /\ CharmapLines[i][3] = c
      BY DEF CharToGlyph, LinesFor
<1>2. QED BY <1>1 DEF Positions

\* The tables have a place for every position.
LEMMA SizeIsEnough ==
  ASSUME NEW set \in 0 .. NumSets - 1
  PROVE  /\ SetSize(set) \in Nat /\ First(set) \in Nat /\ First(set) <= SetSize(set)
         /\ \A p \in Positions : p[1] = set => First(set) <= p[2] /\ p[2] < SetSize(set)
<1>1. CASE set = WP_ASCII
      BY <1>1, LinesAre, PositionIs DEF SetSize, First
<1>2. CASE set # WP_ASCII
  <2> DEFINE S == {0} \cup {p[2] + 1 : p \in {q \in Positions : q[1] = set}}
  <2>1. \A x \in S : x \in Nat /\ x <= 255
        BY PositionIs
  <2>2. S \subseteq Nat /\ S # {}
        BY <2>1
  <2>3. IsFiniteSet(S)
    <3> HIDE DEF S
    <3>1. QED BY <2>1, PartIsFinite
  <2>4. SetSize(set) = Max(S) /\ First(set) = 0
        BY <1>2 DEF SetSize, First
  <2>5. \A p \in Positions : p[1] = set => p[2] + 1 \in S
        OBVIOUS
  <2> HIDE DEF S
  <2>6. Max(S) \in Nat /\ \A y \in S : y <= Max(S)
        BY <2>2, <2>3, LargestIs
  <2>7. ASSUME NEW p \in Positions, p[1] = set PROVE 0 <= p[2] /\ p[2] < Max(S)
    <3>1. p[2] \in Nat
          BY PositionIs
    <3>2. QED BY <2>5, <2>6, <2>7, <3>1
  <2>8. QED BY <2>4, <2>6, <2>7
<1>3. QED BY <1>1, <1>2

\* The sizes in a header, and the characters they stand for.
LEMMA SizesAre ==
  /\ Sizes = [i \in 1 .. NumSets |-> Sizes[i]]
  /\ \A i \in 1 .. NumSets :
        /\ Sizes[i] = SetSize(i - 1) - First(i - 1) /\ Sizes[i] \in Nat
        /\ DOMAIN Written(i - 1) = 1 .. Sizes[i]
        /\ \A k \in 1 .. Sizes[i] : Written(i - 1)[k] = First(i - 1) + k - 1
<1>1. Sizes = [i \in 1 .. NumSets |-> SetSize(i - 1) - First(i - 1)]
      BY DEF Sizes
<1>2. ASSUME NEW i \in 1 .. NumSets
      PROVE  /\ SetSize(i - 1) - First(i - 1) \in Nat
             /\ DOMAIN Written(i - 1) = 1 .. SetSize(i - 1) - First(i - 1)
             /\ \A k \in 1 .. SetSize(i - 1) - First(i - 1) : Written(i - 1)[k] = First(i - 1) + k - 1
  <2>1. i - 1 \in 0 .. NumSets - 1
        BY LinesAre
  <2>2. SetSize(i - 1) - First(i - 1) \in Nat
        BY <2>1, SizeIsEnough
  <2>3. QED BY <2>2 DEF Written
<1>3. QED BY <1>1, <1>2

\* An entry for every written character of every set.
IsTable(rows) ==
  /\ rows = [i \in 1 .. NumSets |-> rows[i]]
  /\ \A i \in 1 .. NumSets : rows[i] = [k \in 1 .. Sizes[i] |-> rows[i][k]]

\* An entry of a table is found by the sizes in its header.
LEMMA EntryAt ==
  ASSUME NEW rows, IsTable(rows), NEW p \in Positions
  PROVE  /\ p[1] + 1 \in 1 .. NumSets /\ p[2] - First(p[1]) + 1 \in 1 .. Sizes[p[1] + 1]
         /\ FlattenSeq(rows)[IndexOf(Sizes, p[1], p[2])] = rows[p[1] + 1][p[2] - First(p[1]) + 1]
<1> DEFINE D == UNION {{rows[i][k] : k \in 1 .. Sizes[i]} : i \in 1 .. NumSets}
           i == p[1] + 1
           k == p[2] - First(p[1]) + 1
<1>1. /\ p[1] \in 0 .. NumSets - 1 /\ p[2] \in Nat /\ NumSets \in Nat
      /\ First(p[1]) \in Nat /\ First(p[1]) <= p[2] /\ p[2] < SetSize(p[1]) /\ SetSize(p[1]) \in Nat
      BY PositionIs, LinesAre, SizeIsEnough
<1>2. i \in 1 .. NumSets /\ i - 1 = p[1]
      BY <1>1
<1>3. Sizes[i] = SetSize(p[1]) - First(p[1])
      BY <1>2, SizesAre
<1>4. k \in 1 .. Sizes[i]
  <2> DEFINE f == First(p[1])
             z == SetSize(p[1])
             c == p[2]
  <2>1. f \in Nat /\ z \in Nat /\ c \in Nat /\ f <= c /\ c < z /\ Sizes[i] = z - f /\ k = c - f + 1
        BY <1>1, <1>3
  <2> HIDE DEF f, z, c, i, k
  <2>2. QED BY <2>1
<1>5. ASSUME NEW j \in 1 .. NumSets PROVE rows[j] \in Seq(D) /\ Len(rows[j]) = Sizes[j]
  <2>1. Sizes[j] \in Nat /\ \A n \in 1 .. Sizes[j] : rows[j][n] \in D
        BY SizesAre
  <2> HIDE DEF D
  <2>3. rows[j] = [n \in 1 .. Sizes[j] |-> rows[j][n]]
        BY DEF IsTable
  <2>2. QED BY <2>1, <2>3, FirstNumbers
<1>6. rows \in Seq(Seq(D)) /\ Len(rows) = NumSets
  <2> HIDE DEF D
  <2>1. rows = [j \in 1 .. NumSets |-> rows[j]]
        BY DEF IsTable
  <2>2. QED BY <1>1, <1>5, <2>1, FirstNumbers
<1>7. IndexOf(Sizes, p[1], p[2]) = SumFunctionOnSet(Sizes, 1 .. p[1]) + p[2] - First(p[1]) + 1
      BY DEF IndexOf
<1>8. FlattenSeq(rows)[SumFunctionOnSet(Sizes, 1 .. i - 1) + k] = rows[i][k]
  <2> HIDE DEF D, i, k
  <2>1. FlattenSeq(rows) = Joined(rows)
        BY FlattenIsJoined
  <2>2. AreLengths(Sizes, rows)
        BY <1>5, <1>6 DEF AreLengths
  <2>3. i \in 1 .. Len(rows) /\ k \in 1 .. Len(rows[i])
        BY <1>2, <1>4, <1>5, <1>6
  <2>4. \A j \in 1 .. Len(rows) : \A n \in 1 .. Len(rows[j]) :
           /\ SumFunctionOnSet(Sizes, 1 .. j - 1) + n \in 1 .. Len(Joined(rows))
           /\ Joined(rows)[SumFunctionOnSet(Sizes, 1 .. j - 1) + n] = rows[j][n]
    <3>1. rows \in Seq(Seq(D))
          BY <1>6
    <3>2. QED BY <2>2, <3>1, JoinedAt
  <2>5. QED BY <2>1, <2>3, <2>4
<1>9. SumFunctionOnSet(Sizes, 1 .. p[1]) \in Nat
  <2>1. IsFiniteSet(1 .. p[1])
        <3>1. 1 \in Int /\ p[1] \in Int
              BY <1>1
        <3>2. QED BY <3>1, FS_Interval
  <2>2. \A x \in 1 .. p[1] : Sizes[x] \in Nat
        BY <1>1, SizesAre
  <2>3. QED BY <2>1, <2>2, SumType
<1>10. IndexOf(Sizes, p[1], p[2]) = SumFunctionOnSet(Sizes, 1 .. i - 1) + k
  <2> DEFINE f == First(p[1])
             c == p[2]
             t == SumFunctionOnSet(Sizes, 1 .. p[1])
  <2>1. f \in Nat /\ c \in Nat /\ t \in Nat /\ k = c - f + 1 /\ IndexOf(Sizes, p[1], p[2]) = t + c - f + 1
        BY <1>1, <1>7, <1>9
  <2>2. SumFunctionOnSet(Sizes, 1 .. i - 1) = t
        BY <1>2
  <2> HIDE DEF f, c, t, k
  <2>3. QED BY <2>1, <2>2
<1>11. QED BY <1>2, <1>4, <1>8, <1>10

\* A width stands where its character's position says, ...
LEMMA WidthsAre ==
  ASSUME NEW f, NEW stem, NEW p \in Positions
  PROVE  WidthAt(SpacingTable(f, stem), p[1], p[2]) = Width(f, CharToGlyph(p[1], p[2]))
<1> DEFINE rows == [i \in 1 .. NumSets |->
                      [k \in DOMAIN Written(i - 1) |-> Width(f, CharToGlyph(i - 1, Written(i - 1)[k]))]]
           spc  == SpacingTable(f, stem)
           i    == p[1] + 1
           k    == p[2] - First(p[1]) + 1
<1>1. spc.sizes = Sizes /\ spc.widths = FlattenSeq(rows)
      BY DEF SpacingTable, ForAllChars
<1>2. IsTable(rows)
      BY SizesAre DEF IsTable
<1>3. /\ i \in 1 .. NumSets /\ k \in 1 .. Sizes[i]
      /\ FlattenSeq(rows)[IndexOf(Sizes, p[1], p[2])] = rows[i][k]
  <2> HIDE DEF rows
  <2>1. QED BY <1>2, EntryAt
<1>4. i - 1 = p[1] /\ Written(i - 1)[k] = First(i - 1) + k - 1
      BY <1>3, PositionIs, SizesAre
<1>5. First(i - 1) + k - 1 = p[2]
      BY <1>4, PositionIs, SizeIsEnough
<1>6. rows[i][k] = Width(f, CharToGlyph(p[1], p[2]))
      BY <1>3, <1>4, <1>5, SizesAre
<1>7. WidthAt(spc, p[1], p[2]) = spc.widths[IndexOf(spc.sizes, p[1], p[2])]
      BY DEF WidthAt
<1> HIDE DEF rows, spc
<1>8. QED BY <1>1, <1>3, <1>6, <1>7 DEF spc

\* ... the list of glyphs has all those that are not of set 0, ...
LEMMA GlyphListIs ==
  /\ Len(GlyphList) \in Nat
  /\ \A q \in 1 .. Len(GlyphList) : \E set, c : GlyphList[q] = <<c, set, CharToGlyph(set, c)>>
  /\ \A p \in Positions : p[1] # WP_ASCII =>
        \E q \in 1 .. Len(GlyphList) : GlyphList[q] = <<p[2], p[1], CharToGlyph(p[1], p[2])>>
<1> DEFINE G(set, c) == <<c, set, CharToGlyph(set, c)>>
           Listing(set, c) == IF set # WP_ASCII /\ CharToGlyph(set, c) # NoGlyph THEN <<G(set, c)>> ELSE <<>>
           Row(set) == [k \in 1 .. SetSize(set) |-> Listing(set, k - 1)]
           D == UNION {{G(set, k - 1) : k \in 1 .. SetSize(set)} : set \in 0 .. NumSets - 1}
           Rows == [j \in 1 .. NumSets |-> GlyphsOf(j - 1)]
<1>1. ASSUME NEW set \in 0 .. NumSets - 1
      PROVE  /\ Row(set) \in Seq(Seq(D)) /\ Len(Row(set)) = SetSize(set)
             /\ GlyphsOf(set) = Joined(Row(set)) /\ GlyphsOf(set) \in Seq(D)
  <2>1. \A k \in 1 .. SetSize(set) : Listing(set, k - 1) \in Seq(D)
    <3>1. ASSUME NEW k \in 1 .. SetSize(set) PROVE Listing(set, k - 1) \in Seq(D)
      <4>1. G(set, k - 1) \in D
            OBVIOUS
      <4> HIDE DEF D, G
      <4>2. <<G(set, k - 1)>> \in Seq(D) /\ <<>> \in Seq(D)
            BY <4>1
      <4>3. QED BY <4>2
    <3>2. QED BY <3>1
  <2>2. SetSize(set) \in Nat
        BY SizeIsEnough
  <2>3. GlyphsOf(set) = FlattenSeq(Row(set))
        BY DEF GlyphsOf
  <2> HIDE DEF D, Listing
  <2>4. Row(set) \in Seq(Seq(D)) /\ Len(Row(set)) = SetSize(set)
        BY <2>1, <2>2, FirstNumbers
  <2> HIDE DEF Row
  <2>5. FlattenSeq(Row(set)) = Joined(Row(set)) /\ Joined(Row(set)) \in Seq(D)
        BY <2>4, FlattenIsJoined, JoinedType
  <2>6. QED BY <2>3, <2>4, <2>5
<1>2. NumSets \in Nat
      BY LinesAre
<1>3. \A j \in 1 .. NumSets : j - 1 \in 0 .. NumSets - 1 /\ Rows[j] = GlyphsOf(j - 1)
      BY <1>2
<1> HIDE DEF D, Row
<1>4. Rows \in Seq(Seq(D)) /\ Len(Rows) = NumSets
      BY <1>1, <1>2, <1>3, FirstNumbers
<1>5. GlyphList = FlattenSeq(Rows)
      BY DEF GlyphList
<1> HIDE DEF Rows
<1>6. GlyphList = Joined(Rows) /\ GlyphList \in Seq(D)
      BY <1>4, <1>5, FlattenIsJoined, JoinedType
<1>7. \A q \in 1 .. Len(GlyphList) : \E set, c : GlyphList[q] = G(set, c)
      BY <1>6 DEF D
<1>8. ASSUME NEW p \in Positions, p[1] # WP_ASCII
      PROVE  \E q \in 1 .. Len(GlyphList) : GlyphList[q] = G(p[1], p[2])
  <2> DEFINE row == Row(p[1])
             j == p[1] + 1
             k == p[2] + 1
  <2>1. p[1] \in 0 .. NumSets - 1 /\ j \in 1 .. NumSets /\ j - 1 = p[1]
        BY <1>2, PositionIs
  <2>2. p[2] \in Nat /\ p[2] < SetSize(p[1]) /\ SetSize(p[1]) \in Nat
        BY <2>1, SizeIsEnough, PositionIs
  <2>3. k \in 1 .. SetSize(p[1]) /\ k - 1 = p[2]
        BY <2>2
  <2>4. row[k] = Listing(p[1], p[2])
        BY <2>3 DEF Row
  <2>5. CharToGlyph(p[1], p[2]) # NoGlyph
        BY PositionIs
  <2>6. row[k] = <<G(p[1], p[2])>>
        BY <1>8, <2>4, <2>5
  <2> HIDE DEF Listing, G
  <2>7. 1 \in 1 .. Len(row[k]) /\ row[k][1] = G(p[1], p[2])
        BY <2>6
  <2>8. row \in Seq(Seq(D)) /\ Len(row) = SetSize(p[1]) /\ GlyphsOf(p[1]) = Joined(row)
        BY <1>1, <2>1
  <2> HIDE DEF row
  <2>9. PICK m \in 1 .. Len(Joined(row)) : Joined(row)[m] = G(p[1], p[2])
    <3>1. k \in 1 .. Len(row)
          BY <2>3, <2>8
    <3>2. \A a \in 1 .. Len(row) : \A b \in 1 .. Len(row[a]) : \E m \in 1 .. Len(Joined(row)) : Joined(row)[m] = row[a][b]
          BY <2>8, JoinedHas
    <3>3. QED BY <2>7, <3>1, <3>2
  <2>10. j \in 1 .. Len(Rows) /\ Rows[j] = Joined(row)
         BY <1>3, <1>4, <2>1, <2>8
  <2>11. \A a \in 1 .. Len(Rows) : \A b \in 1 .. Len(Rows[a]) : \E m1 \in 1 .. Len(Joined(Rows)) : Joined(Rows)[m1] = Rows[a][b]
         BY <1>4, JoinedHas
  <2>12. QED BY <1>6, <2>9, <2>10, <2>11
<1>9. QED BY <1>6, <1>7, <1>8

\* ... and a character is printed with the glyph of its position.
LEMMA PrintsAre ==
  ASSUME NEW f, NEW p \in Positions
  PROVE  PrintsAt(MapTable(f), p[1], p[2]) = CharToGlyph(p[1], p[2])
<1> DEFINE rows == [i \in 1 .. NumSets |->
                      [k \in DOMAIN Written(i - 1) |-> MapChar(i - 1, Written(i - 1)[k])]]
           map  == MapTable(f)
           i    == p[1] + 1
           k    == p[2] - First(p[1]) + 1
           at0  == IndexOf(map.sizes, p[1], p[2])
<1>1. map.sizes = Sizes /\ map.chars = FlattenSeq(rows) /\ map.glyphs = GlyphList /\ map.glyphcnt = Len(GlyphList)
      BY DEF MapTable, ForAllChars
<1>2. IsTable(rows)
      BY SizesAre DEF IsTable
<1>3. /\ i \in 1 .. NumSets /\ k \in 1 .. Sizes[i]
      /\ FlattenSeq(rows)[IndexOf(Sizes, p[1], p[2])] = rows[i][k]
  <2> HIDE DEF rows
  <2>1. QED BY <1>2, EntryAt
<1>4. i - 1 = p[1] /\ Written(i - 1)[k] = First(i - 1) + k - 1
      BY <1>3, PositionIs, SizesAre
<1>5. First(i - 1) + k - 1 = p[2]
      BY <1>4, PositionIs, SizeIsEnough
<1>6. rows[i][k] = MapChar(p[1], p[2])
      BY <1>3, <1>4, <1>5, SizesAre
<1> DEFINE listed == {q \in 1 .. map.glyphcnt : map.glyphs[q][1] = p[2] /\ map.glyphs[q][2] = p[1]}
<1>7. PrintsAt(map, p[1], p[2]) =
         IF map.chars[at0] # -1 THEN CharToGlyph(WP_ASCII, map.chars[at0])
         ELSE IF listed = {} THEN NoGlyph ELSE map.glyphs[Min(listed)][3]
      BY DEF PrintsAt
<1> HIDE DEF rows, map
<1>8. map.chars[at0] = MapChar(p[1], p[2])
      BY <1>1, <1>3, <1>6
<1>9. CharToGlyph(p[1], p[2]) # NoGlyph /\ p[2] \in Nat
      BY PositionIs
<1>10. CASE p[1] = WP_ASCII
  <2>1. map.chars[at0] = p[2]
        BY <1>8, <1>9, <1>10 DEF MapChar
  <2>2. QED BY <1>7, <1>9, <1>10, <2>1 DEF map
<1>11. CASE p[1] # WP_ASCII
  <2>1. map.chars[at0] = -1
        BY <1>8, <1>11 DEF MapChar
  <2>2. PICK q \in 1 .. Len(GlyphList) : GlyphList[q] = <<p[2], p[1], CharToGlyph(p[1], p[2])>>
        BY <1>11, GlyphListIs
  <2>3. q \in listed
        BY <1>1, <2>2
  <2>4. listed \subseteq Nat /\ Len(GlyphList) \in Nat
        BY <1>1, GlyphListIs
  <2>5. Min(listed) \in listed
    <3> HIDE DEF listed
    <3>1. QED BY <2>3, <2>4, SmallestIs
  <2> DEFINE m == Min(listed)
  <2>6. m \in 1 .. Len(GlyphList) /\ GlyphList[m][1] = p[2] /\ GlyphList[m][2] = p[1]
        BY <1>1, <2>5
  <2> HIDE DEF m
  <2>7. PICK set, c : GlyphList[m] = <<c, set, CharToGlyph(set, c)>>
        BY <2>6, GlyphListIs
  <2>10. c = p[2] /\ set = p[1]
         BY <2>6, <2>7
  <2>8. map.glyphs[Min(listed)][3] = CharToGlyph(p[1], p[2])
        BY <1>1, <2>7, <2>10 DEF m
  <2> HIDE DEF listed
  <2>9. QED BY <1>7, <2>1, <2>3, <2>8 DEF map
<1>12. QED BY <1>10, <1>11

\* A word decodes to the glyph it was made of, and 0 means that there is none.
LEMMA CharOf ==
  ASSUME NEW glyph
  PROVE  /\ Known(glyph) <=> GlyphToChar(glyph) # 0
         /\ GlyphToChar(glyph) # 0 =>
               CharToGlyph(GlyphToChar(glyph) \div 256, GlyphToChar(glyph) % 256) = glyph
<1> DEFINE found == {p \in Positions : CharToGlyph(p[1], p[2]) = glyph}
           S == {p[1] * 256 + p[2] : p \in found}
           w == GlyphToChar(glyph)
<1>1. Known(glyph) <=> found # {}
      BY DEF Known
<1>2. CASE found = {}
  <2>1. w = 0
        BY <1>2 DEF GlyphToChar
  <2>2. QED BY <1>1, <1>2, <2>1
<1>3. CASE found # {}
  <2>1. w = Min(S)
        BY <1>3 DEF GlyphToChar
  <2>2. ASSUME NEW p \in found
        PROVE  /\ p[1] * 256 + p[2] \in Nat /\ p[1] * 256 + p[2] # 0
               /\ (p[1] * 256 + p[2]) \div 256 = p[1] /\ (p[1] * 256 + p[2]) % 256 = p[2]
    <3>1. p[1] \in 0 .. NumSets - 1 /\ p[2] \in Nat /\ p[2] < 255 /\ NumSets \in Nat
          BY PositionIs, LinesAre
    <3>2. p[1] = 0 => p[2] # 0
      <4>1. p[1] = 0 => p[2] \in Implicit .. AsciiSize - 1
            BY PositionIs DEF WP_ASCII
      <4>2. Implicit \in 1 .. AsciiSize
            BY LinesAre
      <4>3. QED BY <3>1, <4>1, <4>2, LinesAre
    <3> DEFINE a == p[1]
               b == p[2]
    <3>3. a \in Nat /\ b \in Nat /\ b < 255 /\ (a = 0 => b # 0)
          BY <3>1, <3>2
    <3> HIDE DEF a, b
    <3>4. a * 256 + b \in Nat /\ a * 256 + b # 0 /\ (a * 256 + b) \div 256 = a /\ (a * 256 + b) % 256 = b
          BY <3>3
    <3>5. QED BY <3>4 DEF a, b
  <2>3. S \subseteq Nat /\ S # {}
        BY <1>3, <2>2
  <2>4. Min(S) \in S
    <3> HIDE DEF S
    <3>1. QED BY <2>3, SmallestIs
  <2>5. PICK p \in found : w = p[1] * 256 + p[2]
        BY <2>1, <2>4
  <2>6. w # 0 /\ w \div 256 = p[1] /\ w % 256 = p[2]
        BY <2>2, <2>5
  <2>7. CharToGlyph(p[1], p[2]) = glyph
        OBVIOUS
  <2>8. QED BY <1>1, <1>3, <2>6, <2>7
<1>4. QED BY <1>2, <1>3

\* A character without a name is none of WordPerfect's.
LEMMA NobodyKnowsNULL == ~Known(NULL)
BY PositionIs DEF Known, NULL, NoGlyph

\* A width that fits is not changed.
LEMMA Int16Is ==
  ASSUME NEW n \in Nat, n < 32768
  PROVE  Int16(n) = n
<1>2. n + 32768 \in Nat /\ n + 32768 < 65536
      OBVIOUS
<1>3. (n + 32768) % 65536 = n + 32768
      BY <1>2
<1>4. QED BY <1>3 DEF Int16

\* The width of a glyph is that of a character of its name, if there is one.
LEMMA WidthIs ==
  ASSUME NEW f, NEW D, f.chars \in Seq(D), NEW glyph, glyph # NoGlyph
  PROVE  \/ Width(f, glyph) = -1 /\ \A k \in DOMAIN f.chars : f.chars[k].name # glyph
         \/ \E k \in DOMAIN f.chars : f.chars[k].name = glyph /\ Width(f, glyph) = Int16(f.chars[k].wx)
<1> DEFINE has == {k \in DOMAIN f.chars : f.chars[k].name = glyph}
<1>1. Width(f, glyph) = IF has = {} THEN -1 ELSE Int16(f.chars[Min(has)].wx)
      BY DEF Width
<1>2. CASE has = {}
      BY <1>1, <1>2
<1>3. CASE has # {}
  <2>1. DOMAIN f.chars \subseteq Nat
        OBVIOUS
  <2>2. has \subseteq Nat
        BY <2>1
  <2>3. Min(has) \in has
    <3> HIDE DEF has
    <3>1. QED BY <1>3, <2>2, SmallestIs
  <2>4. QED BY <1>1, <1>3, <2>3
<1>4. QED BY <1>2, <1>3

-----------------------------------------------------------------------------
(* What of a file has been read so far.                                    *)

Past == 1 .. at - 1

\* v is what the last entry with that key among the first m says, or nothing if there
\* is none.
LastIs(e, m, key, v, nothing) ==
  \/ v = nothing /\ \A n \in 1 .. m : e[n].key # key
  \/ \E n \in 1 .. m : /\ e[n].key = key /\ v = e[n].val
                       /\ \A k \in n + 1 .. m : e[k].key # key

GlobalsInv ==
  /\ "fontName" \in DOMAIN fi /\ LastIs(file, at - 1, "FontName", fi.fontName, NULL)
  /\ "isFixedPitch" \in DOMAIN fi /\ LastIs(file, at - 1, "IsFixedPitch", fi.isFixedPitch, FALSE)
  /\ section = "globals" => \A n \in Past : file[n].key # "StartCharMetrics"
  /\ section \notin {"globals", "end"} => \E n \in Past : file[n].key = "StartCharMetrics"
  /\ section = "end" => at > Len(file) \/ \E n \in Past : file[n].key = "EndFontMetrics"

\* The name and the width of a character stand next to each other.
Measured(e, m, c) ==
  c.name # NULL => \E n \in 1 .. m : /\ e[n].key = "N" /\ e[n].val = c.name
                                     /\ e[n - 1].val = c.wx

GlyphsInv ==
  /\ section = "metrics" =>
       /\ 1 < at
       /\ \A k \in count + 1 .. Len(fi.chars) : fi.chars[k] = NoChar
       /\ file[at - 1].key = "C" => count >= 1 /\ fi.chars[count] = NoChar
       /\ file[at - 1].key = "WX" => /\ count >= 1 /\ fi.chars[count].name = NULL
                                     /\ fi.chars[count].wx = file[at - 1].val
  /\ \A k \in 1 .. Len(fi.chars) : Measured(file, at - 1, fi.chars[k])

\* The first character gets the first width of all, or none.
NoWidth(e, m) == \A n \in 1 .. m : e[n].key # "WX"
FirstWidth(e, m, width) ==
  width # 0 => \E n \in 1 .. m : /\ e[n].key = "WX" /\ e[n].val = width
                                /\ NoWidth(e, n - 1)

FirstWidthInv ==
  /\ section = "metrics" /\ (count = 0 \/ (count = 1 /\ file[at - 1].key = "C")) =>
        NoWidth(file, at - 1)
  /\ fi.chars # <<>> => FirstWidth(file, at - 1, fi.chars[1].wx)

\* What is kept as a pair is in the file.
PairsFromInv ==
  \A k \in 1 .. Len(fi.pairs) :
     fi.pairs[k] # NoPair => \E n \in Kerns : file[n].val = fi.pairs[k]

\* All of a file whose counts are right, and whose lists are complete.
Sound(i, j) ==
  /\ Places(file, "EndFontMetrics") = {Len(file)}
  /\ IsCharList(file, i, j) /\ Counts(file)

AllCharsInv(i, j) ==
  /\ section = "globals" => at <= i
  /\ section = "metrics" => /\ i < at /\ at <= j
                            /\ Len(fi.chars) = Cardinality(Numbers)
                            /\ count = Rank(Numbers, at - 1)
  /\ section \notin {"globals", "metrics"} => at > j
  /\ section = "end" => at > Len(file)
  /\ \A n \in Past : file[n].key = "N" /\ file[n].val # NULL =>
        \E k \in 1 .. Len(fi.chars) : fi.chars[k].name = file[n].val

AllPairsInv(i, j) ==
  /\ section = "pairs" => /\ i < at /\ at <= j
                          /\ Len(fi.pairs) = Cardinality(Kerns)
                          /\ count = Rank(Kerns, at - 1)
                          /\ \A k \in count + 1 .. Len(fi.pairs) : fi.pairs[k] = NoPair
  /\ section \notin {"globals", "metrics", "pairs"} => at <= i \/ at > j
  /\ \A n \in Past : file[n].key = "KPX" /\ file[n].val # NoPair =>
        \E k \in 1 .. Len(fi.pairs) : fi.pairs[k] = file[n].val

MeasureInv ==
  /\ GlobalsInv /\ GlyphsInv /\ FirstWidthInv /\ PairsFromInv
  /\ \A i, j : Sound(i, j) => AllCharsInv(i, j)
  /\ \A i, j, k, l : Sound(i, j) /\ IsPairList(file, k, l) => AllPairsInv(k, l)

\* The phases in which a font's file has been read.
Translating == phase \in {"charmap", "krn", "kerning", "spc", "typ", "map", "add", "merge"}

\* One more entry is read, or the end is noticed.
LEMMA Advance ==
  ASSUME ParseTypes, AfmNext
  PROVE  /\ file' = file /\ at \in Nat \ {0} /\ Len(file) \in Nat /\ DOMAIN file = 1 .. Len(file)
         /\ \/ /\ at <= Len(file) /\ at \in 1 .. Len(file) /\ at' = at + 1 /\ at' - 1 = at
               /\ (at - 1) + 1 = at /\ Past' = Past \cup {at}
            \/ at > Len(file) /\ at' = at /\ Past' = Past /\ fi' = fi /\ section' = "end"
<1>1. file' = file
      BY AfmOutcome
<1>2. at \in Nat \ {0} /\ Len(file) \in Nat /\ DOMAIN file = 1 .. Len(file)
      BY EntryIs DEF ParseTypes
<1>3. \/ at <= Len(file) /\ at' = at + 1
      \/ at > Len(file) /\ at' = at /\ fi' = fi /\ section' = "end"
  <2>1. CASE PassedOver \/ GivenUp
        BY <2>1 DEF PassedOver, GivenUp
  <2>2. CASE StartCharMetrics \/ CharWidth \/ CharName \/ EndCharMetrics \/ CharCode \/ KernPair
        BY <2>2 DEF StartCharMetrics, CharWidth, CharName, EndCharMetrics, CharCode, KernPair,
                    Consume, Entry
  <2>3. CASE EndKernPairs \/ EndSkipped \/ StartKernPairs \/ StartSkipped \/ EndFontMetrics
        BY <2>3 DEF EndKernPairs, EndSkipped, StartKernPairs, StartSkipped, EndFontMetrics,
                    Consume, Entry
  <2>4. QED BY <2>1, <2>2, <2>3, AfmOutcome
<1>4. CASE at <= Len(file) /\ at' = at + 1
  <2>1. at \in 1 .. Len(file) /\ at' - 1 = at /\ (at - 1) + 1 = at
        BY <1>2, <1>4
  <2>2. 1 .. at = (1 .. at - 1) \cup {at}
        BY <1>2
  <2>3. QED BY <1>1, <1>2, <1>4, <2>1, <2>2 DEF Past
<1>5. CASE at > Len(file) /\ at' = at /\ fi' = fi /\ section' = "end"
      BY <1>1, <1>2, <1>5 DEF Past
<1>6. QED BY <1>3, <1>4, <1>5

\* Another entry is read: the last with a key stays the last, ...
LEMMA LastOn ==
  ASSUME NEW e, NEW m \in Nat, NEW key, NEW v, NEW nothing, LastIs(e, m, key, v, nothing),
         e[m + 1].key # key
  PROVE  LastIs(e, m + 1, key, v, nothing)
<1>1. \A n \in 1 .. m + 1 : n \in 1 .. m \/ n = m + 1
      OBVIOUS
<1>2. CASE v = nothing /\ \A n \in 1 .. m : e[n].key # key
      BY <1>1, <1>2 DEF LastIs
<1>3. CASE \E n \in 1 .. m : /\ e[n].key = key /\ v = e[n].val
                             /\ \A k \in n + 1 .. m : e[k].key # key
  <2>1. PICK n \in 1 .. m : /\ e[n].key = key /\ v = e[n].val
                            /\ \A k \in n + 1 .. m : e[k].key # key
        BY <1>3
  <2>2. n \in 1 .. m + 1 /\ \A k \in n + 1 .. m + 1 : k \in n + 1 .. m \/ k = m + 1
        OBVIOUS
  <2>3. \A k \in n + 1 .. m + 1 : e[k].key # key
        BY <2>1, <2>2
  <2>4. QED BY <2>1, <2>2, <2>3 DEF LastIs
<1>4. QED BY <1>2, <1>3 DEF LastIs

\* ... or the new one is.
LEMMA LastNow ==
  ASSUME NEW e, NEW m \in Nat, NEW nothing
  PROVE  LastIs(e, m + 1, e[m + 1].key, e[m + 1].val, nothing)
<1>1. m + 1 \in 1 .. m + 1 /\ \A k \in (m + 1) + 1 .. m + 1 : FALSE
      OBVIOUS
<1>2. QED BY <1>1 DEF LastIs

\* What is left of the parser's state when it starts.
LEMMA GlobalsKeep ==
  ASSUME ParseTypes, AfmNext, InTurn(file), GlobalsInv
  PROVE  GlobalsInv'
<1>1. /\ file' = file /\ at \in Nat \ {0} /\ Len(file) \in Nat /\ DOMAIN file = 1 .. Len(file)
      /\ \/ /\ at <= Len(file) /\ at \in 1 .. Len(file) /\ at' = at + 1 /\ at' - 1 = at
            /\ (at - 1) + 1 = at /\ Past' = Past \cup {at}
         \/ at > Len(file) /\ at' = at /\ Past' = Past /\ fi' = fi /\ section' = "end"
      BY Advance
<1>2. /\ "fontName" \in DOMAIN fi /\ LastIs(file, at - 1, "FontName", fi.fontName, NULL)
      /\ "isFixedPitch" \in DOMAIN fi /\ LastIs(file, at - 1, "IsFixedPitch", fi.isFixedPitch, FALSE)
      /\ section = "globals" => \A n \in Past : file[n].key # "StartCharMetrics"
      /\ section \notin {"globals", "end"} => \E n \in Past : file[n].key = "StartCharMetrics"
      /\ section = "end" => at > Len(file) \/ \E n \in Past : file[n].key = "EndFontMetrics"
      BY DEF GlobalsInv
<1>3. at <= Len(file) /\ section # "globals" => file[at].key \notin GlobalKeys
  <2>1. SUFFICES ASSUME at <= Len(file), section # "globals", file[at].key \in GlobalKeys PROVE FALSE
        OBVIOUS
  <2>2. \A s \in 1 .. at - 1 : file[s].key \notin {"StartCharMetrics", "EndFontMetrics"}
        BY <1>1, <2>1 DEF InTurn
  <2>3. \E n \in Past : file[n].key \in {"StartCharMetrics", "EndFontMetrics"}
        BY <1>1, <1>2, <2>1
  <2>4. QED BY <2>2, <2>3 DEF Past
<1>4. "FontName" \in GlobalKeys /\ "IsFixedPitch" \in GlobalKeys
      BY DEF GlobalKeys, GlobalField
<1>5. ASSUME at <= Len(file), at' = at + 1, file[at].key \notin GlobalKeys,
             "fontName" \in DOMAIN fi', "isFixedPitch" \in DOMAIN fi',
             fi'.fontName = fi.fontName, fi'.isFixedPitch = fi.isFixedPitch
      PROVE  /\ LastIs(file', at' - 1, "FontName", fi'.fontName, NULL)
             /\ LastIs(file', at' - 1, "IsFixedPitch", fi'.isFixedPitch, FALSE)
  <2>1. at - 1 \in Nat /\ file[(at - 1) + 1].key # "FontName" /\ file[(at - 1) + 1].key # "IsFixedPitch"
        BY <1>1, <1>4, <1>5
  <2>2. /\ LastIs(file, (at - 1) + 1, "FontName", fi.fontName, NULL)
        /\ LastIs(file, (at - 1) + 1, "IsFixedPitch", fi.isFixedPitch, FALSE)
        BY <1>2, <2>1, LastOn
  <2>3. file' = file /\ at' - 1 = at /\ (at - 1) + 1 = at
        BY <1>1, <1>5
  <2>4. QED BY <1>5, <2>2, <2>3
<1>6. ASSUME Global
      PROVE  /\ "fontName" \in DOMAIN fi' /\ LastIs(file', at' - 1, "FontName", fi'.fontName, NULL)
             /\ "isFixedPitch" \in DOMAIN fi'
             /\ LastIs(file', at' - 1, "IsFixedPitch", fi'.isFixedPitch, FALSE)
  <2>1. /\ at <= Len(file) /\ at' = at + 1 /\ file[at].key \in GlobalKeys
        /\ fi' = [fi EXCEPT ![GlobalField[file[at].key]] = file[at].val]
        BY <1>6 DEF Global, Consume
  <2>2. at - 1 \in Nat /\ (at - 1) + 1 = at /\ at' - 1 = at
        BY <1>1, <2>1
  <2>3. /\ GlobalField["FontName"] = "fontName" /\ GlobalField["IsFixedPitch"] = "isFixedPitch"
        /\ \A k \in GlobalKeys : /\ GlobalField[k] = "fontName" <=> k = "FontName"
                                 /\ GlobalField[k] = "isFixedPitch" <=> k = "IsFixedPitch"
        BY DEF GlobalKeys, GlobalField
  <2>4. /\ "fontName" \in DOMAIN fi' /\ "isFixedPitch" \in DOMAIN fi'
        /\ fi'["fontName"] = IF file[at].key = "FontName" THEN file[at].val ELSE fi["fontName"]
        /\ fi'["isFixedPitch"] = IF file[at].key = "IsFixedPitch" THEN file[at].val ELSE fi["isFixedPitch"]
        BY <1>2, <2>1, <2>3
  <2>5. LastIs(file, at, "FontName", fi'.fontName, NULL)
    <3>1. CASE file[at].key = "FontName"
          BY <2>2, <2>4, <3>1, LastNow
    <3>2. CASE file[at].key # "FontName"
          BY <1>2, <2>2, <2>4, <3>2, LastOn
    <3>3. QED BY <3>1, <3>2
  <2>6. LastIs(file, at, "IsFixedPitch", fi'.isFixedPitch, FALSE)
    <3>1. CASE file[at].key = "IsFixedPitch"
          BY <2>2, <2>4, <3>1, LastNow
    <3>2. CASE file[at].key # "IsFixedPitch"
          BY <1>2, <2>2, <2>4, <3>2, LastOn
    <3>3. QED BY <3>1, <3>2
  <2>7. QED BY <1>1, <2>2, <2>4, <2>5, <2>6
<1>7. /\ "fontName" \in DOMAIN fi' /\ LastIs(file', at' - 1, "FontName", fi'.fontName, NULL)
      /\ "isFixedPitch" \in DOMAIN fi'
      /\ LastIs(file', at' - 1, "IsFixedPitch", fi'.isFixedPitch, FALSE)
  <2>1. CASE Global
        BY <1>6, <2>1
  <2>2. CASE at > Len(file)
    <3>1. file' = file /\ at' = at /\ fi' = fi
          BY <1>1, <2>2
    <3>2. QED BY <1>2, <3>1
  <2>3. ASSUME at <= Len(file), ~Global
        PROVE  /\ file[at].key \notin GlobalKeys
               /\ "fontName" \in DOMAIN fi' /\ "isFixedPitch" \in DOMAIN fi'
               /\ fi'.fontName = fi.fontName /\ fi'.isFixedPitch = fi.isFixedPitch
    <3>1. CASE PassedOver
      <4>1. fi' = fi /\ file[at].key \notin GlobalKeys
            BY <1>3, <2>3, <3>1 DEF PassedOver
      <4>2. QED BY <1>2, <4>1
    <3>2. CASE StartCharMetrics
      <4>1. /\ fi' = [fi EXCEPT !.chars = Blank(file[at].val, NoChar)]
            /\ file[at].key = "StartCharMetrics"
            BY <3>2 DEF StartCharMetrics, Entry
      <4>2. file[at].key \notin GlobalKeys
            BY <4>1 DEF GlobalKeys, GlobalField
      <4>3. QED BY <1>2, <4>1, <4>2
    <3>3. CASE CharWidth \/ CharName
      <4>1. \E c : fi' = [fi EXCEPT !.chars = c]
            BY <3>3 DEF CharWidth, CharName
      <4>2. section # "globals"
            BY <3>3 DEF CharWidth, CharName
      <4>3. QED BY <1>2, <1>3, <2>3, <4>1, <4>2
    <3>4. CASE StartKernPairs \/ KernPair
      <4>1. fi' = fi \/ \E c : fi' = [fi EXCEPT !.pairs = c]
            BY <3>4 DEF StartKernPairs, KernPair
      <4>2. section # "globals"
            BY <3>4 DEF StartKernPairs, KernPair
      <4>3. QED BY <1>2, <1>3, <2>3, <4>1, <4>2
    <3>5. CASE EndCharMetrics \/ CharCode \/ EndKernPairs \/ EndSkipped \/ StartSkipped
      <4>1. fi' = fi /\ section # "globals"
            BY <3>5 DEF EndCharMetrics, CharCode, EndKernPairs, EndSkipped, StartSkipped
      <4>2. QED BY <1>2, <1>3, <2>3, <4>1
    <3>6. CASE EndFontMetrics
      <4>1. fi' = fi /\ file[at].key = "EndFontMetrics"
            BY <3>6 DEF EndFontMetrics, Entry
      <4>2. file[at].key \notin GlobalKeys
            BY <4>1 DEF GlobalKeys, GlobalField
      <4>3. QED BY <1>2, <4>1, <4>2
    <3>7. CASE GivenUp
      <4>1. fi' = fi /\ section # "globals"
            BY <1>1, <2>3, <3>7 DEF GivenUp
      <4>2. QED BY <1>2, <1>3, <2>3, <4>1
    <3>8. QED BY <3>1, <3>2, <3>3, <3>4, <3>5, <3>6, <3>7, AfmOutcome
  <2>4. ASSUME at <= Len(file), ~Global
        PROVE  /\ LastIs(file', at' - 1, "FontName", fi'.fontName, NULL)
               /\ LastIs(file', at' - 1, "IsFixedPitch", fi'.isFixedPitch, FALSE)
    <3>1. at' = at + 1
          BY <1>1, <2>4
    <3>2. QED BY <1>5, <2>3, <2>4, <3>1
  <2>5. QED BY <1>1, <2>1, <2>2, <2>3, <2>4
<1>8. /\ section' = "globals" => \A n \in Past' : file'[n].key # "StartCharMetrics"
      /\ section' \notin {"globals", "end"} => \E n \in Past' : file'[n].key = "StartCharMetrics"
      /\ section' = "end" => at' > Len(file') \/ \E n \in Past' : file'[n].key = "EndFontMetrics"
  <2>1. CASE at > Len(file)
        BY <1>1, <2>1
  <2>2. ASSUME at <= Len(file)
        PROVE  /\ section' = "globals" => section = "globals" /\ file[at].key # "StartCharMetrics"
               /\ section' \notin {"globals", "end"} =>
                     section \notin {"globals", "end"} \/ file[at].key = "StartCharMetrics"
               /\ section' = "end" => section = "end" \/ file[at].key = "EndFontMetrics"
    <3>1. CASE PassedOver
          BY <3>1 DEF PassedOver
    <3>2. CASE GivenUp
          BY <1>1, <2>2, <3>2 DEF GivenUp
    <3>3. CASE StartCharMetrics \/ EndFontMetrics
          BY <3>3 DEF StartCharMetrics, EndFontMetrics, Entry, Return
    <3>4. CASE CharWidth \/ CharName \/ (CharCode /\ count < Len(fi.chars))
          BY <3>4 DEF CharWidth, CharName, CharCode
    <3>5. CASE (KernPair /\ count < Len(fi.pairs)) \/ StartKernPairs \/ StartSkipped
          BY <3>5 DEF KernPair, StartKernPairs, StartSkipped
    <3>6. CASE EndCharMetrics \/ EndKernPairs \/ EndSkipped
      <4>1. \A n : Counted(n) \in {"ok", "parseError"}
            BY DEF Counted, ParseTypes
      <4>2. section' = "file" /\ section \in {"metrics", "pairs", "tracks", "composites"}
            BY <3>6, <4>1 DEF EndCharMetrics, EndKernPairs, EndSkipped, Return
      <4>3. QED BY <4>2
    <3>7. QED BY <3>1, <3>2, <3>3, <3>4, <3>5, <3>6, AfmOutcome
  <2>3. QED BY <1>1, <1>2, <2>1, <2>2
<1>9. QED BY <1>7, <1>8 DEF GlobalsInv

\* What stood in the file still stands there.
LEMMA MeasuredOn ==
  ASSUME NEW e, NEW m \in Nat, NEW c, Measured(e, m, c)
  PROVE  Measured(e, m + 1, c)
<1>1. \A n \in 1 .. m : n \in 1 .. m + 1
      OBVIOUS
<1>2. QED BY <1>1 DEF Measured

\* The characters are not touched but where their list is read.
LEMMA CharsStay ==
  ASSUME ParseTypes, AfmNext, ~StartCharMetrics, ~CharWidth, ~CharName
  PROVE  /\ "chars" \in DOMAIN fi' /\ fi'.chars = fi.chars
         /\ section' = "metrics" => section = "metrics" /\ at <= Len(file)
                                      /\ (PassedOver \/ (CharCode /\ count < Len(fi.chars)))
<1>1. "chars" \in DOMAIN fi /\ \A n : Counted(n) \in {"ok", "parseError"}
      BY DEF ParseTypes, Counted
<1>2. CASE PassedOver
      BY <1>2 DEF PassedOver
<1>3. CASE GivenUp
      BY <1>1, <1>3 DEF GivenUp
<1>4. CASE CharCode /\ count < Len(fi.chars)
      BY <1>1, <1>4 DEF CharCode, Entry
<1>5. CASE EndCharMetrics \/ EndKernPairs \/ EndSkipped \/ EndFontMetrics
      BY <1>1, <1>5 DEF EndCharMetrics, EndKernPairs, EndSkipped, EndFontMetrics, Return
<1>6. CASE (KernPair /\ count < Len(fi.pairs)) \/ StartKernPairs \/ StartSkipped
  <2>1. section' # "metrics" /\ (fi' = fi \/ \E c : fi' = [fi EXCEPT !.pairs = c])
        BY <1>6 DEF KernPair, StartKernPairs, StartSkipped
  <2>2. QED BY <1>1, <2>1
<1>7. QED BY <1>2, <1>3, <1>4, <1>5, <1>6, AfmOutcome

\* A width belongs to the character whose code came right before it, a name to that
\* of the width before it.
LEMMA GlyphsKeep ==
  ASSUME ParseTypes, AfmNext, InTurn(file), GlyphsInv
  PROVE  GlyphsInv'
<1>1. /\ file' = file /\ at \in Nat \ {0} /\ Len(file) \in Nat /\ DOMAIN file = 1 .. Len(file)
      /\ \/ /\ at <= Len(file) /\ at \in 1 .. Len(file) /\ at' = at + 1 /\ at' - 1 = at
            /\ (at - 1) + 1 = at /\ Past' = Past \cup {at}
         \/ at > Len(file) /\ at' = at /\ Past' = Past /\ fi' = fi /\ section' = "end"
      BY Advance
<1>2. /\ "chars" \in DOMAIN fi /\ "pairs" \in DOMAIN fi /\ fi.chars \in Seq(FontChars)
      /\ Len(fi.chars) \in Nat /\ count \in Nat
      /\ section = "metrics" => count <= Len(fi.chars) /\ 1 <= Len(fi.chars)
      BY DEF ParseTypes
<1>3. /\ section = "metrics" =>
           /\ 1 < at
           /\ \A k \in count + 1 .. Len(fi.chars) : fi.chars[k] = NoChar
           /\ file[at - 1].key = "C" => count >= 1 /\ fi.chars[count] = NoChar
           /\ file[at - 1].key = "WX" => /\ count >= 1 /\ fi.chars[count].name = NULL
                                         /\ fi.chars[count].wx = file[at - 1].val
      /\ \A k \in 1 .. Len(fi.chars) : Measured(file, at - 1, fi.chars[k])
      BY DEF GlyphsInv
<1>4. \A c : Measured(file, at - 1, c) => Measured(file, at' - 1, c)
  <2>1. CASE at' - 1 = (at - 1) + 1
        BY <1>1, <2>1, MeasuredOn
  <2>2. CASE at' = at
        BY <2>2
  <2>3. QED BY <1>1, <2>1, <2>2
<1>5. CASE ~StartCharMetrics /\ ~CharWidth /\ ~CharName
  <2>1. /\ fi'.chars = fi.chars
        /\ section' = "metrics" => section = "metrics" /\ at <= Len(file)
                                   /\ (PassedOver \/ (CharCode /\ count < Len(fi.chars)))
        BY <1>5, CharsStay
  <2>2. \A k \in 1 .. Len(fi'.chars) : Measured(file', at' - 1, fi'.chars[k])
        BY <1>1, <1>3, <1>4, <2>1
  <2>3. CASE section' # "metrics"
        BY <2>2, <2>3 DEF GlyphsInv
  <2>4. CASE section' = "metrics" /\ PassedOver
    <3>1. count' = count /\ file[at].key \notin {"C", "WX", "N"} /\ at' - 1 = at /\ 1 < at'
          BY <1>1, <2>1, <2>4 DEF PassedOver
    <3>2. QED BY <1>1, <1>3, <2>1, <2>2, <2>4, <3>1 DEF GlyphsInv
  <2>5. CASE section' = "metrics" /\ CharCode /\ count < Len(fi.chars)
    <3>1. count' = count + 1 /\ file[at].key = "C" /\ at' - 1 = at /\ 1 < at'
          BY <1>1, <2>1, <2>5 DEF CharCode, Entry
    <3>2. /\ count + 1 \in count + 1 .. Len(fi.chars) /\ count + 1 >= 1
          /\ \A k \in (count + 1) + 1 .. Len(fi.chars) : k \in count + 1 .. Len(fi.chars)
          BY <1>2, <2>5
    <3>3. /\ fi.chars[count + 1] = NoChar
          /\ \A k \in (count + 1) + 1 .. Len(fi.chars) : fi.chars[k] = NoChar
          BY <1>3, <2>1, <2>5, <3>2
    <3>4. QED BY <1>1, <2>1, <2>2, <2>5, <3>1, <3>2, <3>3 DEF GlyphsInv
  <2>6. QED BY <2>1, <2>3, <2>4, <2>5
<1>6. CASE StartCharMetrics
  <2>1. /\ at <= Len(file) /\ file[at].key = "StartCharMetrics" /\ count' = 0
        /\ fi' = [fi EXCEPT !.chars = Blank(file[at].val, NoChar)]
        BY <1>6 DEF StartCharMetrics, Entry
  <2>2. file[at].val \in Nat
        BY <2>1, EntryIs
  <2>3. /\ Len(fi'.chars) = file[at].val
        /\ \A k \in 1 .. Len(fi'.chars) : fi'.chars[k] = NoChar
    <3>1. fi'.chars = Blank(file[at].val, NoChar)
          BY <1>2, <2>1
    <3>2. ASSUME NEW n \in Nat
          PROVE  /\ Len(Blank(n, NoChar)) = n
                 /\ \A k \in 1 .. n : Blank(n, NoChar)[k] = NoChar
      <4>1. NoChar \in {NoChar}
            OBVIOUS
      <4>2. QED BY <4>1, BlankIs
    <3>3. QED BY <2>2, <3>1, <3>2
  <2>4. \A e, m : Measured(e, m, NoChar)
        BY DEF Measured, NoChar
  <2>5. at' - 1 = at /\ 1 < at'
        BY <1>1, <2>1
  <2>6. \A k \in 0 + 1 .. Len(fi'.chars) : k \in 1 .. Len(fi'.chars)
        BY <2>2, <2>3
  <2>7. QED BY <1>1, <2>1, <2>3, <2>4, <2>5, <2>6 DEF GlyphsInv
<1>7. CASE CharWidth \/ CharName
  <2>1. /\ at <= Len(file) /\ section = "metrics" /\ section' = section /\ count' = count
        /\ CharWidth => file[at].key = "WX"
        /\ CharName => file[at].key = "N"
        BY <1>7 DEF CharWidth, CharName, Entry
  <2>2. at' - 1 = at /\ 1 < at' /\ at \in 1 .. Len(file)
        BY <1>1, <2>1
  <2>3. /\ CharWidth => file[at - 1].key = "C"
        /\ CharName => file[at - 1].key = "WX"
        BY <1>1, <2>1, <2>2 DEF InTurn
  <2>4. /\ count \in 1 .. Len(fi.chars) /\ fi.chars[count].name = NULL
        /\ CharName => fi.chars[count].wx = file[at - 1].val
    <3>1. count >= 1 /\ count \in 1 .. Len(fi.chars)
          BY <1>2, <1>3, <1>7, <2>1, <2>3
    <3>2. NoChar.name = NULL
          BY DEF NoChar
    <3>3. QED BY <1>3, <1>7, <2>1, <2>3, <3>1, <3>2
  <2>5. Temp = count
        BY <1>2, <2>4 DEF Temp
  <2>6. /\ Len(fi'.chars) = Len(fi.chars)
        /\ \A k \in 1 .. Len(fi.chars) : k # count => fi'.chars[k] = fi.chars[k]
        /\ fi'.chars[count].name = IF CharName THEN file[at].val ELSE NULL
        /\ fi'.chars[count].wx = IF CharWidth THEN file[at].val ELSE fi.chars[count].wx
    <3>1. file[at].val \in Vals
          BY <2>1, EntryIs
    <3>2. /\ Len(fi'.chars) = Len(fi.chars)
          /\ \A k \in 1 .. Len(fi.chars) :
               fi'.chars[k].name = IF CharName /\ k = Temp THEN file[at].val ELSE fi.chars[k].name
          /\ \A k \in 1 .. Len(fi.chars) : k # Temp => fi'.chars[k] = fi.chars[k]
          /\ fi'.chars[Temp].wx = IF CharWidth THEN file[at].val ELSE fi.chars[Temp].wx
          BY <1>2, <1>7, <2>4, <2>5, <3>1, AttributeIs
    <3>3. QED BY <2>4, <2>5, <3>2
  <2>7. \A k \in count + 1 .. Len(fi'.chars) : fi'.chars[k] = NoChar
    <3>1. \A k \in count + 1 .. Len(fi.chars) : k \in 1 .. Len(fi.chars) /\ k # count
          BY <1>2
    <3>2. QED BY <1>3, <2>1, <2>6, <3>1
  <2>8. Measured(file, at, fi'.chars[count])
    <3>1. CASE CharWidth
      <4>1. ~CharName
            BY <2>1, <3>1
      <4>2. QED BY <2>6, <4>1 DEF Measured
    <3>2. CASE CharName
      <4>1. ~CharWidth
            BY <2>1, <3>2
      <4>2. at \in 1 .. at /\ file[at].key = "N" /\ file[at].val = fi'.chars[count].name
            /\ file[at - 1].val = fi'.chars[count].wx
            BY <1>1, <2>1, <2>4, <2>6, <3>2, <4>1
      <4>3. QED BY <4>2 DEF Measured
    <3>3. QED BY <1>7, <3>1, <3>2
  <2>9. \A k \in 1 .. Len(fi'.chars) : Measured(file', at' - 1, fi'.chars[k])
    <3>1. \A k \in 1 .. Len(fi.chars) : Measured(file, at' - 1, fi.chars[k])
          BY <1>3, <1>4
    <3>2. QED BY <1>1, <2>2, <2>6, <2>8, <3>1
  <2>10. /\ file'[at' - 1].key # "C"
         /\ file'[at' - 1].key = "WX" => /\ fi'.chars[count].name = NULL
                                         /\ fi'.chars[count].wx = file[at].val
    <3>1. file[at].key = "WX" => CharWidth /\ ~CharName
          BY <1>7, <2>1
    <3>2. QED BY <1>1, <1>7, <2>1, <2>2, <2>6, <3>1
  <2>11. QED
    <3>1. count >= 1
          BY <2>4
    <3>2. QED BY <1>1, <2>1, <2>2, <2>7, <2>9, <2>10, <3>1 DEF GlyphsInv
<1>8. QED BY <1>5, <1>6, <1>7

\* Until the first width comes there is at most one character, and it is that one's.
LEMMA FirstWidthKeeps ==
  ASSUME ParseTypes, AfmNext, InTurn(file), GlobalsInv, GlyphsInv, FirstWidthInv
  PROVE  FirstWidthInv'
<1>1. /\ file' = file /\ at \in Nat \ {0} /\ Len(file) \in Nat /\ DOMAIN file = 1 .. Len(file)
      /\ \/ /\ at <= Len(file) /\ at \in 1 .. Len(file) /\ at' = at + 1 /\ at' - 1 = at
            /\ (at - 1) + 1 = at /\ Past' = Past \cup {at}
         \/ at > Len(file) /\ at' = at /\ Past' = Past /\ fi' = fi /\ section' = "end"
      BY Advance
<1>2. /\ "chars" \in DOMAIN fi /\ "pairs" \in DOMAIN fi /\ fi.chars \in Seq(FontChars)
      /\ Len(fi.chars) \in Nat /\ count \in Nat
      /\ section = "metrics" => count <= Len(fi.chars) /\ 1 <= Len(fi.chars)
      BY DEF ParseTypes
<1>3. /\ section = "metrics" /\ (count = 0 \/ (count = 1 /\ file[at - 1].key = "C")) =>
            NoWidth(file, at - 1)
      /\ fi.chars # <<>> => FirstWidth(file, at - 1, fi.chars[1].wx)
      BY DEF FirstWidthInv
<1>4. /\ section = "metrics" => 1 < at
      /\ section = "metrics" /\ file[at - 1].key = "C" => count >= 1
      BY DEF GlyphsInv
<1>5. \A w : FirstWidth(file, at - 1, w) => FirstWidth(file, at' - 1, w)
  <2>1. CASE at' = at
        BY <2>1
  <2>2. CASE at' - 1 = at
    <3>1. \A n \in 1 .. at - 1 : n \in 1 .. at' - 1
          BY <1>1, <2>2
    <3>2. QED BY <3>1 DEF FirstWidth
  <2>3. QED BY <1>1, <2>1, <2>2
<1>6. ASSUME at <= Len(file), file[at].key # "WX", NoWidth(file, at - 1)
      PROVE  NoWidth(file', at' - 1)
  <2>1. \A n \in 1 .. at' - 1 : n \in 1 .. at - 1 \/ n = at
        BY <1>1, <1>6
  <2>2. QED BY <1>1, <1>6, <2>1 DEF NoWidth
<1>7. CASE ~StartCharMetrics /\ ~CharWidth /\ ~CharName
  <2>1. /\ fi'.chars = fi.chars
        /\ section' = "metrics" => section = "metrics" /\ at <= Len(file)
                                   /\ (PassedOver \/ (CharCode /\ count < Len(fi.chars)))
        BY <1>7, CharsStay
  <2>2. fi'.chars # <<>> => FirstWidth(file', at' - 1, fi'.chars[1].wx)
        BY <1>1, <1>3, <1>5, <2>1
  <2>3. ASSUME section' = "metrics", count' = 0 \/ (count' = 1 /\ file'[at' - 1].key = "C")
        PROVE  NoWidth(file', at' - 1)
    <3>1. CASE PassedOver
      <4>1. count' = count /\ file[at].key \notin {"C", "WX", "N"} /\ at' - 1 = at
            BY <1>1, <2>1, <2>3, <3>1 DEF PassedOver
      <4>2. QED BY <1>1, <1>3, <1>6, <2>1, <2>3, <4>1
    <3>2. CASE CharCode /\ count < Len(fi.chars)
      <4>1. count' = count + 1 /\ file[at].key = "C"
            BY <3>2 DEF CharCode, Entry
      <4>2. count = 0
            BY <1>2, <2>3, <4>1
      <4>3. QED BY <1>3, <1>6, <2>1, <2>3, <4>1, <4>2
    <3>3. QED BY <2>1, <2>3, <3>1, <3>2
  <2>4. QED BY <2>2, <2>3 DEF FirstWidthInv
<1>8. CASE StartCharMetrics
  <2>1. /\ at <= Len(file) /\ file[at].key = "StartCharMetrics" /\ section = "globals"
        /\ fi' = [fi EXCEPT !.chars = Blank(file[at].val, NoChar)]
        BY <1>8 DEF StartCharMetrics, Entry
  <2>2. file[at].val \in Nat \ {0}
        BY <2>1, EntryIs
  <2>3. fi'.chars[1].wx = 0
    <3>1. fi'.chars = Blank(file[at].val, NoChar) /\ 1 \in 1 .. file[at].val
          BY <1>2, <2>1, <2>2
    <3>2. fi'.chars[1] = NoChar
          BY <2>2, <3>1, BlankIs
    <3>3. QED BY <3>2 DEF NoChar
  <2>4. NoWidth(file, at - 1)
    <3>1. ASSUME NEW n \in 1 .. at - 1, file[n].key = "WX" PROVE FALSE
      <4>1. n \in DOMAIN file /\ \A s \in 1 .. n - 1 : s \in 1 .. at - 1
            BY <1>1, <2>1
      <4>2. \E s \in 1 .. n - 1 : file[s].key = "StartCharMetrics"
            BY <3>1, <4>1 DEF InTurn
      <4>3. \A s \in 1 .. at - 1 : file[s].key # "StartCharMetrics"
            BY <2>1 DEF GlobalsInv, Past
      <4>4. QED BY <4>1, <4>2, <4>3
    <3>2. QED BY <3>1 DEF NoWidth
  <2>5. NoWidth(file', at' - 1)
        BY <1>6, <2>1, <2>4
  <2>6. QED BY <2>3, <2>5 DEF FirstWidthInv, FirstWidth
<1>9. CASE CharWidth \/ CharName
  <2>1. /\ at <= Len(file) /\ section = "metrics" /\ section' = section /\ count' = count
        /\ CharWidth => file[at].key = "WX"
        /\ CharName => file[at].key = "N"
        BY <1>9 DEF CharWidth, CharName, Entry
  <2>2. at' - 1 = at /\ at \in 1 .. Len(file)
        BY <1>1, <2>1
  <2>3. CharWidth => file[at - 1].key = "C" /\ count >= 1
        BY <1>1, <1>4, <2>1, <2>2 DEF InTurn
  <2>4. Temp \in 1 .. Len(fi.chars) /\ (CharWidth => Temp = count)
        BY <1>2, <2>1, <2>3 DEF Temp
  <2>5. /\ Len(fi'.chars) = Len(fi.chars) /\ fi'.chars \in Seq(FontChars)
        /\ fi'.chars[1].wx = IF CharWidth /\ count = 1 THEN file[at].val ELSE fi.chars[1].wx
    <3>1. file[at].val \in Vals
          BY <2>1, EntryIs
    <3>2. /\ Len(fi'.chars) = Len(fi.chars) /\ fi'.chars \in Seq(FontChars)
          /\ \A k \in 1 .. Len(fi.chars) : k # Temp => fi'.chars[k] = fi.chars[k]
          /\ fi'.chars[Temp].wx = IF CharWidth THEN file[at].val ELSE fi.chars[Temp].wx
          BY <1>2, <1>9, <2>4, <3>1, AttributeIs
    <3>3. 1 \in 1 .. Len(fi.chars)
          BY <1>2, <2>1
    <3>4. CASE Temp = 1
          BY <2>4, <3>2, <3>4
    <3>5. CASE Temp # 1
          BY <2>4, <3>2, <3>3, <3>5
    <3>6. QED BY <3>2, <3>4, <3>5
  <2>6. FirstWidth(file, at, fi'.chars[1].wx)
    <3>1. CASE CharWidth /\ count = 1
      <4>1. NoWidth(file, at - 1) /\ fi'.chars[1].wx = file[at].val /\ file[at].key = "WX"
            BY <1>3, <2>1, <2>3, <2>5, <3>1
      <4>2. at \in 1 .. at
            BY <1>1
      <4>3. QED BY <4>1, <4>2 DEF FirstWidth
    <3>2. CASE ~(CharWidth /\ count = 1)
      <4>1. fi.chars # <<>>
            BY <1>2, <2>1
      <4>2. QED BY <1>3, <1>5, <2>2, <2>5, <3>2, <4>1
    <3>3. QED BY <3>1, <3>2
  <2>7. ASSUME count' = 0 \/ (count' = 1 /\ file'[at' - 1].key = "C")
        PROVE  NoWidth(file', at' - 1)
    <3>1. file[at].key # "C"
          BY <1>9, <2>1
    <3>2. count = 0
          BY <1>1, <2>1, <2>2, <2>7, <3>1
    <3>3. ~CharWidth
          BY <2>3, <3>2
    <3>4. file[at].key = "N"
          BY <1>9, <2>1, <3>3
    <3>5. QED BY <1>3, <1>6, <2>1, <3>2, <3>4
  <2>8. QED BY <1>1, <2>2, <2>6, <2>7 DEF FirstWidthInv
<1>10. QED BY <1>7, <1>8, <1>9

\* The pairs are not touched but where their list is read.
LEMMA PairsStay ==
  ASSUME ParseTypes, AfmNext, ~StartKernPairs, ~(KernPair /\ count < Len(fi.pairs))
  PROVE  "pairs" \in DOMAIN fi' /\ fi'.pairs = fi.pairs
<1>1. "pairs" \in DOMAIN fi
      BY DEF ParseTypes
<1>2. CASE PassedOver
      BY <1>2 DEF PassedOver
<1>3. CASE GivenUp
      BY <1>1, <1>3 DEF GivenUp
<1>4. CASE EndCharMetrics \/ EndKernPairs \/ EndSkipped \/ EndFontMetrics \/ StartSkipped \/ CharCode
      BY <1>1, <1>4 DEF EndCharMetrics, EndKernPairs, EndSkipped, EndFontMetrics, StartSkipped, CharCode
<1>5. CASE StartCharMetrics \/ CharWidth \/ CharName
  <2>1. \E c : fi' = [fi EXCEPT !.chars = c]
        BY <1>5 DEF StartCharMetrics, CharWidth, CharName
  <2>2. QED BY <1>1, <2>1
<1>6. QED BY <1>2, <1>3, <1>4, <1>5, AfmOutcome

\* A list of pairs is read: its first entries are the pairs, and others follow.
LEMMA KernPairIs ==
  ASSUME ParseTypes, KernPair, count < Len(fi.pairs)
  PROVE  /\ at <= Len(file) /\ file[at].key = "KPX" /\ section = "pairs" /\ section' = section
         /\ at' = at + 1 /\ count' = count + 1 /\ count + 1 \in 1 .. Len(fi.pairs)
         /\ Len(fi'.pairs) = Len(fi.pairs)
         /\ fi'.pairs[count + 1] = file[at].val
         /\ \A k \in 1 .. Len(fi.pairs) : k # count + 1 => fi'.pairs[k] = fi.pairs[k]
<1>1. "pairs" \in DOMAIN fi /\ fi.pairs \in Seq(FilePairs) /\ count \in Nat /\ Len(fi.pairs) \in Nat
      BY DEF ParseTypes
<1>2. /\ at <= Len(file) /\ file[at].key = "KPX" /\ section = "pairs" /\ section' = section
      /\ at' = at + 1 /\ count' = count + 1
      /\ fi' = [fi EXCEPT !.pairs[count + 1] = file[at].val]
      BY DEF KernPair, Entry, Consume
<1>3. count + 1 \in 1 .. Len(fi.pairs)
      BY <1>1
<1>4. fi'.pairs = [fi.pairs EXCEPT ![count + 1] = file[at].val]
      BY <1>1, <1>2
<1>5. file[at].val \in FilePairs
      BY <1>2, EntryIs
<1>6. Len([fi.pairs EXCEPT ![count + 1] = file[at].val]) = Len(fi.pairs)
      BY <1>1, <1>5, SeqExcept
<1>7. DOMAIN fi.pairs = 1 .. Len(fi.pairs)
      BY <1>1
<1>8. QED BY <1>2, <1>3, <1>4, <1>6, <1>7

\* The list of the pairs begins.
LEMMA StartPairsIs ==
  ASSUME ParseTypes, StartKernPairs
  PROVE  /\ at <= Len(file) /\ file[at].key = "StartKernPairs" /\ section = "file"
         /\ section' = "pairs" /\ at' = at + 1 /\ count' = 0
         /\ Len(fi'.pairs) = file[at].val /\ file[at].val \in Nat
         /\ \A k \in 1 .. Len(fi'.pairs) : fi'.pairs[k] = NoPair
<1>1. /\ at <= Len(file) /\ file[at].key = "StartKernPairs" /\ section = "file"
      /\ section' = "pairs" /\ at' = at + 1 /\ count' = 0
      /\ fi' = [fi EXCEPT !.pairs = Blank(file[at].val, NoPair)]
      BY DEF StartKernPairs, Entry, Consume
<1>2. file[at].val \in Nat
      BY <1>1, EntryIs
<1>3. fi'.pairs = Blank(file[at].val, NoPair)
      BY <1>1 DEF ParseTypes
<1>4. ASSUME NEW n \in Nat
      PROVE  /\ Len(Blank(n, NoPair)) = n
             /\ \A k \in 1 .. n : Blank(n, NoPair)[k] = NoPair
  <2>1. NoPair \in {NoPair}
        OBVIOUS
  <2>2. QED BY <2>1, BlankIs
<1>5. QED BY <1>1, <1>2, <1>3, <1>4

\* A pair that is kept has just been read, or was kept before.
LEMMA PairsFromKeep ==
  ASSUME ParseTypes, AfmNext, PairsFromInv
  PROVE  PairsFromInv'
<1>1. file' = file /\ Kerns' = Kerns /\ DOMAIN file = 1 .. Len(file)
      BY Advance DEF Kerns, Places
<1>2. \A k \in 1 .. Len(fi.pairs) :
         fi.pairs[k] # NoPair => \E n \in Kerns : file[n].val = fi.pairs[k]
      BY DEF PairsFromInv
<1>3. CASE ~StartKernPairs /\ ~(KernPair /\ count < Len(fi.pairs))
      BY <1>1, <1>2, <1>3, PairsStay DEF PairsFromInv
<1>4. CASE StartKernPairs
      BY <1>4, StartPairsIs DEF PairsFromInv
<1>5. CASE KernPair /\ count < Len(fi.pairs)
  <2>1. /\ at <= Len(file) /\ file[at].key = "KPX"
        /\ Len(fi'.pairs) = Len(fi.pairs)
        /\ fi'.pairs[count + 1] = file[at].val
        /\ \A k \in 1 .. Len(fi.pairs) : k # count + 1 => fi'.pairs[k] = fi.pairs[k]
        BY <1>5, KernPairIs
  <2>2. at \in Kerns
        BY <2>1, EntryIs DEF Kerns, Places
  <2>3. QED BY <1>1, <1>2, <2>1, <2>2 DEF PairsFromInv
<1>6. QED BY <1>3, <1>4, <1>5

-----------------------------------------------------------------------------
\* Between the ends of their list are all names of characters, too.
LEMMA NamesWithin ==
  ASSUME ParseTypes, InTurn(file), NEW i, NEW j, IsCharList(file, i, j),
         NEW n \in DOMAIN file, file[n].key = "N"
  PROVE  i < n /\ n < j
<1>1. /\ Len(file) \in Nat /\ DOMAIN file = 1 .. Len(file)
      /\ i \in 1 .. Len(file) /\ j \in 1 .. Len(file) /\ file[j].key \in {"EndCharMetrics"}
      BY ListIs DEF IsCharList
<1>2. n - 1 \in DOMAIN file /\ file[n - 1].key = "WX"
      BY DEF InTurn
<1>3. (n - 1) - 1 \in DOMAIN file /\ file[(n - 1) - 1].key = "C"
      BY <1>2 DEF InTurn
<1>4. i < (n - 1) - 1 /\ (n - 1) - 1 < j
      BY <1>3 DEF IsCharList, IsList, Places
<1>5. n - 1 # j /\ n # j
      BY <1>1, <1>2
<1>6. n \in Int /\ i \in Int /\ j \in Int
      BY <1>1
<1>7. QED BY <1>4, <1>5, <1>6

\* As many characters are begun as there is room for, and all are named.
LEMMA AllCharsKeep ==
  ASSUME ParseTypes, AfmNext, InTurn(file), GlyphsInv, NEW i, NEW j, Sound(i, j), AllCharsInv(i, j)
  PROVE  AllCharsInv(i, j)'
<1> DEFINE R(n) == Rank(Numbers, n)
           L    == Len(file)
           C    == Cardinality(Numbers)
           NamesIn(m, c) == \A n \in 1 .. m : file[n].key = "N" /\ file[n].val # NULL =>
                              \E k \in 1 .. Len(c) : c[k].name = file[n].val
<1>1. /\ L \in Nat /\ DOMAIN file = 1 .. L
      /\ i \in 1 .. L /\ j \in 1 .. L /\ i < j /\ file[j].key = "EndCharMetrics"
      /\ \A n \in 1 .. L : file[n].key = "StartCharMetrics" <=> n = i
      /\ \A n \in i + 1 .. j - 1 : file[n].key # "EndCharMetrics"
      /\ R(i) = 0 /\ R(j - 1) = C
      /\ \A n \in 1 .. L : R(n) = IF file[n].key = "C" THEN R(n - 1) + 1 ELSE R(n - 1)
  <2>1. IsList(file, "StartCharMetrics", {"EndCharMetrics"}, "C", i, j)
        BY DEF Sound, IsCharList
  <2>2. QED BY <2>1, ListIs DEF Numbers
<1>2. /\ at \in Nat \ {0} /\ at <= L + 1
      /\ "chars" \in DOMAIN fi /\ "pairs" \in DOMAIN fi /\ fi.chars \in Seq(FontChars)
      /\ count \in Nat /\ code \in {"ok", "parseError"}
      /\ section = "metrics" => count <= Len(fi.chars) /\ 1 <= Len(fi.chars)
      /\ Len(fi.chars) \in Nat
      BY DEF ParseTypes
<1>3. \A n \in 1 .. L : file[n].key = "EndFontMetrics" <=> n = L
      BY <1>1 DEF Sound, Places
<1>4. file' = file /\ Numbers' = Numbers
      BY AfmOutcome DEF Numbers, Places
<1>5. at <= L => at \in 1 .. L
      BY <1>1, <1>2
<1>6. \A n \in 1 .. L : file[n].key = "N" => i < n /\ n < j
      BY <1>1, NamesWithin DEF Sound
<1>7. /\ section = "globals" => at <= i
      /\ section = "metrics" => i < at /\ at <= j /\ Len(fi.chars) = C /\ count = R(at - 1)
      /\ section \notin {"globals", "metrics"} => at > j
      /\ section = "end" => at > L
      /\ NamesIn(at - 1, fi.chars)
      BY DEF AllCharsInv, Past
<1>8. C \in Nat /\ \A m \in 0 .. L : R(m) \in Nat
      /\ \A n \in 1 .. L : file[n].key = "C" => R(n - 1) < C
  <2>1. \A n \in Numbers : n \in 1 .. L
        BY <1>1 DEF Numbers, Places
  <2>2. R(L) = C /\ C \in Nat /\ \A m \in 0 .. L : R(m) \in Nat
        BY <1>1, <2>1, Ranks
  <2>3. ASSUME NEW n \in 1 .. L, file[n].key = "C" PROVE R(n - 1) < C
    <3>1. n \in Numbers
          BY <1>1, <2>3 DEF Numbers, Places
    <3>2. n - 1 \in 0 .. L /\ n \in 0 .. L /\ n - 1 < n /\ n - 1 <= n /\ n <= L /\ L \in 0 .. L
          BY <1>1
    <3>3. R(n - 1) < R(n) /\ R(n) <= R(L)
          BY <1>1, <2>1, <3>1, <3>2, RanksGrow
    <3>4. R(n - 1) \in Nat /\ R(n) \in Nat
          BY <2>2, <3>2
    <3>5. QED BY <2>2, <3>3, <3>4
  <2>4. QED BY <2>2, <2>3
<1> HIDE DEF R, L, C
<1>9. ASSUME at <= L, file[at].key = "N" PROVE section = "metrics" /\ (CharName \/ PassedOver)
  <2>1. section = "metrics"
        BY <1>1, <1>2, <1>5, <1>6, <1>7, <1>9
  <2>2. QED BY <1>9, <2>1, <1>2, AfmOutcome DEF L, GivenUp, StartCharMetrics, CharWidth, EndCharMetrics,
               CharCode, KernPair, EndKernPairs, EndSkipped, StartKernPairs, StartSkipped,
               EndFontMetrics, Entry
<1>a. \/ at \in 1 .. L /\ at <= L /\ at' = at + 1 /\ at' - 1 = at
      \/ at > L /\ at' = at /\ fi' = fi /\ section' = "end"
      BY Advance DEF L
<1>10. NamesIn(at' - 1, fi'.chars)
  <2>1. ASSUME at \in 1 .. L, at' - 1 = at, NamesIn(at - 1, fi'.chars),
               file[at].key = "N" /\ file[at].val # NULL =>
                  \E k \in 1 .. Len(fi'.chars) : fi'.chars[k].name = file[at].val
        PROVE  NamesIn(at' - 1, fi'.chars)
    <3>1. \A n \in 1 .. at' - 1 : n \in 1 .. at - 1 \/ n = at
          BY <1>1, <2>1
    <3>2. QED BY <2>1, <3>1
  <2>2. CASE at > L
    <3>1. at' = at /\ fi'.chars = fi.chars
          BY <1>1, <1>2, <1>a, <2>2
    <3>2. QED BY <1>7, <3>1
  <2>3. CASE at <= L /\ ~StartCharMetrics /\ ~CharWidth /\ ~CharName
    <3>1. fi'.chars = fi.chars
          BY <2>3, CharsStay
    <3>2. file[at].key # "N"
          BY <1>9, <2>3 DEF PassedOver
    <3>3. at \in 1 .. L /\ at' - 1 = at
          BY <1>1, <1>2, <1>a, <2>3
    <3>4. NamesIn(at - 1, fi'.chars)
          BY <1>7, <3>1
    <3> HIDE DEF NamesIn
    <3>5. QED BY <2>1, <3>2, <3>3, <3>4
  <2>4. CASE StartCharMetrics
    <3>1. at <= L /\ file[at].key = "StartCharMetrics"
          BY <2>4 DEF StartCharMetrics, Entry, L
    <3>2. at = i /\ at' - 1 = at
          BY <1>1, <1>2, <1>5, <1>a, <3>1
    <3>3. \A n \in 1 .. at : n \in 1 .. L /\ ~(i < n)
          BY <1>1, <3>2
    <3>4. QED BY <1>6, <3>2, <3>3
  <2>5. CASE CharWidth \/ CharName
    <3>1. /\ at <= L /\ section = "metrics"
          /\ CharWidth => file[at].key = "WX"
          /\ CharName => file[at].key = "N"
          BY <2>5 DEF CharWidth, CharName, Entry, L
    <3>2. at \in 1 .. L /\ at' - 1 = at
          BY <1>1, <1>2, <1>a, <3>1
    <3>3. CharName => /\ count \in 1 .. Len(fi.chars)
                      /\ fi.chars[count].name = NULL
      <4>1. CharName => file[at - 1].key = "WX"
            BY <1>1, <3>1, <3>2 DEF InTurn
      <4>2. CharName => count >= 1 /\ fi.chars[count].name = NULL
            BY <3>1, <4>1 DEF GlyphsInv
      <4>3. QED BY <1>2, <3>1, <4>2
    <3>4. Temp \in 1 .. Len(fi.chars) /\ (CharName => Temp = count)
          BY <1>2, <3>1, <3>3 DEF Temp
    <3>5. /\ Len(fi'.chars) = Len(fi.chars)
          /\ \A k \in 1 .. Len(fi.chars) :
               fi'.chars[k].name = IF CharName /\ k = Temp THEN file[at].val ELSE fi.chars[k].name
      <4>1. file[at].val \in Vals
            BY <3>1, EntryIs DEF L
      <4>2. QED BY <1>2, <2>5, <3>4, <4>1, AttributeIs
    <3>6. NamesIn(at - 1, fi'.chars)
      <4>1. SUFFICES ASSUME NEW n \in 1 .. at - 1, file[n].key = "N", file[n].val # NULL
                     PROVE  \E k \in 1 .. Len(fi'.chars) : fi'.chars[k].name = file[n].val
            OBVIOUS
      <4>2. PICK k \in 1 .. Len(fi.chars) : fi.chars[k].name = file[n].val
            BY <1>7, <4>1
      <4>3. ~(CharName /\ k = Temp)
            BY <3>3, <3>4, <4>1, <4>2
      <4>4. QED BY <3>5, <4>2, <4>3
    <3>7. file[at].key = "N" => \E k \in 1 .. Len(fi'.chars) : fi'.chars[k].name = file[at].val
      <4>1. file[at].key = "N" => CharName
            BY <2>5, <3>1
      <4>2. QED BY <3>4, <3>5, <4>1
    <3> HIDE DEF NamesIn
    <3>8. QED BY <2>1, <3>2, <3>6, <3>7
  <2>6. at <= L \/ at > L
        BY <1>1, <1>2
  <2>7. QED BY <2>2, <2>3, <2>4, <2>5, <2>6
<1>11. /\ section' = "globals" => at' <= i
       /\ section' = "metrics" => i < at' /\ at' <= j /\ Len(fi'.chars) = C /\ count' = R(at' - 1)
       /\ section' \notin {"globals", "metrics"} => at' > j
       /\ section' = "end" => at' > L
  <2>1. CASE at > L
    <3>1. at' = at /\ section' = "end" /\ at' > j
          BY <1>1, <1>2, <1>a, <2>1
    <3>2. QED BY <2>1, <3>1
  <2>2. ASSUME at <= L, section \notin {"globals", "metrics"}, section' \notin {"globals", "metrics"},
               section' = "end" => file[at].key = "EndFontMetrics" \/ section = "end"
        PROVE  /\ section' \notin {"globals", "metrics"}
               /\ at' > j /\ (section' = "end" => at' > L)
    <3>1. at \in 1 .. L /\ at' = at + 1
          BY <1>1, <1>2, <1>a, <2>2
    <3>2. section' = "end" => at = L
          BY <1>1, <1>2, <1>3, <1>7, <2>2, <3>1
    <3>3. QED BY <1>1, <1>7, <2>2, <3>1, <3>2
  <2>3. CASE at <= L /\ PassedOver
    <3>1. /\ section' = section /\ section # "end" /\ fi'.chars = fi.chars /\ count' = count
          /\ section = "globals" => file[at].key # "StartCharMetrics"
          /\ section = "metrics" => file[at].key # "EndCharMetrics" /\ file[at].key # "C"
          BY <2>3 DEF PassedOver
    <3>2. at \in 1 .. L /\ at' = at + 1 /\ at' - 1 = at
          BY <1>1, <1>2, <1>a, <2>3
    <3>3. CASE section = "globals"
      <4>1. at # i
            BY <1>1, <3>1, <3>3
      <4>2. at' <= i
            BY <1>1, <1>7, <3>2, <3>3, <4>1
      <4>3. QED BY <3>1, <3>3, <4>2
    <3>4. CASE section = "metrics"
      <4>1. at # j /\ R(at) = R(at - 1)
            BY <1>1, <3>1, <3>2, <3>4
      <4>2. i < at' /\ at' <= j
            BY <1>1, <1>7, <3>2, <3>4, <4>1
      <4>3. QED BY <1>7, <3>1, <3>2, <3>4, <4>1, <4>2
    <3>5. CASE section \notin {"globals", "metrics"}
          BY <2>2, <2>3, <3>1, <3>5
    <3>6. QED BY <3>3, <3>4, <3>5
  <2>4. CASE at <= L /\ StartCharMetrics
    <3>1. section' = "metrics" /\ count' = 0 /\ file[at].key = "StartCharMetrics"
          /\ fi' = [fi EXCEPT !.chars = Blank(file[at].val, NoChar)]
          BY <2>4 DEF StartCharMetrics, Entry
    <3>2. at = i /\ at' = at + 1 /\ at' - 1 = i
          BY <1>1, <1>2, <1>a, <2>4, <3>1
    <3>3. i < at' /\ at' <= j
          BY <1>1, <3>2
    <3>4. file[i].val = C
      <4>1. Places(file, "StartCharMetrics") = {i} /\ Max({i}) = i
        <5>1. Places(file, "StartCharMetrics") = {i}
              BY DEF Sound, IsCharList, IsList
        <5>2. IsFiniteSet({i}) /\ {i} \subseteq Nat /\ {i} # {}
          <6>1. i \in Nat /\ \A x \in {i} : x \in Nat /\ x <= i
                BY <1>1
          <6>2. IsFiniteSet({i})
                BY <6>1, PartIsFinite
          <6>3. QED BY <6>1, <6>2
        <5>3. QED BY <5>1, <5>2, LargestIs
      <4>2. Says(file, "StartCharMetrics") = file[i].val
            BY <4>1 DEF Says
      <4>3. QED BY <4>2 DEF Sound, Counts, C, Numbers
    <3>5. Len(fi'.chars) = C
      <4>1. fi'.chars = Blank(C, NoChar)
            BY <1>2, <3>1, <3>2, <3>4
      <4>2. NoChar \in {NoChar}
            OBVIOUS
      <4>3. QED BY <1>8, <4>1, <4>2, BlankIs
    <3>6. QED BY <1>1, <3>1, <3>2, <3>3, <3>5
  <2>5. CASE at <= L /\ CharCode /\ count < Len(fi.chars)
    <3>1. /\ section = "metrics" /\ section' = section /\ count' = count + 1 /\ fi' = fi
          /\ file[at].key = "C"
          BY <2>5 DEF CharCode, Entry
    <3>2. at \in 1 .. L /\ at' = at + 1 /\ at' - 1 = at
          BY <1>1, <1>2, <1>a, <2>5
    <3>3. at # j /\ R(at) = R(at - 1) + 1
          BY <1>1, <3>1, <3>2
    <3>4. i < at' /\ at' <= j
          BY <1>1, <1>7, <3>1, <3>2, <3>3
    <3>5. QED BY <1>7, <3>1, <3>2, <3>3, <3>4
  <2>6. CASE at <= L /\ (CharWidth \/ CharName)
    <3>1. /\ section = "metrics" /\ section' = section /\ count' = count
          /\ file[at].key \in {"WX", "N"}
          BY <2>6 DEF CharWidth, CharName, Entry
    <3>2. at \in 1 .. L /\ at' = at + 1 /\ at' - 1 = at
          BY <1>1, <1>2, <1>a, <2>6
    <3>3. at # j /\ R(at) = R(at - 1)
          BY <1>1, <3>1, <3>2
    <3>4. i < at' /\ at' <= j
          BY <1>1, <1>7, <3>1, <3>2, <3>3
    <3>5. Len(fi'.chars) = Len(fi.chars)
      <4>1. file[at].val \in Vals
            BY <2>6, EntryIs DEF L
      <4>2. Temp \in 1 .. Len(fi.chars)
            BY <1>2, <3>1 DEF Temp
      <4>3. QED BY <1>2, <2>6, <4>1, <4>2, AttributeIs
    <3>6. QED BY <1>7, <3>1, <3>2, <3>3, <3>4, <3>5
  <2>7. CASE at <= L /\ EndCharMetrics
    <3>1. section = "metrics" /\ file[at].key = "EndCharMetrics" /\ section' = "file"
      <4>1. Counted(Len(fi.chars)) \in {"ok", "parseError"}
            BY <1>2 DEF Counted
      <4>2. QED BY <2>7, <4>1 DEF EndCharMetrics, Return, Entry
    <3>2. at' = at + 1 /\ at \in 1 .. L
          BY <1>1, <1>2, <1>a, <2>7
    <3>3. at = j
          BY <1>1, <1>7, <3>1, <3>2
    <3>4. QED BY <1>1, <3>1, <3>2, <3>3
  <2>8. CASE at <= L /\ (EndKernPairs \/ EndSkipped \/ StartKernPairs \/ StartSkipped
                          \/ (KernPair /\ count < Len(fi.pairs)))
    <3>1. /\ section \notin {"globals", "metrics"}
          /\ section' \notin {"globals", "metrics", "end"}
      <4>1. Counted(Len(fi.pairs)) \in {"ok", "parseError"}
            BY <1>2 DEF Counted
      <4>2. CASE EndKernPairs \/ EndSkipped
            BY <4>1, <4>2 DEF EndKernPairs, EndSkipped, Return
      <4>3. CASE StartKernPairs \/ StartSkipped \/ (KernPair /\ count < Len(fi.pairs))
            BY <4>3 DEF StartKernPairs, StartSkipped, KernPair
      <4>4. QED BY <2>8, <4>2, <4>3
    <3>2. QED BY <2>2, <2>8, <3>1
  <2>9. CASE at <= L /\ EndFontMetrics
    <3>1. section' = "end" /\ file[at].key = "EndFontMetrics"
          BY <2>9 DEF EndFontMetrics, Return, Entry
    <3>2. at \in 1 .. L
          BY <1>5, <2>9
    <3>3. at = L
          BY <1>3, <3>1, <3>2
    <3>4. section # "globals"
          BY <1>1, <1>7, <3>3
    <3>5. section = "metrics" => at = j
          BY <1>1, <1>7, <3>2, <3>3
    <3>6. section \notin {"globals", "metrics"}
          BY <1>1, <3>1, <3>4, <3>5
    <3>7. QED BY <2>2, <2>9, <3>1, <3>6
  <2>10. CASE at <= L /\ GivenUp
    <3>1. ~(at > L)
          BY <1>1, <1>2, <2>10
    <3>2. section \notin {"globals", "metrics"}
      <4>1. at \in 1 .. L
            BY <1>5, <2>10
      <4>2. section = "metrics" => file[at].key = "C" /\ ~(count < Len(fi.chars))
            BY <2>10, <3>1 DEF GivenUp, L
      <4>3. section = "metrics" => FALSE
        <5>1. SUFFICES ASSUME section = "metrics" PROVE FALSE
              OBVIOUS
        <5>2. R(at - 1) < C /\ count = R(at - 1) /\ Len(fi.chars) = C
              BY <1>7, <1>8, <4>1, <4>2, <5>1
        <5>3. QED BY <4>2, <5>1, <5>2
      <4>4. section # "globals"
            BY <2>10, <3>1 DEF GivenUp, L
      <4>5. QED BY <4>3, <4>4
    <3>3. section' = "file"
          BY <2>10, <3>1 DEF GivenUp, L
    <3>4. QED BY <2>2, <2>10, <3>2, <3>3
  <2>11. at <= L \/ at > L
         BY <1>1, <1>2
  <2>12. QED
         BY <2>1, <2>3, <2>4, <2>5, <2>6, <2>7, <2>8, <2>9, <2>10, <2>11, AfmOutcome
<1>12. L' = L /\ C' = C /\ \A n : R(n)' = R(n)
       BY <1>4 DEF R, L, C
<1>13. QED BY <1>4, <1>10, <1>11, <1>12 DEF AllCharsInv, R, L, C, Past

\* As many pairs are read as there is room for.
LEMMA AllPairsKeep ==
  ASSUME ParseTypes, AfmNext, InTurn(file), NEW g, NEW h, Sound(g, h), AllCharsInv(g, h),
         NEW i, NEW j, IsPairList(file, i, j), AllPairsInv(i, j)
  PROVE  AllPairsInv(i, j)'
<1> DEFINE R(n) == Rank(Kerns, n)
           L    == Len(file)
           C    == Cardinality(Kerns)
           PairsIn(m, p) == \A n \in 1 .. m : file[n].key = "KPX" /\ file[n].val # NoPair =>
                               \E k \in 1 .. Len(p) : p[k] = file[n].val
<1>1. /\ L \in Nat /\ DOMAIN file = 1 .. L
      /\ i \in 1 .. L /\ j \in 1 .. L /\ i < j /\ file[j].key \in PairEnds
      /\ \A n \in 1 .. L : file[n].key = "StartKernPairs" <=> n = i
      /\ \A n \in i + 1 .. j - 1 : file[n].key \notin PairEnds
      /\ R(i) = 0 /\ R(j - 1) = C
      /\ \A n \in 1 .. L : R(n) = IF file[n].key = "KPX" THEN R(n - 1) + 1 ELSE R(n - 1)
  <2>1. IsList(file, "StartKernPairs", PairEnds, "KPX", i, j)
        BY DEF IsPairList, PairEnds
  <2>2. QED BY <2>1, ListIs DEF Kerns
<1>2. /\ at \in Nat \ {0} /\ at <= L + 1
      /\ "pairs" \in DOMAIN fi /\ fi.pairs \in Seq(FilePairs) /\ Len(fi.pairs) \in Nat
      /\ count \in Nat /\ code \in {"ok", "parseError"}
      /\ section \in {"globals", "metrics", "file", "pairs", "tracks", "composites", "end"}
      BY DEF ParseTypes
<1>3. \A n \in 1 .. L : file[n].key = "EndFontMetrics" <=> n = L
      BY <1>1 DEF Sound, Places
<1>4. file' = file /\ Kerns' = Kerns
      BY AfmOutcome DEF Kerns, Places
<1>5. /\ h \in 1 .. L /\ h < i
      /\ section = "globals" => at <= h
      /\ section = "metrics" => at <= h
      /\ section = "end" => at > L
  <2>1. g \in 1 .. L /\ h \in 1 .. L /\ g < h /\ file[h].key = "EndCharMetrics"
    <3>1. IsList(file, "StartCharMetrics", {"EndCharMetrics"}, "C", g, h)
          BY DEF Sound, IsCharList
    <3>2. QED BY <3>1, ListIs
  <2>2. h < i
        BY <1>1, <2>1 DEF InTurn
  <2>3. QED BY <1>1, <1>2, <2>1, <2>2 DEF AllCharsInv
<1>6. \A n \in 1 .. L : file[n].key = "KPX" => i < n /\ n < j
      BY <1>1 DEF IsPairList, IsList, Places
<1>7. /\ section = "pairs" =>
            /\ i < at /\ at <= j /\ Len(fi.pairs) = C /\ count = R(at - 1)
            /\ \A k \in count + 1 .. Len(fi.pairs) : fi.pairs[k] = NoPair
      /\ section \notin {"globals", "metrics", "pairs"} => at <= i \/ at > j
      /\ PairsIn(at - 1, fi.pairs)
      BY DEF AllPairsInv, Past
<1>8. C \in Nat /\ \A m \in 0 .. L : R(m) \in Nat
      /\ \A n \in 1 .. L : file[n].key = "KPX" => R(n - 1) < C
  <2>1. \A n \in Kerns : n \in 1 .. L
        BY <1>1 DEF Kerns, Places
  <2>2. R(L) = C /\ C \in Nat /\ \A m \in 0 .. L : R(m) \in Nat
        BY <1>1, <2>1, Ranks
  <2>3. ASSUME NEW n \in 1 .. L, file[n].key = "KPX" PROVE R(n - 1) < C
    <3>1. n \in Kerns
          BY <1>1, <2>3 DEF Kerns, Places
    <3>2. n - 1 \in 0 .. L /\ n \in 0 .. L /\ n - 1 < n /\ n - 1 <= n /\ n <= L /\ L \in 0 .. L
          BY <1>1
    <3>3. R(n - 1) < R(n) /\ R(n) <= R(L)
          BY <1>1, <2>1, <3>1, <3>2, RanksGrow
    <3>4. R(n - 1) \in Nat /\ R(n) \in Nat
          BY <2>2, <3>2
    <3>5. QED BY <2>2, <3>3, <3>4
  <2>4. QED BY <2>2, <2>3
<1>9. \/ at \in 1 .. L /\ at <= L /\ at' = at + 1 /\ at' - 1 = at
      \/ at > L /\ at' = at /\ fi' = fi /\ section' = "end"
      BY Advance
<1>10. ASSUME at <= L, section # "pairs", ~StartKernPairs PROVE at # i
  <2>1. CASE section \in {"globals", "metrics"}
        BY <1>1, <1>2, <1>5, <2>1
  <2>2. CASE section \in {"tracks", "composites"}
        BY <2>2, NotSkipped
  <2>3. CASE section = "file"
    <3>1. file[at].key # "StartKernPairs"
      <4>1. CASE PassedOver
            BY <2>3, <4>1 DEF PassedOver
      <4>2. CASE GivenUp
        <5>1. file[at].key \notin Expected["file"] \cup {"EndFontMetrics"}
              BY <1>1, <1>2, <1>10, <2>3, <4>2 DEF GivenUp
        <5>2. "StartKernPairs" \in Expected["file"]
              BY DEF Expected
        <5>3. QED BY <5>1, <5>2
      <4>3. CASE StartSkipped \/ EndFontMetrics
            BY <4>3 DEF StartSkipped, EndFontMetrics, Entry
      <4>4. CASE StartCharMetrics \/ CharWidth \/ CharName \/ EndCharMetrics \/ CharCode
                  \/ KernPair \/ EndKernPairs \/ EndSkipped
            BY <2>3, <4>4 DEF StartCharMetrics, CharWidth, CharName, EndCharMetrics, CharCode,
                              KernPair, EndKernPairs, EndSkipped
      <4>5. QED BY <1>10, <4>1, <4>2, <4>3, <4>4, AfmOutcome
    <3>2. QED BY <1>1, <3>1
  <2>4. CASE section = "end"
        BY <1>1, <1>2, <1>5, <1>10, <2>4
  <2>5. QED BY <1>2, <1>10, <2>1, <2>2, <2>3, <2>4
<1> HIDE DEF R, L, C
\* A pair is kept as soon as it comes.
<1>11. ASSUME at <= L, file[at].key = "KPX" PROVE KernPair /\ count < Len(fi.pairs)
  <2>1. at \in 1 .. L /\ i < at /\ at < j
        BY <1>1, <1>2, <1>6, <1>11
  <2>2. section = "pairs"
        BY <1>1, <1>2, <1>5, <1>7, <2>1
  <2>3. count < Len(fi.pairs)
        BY <1>7, <1>8, <1>11, <2>1, <2>2
  <2>4. ~PassedOver /\ ~GivenUp
    <3>1. ~(at > L)
          BY <1>1, <1>2, <1>11
    <3>2. QED BY <1>11, <2>2, <2>3, <3>1 DEF PassedOver, GivenUp, L
  <2>5. KernPair
        BY <1>11, <2>2, <2>4, AfmOutcome DEF StartCharMetrics, CharWidth, CharName, EndCharMetrics,
           CharCode, EndKernPairs, EndSkipped, StartKernPairs, StartSkipped, EndFontMetrics, Entry
  <2>6. QED BY <2>3, <2>5
<1>12. PairsIn(at' - 1, fi'.pairs)
  <2>1. ASSUME at \in 1 .. L, at' - 1 = at, PairsIn(at - 1, fi'.pairs),
               file[at].key = "KPX" /\ file[at].val # NoPair =>
                  \E k \in 1 .. Len(fi'.pairs) : fi'.pairs[k] = file[at].val
        PROVE  PairsIn(at' - 1, fi'.pairs)
    <3>1. \A n \in 1 .. at' - 1 : n \in 1 .. at - 1 \/ n = at
          BY <1>1, <2>1
    <3>2. QED BY <2>1, <3>1
  <2>2. CASE at > L
    <3>1. at' = at /\ fi'.pairs = fi.pairs
          BY <1>1, <1>2, <1>9, <2>2
    <3>2. QED BY <1>7, <3>1
  <2>3. CASE at <= L /\ ~StartKernPairs /\ ~(KernPair /\ count < Len(fi.pairs))
    <3>1. fi'.pairs = fi.pairs
          BY <2>3, PairsStay
    <3>2. file[at].key # "KPX"
          BY <1>11, <2>3
    <3>3. at \in 1 .. L /\ at' - 1 = at
          BY <1>1, <1>2, <1>9, <2>3
    <3>4. PairsIn(at - 1, fi'.pairs)
          BY <1>7, <3>1
    <3> HIDE DEF PairsIn
    <3>5. QED BY <2>1, <3>2, <3>3, <3>4
  <2>4. CASE StartKernPairs
    <3>1. at <= L /\ file[at].key = "StartKernPairs"
          BY <2>4, StartPairsIs DEF L
    <3>2. at = i /\ at' - 1 = at
          BY <1>1, <1>2, <1>9, <3>1
    <3>3. \A n \in 1 .. at : n \in 1 .. L /\ ~(i < n)
          BY <1>1, <3>2
    <3>4. QED BY <1>6, <3>2, <3>3
  <2>5. CASE KernPair /\ count < Len(fi.pairs)
    <3>1. /\ at <= L /\ section = "pairs" /\ count + 1 \in 1 .. Len(fi.pairs)
          /\ Len(fi'.pairs) = Len(fi.pairs) /\ fi'.pairs[count + 1] = file[at].val
          /\ \A k \in 1 .. Len(fi.pairs) : k # count + 1 => fi'.pairs[k] = fi.pairs[k]
          BY <2>5, KernPairIs DEF L
    <3>2. at \in 1 .. L /\ at' - 1 = at
          BY <1>1, <1>2, <1>9, <3>1
    <3>3. fi.pairs[count + 1] = NoPair
      <4>1. count + 1 \in count + 1 .. Len(fi.pairs)
            BY <1>2, <3>1
      <4>2. QED BY <1>7, <3>1, <4>1
    <3>4. PairsIn(at - 1, fi'.pairs)
      <4>1. SUFFICES ASSUME NEW n \in 1 .. at - 1, file[n].key = "KPX", file[n].val # NoPair
                     PROVE  \E k \in 1 .. Len(fi'.pairs) : fi'.pairs[k] = file[n].val
            OBVIOUS
      <4>2. PICK k \in 1 .. Len(fi.pairs) : fi.pairs[k] = file[n].val
            BY <1>7, <4>1
      <4>3. k # count + 1
            BY <3>3, <4>1, <4>2
      <4>4. QED BY <3>1, <4>2, <4>3
    <3> HIDE DEF PairsIn
    <3>5. QED BY <2>1, <3>1, <3>2, <3>4
  <2>6. at <= L \/ at > L
        BY <1>1, <1>2
  <2>7. QED BY <2>2, <2>3, <2>4, <2>5, <2>6
<1>13. /\ section' = "pairs" =>
             /\ i < at' /\ at' <= j /\ Len(fi'.pairs) = C /\ count' = R(at' - 1)
             /\ \A k \in count' + 1 .. Len(fi'.pairs) : fi'.pairs[k] = NoPair
       /\ section' \notin {"globals", "metrics", "pairs"} => at' <= i \/ at' > j
  <2>1. CASE at > L
    <3>1. at' = at /\ section' = "end" /\ at' > j
          BY <1>1, <1>2, <1>9, <2>1
    <3>2. QED BY <3>1
  <2>2. ASSUME at <= L, section # "pairs", section' # "pairs", ~StartKernPairs
        PROVE  section' # "pairs" /\ (at' <= i \/ at' > j)
    <3>1. at \in 1 .. L /\ at' = at + 1 /\ at # i
          BY <1>1, <1>2, <1>9, <1>10, <2>2 DEF L
    <3>2. at <= i \/ at > j
          BY <1>1, <1>2, <1>5, <1>7, <2>2
    <3>3. QED BY <1>1, <2>2, <3>1, <3>2
  <2>3. CASE at <= L /\ StartKernPairs
    <3>1. /\ file[at].key = "StartKernPairs" /\ section' = "pairs" /\ at' = at + 1 /\ count' = 0
          /\ Len(fi'.pairs) = file[at].val /\ file[at].val \in Nat
          /\ \A k \in 1 .. Len(fi'.pairs) : fi'.pairs[k] = NoPair
          BY <2>3, StartPairsIs
    <3>2. at = i /\ at' - 1 = i
          BY <1>1, <1>2, <1>9, <2>3, <3>1
    <3>3. i < at' /\ at' <= j
          BY <1>1, <3>1, <3>2
    <3>4. file[i].val = C
      <4>1. Places(file, "StartKernPairs") = {i} /\ Max({i}) = i
        <5>1. Places(file, "StartKernPairs") = {i}
              BY DEF IsPairList, IsList
        <5>2. IsFiniteSet({i}) /\ {i} \subseteq Nat /\ {i} # {}
          <6>1. i \in Nat /\ \A x \in {i} : x \in Nat /\ x <= i
                BY <1>1
          <6>2. IsFiniteSet({i})
                BY <6>1, PartIsFinite
          <6>3. QED BY <6>1, <6>2
        <5>3. QED BY <5>1, <5>2, LargestIs
      <4>2. Says(file, "StartKernPairs") = file[i].val /\ Places(file, "StartKernPairs") # {}
            BY <4>1 DEF Says
      <4>3. QED BY <4>2 DEF Sound, Counts, C, Kerns
    <3>5. \A k \in 0 + 1 .. Len(fi'.pairs) : k \in 1 .. Len(fi'.pairs)
          BY <3>1
    <3>6. QED BY <1>1, <3>1, <3>2, <3>3, <3>4, <3>5
  <2>4. CASE at <= L /\ PassedOver
    <3>1. /\ section' = section /\ fi'.pairs = fi.pairs /\ count' = count
          /\ section = "pairs" => file[at].key \notin PairEnds /\ file[at].key # "KPX"
          /\ section = "file" => file[at].key # "StartKernPairs"
          BY <2>4 DEF PassedOver
    <3>2. at \in 1 .. L /\ at' = at + 1 /\ at' - 1 = at
          BY <1>1, <1>2, <1>9, <2>4
    <3>3. CASE section = "pairs"
      <4>1. at # j /\ R(at) = R(at - 1)
            BY <1>1, <3>1, <3>2, <3>3
      <4>2. i < at' /\ at' <= j
            BY <1>1, <1>7, <3>2, <3>3, <4>1
      <4>3. QED BY <1>7, <3>1, <3>2, <3>3, <4>1, <4>2
    <3>4. CASE section # "pairs"
      <4>1. ~StartKernPairs \/ section' # section
            BY DEF StartKernPairs
      <4>2. QED BY <2>2, <2>4, <3>1, <3>4, <4>1
    <3>5. QED BY <3>3, <3>4
  <2>5. CASE at <= L /\ KernPair /\ count < Len(fi.pairs)
    <3>1. /\ section = "pairs" /\ section' = section /\ count' = count + 1 /\ file[at].key = "KPX"
          /\ count + 1 \in 1 .. Len(fi.pairs) /\ Len(fi'.pairs) = Len(fi.pairs)
          /\ \A k \in 1 .. Len(fi.pairs) : k # count + 1 => fi'.pairs[k] = fi.pairs[k]
          BY <2>5, KernPairIs
    <3>2. at \in 1 .. L /\ at' = at + 1 /\ at' - 1 = at
          BY <1>1, <1>2, <1>9, <2>5
    <3>3. at # j /\ R(at) = R(at - 1) + 1
      <4>1. file[at].key \notin PairEnds
            BY <3>1 DEF PairEnds
      <4>2. QED BY <1>1, <3>1, <3>2, <4>1
    <3>4. i < at' /\ at' <= j
          BY <1>1, <1>7, <3>1, <3>2, <3>3
    <3>5. \A k \in count' + 1 .. Len(fi'.pairs) : fi'.pairs[k] = NoPair
      <4>1. \A k \in (count + 1) + 1 .. Len(fi.pairs) :
               k \in count + 1 .. Len(fi.pairs) /\ k \in 1 .. Len(fi.pairs) /\ k # count + 1
            BY <1>2
      <4>2. QED BY <1>7, <3>1, <4>1
    <3>6. QED BY <1>7, <3>1, <3>2, <3>3, <3>4, <3>5
  <2>6. CASE at <= L /\ EndKernPairs
    <3>1. section = "pairs" /\ file[at].key \in PairEnds /\ section' = "file"
      <4>1. Counted(Len(fi.pairs)) \in {"ok", "parseError"}
            BY <1>2 DEF Counted
      <4>2. QED BY <2>6, <4>1 DEF EndKernPairs, Return, Entry, PairEnds
    <3>2. at' = at + 1 /\ at \in 1 .. L
          BY <1>1, <1>2, <1>9, <2>6
    <3>3. at = j
          BY <1>1, <1>7, <3>1, <3>2
    <3>4. QED BY <1>1, <3>1, <3>2, <3>3
  <2>7. CASE at <= L /\ EndFontMetrics
    <3>1. section' = "end" /\ file[at].key = "EndFontMetrics"
          BY <2>7 DEF EndFontMetrics, Return, Entry
    <3>2. at \in 1 .. L /\ at' = at + 1
          BY <1>1, <1>2, <1>9, <2>7
    <3>3. at = L /\ at' > j
          BY <1>1, <1>3, <3>1, <3>2
    <3>4. QED BY <3>1, <3>3
  <2>8. CASE at <= L /\ GivenUp
    <3>1. ~(at > L)
          BY <1>1, <1>2, <2>8
    <3>2. section' = "file" /\ at' = at + 1 /\ section # "globals"
          BY <2>8, <3>1 DEF GivenUp, L
    <3>3. section # "pairs"
      <4>1. section = "pairs" => file[at].key = "KPX" /\ ~(count < Len(fi.pairs))
            BY <2>8, <3>1 DEF GivenUp, L
      <4>2. QED BY <1>11, <2>8, <4>1
    <3>4. ~StartKernPairs
          BY <3>2 DEF StartKernPairs
    <3>5. QED BY <2>2, <2>8, <3>2, <3>3, <3>4
  <2>9. CASE at <= L /\ (StartCharMetrics \/ CharWidth \/ CharName \/ EndCharMetrics
                          \/ (CharCode /\ count < Len(fi.chars)) \/ EndSkipped \/ StartSkipped)
    <3>1. section # "pairs" /\ section' # "pairs" /\ ~StartKernPairs
      <4>1. Counted(Len(fi.chars)) \in {"ok", "parseError"}
            BY <1>2 DEF Counted
      <4>2. CASE StartCharMetrics \/ CharWidth \/ CharName \/ (CharCode /\ count < Len(fi.chars))
            BY <4>2 DEF StartCharMetrics, CharWidth, CharName, CharCode, StartKernPairs
      <4>3. CASE EndCharMetrics \/ EndSkipped
            BY <4>1, <4>3 DEF EndCharMetrics, EndSkipped, Return, StartKernPairs
      <4>4. CASE StartSkipped
            BY <4>4 DEF StartSkipped, StartKernPairs, Entry
      <4>5. QED BY <2>9, <4>2, <4>3, <4>4
    <3>2. QED BY <2>2, <2>9, <3>1
  <2>10. at <= L \/ at > L
         BY <1>1, <1>2
  <2>11. QED
         BY <2>1, <2>3, <2>4, <2>5, <2>6, <2>7, <2>8, <2>9, <2>10, AfmOutcome
<1>14. L' = L /\ C' = C /\ \A n : R(n)' = R(n)
       BY <1>4 DEF R, L, C
<1>15. QED BY <1>4, <1>12, <1>13, <1>14 DEF AllPairsInv, R, L, C, Past

\* The file that is read is one of the command line.
LEMMA FileInTurn ==
  ASSUME FilesInTurn, NEW e, e = <<>> \/ e \in Files
  PROVE  InTurn(e) /\ ArgumentsFit(e)
<1>1. CASE e = <<>>
      BY <1>1 DEF InTurn, ArgumentsFit
<1>2. CASE e \in Files
      BY <1>2 DEF FilesInTurn, Files
<1>3. QED BY <1>1, <1>2

\* The parts of the invariant together.
LEMMA MeasureKeeps ==
  ASSUME FilesInTurn, ParseTypes, MeasureInv, AfmNext
  PROVE  MeasureInv'
<1>1. InTurn(file) /\ file' = file
      BY FileInTurn, AfmOutcome DEF ParseTypes
<1>2. GlobalsInv /\ GlyphsInv /\ FirstWidthInv /\ PairsFromInv
      BY DEF MeasureInv
<1>3. GlobalsInv' /\ GlyphsInv' /\ FirstWidthInv' /\ PairsFromInv'
      BY <1>1, <1>2, GlobalsKeep, GlyphsKeep, FirstWidthKeeps, PairsFromKeep
<1>4. \A i, j : Sound(i, j)' <=> Sound(i, j)
      BY <1>1 DEF Sound
<1>5. \A i, j : Sound(i, j)' => AllCharsInv(i, j)'
  <2>1. SUFFICES ASSUME NEW i, NEW j, Sound(i, j) PROVE AllCharsInv(i, j)'
        BY <1>4
  <2>2. AllCharsInv(i, j)
        BY <2>1 DEF MeasureInv
  <2>3. QED BY <1>1, <1>2, <2>1, <2>2, AllCharsKeep
<1>6. \A i, j, k, l : Sound(i, j)' /\ IsPairList(file', k, l) => AllPairsInv(k, l)'
  <2>1. SUFFICES ASSUME NEW i, NEW j, NEW k, NEW l, Sound(i, j), IsPairList(file, k, l)
                 PROVE  AllPairsInv(k, l)'
        BY <1>1, <1>4
  <2>2. AllCharsInv(i, j) /\ AllPairsInv(k, l)
        BY <2>1 DEF MeasureInv
  <2>3. QED BY <1>1, <2>1, <2>2, AllPairsKeep
<1>7. QED BY <1>3, <1>5, <1>6 DEF MeasureInv

LEMMA MeasureStarts ==
  ASSUME file' = <<>> \/ file' \in Files, at' = 1, section' = "globals",
         fi' = NoFont, count' = 0
  PROVE  MeasureInv'
<1>1. /\ NoFont.chars = <<>> /\ NoFont.pairs = <<>>
      /\ "fontName" \in DOMAIN NoFont /\ NoFont.fontName = NULL
      /\ "isFixedPitch" \in DOMAIN NoFont /\ NoFont.isFixedPitch = FALSE
      BY DEF NoFont
<1>2. at' - 1 = 0 /\ Past' = 1 .. 0
      BY DEF Past
<1>3. \A e, key, v : LastIs(e, 0, key, v, v)
      BY DEF LastIs
<1>4. GlobalsInv'
  <2>1. /\ LastIs(file', at' - 1, "FontName", fi'.fontName, NULL)
        /\ LastIs(file', at' - 1, "IsFixedPitch", fi'.isFixedPitch, FALSE)
        BY <1>1, <1>2, <1>3, Zenon
  <2>2. "fontName" \in DOMAIN fi' /\ "isFixedPitch" \in DOMAIN fi' /\ \A n \in Past' : FALSE
        BY <1>1, <1>2
  <2>3. QED BY <2>1, <2>2 DEF GlobalsInv
<1>5. GlyphsInv' /\ FirstWidthInv' /\ PairsFromInv'
      BY <1>1 DEF GlyphsInv, FirstWidthInv, PairsFromInv
<1>6. Len(file') \in Nat /\ DOMAIN file' = 1 .. Len(file')
  <2>1. CASE file' = <<>>
        BY <2>1
  <2>2. CASE file' \in Files
    <3>1. PICK job \in Jobs : file' \in Range(job.files)
          BY <2>2 DEF Files
    <3>2. file' \in Seq(Range(file'))
          BY <3>1, AddAllAssumption DEF AddAllAssumption
    <3>3. QED BY <3>2
  <2>3. QED BY <2>1, <2>2
<1>7. ASSUME NEW i, NEW j, Sound(i, j)' PROVE AllCharsInv(i, j)'
  <2>1. i \in DOMAIN file'
        BY <1>7 DEF Sound, IsCharList, IsList
  <2>2. 1 <= i
        BY <1>6, <2>1
  <2>3. QED BY <1>2, <2>2 DEF AllCharsInv
<1>8. ASSUME NEW k, NEW l, IsPairList(file', k, l) PROVE AllPairsInv(k, l)'
      BY <1>2 DEF AllPairsInv
<1>9. QED BY <1>4, <1>5, <1>7, <1>8 DEF MeasureInv

LEMMA MeasureInit == Init => MeasureInv
<1> SUFFICES ASSUME Init PROVE MeasureInv
    OBVIOUS
<1>1. file = <<>> /\ at = 1 /\ section = "globals" /\ fi = NoFont /\ count = 0
      BY DEF Init, AfmStart
<1>2. /\ NoFont.chars = <<>> /\ NoFont.pairs = <<>>
      /\ "fontName" \in DOMAIN NoFont /\ NoFont.fontName = NULL
      /\ "isFixedPitch" \in DOMAIN NoFont /\ NoFont.isFixedPitch = FALSE
      BY DEF NoFont
<1>3. at - 1 = 0 /\ Past = 1 .. 0
      BY <1>1 DEF Past
<1>4. \A e, key, v : LastIs(e, 0, key, v, v)
      BY DEF LastIs
<1>5. GlobalsInv
  <2>1. /\ LastIs(file, at - 1, "FontName", fi.fontName, NULL)
        /\ LastIs(file, at - 1, "IsFixedPitch", fi.isFixedPitch, FALSE)
        BY <1>1, <1>2, <1>3, <1>4, Zenon
  <2>2. "fontName" \in DOMAIN fi /\ "isFixedPitch" \in DOMAIN fi /\ \A n \in Past : FALSE
        BY <1>1, <1>2, <1>3
  <2>3. QED BY <1>1, <2>1, <2>2 DEF GlobalsInv
<1>6. GlyphsInv /\ FirstWidthInv /\ PairsFromInv
      BY <1>1, <1>2 DEF GlyphsInv, FirstWidthInv, PairsFromInv
<1>7. ASSUME NEW i, NEW j, NEW start, NEW ends, NEW key PROVE ~IsList(file, start, ends, key, i, j)
      BY <1>1 DEF IsList
<1>8. QED BY <1>5, <1>6, <1>7 DEF MeasureInv, Sound, IsCharList, IsPairList

LEMMA MeasureSame == MeasureInv /\ UNCHANGED afmVars => MeasureInv'
<1> SUFFICES ASSUME MeasureInv, UNCHANGED afmVars PROVE MeasureInv'
    OBVIOUS
<1>1. UNCHANGED <<file, at, section, fi, count, code, error>>
      BY DEF afmVars
<1>2. GlobalsInv' /\ GlyphsInv' /\ FirstWidthInv' /\ PairsFromInv'
      BY <1>1 DEF MeasureInv, GlobalsInv, GlyphsInv, FirstWidthInv, PairsFromInv, Past, Kerns
<1>3. \A i, j : Sound(i, j)' = Sound(i, j) /\ AllCharsInv(i, j)' = AllCharsInv(i, j)
      BY <1>1 DEF Sound, AllCharsInv, Numbers, Past
<1>4. \A i, j : AllPairsInv(i, j)' = AllPairsInv(i, j)
      BY <1>1 DEF AllPairsInv, Kerns, Past
<1>5. QED BY <1>1, <1>2, <1>3, <1>4 DEF MeasureInv

\* Each step of the script keeps it; only the parser touches it.
LEMMA MeasureStep ==
  ASSUME FilesInTurn, ParseInv, MeasureInv, [Next]_vars
  PROVE  MeasureInv'
<1>1. CASE NextFile
  <2>1. queue # <<>> /\ queue \in Seq(Files)
        BY <1>1 DEF NextFile, ParseInv, ParseTypes
  <2>2. Head(queue) \in Files
        BY <2>1
  <2>3. CASE AfmRestart(Head(queue))
        BY <2>2, <2>3, MeasureStarts DEF AfmRestart
  <2>4. CASE UNCHANGED afmVars
        BY <2>4, MeasureSame
  <2>5. QED BY <1>1, <2>3, <2>4 DEF NextFile
<1>2. CASE Parse
      BY <1>2, MeasureKeeps DEF Parse, ParseInv
<1>3. CASE \/ Done \/ Parsed \/ CharmapFailed \/ CharmapRead \/ ReadCharmap
           \/ Kerning \/ KerningPass \/ KerningFailed
      BY <1>3, MeasureSame DEF Done, Parsed, CharmapFailed, CharmapRead, ReadCharmap,
                               Kerning, KerningPass, KerningFailed
<1>4. CASE KerningDone \/ Spacing \/ Typeface \/ CharacterMap \/ Aborts \/ Operations
      BY <1>4, MeasureSame DEF KerningDone, Spacing, Typeface, CharacterMap, Aborts, Operations, Put
<1>5. CASE CannotCreate \/ MergeFails \/ Merged \/ \E f \in toMerge : Merge(f)
      BY <1>5, MeasureSame DEF CannotCreate, MergeFails, Merged, Merge
<1>6. CASE UNCHANGED vars
      BY <1>6, MeasureSame DEF vars
<1>7. QED BY <1>1, <1>2, <1>3, <1>4, <1>5, <1>6 DEF Next, Proceed

\* What the arguments of a file are.
LEMMA WidthFits ==
  ASSUME NEW e, ArgumentsFit(e), NEW n \in DOMAIN e, e[n].key = "WX"
  PROVE  /\ e[n].val \in Nat /\ e[n].val < 32768
         /\ Int16(e[n].val) = e[n].val
         /\ e[n].val % 65536 = e[n].val
<1>1. e[n].val \in Nat /\ e[n].val < 32768
  <2>1. e[n].val \in Widths
        BY Zenon DEF ArgumentsFit
  <2>2. QED BY <2>1 DEF Widths
<1>2. Int16(e[n].val) = e[n].val
      BY <1>1, Int16Is
<1>3. e[n].val % 65536 = e[n].val
      BY <1>1
<1>4. QED BY <1>1, <1>2, <1>3

LEMMA PitchFits ==
  ASSUME NEW e, ArgumentsFit(e), NEW n \in DOMAIN e, e[n].key = "IsFixedPitch"
  PROVE  e[n].val \in BOOLEAN
BY Zenon DEF ArgumentsFit

\* The last of a file, if nothing follows the part that has been read.
LEMMA SaysIs ==
  ASSUME NEW e, NEW L \in Nat, DOMAIN e = 1 .. L, NEW m \in 0 .. L, NEW key, NEW v, NEW nothing,
         LastIs(e, m, key, v, nothing), \A n \in m + 1 .. L : e[n].key # key
  PROVE  IF Places(e, key) = {} THEN v = nothing ELSE v = Says(e, key)
<1>1. \A n \in Places(e, key) : n \in Nat /\ n <= m /\ n \in 1 .. m /\ e[n].key = key
  <2>1. \A n \in 1 .. L : n \in 1 .. m \/ n \in m + 1 .. L
        OBVIOUS
  <2>2. QED BY <2>1 DEF Places
<1>2. CASE v = nothing /\ \A n \in 1 .. m : e[n].key # key
  <2>1. Places(e, key) = {}
        BY <1>1, <1>2
  <2>2. QED BY <1>2, <2>1
<1>3. CASE \E n \in 1 .. m : /\ e[n].key = key /\ v = e[n].val
                             /\ \A k \in n + 1 .. m : e[k].key # key
  <2>1. PICK n \in 1 .. m : /\ e[n].key = key /\ v = e[n].val
                            /\ \A k \in n + 1 .. m : e[k].key # key
        BY <1>3
  <2>2. n \in Places(e, key)
        BY <2>1 DEF Places
  <2>3. IsFiniteSet(Places(e, key)) /\ Places(e, key) \subseteq Nat /\ Places(e, key) # {}
    <3> DEFINE S == Places(e, key)
    <3>1. m \in Nat /\ S \subseteq Nat
          BY <1>1
    <3>2. \A x \in S : x \in Nat /\ x <= m
          BY <1>1
    <3> HIDE DEF S
    <3>3. IsFiniteSet(S)
          BY <3>1, <3>2, PartIsFinite
    <3>4. QED BY <2>2, <3>1, <3>3 DEF S
  <2>4. /\ Max(Places(e, key)) \in Places(e, key)
        /\ \A y \in Places(e, key) : y <= Max(Places(e, key))
        BY <2>3, LargestIs
  <2>5. Max(Places(e, key)) = n
    <3> DEFINE x == Max(Places(e, key))
    <3>1. x \in 1 .. m /\ e[x].key = key /\ n <= x
          BY <1>1, <2>2, <2>4
    <3> HIDE DEF x
    <3>2. x \notin n + 1 .. m
          BY <2>1, <3>1
    <3>3. QED BY <3>1, <3>2 DEF x
  <2>6. QED BY <2>1, <2>3, <2>5 DEF Says
<1>4. QED BY <1>2, <1>3 DEF LastIs

\* The global information of a font, when its file has been read.
LEMMA EndSays ==
  ASSUME ParseTypes, InTurn(file), ArgumentsFit(file), GlobalsInv, section = "end"
  PROVE  /\ fi.fontName = Says(file, "FontName")
         /\ fi.isFixedPitch \in BOOLEAN
         /\ fi.isFixedPitch = TRUE <=> Monospaced(file)
<1>1. /\ Len(file) \in Nat /\ DOMAIN file = 1 .. Len(file)
      /\ at \in Nat \ {0} /\ at <= Len(file) + 1
      BY EntryIs DEF ParseTypes
<1>2. at - 1 \in 0 .. Len(file)
      BY <1>1
<1>3. ASSUME NEW key \in GlobalKeys
      PROVE  \A n \in (at - 1) + 1 .. Len(file) : file[n].key # key
  <2>1. SUFFICES ASSUME NEW n \in (at - 1) + 1 .. Len(file), file[n].key = key PROVE FALSE
        OBVIOUS
  <2>2. n \in DOMAIN file /\ \A s \in 1 .. at - 1 : s \in 1 .. n - 1
        BY <1>1
  <2>3. \E s \in Past : file[s].key = "EndFontMetrics"
        BY <1>1 DEF GlobalsInv
  <2>4. QED BY <2>1, <2>2, <2>3 DEF InTurn, Past
<1>4. "FontName" \in GlobalKeys /\ "IsFixedPitch" \in GlobalKeys
      BY DEF GlobalKeys, GlobalField
<1>5. fi.fontName = Says(file, "FontName")
  <2>1. LastIs(file, at - 1, "FontName", fi.fontName, NULL)
        BY DEF GlobalsInv
  <2>2. IF Places(file, "FontName") = {} THEN fi.fontName = NULL
        ELSE fi.fontName = Says(file, "FontName")
        BY <1>1, <1>2, <1>3, <1>4, <2>1, SaysIs
  <2>3. QED BY <2>2 DEF Says
<1>6. IF Places(file, "IsFixedPitch") = {} THEN fi.isFixedPitch = FALSE
      ELSE fi.isFixedPitch = Says(file, "IsFixedPitch")
  <2>1. LastIs(file, at - 1, "IsFixedPitch", fi.isFixedPitch, FALSE)
        BY DEF GlobalsInv
  <2> DEFINE v == fi.isFixedPitch
             m == at - 1
  <2>2. /\ DOMAIN file = 1 .. Len(file) /\ Len(file) \in Nat /\ m \in 0 .. Len(file)
        /\ LastIs(file, m, "IsFixedPitch", v, FALSE)
        /\ \A n \in m + 1 .. Len(file) : file[n].key # "IsFixedPitch"
        BY <1>1, <1>2, <1>3, <1>4, <2>1
  <2> HIDE DEF v, m
  <2>3. \A nothing : LastIs(file, m, "IsFixedPitch", v, nothing) =>
           IF Places(file, "IsFixedPitch") = {} THEN v = nothing
           ELSE v = Says(file, "IsFixedPitch")
        BY <2>2, SaysIs
  <2>4. IF Places(file, "IsFixedPitch") = {} THEN v = FALSE
        ELSE v = Says(file, "IsFixedPitch")
        BY <2>2, <2>3, Zenon
  <2>5. QED BY <2>4, Zenon DEF v
<1>7. Places(file, "IsFixedPitch") # {} => Says(file, "IsFixedPitch") \in BOOLEAN
  <2>1. SUFFICES ASSUME Places(file, "IsFixedPitch") # {} PROVE Says(file, "IsFixedPitch") \in BOOLEAN
        OBVIOUS
  <2>2. \A n \in Places(file, "IsFixedPitch") : n \in Nat /\ n <= Len(file) /\ file[n].val \in BOOLEAN
    <3>1. \A n \in Places(file, "IsFixedPitch") :
             n \in DOMAIN file /\ file[n].key = "IsFixedPitch"
          BY DEF Places
    <3>2. \A n \in Places(file, "IsFixedPitch") : file[n].val \in BOOLEAN
          BY <3>1, PitchFits, Zenon
    <3>3. \A n \in Places(file, "IsFixedPitch") : n \in Nat /\ n <= Len(file)
          BY <1>1, <3>1
    <3>4. QED BY <3>2, <3>3, Zenon
  <2>3. Max(Places(file, "IsFixedPitch")) \in Places(file, "IsFixedPitch")
    <3>1. IsFiniteSet(Places(file, "IsFixedPitch")) /\ Places(file, "IsFixedPitch") \subseteq Nat
          BY <1>1, <2>2, PartIsFinite
    <3>2. QED BY <2>1, <3>1, LargestIs
  <2>4. QED BY <2>1, <2>2, <2>3 DEF Says
<1>8. QED
  <2>1. CASE Places(file, "IsFixedPitch") = {}
    <3>1. ~Monospaced(file)
          BY <2>1 DEF Monospaced
    <3>2. fi.isFixedPitch = FALSE
          BY <1>6, <2>1
    <3>3. QED BY <1>5, <3>1, <3>2
  <2>2. CASE Places(file, "IsFixedPitch") # {}
    <3>1. fi.isFixedPitch = Says(file, "IsFixedPitch")
          BY <1>6, <2>2, Zenon
    <3>2. fi.isFixedPitch \in BOOLEAN
          BY <1>7, <2>2, <3>1, Zenon
    <3>3. fi.isFixedPitch = TRUE <=> Monospaced(file)
          BY <2>2, <3>1, Zenon DEF Monospaced
    <3>4. QED BY <1>5, <3>2, <3>3, Zenon
  <2>3. QED BY <2>1, <2>2

\* The width of a glyph is one that the file gives to it.
LEMMA WidthListed ==
  ASSUME ParseTypes, InTurn(file), ArgumentsFit(file), GlyphsInv, NEW glyph, glyph # NoGlyph
  PROVE  /\ Width(fi, glyph) \in Listed(file, glyph) \cup {-1}
         /\ (\E k \in 1 .. Len(fi.chars) : fi.chars[k].name = glyph) =>
               Width(fi, glyph) \in Listed(file, glyph)
<1>1. /\ Len(file) \in Nat /\ DOMAIN file = 1 .. Len(file)
      /\ at \in Nat \ {0} /\ at <= Len(file) + 1
      /\ fi.chars \in Seq(FontChars) /\ DOMAIN fi.chars = 1 .. Len(fi.chars)
      BY EntryIs DEF ParseTypes
<1>2. ASSUME NEW k \in 1 .. Len(fi.chars), fi.chars[k].name = glyph
      PROVE  Int16(fi.chars[k].wx) \in Listed(file, glyph)
  <2>1. Measured(file, at - 1, fi.chars[k]) /\ glyph # NULL
        BY DEF GlyphsInv, NoGlyph, NULL
  <2>2. PICK n \in 1 .. at - 1 : /\ file[n].key = "N" /\ file[n].val = glyph
                                 /\ file[n - 1].val = fi.chars[k].wx
        BY <1>2, <2>1 DEF Measured
  <2>3. n \in DOMAIN file
        BY <1>1
  <2>4. n - 1 \in DOMAIN file /\ file[n - 1].key = "WX"
        BY <2>2, <2>3 DEF InTurn
  <2>6. Int16(fi.chars[k].wx) = file[n - 1].val
        BY <2>2, <2>4, WidthFits
  <2>7. n \in {j \in Places(file, "N") : file[j].val = glyph}
        BY <2>2, <2>3 DEF Places
  <2>8. QED BY <2>6, <2>7 DEF Listed
<1>3. \/ Width(fi, glyph) = -1 /\ \A k \in DOMAIN fi.chars : fi.chars[k].name # glyph
      \/ \E k \in DOMAIN fi.chars : fi.chars[k].name = glyph /\ Width(fi, glyph) = Int16(fi.chars[k].wx)
      BY <1>1, WidthIs
<1>4. QED BY <1>1, <1>2, <1>3

\* The one width of a monospaced font.
LEMMA FixedWidthIs ==
  ASSUME ParseTypes, ArgumentsFit(file), FirstWidthInv, HasFixedWidth(fi)
  PROVE  fi.chars[1].wx % 65536 = file[Min(Places(file, "WX"))].val
<1>1. /\ Len(file) \in Nat /\ DOMAIN file = 1 .. Len(file)
      /\ at \in Nat \ {0} /\ at <= Len(file) + 1
      BY EntryIs DEF ParseTypes
<1>2. FirstWidth(file, at - 1, fi.chars[1].wx) /\ fi.chars[1].wx # 0
      BY DEF FirstWidthInv, HasFixedWidth
<1>3. PICK n \in 1 .. at - 1 : /\ file[n].key = "WX" /\ file[n].val = fi.chars[1].wx
                               /\ NoWidth(file, n - 1)
      BY <1>2 DEF FirstWidth
<1>4. n \in Places(file, "WX") /\ n \in DOMAIN file
      BY <1>1, <1>3 DEF Places
<1>5. /\ Min(Places(file, "WX")) \in Places(file, "WX")
      /\ \A y \in Places(file, "WX") : Min(Places(file, "WX")) <= y
  <2>1. Places(file, "WX") \subseteq Nat /\ Places(file, "WX") # {}
        BY <1>1, <1>4 DEF Places
  <2>2. QED BY <2>1, SmallestIs
<1>6. Min(Places(file, "WX")) = n
  <2> DEFINE x == Min(Places(file, "WX"))
  <2>1. x \in 1 .. Len(file) /\ file[x].key = "WX" /\ x <= n
        BY <1>1, <1>4, <1>5 DEF Places
  <2> HIDE DEF x
  <2>2. x \notin 1 .. n - 1
        BY <1>3, <2>1 DEF NoWidth
  <2>3. QED BY <2>1, <2>2 DEF x
<1>7. file[n].val % 65536 = file[n].val
      BY <1>3, <1>4, WidthFits
<1>8. QED BY <1>3, <1>6, <1>7

-----------------------------------------------------------------------------
(* The pairs that a reader of the finished table finds, and those in the   *)
(* metrics file.                                                           *)

\* A pair as the table has it, and by the glyphs it is read back as.
Shown(p)    == [left |-> p.left, right |-> p.right, value |-> Scaled(p)]
Decoded(k)  == <<CharToGlyph(k.left \div 256, k.left % 256),
                 CharToGlyph(k.right \div 256, k.right % 256), k.value>>
ReadPairs(krn) == {Decoded(k) : k \in Range(ReadTable(krn.header, krn.body))}

\* The known pairs of one kind are all kept.
LEMMA KeptHolds ==
  ASSUME KernTypes, NEW S, S = AsciiPairs \/ S = GlyphPairs
  PROVE  /\ \A k \in 1 .. Cardinality(S) : \E i \in S : Kept(S)[k] = Shown(pkd[i])
         /\ \A i \in S : \E k \in 1 .. Cardinality(S) : Kept(S)[k] = Shown(pkd[i])
<1>1. \A k \in 1 .. Cardinality(S) : Kept(S)[k] = Shown(pkd[Nth(S, k)])
      BY DEF Kept, Shown
<1>2. \A k \in 1 .. Cardinality(S) : Nth(S, k) \in S /\ Rank(S, Nth(S, k)) = k
      BY NthIs
<1>3. ASSUME NEW i \in S PROVE \E k \in 1 .. Cardinality(S) : Nth(S, k) = i
  <2>1. /\ Len(pkd) \in Nat /\ i \in 1 .. Len(pkd) /\ Cardinality(S) \in Nat
        /\ \A j \in S : j \in 1 .. Len(pkd)
        /\ \A n \in 0 .. Len(pkd) : Rank(S, n) \in Nat /\ Rank(S, n) <= Cardinality(S)
        /\ \A n \in 1 .. Len(pkd) :
              Rank(S, n) = IF n \in S THEN Rank(S, n - 1) + 1 ELSE Rank(S, n - 1)
        BY KeptIs
  <2>2. i - 1 \in 0 .. Len(pkd) /\ i \in 0 .. Len(pkd)
        BY <2>1
  <2>3. Rank(S, i) \in 1 .. Cardinality(S)
    <3>1. Rank(S, i) = Rank(S, i - 1) + 1 /\ Rank(S, i - 1) \in Nat
          BY <2>1, <2>2
    <3>2. Rank(S, i) <= Cardinality(S)
          BY <2>1, <2>2
    <3>3. QED BY <2>1, <3>1, <3>2
  <2> DEFINE k == Rank(S, i)
             n == Nth(S, k)
  <2>4. n \in S /\ Rank(S, n) = Rank(S, i) /\ n \in 1 .. Len(pkd)
        BY <1>2, <2>1, <2>3
  <2> HIDE DEF n
  <2>5. n = i
    <3>1. ASSUME NEW a \in 1 .. Len(pkd), NEW b \in 1 .. Len(pkd), b \in S, a < b
          PROVE  Rank(S, a) < Rank(S, b)
      <4>1. a \in 0 .. Len(pkd) /\ b \in 0 .. Len(pkd) /\ a <= b
            BY <2>1, <3>1
      <4>2. QED BY <2>1, <3>1, <4>1, RanksGrow
    <3>2. ~(n < i)
      <4>1. SUFFICES ASSUME n < i PROVE FALSE
            OBVIOUS
      <4>2. Rank(S, n) < Rank(S, i)
            BY <2>1, <2>4, <3>1, <4>1
      <4>3. QED BY <2>3, <2>4, <4>2
    <3>3. ~(i < n)
      <4>1. SUFFICES ASSUME i < n PROVE FALSE
            OBVIOUS
      <4>2. Rank(S, i) < Rank(S, n)
            BY <2>1, <2>4, <3>1, <4>1
      <4>3. QED BY <2>3, <2>4, <4>2
    <3>4. QED BY <2>1, <2>4, <3>2, <3>3
  <2>6. QED BY <2>3, <2>5 DEF n
<1>4. QED BY <1>1, <1>2, <1>3

\* What two sequences hold, one behind the other.
LEMMA RangeOfJoin ==
  ASSUME NEW D, NEW s \in Seq(D), NEW t \in Seq(D)
  PROVE  /\ \A x \in Range(s \o t) : (\E k \in 1 .. Len(s) : s[k] = x) \/ \E k \in 1 .. Len(t) : t[k] = x
         /\ \A k \in 1 .. Len(s) : s[k] \in Range(s \o t)
         /\ \A k \in 1 .. Len(t) : t[k] \in Range(s \o t)
<1>1. /\ Len(s) \in Nat /\ Len(t) \in Nat
      /\ DOMAIN (s \o t) = 1 .. Len(s) + Len(t)
      /\ \A k \in 1 .. Len(s) + Len(t) :
            (s \o t)[k] = IF k <= Len(s) THEN s[k] ELSE t[k - Len(s)]
      OBVIOUS
<1> DEFINE m == Len(s)
           n == Len(t)
           f == s \o t
<1>2. /\ m \in Nat /\ n \in Nat /\ DOMAIN f = 1 .. m + n
      /\ \A k \in 1 .. m + n : f[k] = IF k <= m THEN s[k] ELSE t[k - m]
      BY <1>1
<1> HIDE DEF m, n, f
<1>3. \A x \in Range(f) : (\E k \in 1 .. m : s[k] = x) \/ \E k \in 1 .. n : t[k] = x
  <2>1. ASSUME NEW k \in 1 .. m + n
        PROVE  (\E j \in 1 .. m : s[j] = f[k]) \/ \E j \in 1 .. n : t[j] = f[k]
    <3>1. k \in 1 .. m \/ k - m \in 1 .. n
          BY <1>2
    <3>2. CASE k <= m
          BY <1>2, <3>1, <3>2
    <3>3. CASE ~(k <= m)
      <4>1. k - m \in 1 .. n /\ f[k] = t[k - m]
            BY <1>2, <3>1, <3>3
      <4>2. QED BY <4>1
    <3>4. QED BY <3>2, <3>3
  <2>2. QED BY <1>2, <2>1 DEF Range
<1>4. \A k \in 1 .. m : s[k] \in Range(f)
  <2> TAKE k \in 1 .. m
  <2>1. k \in 1 .. m + n /\ f[k] = s[k]
        BY <1>2
  <2>2. QED BY <1>2, <2>1 DEF Range
<1>5. \A k \in 1 .. n : t[k] \in Range(f)
  <2> TAKE k \in 1 .. n
  <2>1. k + m \in 1 .. m + n /\ (k + m) - m = k /\ (k + m <= m => FALSE)
        BY <1>2
  <2>2. f[k + m] = t[k]
        BY <1>2, <2>1
  <2>3. QED BY <1>2, <2>1, <2>2 DEF Range
<1>6. QED BY <1>3, <1>4, <1>5 DEF m, n, f

\* The finished table shows the known pairs and nothing else.
LEMMA TableShows ==
  ASSUME KernInv, kerned = "done"
  PROVE  /\ \A x \in Range(ReadTable(header, out)) :
               \E p \in Range(pkd) : Recognized(p) /\ x = Shown(p)
         /\ \A p \in Range(pkd) : Recognized(p) => Shown(p) \in Range(ReadTable(header, out))
<1>1. KernTypes /\ ReadTable(header, out) = Kept(AsciiPairs) \o Kept(GlyphPairs)
      BY ReadsBack DEF KernInv, TableReadsBack
<1> DEFINE s == Kept(AsciiPairs)
           t == Kept(GlyphPairs)
           D == {Shown(pkd[i]) : i \in DOMAIN pkd}
<1>2. AsciiPairs \subseteq DOMAIN pkd /\ GlyphPairs \subseteq DOMAIN pkd
      BY DEF AsciiPairs, GlyphPairs
<1>3. s \in Seq(D) /\ Len(s) = Cardinality(AsciiPairs)
  <2>1. Cardinality(AsciiPairs) \in Nat
        BY <1>1, KeptIs
  <2>2. \A k \in 1 .. Cardinality(AsciiPairs) : s[k] \in D
    <3>1. \A k \in 1 .. Cardinality(AsciiPairs) : \E i \in AsciiPairs : s[k] = Shown(pkd[i])
          BY <1>1, KeptHolds
    <3>2. QED BY <1>2, <3>1
  <2>3. s = [k \in 1 .. Cardinality(AsciiPairs) |-> s[k]]
        BY DEF Kept
  <2> HIDE DEF s, D
  <2>4. QED BY <2>1, <2>2, <2>3, FirstNumbers
<1>4. t \in Seq(D) /\ Len(t) = Cardinality(GlyphPairs)
  <2>1. Cardinality(GlyphPairs) \in Nat
        BY <1>1, KeptIs
  <2>2. \A k \in 1 .. Cardinality(GlyphPairs) : t[k] \in D
    <3>1. \A k \in 1 .. Cardinality(GlyphPairs) : \E i \in GlyphPairs : t[k] = Shown(pkd[i])
          BY <1>1, KeptHolds
    <3>2. QED BY <1>2, <3>1
  <2>3. t = [k \in 1 .. Cardinality(GlyphPairs) |-> t[k]]
        BY DEF Kept
  <2> HIDE DEF t, D
  <2>4. QED BY <2>1, <2>2, <2>3, FirstNumbers
<1>5. \A i \in DOMAIN pkd : Recognized(pkd[i]) <=> i \in AsciiPairs \/ i \in GlyphPairs
      BY DEF AsciiPairs, GlyphPairs
<1>6. /\ \A k \in 1 .. Len(s) : \E i \in AsciiPairs : s[k] = Shown(pkd[i])
      /\ \A k \in 1 .. Len(t) : \E i \in GlyphPairs : t[k] = Shown(pkd[i])
      /\ \A i \in AsciiPairs : \E k \in 1 .. Len(s) : s[k] = Shown(pkd[i])
      /\ \A i \in GlyphPairs : \E k \in 1 .. Len(t) : t[k] = Shown(pkd[i])
      BY <1>1, <1>3, <1>4, KeptHolds
<1>7. ReadTable(header, out) = s \o t
      BY <1>1
<1> HIDE DEF s, t, D
<1>8. /\ \A x \in Range(s \o t) : (\E k \in 1 .. Len(s) : s[k] = x) \/ \E k \in 1 .. Len(t) : t[k] = x
      /\ \A k \in 1 .. Len(s) : s[k] \in Range(s \o t)
      /\ \A k \in 1 .. Len(t) : t[k] \in Range(s \o t)
      BY <1>3, <1>4, RangeOfJoin
<1>9. ASSUME NEW x \in Range(s \o t) PROVE \E p \in Range(pkd) : Recognized(p) /\ x = Shown(p)
  <2>1. PICK i \in DOMAIN pkd : Recognized(pkd[i]) /\ x = Shown(pkd[i])
        BY <1>2, <1>5, <1>6, <1>8
  <2>2. QED BY <2>1 DEF Range
<1>10. ASSUME NEW p \in Range(pkd), Recognized(p) PROVE Shown(p) \in Range(s \o t)
  <2>1. PICK i \in DOMAIN pkd : p = pkd[i]
        BY DEF Range
  <2>2. i \in AsciiPairs \/ i \in GlyphPairs
        BY <1>5, <1>10, <2>1
  <2>3. QED BY <1>6, <1>8, <2>1, <2>2
<1>11. QED BY <1>7, <1>9, <1>10

\* A pair of the file as the passes see it, and as it is read back.
Words(p) == [left |-> GlyphToChar(p.left), right |-> GlyphToChar(p.right), xamt |-> p.xamt]

LEMMA WordsAre ==
  ASSUME NEW p
  PROVE  /\ Recognized(Words(p)) <=> Known(p.left) /\ Known(p.right)
         /\ Known(p.left) /\ Known(p.right) =>
               Decoded(Shown(Words(p))) = <<p.left, p.right, Scaled(p)>>
<1>1. Recognized(Words(p)) <=> Known(p.left) /\ Known(p.right)
  <2>1. Recognized(Words(p)) <=> GlyphToChar(p.left) # 0 /\ GlyphToChar(p.right) # 0
        BY DEF Recognized, Words, Unknown
  <2>2. QED BY <2>1, CharOf
<1>2. ASSUME Known(p.left), Known(p.right)
      PROVE  Decoded(Shown(Words(p))) = <<p.left, p.right, Scaled(p)>>
  <2>1. Scaled(Words(p)) = Scaled(p)
        BY DEF Scaled, Words
  <2>2. /\ Shown(Words(p)).left = GlyphToChar(p.left) /\ Shown(Words(p)).right = GlyphToChar(p.right)
        /\ Shown(Words(p)).value = Scaled(p)
        BY <2>1 DEF Shown, Words
  <2>3. /\ CharToGlyph(GlyphToChar(p.left) \div 256, GlyphToChar(p.left) % 256) = p.left
        /\ CharToGlyph(GlyphToChar(p.right) \div 256, GlyphToChar(p.right) % 256) = p.right
        BY <1>2, CharOf
  <2>4. QED BY <2>2, <2>3 DEF Decoded
<1>3. QED BY <1>1, <1>2

SoundFile(e) == Closed(e) /\ Counts(e)

\* Everything has been read of a file whose lists and counts are right.
LEMMA SoundIsRead ==
  ASSUME ParseTypes, MeasureInv, section = "end", SoundFile(file)
  PROVE  /\ \A n \in Places(file, "N") : file[n].val # NULL =>
               \E k \in 1 .. Len(fi.chars) : fi.chars[k].name = file[n].val
         /\ \A n \in Places(file, "KPX") : file[n].val # NoPair =>
               \E k \in 1 .. Len(fi.pairs) : fi.pairs[k] = file[n].val
<1>1. /\ Len(file) \in Nat /\ DOMAIN file = 1 .. Len(file)
      /\ at \in Nat \ {0} /\ at <= Len(file) + 1
      BY EntryIs DEF ParseTypes
<1>2. PICK i, j : Sound(i, j)
      BY DEF SoundFile, Closed, Sound
<1>3. AllCharsInv(i, j)
      BY <1>2 DEF MeasureInv
<1>4. at > Len(file)
      BY <1>3 DEF AllCharsInv
<1>5. \A n \in 1 .. Len(file) : n \in Past
      BY <1>1, <1>4 DEF Past
<1>6. \A n \in Places(file, "N") : file[n].val # NULL =>
         \E k \in 1 .. Len(fi.chars) : fi.chars[k].name = file[n].val
  <2>1. \A n \in Past : file[n].key = "N" /\ file[n].val # NULL =>
           \E k \in 1 .. Len(fi.chars) : fi.chars[k].name = file[n].val
        BY <1>3 DEF AllCharsInv
  <2>2. QED BY <1>1, <1>5, <2>1 DEF Places
<1>7. \A n \in Places(file, "KPX") : file[n].val # NoPair =>
         \E k \in 1 .. Len(fi.pairs) : fi.pairs[k] = file[n].val
  <2>1. CASE Places(file, "KPX") = {}
        BY <2>1
  <2>2. CASE Places(file, "KPX") # {}
    <3>1. PICK k, l : IsPairList(file, k, l)
          BY <2>2 DEF SoundFile, Closed
    <3>2. AllPairsInv(k, l)
          BY <1>2, <3>1 DEF MeasureInv
    <3>3. \A n \in Past : file[n].key = "KPX" /\ file[n].val # NoPair =>
             \E m \in 1 .. Len(fi.pairs) : fi.pairs[m] = file[n].val
          BY <3>2 DEF AllPairsInv
    <3>4. QED BY <1>1, <1>5, <3>3 DEF Places
  <2>3. QED BY <2>1, <2>2
<1>8. QED BY <1>6, <1>7

\* The pairs that are read back from the table of a font are in its file, and all
\* of them if that is sound.
LEMMA PairsRead ==
  ASSUME ParseTypes, MeasureInv, KernInv, section = "end", kerned = "done",
         Range(pkd) = Range(WpPairs(fi)), NEW krn, krn.header = header, krn.body = out
  PROVE  /\ ReadPairs(krn) \subseteq ListedPairs(file)
         /\ SoundFile(file) => ReadPairs(krn) = ListedPairs(file)
<1> DEFINE All == Range(ReadTable(header, out))
<1>1. ReadPairs(krn) = {Decoded(k) : k \in All}
      BY DEF ReadPairs
<1>2. /\ \A x \in All : \E p \in Range(pkd) : Recognized(p) /\ x = Shown(p)
      /\ \A p \in Range(pkd) : Recognized(p) => Shown(p) \in All
      BY TableShows
<1> HIDE DEF All
<1>3. /\ fi.pairs \in Seq(FilePairs) /\ DOMAIN fi.pairs = 1 .. Len(fi.pairs)
      BY DEF ParseTypes
<1>4. WpPairs(fi) = [i \in 1 .. Len(fi.pairs) |-> Words(fi.pairs[i])]
      BY <1>3 DEF WpPairs, Words
<1>5. Range(pkd) = {Words(fi.pairs[i]) : i \in 1 .. Len(fi.pairs)}
      BY <1>4 DEF Range
<1>6. ASSUME NEW x \in ReadPairs(krn) PROVE x \in ListedPairs(file)
  <2>1. PICK k \in All : x = Decoded(k)
        BY <1>1
  <2>2. PICK p \in Range(pkd) : Recognized(p) /\ k = Shown(p)
        BY <1>2
  <2>3. PICK i \in 1 .. Len(fi.pairs) : p = Words(fi.pairs[i])
        BY <1>5
  <2> DEFINE q == fi.pairs[i]
  <2>4. Known(q.left) /\ Known(q.right) /\ x = <<q.left, q.right, Scaled(q)>>
        BY <2>1, <2>2, <2>3, WordsAre
  <2>5. q # NoPair
        BY <2>4, NobodyKnowsNULL DEF NoPair
  <2>6. PICK n \in Kerns : file[n].val = q
        BY <2>5 DEF MeasureInv, PairsFromInv
  <2>7. QED BY <2>4, <2>6 DEF ListedPairs, Kerns
<1>7. ASSUME SoundFile(file), NEW x \in ListedPairs(file) PROVE x \in ReadPairs(krn)
  <2>1. PICK n \in Places(file, "KPX") :
           /\ Known(file[n].val.left) /\ Known(file[n].val.right)
           /\ x = <<file[n].val.left, file[n].val.right, Scaled(file[n].val)>>
        BY DEF ListedPairs
  <2> DEFINE q == file[n].val
  <2>2. q # NoPair
        BY <2>1, NobodyKnowsNULL DEF NoPair
  <2>3. PICK i \in 1 .. Len(fi.pairs) : fi.pairs[i] = q
        BY <1>7, <2>2, SoundIsRead
  <2>4. Words(q) \in Range(pkd)
        BY <1>5, <2>3
  <2>5. Recognized(Words(q)) /\ Decoded(Shown(Words(q))) = x
        BY <2>1, WordsAre
  <2>6. QED BY <1>1, <1>2, <2>4, <2>5
<1>8. QED BY <1>6, <1>7

-----------------------------------------------------------------------------
(* The tables of a font describe its metrics file.                         *)

\* What the tables of the font are when all have been written.
TablesOf(r) ==
  /\ r.op = Operation(fi, Stem(fi.fontName))
  /\ r.typ = TypefaceTable(fi) /\ r.map = MapTable(fi)
  /\ fi.isFixedPitch = TRUE => HasFixedWidth(fi)
  /\ fi.isFixedPitch = FALSE =>
       /\ r.spc = SpacingTable(fi, Stem(fi.fontName))
       /\ r.krn = [table |-> fi.fontName, header |-> header, body |-> out]
       /\ kerned = "done" /\ Range(pkd) = Range(WpPairs(fi))

\* The two cases of Describes.
Spaced(e, r) == r.op.spc = <<>> /\ r.op.vmud = e[Min(Places(e, "WX"))].val
Kerned(e, r) ==
  /\ \A p \in WrittenPositions :
        LET widths == Listed(e, CharToGlyph(p[1], p[2]))
        IN  WidthAt(r.spc, p[1], p[2]) \in
               IF SoundFile(e) /\ widths # {} THEN widths ELSE widths \cup {-1}
  /\ ReadPairs(r.krn) \subseteq ListedPairs(e)
  /\ SoundFile(e) => ReadPairs(r.krn) = ListedPairs(e)

\* Describes in its parts.
LEMMA DescribesBy ==
  ASSUME NEW e, NEW r,
         r.op.select = Says(e, "FontName"), r.typ.table = Says(e, "FontName"),
         \A p \in WrittenPositions : PrintsAt(r.map, p[1], p[2]) = CharToGlyph(p[1], p[2]),
         IF Monospaced(e) THEN Spaced(e, r) ELSE Kerned(e, r)
  PROVE  Describes(e, r)
BY DEF Describes, Spaced, Kerned, ReadPairs, Decoded, SoundFile

\* Fonts of one width.
LEMMA SpacedIs ==
  ASSUME ParseTypes, ArgumentsFit(file), MeasureInv, NEW r, TablesOf(r), fi.isFixedPitch = TRUE
  PROVE  Spaced(file, r)
<1>1. HasFixedWidth(fi) /\ r.op = Operation(fi, Stem(fi.fontName))
      BY Zenon DEF TablesOf
<1>2. fi.isFixedPitch
      BY Zenon
<1>3. r.op.spc = <<>> /\ r.op.vmud = fi.chars[1].wx % 65536
      BY <1>1, <1>2 DEF Operation
<1>4. fi.chars[1].wx % 65536 = file[Min(Places(file, "WX"))].val
      BY <1>1, FixedWidthIs DEF MeasureInv
<1>5. QED BY <1>3, <1>4 DEF Spaced

\* And the others.
LEMMA KernedIs ==
  ASSUME ParseTypes, InTurn(file), ArgumentsFit(file), MeasureInv, KernInv, section = "end",
         NEW r, TablesOf(r), fi.isFixedPitch = FALSE
  PROVE  Kerned(file, r)
<1>1. /\ r.spc = SpacingTable(fi, Stem(fi.fontName))
      /\ r.krn = [table |-> fi.fontName, header |-> header, body |-> out]
      /\ kerned = "done" /\ Range(pkd) = Range(WpPairs(fi))
      BY Zenon DEF TablesOf
<1>2. r.krn.header = header /\ r.krn.body = out
      BY <1>1
<1>3. /\ ReadPairs(r.krn) \subseteq ListedPairs(file)
      /\ SoundFile(file) => ReadPairs(r.krn) = ListedPairs(file)
      BY <1>1, <1>2, PairsRead
<1>4. ASSUME NEW p \in WrittenPositions
      PROVE  LET widths == Listed(file, CharToGlyph(p[1], p[2]))
             IN  WidthAt(r.spc, p[1], p[2]) \in
                    IF SoundFile(file) /\ widths # {} THEN widths ELSE widths \cup {-1}
  <2> DEFINE g == CharToGlyph(p[1], p[2])
  <2>1. p \in Positions
        BY DEF WrittenPositions
  <2>2. g # NoGlyph
        BY <2>1, PositionIs
  <2>3. WidthAt(r.spc, p[1], p[2]) = Width(fi, g)
        BY <1>1, <2>1, WidthsAre
  <2> HIDE DEF g
  <2>4. /\ Width(fi, g) \in Listed(file, g) \cup {-1}
        /\ (\E k \in 1 .. Len(fi.chars) : fi.chars[k].name = g) => Width(fi, g) \in Listed(file, g)
        BY <2>2, WidthListed DEF MeasureInv
  <2>5. ASSUME SoundFile(file), Listed(file, g) # {}
        PROVE  Width(fi, g) \in Listed(file, g)
    <3>1. PICK n \in Places(file, "N") : file[n].val = g
          BY <2>5 DEF Listed
    <3>2. file[n].val # NULL
          BY <2>2, <3>1 DEF NULL, NoGlyph
    <3>3. \E k \in 1 .. Len(fi.chars) : fi.chars[k].name = g
          BY <2>5, <3>1, <3>2, SoundIsRead
    <3>4. QED BY <2>4, <3>3
  <2>6. Width(fi, g) \in IF SoundFile(file) /\ Listed(file, g) # {} THEN Listed(file, g)
                         ELSE Listed(file, g) \cup {-1}
        BY <2>4, <2>5
  <2>7. QED BY <2>3, <2>6 DEF g
<1>5. QED BY <1>3, <1>4 DEF Kerned

LEMMA TablesDescribe ==
  ASSUME ParseTypes, InTurn(file), ArgumentsFit(file), MeasureInv, KernInv, section = "end",
         NEW r, TablesOf(r)
  PROVE  Describes(file, r)
<1>1. /\ fi.fontName = Says(file, "FontName")
      /\ fi.isFixedPitch \in BOOLEAN
      /\ fi.isFixedPitch = TRUE <=> Monospaced(file)
      BY EndSays DEF MeasureInv
<1>2. /\ r.op = Operation(fi, Stem(fi.fontName))
      /\ r.typ = TypefaceTable(fi) /\ r.map = MapTable(fi)
      BY Zenon DEF TablesOf
<1>3. r.op.select = fi.fontName /\ r.typ.table = fi.fontName
      BY <1>2 DEF Operation, TypefaceTable
<1>4. ASSUME NEW p \in WrittenPositions
      PROVE  PrintsAt(r.map, p[1], p[2]) = CharToGlyph(p[1], p[2])
      BY <1>2, PrintsAre DEF WrittenPositions
<1>5. IF Monospaced(file) THEN Spaced(file, r) ELSE Kerned(file, r)
  <2>1. CASE Monospaced(file)
    <3>1. fi.isFixedPitch = TRUE
          BY <1>1, <2>1, Zenon
    <3>2. Spaced(file, r)
          BY <3>1, SpacedIs, Zenon
    <3>3. QED BY <2>1, <3>2
  <2>2. CASE ~Monospaced(file)
    <3>1. fi.isFixedPitch = FALSE
          BY <1>1, <2>2, Zenon
    <3>2. Kerned(file, r)
          BY <3>1, KernedIs, Zenon
    <3>3. QED BY <2>2, <3>2
  <2>3. QED BY <2>1, <2>2
<1>6. r.op.select = Says(file, "FontName") /\ r.typ.table = Says(file, "FontName")
      BY <1>1, <1>3, Zenon
<1>7. QED BY <1>4, <1>5, <1>6, DescribesBy, Zenon

-----------------------------------------------------------------------------
(* The directory: what DirInv says of the tables, by the phase, in terms   *)
(* of all that it depends on.                                              *)

Later(ph) == ph \in {"typ", "map", "add", "merge"}
TableOf(f, ext) == <<Stem(f.fontName), ext>>

DirAt(ph, d, f, pairs, done, head, body) ==
  /\ ph \in {"krn", "kerning", "spc"} => f.isFixedPitch = FALSE
  /\ ph \in {"kerning", "spc"} \/ (Later(ph) /\ f.isFixedPitch = FALSE) =>
        Range(pairs) = Range(WpPairs(f))
  /\ ph = "spc" \/ (Later(ph) /\ f.isFixedPitch = FALSE) =>
        /\ done = "done" /\ TableOf(f, "KRN") \in DOMAIN d
        /\ d[TableOf(f, "KRN")] = [table |-> f.fontName, header |-> head, body |-> body]
  /\ Later(ph) /\ f.isFixedPitch = FALSE =>
        /\ TableOf(f, "SPC") \in DOMAIN d
        /\ d[TableOf(f, "SPC")] = SpacingTable(f, Stem(f.fontName))
  /\ ph \in {"map", "add", "merge"} =>
        TableOf(f, "TYP") \in DOMAIN d /\ d[TableOf(f, "TYP")] = TypefaceTable(f)
  /\ ph \in {"add", "merge"} =>
        TableOf(f, "MAP") \in DOMAIN d /\ d[TableOf(f, "MAP")] = MapTable(f)
  /\ ph = "merge" /\ f.isFixedPitch = TRUE => HasFixedWidth(f)

DirInv ==
  /\ \A e \in Range(queue) : e \in Range(given)
  /\ phase = "parse" \/ Translating => file \in Range(given)
  /\ Translating => section = "end"
  /\ DirAt(phase, dir, fi, pkd, kerned, header, out)

\* A table that is put does not touch another.
LEMMA PutKeeps ==
  ASSUME NEW d, NEW f, NEW ext, NEW contents, NEW other, other # ext,
         TableOf(f, other) \in DOMAIN d
  PROVE  /\ TableOf(f, other) \in DOMAIN With(d, TableOf(f, ext), contents)
         /\ With(d, TableOf(f, ext), contents)[TableOf(f, other)] = d[TableOf(f, other)]
<1>1. TableOf(f, ext) # TableOf(f, other)
      BY DEF TableOf
<1>2. QED BY <1>1 DEF With

\* Sorting changes no pair.
LEMMA SortPermutes ==
  ASSUME KernTypes, Sort
  PROVE  Range(pkd') = Range(pkd)
<1>1. /\ pkd' \in [DOMAIN pkd -> Range(pkd)]
      /\ \A p \in Range(pkd) : Cardinality({j \in DOMAIN pkd' : pkd'[j] = p})
                             = Cardinality({j \in DOMAIN pkd : pkd[j] = p})
      BY DEF Sort
<1>2. ASSUME NEW p \in Range(pkd) PROVE p \in Range(pkd')
  <2> DEFINE S == {j \in DOMAIN pkd : pkd[j] = p}
             T == {j \in DOMAIN pkd' : pkd'[j] = p}
  <2>1. S # {} /\ \A j \in S : j \in 1 .. Len(pkd)
        BY <1>2 DEF Range, KernTypes
  <2>2. Len(pkd) \in Nat
        BY DEF KernTypes
  <2>3. Cardinality(T) = Cardinality(S)
        BY <1>1, <1>2
  <2>4. T # {}
    <3> HIDE DEF S, T
    <3>1. IsFiniteSet(S)
          BY <2>1, <2>2, Ranks
    <3>2. Cardinality(S) # 0
          BY <2>1, <3>1, FS_EmptySet
    <3>3. QED BY <2>3, <3>2, FS_EmptySet
  <2>5. PICK j \in DOMAIN pkd' : pkd'[j] = p
        BY <2>4
  <2>6. QED BY <2>5 DEF Range
<1>3. ASSUME NEW p \in Range(pkd') PROVE p \in Range(pkd)
      BY <1>1, <1>3 DEF Range
<1>4. QED BY <1>2, <1>3

\* A font that is given up, or has not been started.
LEMMA DirIdle ==
  ASSUME DirInv, given' = given, queue' = queue,
         phase' \in {"next", "done", "stopped"}
  PROVE  DirInv'
BY DEF DirInv, DirAt, Later, Translating

\* Steps that do not touch what the directory is about.
LEMMA DirSame ==
  ASSUME DirInv, UNCHANGED <<afmVars, kernVars, given, queue, phase, dir>>
  PROVE  DirInv'
BY DEF DirInv, Translating, afmVars, kernVars

\* The next table is put, or the next phase begins.
LEMMA DirMoves ==
  ASSUME DirInv, Translating, UNCHANGED <<afmVars, given, queue>>,
         DirAt(phase', dir', fi, pkd', kerned', header', out')
  PROVE  DirInv'
BY DEF DirInv, Translating, afmVars

\* A Boolean as a guard.
LEMMA PitchIs ==
  ASSUME FilesInTurn, ParseInv, MeasureInv, section = "end", file \in Range(given)
  PROVE  fi.isFixedPitch \in BOOLEAN
<1>1. ParseTypes /\ GlobalsInv
      BY DEF ParseInv, MeasureInv
<1>2. InTurn(file) /\ ArgumentsFit(file)
  <2>1. file = <<>> \/ file \in Files
        BY <1>1 DEF ParseTypes
  <2>2. QED BY <2>1, FileInTurn, Zenon
<1>3. QED BY <1>1, <1>2, EndSays, Zenon

LEMMA DirInit == Init => DirInv
<1> SUFFICES ASSUME Init PROVE DirInv
    OBVIOUS
<1>1. phase = "next" /\ queue = given
      BY DEF Init
<1>2. DirAt(phase, dir, fi, pkd, kerned, header, out)
      BY <1>1 DEF DirAt, Later
<1>3. QED BY <1>1, <1>2 DEF DirInv, Translating

\* What a step puts, and the phase that comes next.
LEMMA DirPuts ==
  ASSUME ParseTypes, KernInv, DirInv, KerningDone \/ Spacing \/ Typeface \/ CharacterMap \/ Operations
  PROVE  DirInv'
<1>1. /\ UNCHANGED <<afmVars, kernVars, given, queue>>
      /\ Translating
      BY DEF KerningDone, Spacing, Typeface, CharacterMap, Operations, Put, Translating
<1>2. DirAt(phase, dir, fi, pkd, kerned, header, out)
      BY DEF DirInv
<1>3. /\ fi' = fi /\ pkd' = pkd /\ kerned' = kerned /\ header' = header /\ out' = out
      BY <1>1 DEF afmVars, kernVars
<1>4. SUFFICES DirAt(phase', dir', fi, pkd, kerned, header, out)
      BY <1>1, <1>3, DirMoves
<1>12. ASSUME NEW ext, NEW contents, dir' = With(dir, TableOf(fi, ext), contents)
      PROVE  TableOf(fi, ext) \in DOMAIN dir' /\ dir'[TableOf(fi, ext)] = contents
  <2> DEFINE x == TableOf(fi, ext)
  <2> HIDE DEF x
  <2>1. dir' = With(dir, x, contents)
        BY <1>12 DEF x
  <2>2. x \in DOMAIN dir' /\ dir'[x] = contents
        BY <2>1 DEF With
  <2>3. QED BY <2>2 DEF x
<1>5. CASE KerningDone
  <2>1. /\ kerned = "done" /\ phase = "kerning" /\ phase' = "spc"
        /\ dir' = With(dir, TableOf(fi, "KRN"),
                       [table |-> fi.fontName, header |-> header, body |-> out])
        BY <1>5 DEF KerningDone, Put, File, TableOf
  <2>2. /\ TableOf(fi, "KRN") \in DOMAIN dir'
        /\ dir'[TableOf(fi, "KRN")] = [table |-> fi.fontName, header |-> header, body |-> out]
        BY <1>12, <2>1, Zenon
  <2>3. QED BY <1>2, <2>1, <2>2 DEF DirAt, Later
<1>6. CASE Spacing
  <2>1. /\ phase = "spc" /\ phase' = "typ"
        /\ dir' = With(dir, TableOf(fi, "SPC"), SpacingTable(fi, Stem(fi.fontName)))
        BY <1>6 DEF Spacing, Put, File, TableOf
  <2>2. /\ TableOf(fi, "SPC") \in DOMAIN dir'
        /\ dir'[TableOf(fi, "SPC")] = SpacingTable(fi, Stem(fi.fontName))
        BY <1>12, <2>1, Zenon
  <2>3. TableOf(fi, "KRN") \in DOMAIN dir
        BY <1>2, <2>1 DEF DirAt
  <2>4. /\ TableOf(fi, "KRN") \in DOMAIN dir'
        /\ dir'[TableOf(fi, "KRN")] = dir[TableOf(fi, "KRN")]
        BY <2>1, <2>3, PutKeeps
  <2>5. QED BY <1>2, <2>1, <2>2, <2>4 DEF DirAt, Later
<1>7. ASSUME NEW ext \in {"TYP", "MAP", "ADD"}, NEW contents,
             dir' = With(dir, TableOf(fi, ext), contents)
      PROVE  \A other \in {"KRN", "SPC", "TYP", "MAP"} : other # ext /\ TableOf(fi, other) \in DOMAIN dir =>
                /\ TableOf(fi, other) \in DOMAIN dir'
                /\ dir'[TableOf(fi, other)] = dir[TableOf(fi, other)]
      BY <1>7, PutKeeps
<1>8. CASE Typeface
  <2>1. /\ phase = "typ" /\ phase' = "map"
        /\ dir' = With(dir, TableOf(fi, "TYP"), TypefaceTable(fi))
        BY <1>8 DEF Typeface, Put, File, TableOf
  <2>2. TableOf(fi, "TYP") \in DOMAIN dir' /\ dir'[TableOf(fi, "TYP")] = TypefaceTable(fi)
        BY <1>12, <2>1, Zenon
  <2>3. \A other \in {"KRN", "SPC"} : TableOf(fi, other) \in DOMAIN dir =>
           TableOf(fi, other) \in DOMAIN dir' /\ dir'[TableOf(fi, other)] = dir[TableOf(fi, other)]
        BY <1>7, <2>1
  <2>4. QED BY <1>2, <2>1, <2>2, <2>3 DEF DirAt, Later
<1>9. CASE CharacterMap
  <2>1. /\ phase = "map" /\ phase' = "add"
        /\ dir' = With(dir, TableOf(fi, "MAP"), MapTable(fi))
        BY <1>9 DEF CharacterMap, Put, File, TableOf
  <2>2. TableOf(fi, "MAP") \in DOMAIN dir' /\ dir'[TableOf(fi, "MAP")] = MapTable(fi)
        BY <1>12, <2>1, Zenon
  <2>3. \A other \in {"KRN", "SPC", "TYP"} : TableOf(fi, other) \in DOMAIN dir =>
           TableOf(fi, other) \in DOMAIN dir' /\ dir'[TableOf(fi, other)] = dir[TableOf(fi, other)]
        BY <1>7, <2>1
  <2>4. QED BY <1>2, <2>1, <2>2, <2>3 DEF DirAt, Later
<1>10. CASE Operations
  <2>1. /\ phase = "add" /\ phase' = "merge"
        /\ dir' = With(dir, TableOf(fi, "ADD"), Operation(fi, Stem(fi.fontName)))
        BY <1>10 DEF Operations, Put, File, TableOf
  <2>2. fi.isFixedPitch = TRUE => HasFixedWidth(fi)
    <3>1. fi.isFixedPitch => HasFixedWidth(fi)
          BY <1>10 DEF Operations
    <3>2. QED BY <3>1, Zenon
  <2>3. \A other \in {"KRN", "SPC", "TYP", "MAP"} : TableOf(fi, other) \in DOMAIN dir =>
           TableOf(fi, other) \in DOMAIN dir' /\ dir'[TableOf(fi, other)] = dir[TableOf(fi, other)]
        BY <1>7, <2>1
  <2>4. QED BY <1>2, <2>1, <2>2, <2>3 DEF DirAt, Later
<1>11. QED BY <1>5, <1>6, <1>8, <1>9, <1>10

\* Each step of the script keeps what DirInv says.
LEMMA DirStep ==
  ASSUME FilesInTurn, ParseInv, MeasureInv, KernInv, DirInv, [Next]_vars
  PROVE  DirInv'
<1>0. ParseTypes /\ KernTypes
      BY DEF ParseInv, KernInv
<1>1. DirAt(phase, dir, fi, pkd, kerned, header, out)
      BY DEF DirInv
<1>2. CASE NextFile
  <2>1. /\ given' = given /\ queue # <<>> /\ queue' = Tail(queue)
        /\ phase' = "next" \/ (phase' = "parse" /\ file' = Head(queue))
        BY <1>2 DEF NextFile, AfmRestart
  <2>2. queue \in Seq(Files)
        BY <1>0 DEF ParseTypes
  <2>3. Head(queue) \in Range(queue) /\ \A e \in Range(Tail(queue)) : e \in Range(queue)
    <3>1. Len(queue) \in Nat /\ Len(queue) # 0 /\ DOMAIN queue = 1 .. Len(queue)
          BY <2>1, <2>2
    <3>2. Head(queue) = queue[1] /\ 1 \in DOMAIN queue
          BY <2>1, <2>2, <3>1
    <3>3. ASSUME NEW e \in Range(Tail(queue)) PROVE e \in Range(queue)
      <4>1. PICK k \in DOMAIN Tail(queue) : e = Tail(queue)[k]
            BY DEF Range
      <4>2. k \in 1 .. Len(queue) - 1 /\ Tail(queue)[k] = queue[k + 1]
            BY <2>1, <2>2, <3>1, <4>1
      <4>3. k + 1 \in DOMAIN queue
            BY <3>1, <4>2
      <4>4. QED BY <4>1, <4>2, <4>3 DEF Range
    <3>4. QED BY <3>2, <3>3 DEF Range
  <2>4. DirAt(phase', dir', fi', pkd', kerned', header', out')
        BY <2>1 DEF DirAt, Later
  <2>5. QED BY <2>1, <2>3, <2>4 DEF DirInv, Translating
<1>3. CASE Done \/ CharmapFailed \/ KerningFailed \/ Aborts \/ CannotCreate \/ MergeFails \/ Merged
  <2>1. given' = given /\ queue' = queue /\ phase' \in {"next", "done", "stopped"}
        BY <1>3 DEF Done, CharmapFailed, KerningFailed, Aborts, CannotCreate, MergeFails, Merged, Put
  <2>2. QED BY <2>1, DirIdle
<1>4. CASE Parse
  <2>1. /\ given' = given /\ queue' = queue /\ phase = "parse" /\ phase' = "parse" /\ file' = file
        BY <1>0, <1>4, AfmOutcome DEF Parse
  <2>2. DirAt(phase', dir', fi', pkd', kerned', header', out')
        BY <2>1 DEF DirAt, Later
  <2>3. QED BY <2>1, <2>2 DEF DirInv, Translating
<1>5. CASE Parsed
  <2>1. /\ given' = given /\ queue' = queue /\ phase = "parse" /\ phase' = "charmap"
        /\ file' = file /\ section' = "end"
        BY <1>5 DEF Parsed, afmVars
  <2>2. DirAt(phase', dir', fi', pkd', kerned', header', out')
        BY <2>1 DEF DirAt, Later
  <2>3. QED BY <2>1, <2>2 DEF DirInv, Translating
<1>6. CASE CharmapRead
  <2>1. /\ UNCHANGED <<afmVars, given, queue>> /\ phase = "charmap"
        BY <1>6 DEF CharmapRead
  <2>2. Translating
        BY <2>1 DEF Translating
  <2>3. fi.isFixedPitch \in BOOLEAN
        BY <2>2, PitchIs DEF DirInv
  <2>4. CASE phase' = "next"
        BY <2>1, <2>4, DirIdle
  <2>5. CASE phase' = "typ" /\ fi.isFixedPitch = TRUE
    <3>1. ~(fi.isFixedPitch = FALSE)
          BY <2>5, Zenon
    <3>2. DirAt(phase', dir', fi, pkd', kerned', header', out')
          BY <2>5, <3>1 DEF DirAt, Later
    <3>3. QED BY <2>1, <2>2, <3>2, DirMoves
  <2>6. CASE phase' = "krn" /\ fi.isFixedPitch = FALSE
    <3>1. DirAt(phase', dir', fi, pkd', kerned', header', out')
          BY <2>6 DEF DirAt, Later
    <3>2. QED BY <2>1, <2>2, <3>1, DirMoves
  <2>7. phase' = IF fi.fontName = NULL THEN "next" ELSE IF fi.isFixedPitch THEN "typ" ELSE "krn"
        BY <1>6 DEF CharmapRead
  <2>8. phase' = "next" \/ (phase' = "typ" /\ fi.isFixedPitch = TRUE)
        \/ (phase' = "krn" /\ fi.isFixedPitch = FALSE)
        BY <2>3, <2>7, Zenon
  <2>9. QED BY <2>4, <2>5, <2>6, <2>8
<1>7. CASE Kerning
  <2>1. /\ UNCHANGED <<afmVars, given, queue>> /\ phase = "krn" /\ phase' = "kerning"
        /\ pkd' = WpPairs(fi)
        BY <1>7 DEF Kerning, KernStart
  <2>2. DirAt(phase', dir', fi, pkd', kerned', header', out')
        BY <1>1, <2>1 DEF DirAt, Later
  <2>3. Translating
        BY <2>1 DEF Translating
  <2>4. QED BY <2>1, <2>2, <2>3, DirMoves
<1>8. CASE KerningPass
  <2>1. /\ UNCHANGED <<afmVars, given, queue, phase, dir>> /\ phase = "kerning" /\ KernNext
        BY <1>8 DEF KerningPass
  <2>2. Range(pkd') = Range(pkd)
    <3>1. CASE Sort
          BY <1>0, <3>1, SortPermutes
    <3>2. CASE SkipPair \/ Count \/ PutPair \/ PutValue \/ EndOfPass
      <4>1. pkd' = pkd
            BY <3>2 DEF SkipPair, Count, PutPair, PutValue, EndOfPass, NextPair
      <4>2. QED BY <4>1
    <3>3. QED BY <2>1, <3>1, <3>2 DEF KernNext
  <2>3. DirAt(phase', dir', fi, pkd', kerned', header', out')
        BY <1>1, <2>1, <2>2 DEF DirAt, Later
  <2>4. Translating
        BY <2>1 DEF Translating
  <2>5. QED BY <2>1, <2>3, <2>4, DirMoves
<1>9. CASE KerningDone \/ Spacing \/ Typeface \/ CharacterMap \/ Operations
      BY <1>0, <1>9, DirPuts
<1>10. CASE ReadCharmap \/ (\E f \in toMerge : Merge(f)) \/ UNCHANGED vars
  <2>1. UNCHANGED <<afmVars, kernVars, given, queue, phase, dir>>
        BY <1>10 DEF ReadCharmap, Merge, vars
  <2>2. QED BY <2>1, DirSame
<1>11. QED
       BY <1>2, <1>3, <1>4, <1>5, <1>6, <1>7, <1>8, <1>9, <1>10 DEF Next, Proceed

-----------------------------------------------------------------------------
(* What is merged describes the file that was translated.                  *)

\* A merge puts the tables of the file that was translated last.
LEMMA MergeDescribes ==
  ASSUME FilesInTurn, MergeInv, KernInv, ParseInv, MeasureInv, DirInv, NEW f, Merge(f)
  PROVE  Describes(file, Resources(dir[f]))
<1>1. phase = "merge" /\ f \in toMerge
      BY DEF Merge
<1>2. f = File("ADD") /\ dir[f] = Operation(fi, Stem(fi.fontName))
      BY <1>1 DEF MergeInv
<1>3. /\ section = "end" /\ file \in Range(given)
      /\ DirAt("merge", dir, fi, pkd, kerned, header, out)
      BY <1>1 DEF DirInv, Translating
<1>4. ParseTypes /\ InTurn(file) /\ ArgumentsFit(file)
  <2>1. ParseTypes
        BY DEF ParseInv
  <2>2. file = <<>> \/ file \in Files
        BY <2>1 DEF ParseTypes
  <2>3. QED BY <2>1, <2>2, FileInTurn, Zenon
<1> DEFINE op == Operation(fi, Stem(fi.fontName))
           r == Resources(op)
<1>5. fi.isFixedPitch \in BOOLEAN
      BY <1>3, PitchIs
<1>6. op.typ = TableOf(fi, "TYP") /\ op.map = TableOf(fi, "MAP")
      BY DEF Operation, TableOf
<1>7. fi.isFixedPitch = FALSE => op.spc = TableOf(fi, "SPC")
  <2>1. SUFFICES ASSUME fi.isFixedPitch = FALSE PROVE op.spc = TableOf(fi, "SPC")
        OBVIOUS
  <2>2. ~fi.isFixedPitch
        BY <2>1, Zenon
  <2>3. QED BY <2>2 DEF Operation, TableOf
<1>8. TableOf(fi, "SPC") # <<>>
      BY DEF TableOf
<1> HIDE DEF op
<1>9. r.op = op /\ r.typ = dir[op.typ] /\ r.map = dir[op.map]
      BY DEF Resources
<1>10. r.typ = TypefaceTable(fi) /\ r.map = MapTable(fi)
  <2>1. /\ dir[TableOf(fi, "TYP")] = TypefaceTable(fi)
        /\ dir[TableOf(fi, "MAP")] = MapTable(fi)
        BY <1>3 DEF DirAt
  <2>2. QED BY <1>6, <1>9, <2>1
<1>11. fi.isFixedPitch = TRUE => HasFixedWidth(fi)
       BY <1>3 DEF DirAt
<1>12. ASSUME fi.isFixedPitch = FALSE
       PROVE  /\ r.spc = SpacingTable(fi, Stem(fi.fontName))
              /\ r.krn = [table |-> fi.fontName, header |-> header, body |-> out]
              /\ kerned = "done" /\ Range(pkd) = Range(WpPairs(fi))
  <2>1. /\ dir[TableOf(fi, "SPC")] = SpacingTable(fi, Stem(fi.fontName))
        /\ dir[TableOf(fi, "KRN")] = [table |-> fi.fontName, header |-> header, body |-> out]
        /\ kerned = "done" /\ Range(pkd) = Range(WpPairs(fi))
        BY <1>3, <1>12 DEF DirAt, Later
  <2>2. op.spc = TableOf(fi, "SPC") /\ op.spc # <<>>
        BY <1>7, <1>8, <1>12
  <2>3. r.spc = dir[op.spc] /\ r.krn = dir[dir[op.spc].krn]
        BY <2>2 DEF Resources
  <2>4. dir[op.spc].krn = TableOf(fi, "KRN")
    <3>1. SpacingTable(fi, Stem(fi.fontName)).krn = <<Stem(fi.fontName), "KRN">>
          BY DEF SpacingTable
    <3>2. QED BY <2>1, <2>2, <3>1 DEF TableOf
  <2>5. QED BY <2>1, <2>2, <2>3, <2>4
<1> HIDE DEF r
<1>13. TablesOf(r)
  <2>1. r.op = Operation(fi, Stem(fi.fontName))
        BY <1>9 DEF op
  <2>2. QED BY <1>10, <1>11, <1>12, <2>1, Zenon DEF TablesOf
<1>14. Describes(file, r)
       BY <1>3, <1>4, <1>13, TablesDescribe
<1>15. QED BY <1>2, <1>14 DEF r, op

PrintInv == MergeInv /\ TablesInv /\ ParseInv /\ MeasureInv /\ DirInv /\ PrintedAsMeasured

LEMMA PrintInit == Init => PrintInv
<1> SUFFICES ASSUME Init PROVE PrintInv
    OBVIOUS
<1>1. MergeInv
      BY DEF Init, MergeInv
<1>2. PrintedAsMeasured
  <2>1. DOMAIN all = {}
        BY DEF Init, Empty
  <2>2. QED BY <2>1 DEF PrintedAsMeasured
<1>3. QED BY <1>1, <1>2, TablesInit, ParseInit, MeasureInit, DirInit DEF PrintInv

\* A font in the master file stays described, and a new one is.
LEMMA PrintStep ==
  ASSUME PairsFit, FilesInTurn, PrintInv, [Next]_vars
  PROVE  PrintInv'
<1>1. MergeInv /\ TablesInv /\ ParseInv /\ MeasureInv /\ DirInv /\ PrintedAsMeasured /\ KernInv
      BY DEF PrintInv, TablesInv
<1>2. MergeInv' /\ TablesInv' /\ ParseInv' /\ MeasureInv' /\ DirInv'
      BY <1>1, MergeInvStep, TablesStep, ParseStep, MeasureStep, DirStep
<1>3. PrintedAsMeasured'
  <2>1. given' = given
        BY DEF Next, Proceed, vars, NextFile, Done, Parse, Parsed, ReadCharmap, CharmapFailed,
               CharmapRead, Kerning, KerningPass, KerningFailed, KerningDone, Spacing, Typeface,
               CharacterMap, Aborts, Operations, CannotCreate, Merge, MergeFails, Merged, Put
  <2>2. CASE all' = all
        BY <1>1, <2>1, <2>2 DEF PrintedAsMeasured
  <2>3. CASE \E f \in toMerge : Merge(f)
    <3>1. PICK f \in toMerge : Merge(f)
          BY <2>3
    <3>2. /\ all' = With(all, FontName(dir[f]), Resources(dir[f]))
          /\ phase = "merge"
          BY <3>1 DEF Merge
    <3>3. Describes(file, Resources(dir[f]))
          BY <1>1, <3>1, MergeDescribes
    <3>4. file \in Range(given)
          BY <1>1, <3>2 DEF DirInv, Translating
    <3> DEFINE x == FontName(dir[f])
               y == Resources(dir[f])
    <3>5. all' = With(all, x, y) /\ Describes(file, y)
          BY <3>2, <3>3
    <3> HIDE DEF x, y
    <3>6. ASSUME NEW name \in DOMAIN all' PROVE \E e \in Range(given) : Describes(e, all'[name])
      <4>1. CASE name = x
        <5>1. all'[name] = y
              BY <3>5, <4>1 DEF With
        <5>2. QED BY <3>4, <3>5, <5>1
      <4>2. CASE name # x
        <5>1. name \in DOMAIN all /\ all'[name] = all[name]
              BY <3>5, <3>6, <4>2 DEF With
        <5>2. QED BY <1>1, <5>1 DEF PrintedAsMeasured
      <4>3. QED BY <4>1, <4>2
    <3>7. QED BY <2>1, <3>6 DEF PrintedAsMeasured
  <2>4. all' = all \/ \E f \in toMerge : Merge(f)
        BY DEF Next, Proceed, vars, NextFile, Done, Parse, Parsed, ReadCharmap, CharmapFailed,
               CharmapRead, Kerning, KerningPass, KerningFailed, KerningDone, Spacing, Typeface,
               CharacterMap, Aborts, Operations, CannotCreate, MergeFails, Merged, Put
  <2>5. QED BY <2>2, <2>3, <2>4
<1>4. QED BY <1>2, <1>3 DEF PrintInv

\* Every font in the master file has the tables of one and the same metrics file: each
\* character of WordPerfect's is printed with the glyph of its position and is as
\* wide as the file says, each pair is kerned as the file says, and nothing is
\* missing if the counts and the ends in the file are right (afm2add.c, addall.sh).
THEOREM FontsArePrintedAsMeasured == PairsFit /\ FilesInTurn => (Spec => []PrintedAsMeasured)
<1> SUFFICES ASSUME PairsFit, FilesInTurn PROVE Spec => []PrintedAsMeasured
    OBVIOUS
<1>1. PrintInv /\ [Next]_vars => PrintInv'
      BY PrintStep
<1>2. PrintInv => PrintedAsMeasured
      BY DEF PrintInv
<1>3. QED BY <1>1, <1>2, PrintInit, PTL DEF Spec
=============================================================================
