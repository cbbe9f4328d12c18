----------------------------- MODULE KernTable ------------------------------
(***************************************************************************)
(* fonts/kerning.c: a kerning table is written in five passes over the     *)
(* sorted pairs of a font, the first of which counts them and decides how  *)
(* wide the values are.  Whoever reads the table relies on the counts and  *)
(* that width to find the pairs and the value of each.                     *)
(***************************************************************************)
EXTENDS Integers, FiniteSets, SequencesExt

\* A pair is [left, right, xamt]: two of WordPerfect's characters, as words
\* set * 256 + c, and an amount in thousandths of an em.
Unknown == 0   \* what is not a character of WordPerfect's

Recognized(p) == p.left # Unknown /\ p.right # Unknown
\* Both characters are of set 0, WP_ASCII.
AsciiPair(p) == p.left < 256 /\ p.right < 256

\* Sorted by the right character first.
Before(p, q) == \/ p.right < q.right
                \/ p.right = q.right /\ p.left < q.left

\* The value for 12 points: xamt * 0.12, truncated towards 0.
Scaled(p) == IF p.xamt < 0 THEN -((-p.xamt * 12) \div 100) ELSE (p.xamt * 12) \div 100

FitsByte(v) == v \in -128 .. 127
Wrap(v, size) == IF size = 1 THEN v % 256 ELSE v % 65536

Passes == <<"count", "asciipairs", "glyphpairs", "asciivals", "glyphvals">>

-----------------------------------------------------------------------------
VARIABLES
    pkd,       \* the pairs of the font
    sorted,    \* qsort has run
    pass, nth, \* the loops: a number of Passes, and the next pair
    asciipair, glyphpair, valsize,
    out,       \* the table after its header: pairs and values as written
    header,    \* the counts and the width, written after the first pass
    kerned     \* "running", "done" or "failed"

kernVars == <<pkd, sorted, pass, nth, asciipair, glyphpair, valsize, out, header, kerned>>

\* Before any font; and the call with the pairs of one.
KernIdle == /\ pkd = <<>> /\ sorted = FALSE /\ pass = 1 /\ nth = 1
            /\ asciipair = 0 /\ glyphpair = 0 /\ valsize = 1
            /\ out = <<>> /\ header = <<>> /\ kerned = "failed"

KernStart(pairs) ==
    /\ pkd' = pairs /\ sorted' = FALSE /\ pass' = 1 /\ nth' = 1
    /\ asciipair' = 0 /\ glyphpair' = 0 /\ valsize' = 1
    /\ out' = <<>> /\ header' = <<>> /\ kerned' = "running"

\* (mutant: the pairs stay as the font lists them)
SortNothing == /\ kerned = "running" /\ ~sorted /\ sorted' = TRUE
               /\ UNCHANGED <<pkd, pass, nth, asciipair, glyphpair, valsize, out, header, kerned>>

\* qsort leaves pairs that compare equal in any order.
Sort ==
    /\ kerned = "running" /\ ~sorted /\ sorted' = TRUE
    /\ pkd' \in {s \in [DOMAIN pkd -> Range(pkd)] :
                    /\ \A j, k \in DOMAIN s : j < k => ~Before(s[k], s[j])
                    /\ \A p \in Range(pkd) :
                         Cardinality({j \in DOMAIN s : s[j] = p})
                       = Cardinality({j \in DOMAIN pkd : pkd[j] = p})}
    /\ UNCHANGED <<pass, nth, asciipair, glyphpair, valsize, out, header, kerned>>

Writing == kerned = "running" /\ sorted /\ pass <= Len(Passes)
InPass(name) == Writing /\ Passes[pass] = name /\ nth <= Len(pkd)
NextPair == nth' = nth + 1 /\ UNCHANGED <<pkd, sorted, pass, header, kerned>>

SkipPair == /\ Writing /\ nth <= Len(pkd) /\ ~Recognized(pkd[nth])
            /\ NextPair /\ UNCHANGED <<asciipair, glyphpair, valsize, out>>

\* Every pass looks whether the value fits a byte; the first decides it.
Widen == valsize' = IF FitsByte(Scaled(pkd[nth])) THEN valsize ELSE 2

Count == /\ InPass("count") /\ Recognized(pkd[nth]) /\ Widen
         /\ IF AsciiPair(pkd[nth])
            THEN asciipair' = (asciipair + 1) % 65536 /\ UNCHANGED glyphpair
            ELSE glyphpair' = (glyphpair + 1) % 65536 /\ UNCHANGED asciipair
         /\ NextPair /\ UNCHANGED out

PutPair == /\ InPass("asciipairs") \/ InPass("glyphpairs")
           /\ Recognized(pkd[nth]) /\ Widen
           /\ out' = IF AsciiPair(pkd[nth]) = (Passes[pass] = "asciipairs")
                     THEN Append(out, <<pkd[nth].left, pkd[nth].right>>) ELSE out
           /\ NextPair /\ UNCHANGED <<asciipair, glyphpair>>

\* (mutants of the next: both passes write all, or bytes all the time)
PutValueAll == /\ InPass("asciivals") \/ InPass("glyphvals")
               /\ Recognized(pkd[nth]) /\ Widen
               /\ out' = Append(out, Wrap(Scaled(pkd[nth]), valsize'))
               /\ NextPair /\ UNCHANGED <<asciipair, glyphpair>>

PutValue == /\ InPass("asciivals") \/ InPass("glyphvals")
            /\ Recognized(pkd[nth]) /\ Widen
            /\ out' = IF AsciiPair(pkd[nth]) = (Passes[pass] = "asciivals")
                      THEN Append(out, Wrap(Scaled(pkd[nth]), valsize')) ELSE out
            /\ NextPair /\ UNCHANGED <<asciipair, glyphpair>>

\* After the first pass the counts are written, unless there are none.
EndOfPass ==
    /\ Writing /\ nth > Len(pkd)
    /\ IF Passes[pass] = "count" /\ asciipair + glyphpair = 0
       THEN kerned' = "failed" /\ UNCHANGED <<pass, nth, header>>
       ELSE /\ pass' = pass + 1 /\ nth' = 1
            /\ kerned' = IF pass = Len(Passes) THEN "done" ELSE kerned
            /\ header' = IF Passes[pass] = "count"
                         THEN <<asciipair, glyphpair, valsize>> ELSE header
    /\ UNCHANGED <<pkd, sorted, asciipair, glyphpair, valsize, out>>

KernNext == Sort \/ SkipPair \/ Count \/ PutPair \/ PutValue \/ EndOfPass

-----------------------------------------------------------------------------
(* A reader of the table: the pairs, then the values, of ASCII pairs and   *)
(* of the others, by the counts of the header; values are signed.          *)

Signed(v, size) == IF size = 1 THEN ((v + 128) % 256) - 128
                               ELSE ((v + 32768) % 65536) - 32768

ReadTable(head, body) ==
    LET n == head[1] + head[2]
    IN  [k \in 1 .. n |-> [left |-> body[k][1], right |-> body[k][2],
                           value |-> Signed(body[n + k], head[3])]]

\* The known pairs of each kind, and those of one kind in their order.
AsciiPairs == {i \in DOMAIN pkd : Recognized(pkd[i]) /\ AsciiPair(pkd[i])}
GlyphPairs == {i \in DOMAIN pkd : Recognized(pkd[i]) /\ ~AsciiPair(pkd[i])}
Nth(S, k)  == CHOOSE i \in S : Cardinality({j \in S : j <= i}) = k

Kept(S) ==
    [k \in 1 .. Cardinality(S) |->
        LET p == pkd[Nth(S, k)]
        IN  [left |-> p.left, right |-> p.right, value |-> Scaled(p)]]

\* Who reads the finished table by its counts and its width finds every pair
\* WordPerfect knows, ASCII pairs first, each with its own value, whichever
\* of them decided the width, and nothing else.
TableReadsBack ==
    kerned = "done" => /\ Len(out) = 2 * (header[1] + header[2])
                       /\ ReadTable(header, out) = Kept(AsciiPairs) \o Kept(GlyphPairs)

\* "kern pairs must be sorted in ascending order, by right char first".
TableIsSorted ==
    kerned = "done" => \A j, k \in 1 .. header[1] + header[2] :
        j < k /\ (k <= header[1] \/ j > header[1]) =>
            ~Before([left |-> out[k][1], right |-> out[k][2]],
                    [left |-> out[j][1], right |-> out[j][2]])
=============================================================================
