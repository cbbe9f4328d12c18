------------------------------ MODULE MCAddAll ------------------------------
EXTENDS AddAll

\* A set 0 of two written characters, a set with a gap and an empty one, a
\* glyph with two positions, and a position with two glyphs.
MCCharmap == << <<"a", 0, 2>>, <<"b", 0, 3>>, <<"old", 1, 1>>, <<"alpha", 1, 1>>,
                <<"a", 1, 3>>, <<"beta", 3, 0>> >>
MCStem(name) == IF name = "Mono" THEN "S" ELSE IF name = "Sans" THEN "S" ELSE "T"

E(key, val) == <<[key |-> key, val |-> val]>>
Char(glyph, wx) == E("C", 0) \o E("WX", wx) \o E("N", glyph)
Kpx(l, r, amount) == E("KPX", [left |-> l, right |-> r, xamt |-> amount])

Head0(name, full, fixed) ==
    E("FontName", name) \o E("FullName", full) \o E("IsFixedPitch", fixed)
Chars(n) == E("StartCharMetrics", n) \o Char("a", 5) \o Char("beta", 7)
Pairs(n) == E("StartKernPairs", n) \o Kpx("a", "beta", 3) \o Kpx("beta", "x", 1)

Sans == Head0("Sans", "Sans One", FALSE) \o E("Weight", "Bold") \o E("ItalicAngle", 9)
        \o Chars(2) \o E("EndCharMetrics", 0)
        \o Pairs(2) \o E("EndKernPairs", 0) \o E("EndFontMetrics", 0)
Mono == Head0("Mono", "Mono One", TRUE) \o Chars(2) \o E("EndCharMetrics", 0)
        \o E("EndFontMetrics", 0)
\* The full name of another, and entries that are skipped or not known.
Rich == Head0("Rich", "Sans One", FALSE) \o E("Comment", 0) \o E("Bad", 0)
        \o Chars(2) \o E("Comment", 0) \o E("Bad", 0) \o E("EndCharMetrics", 0)
        \o E("StartKernData", 0) \o E("StartTrackKern", 1) \o E("TrackKern", 0)
        \o E("EndTrackKern", 0) \o Pairs(2) \o E("Comment", 0) \o E("Bad", 0)
        \o E("EndKernData", 0) \o E("StartComposites", 1) \o E("CC", 0)
        \o E("EndComposites", 0) \o E("Bad", 0) \o E("EndFontMetrics", 0)
\* Counts that are too small and too large, lists that are not closed; the first
\* does not say whether the font is monospaced.
Few  == E("FontName", "Few") \o E("FullName", "Few One") \o Chars(1) \o E("EndCharMetrics", 0)
        \o Pairs(1) \o E("EndKernPairs", 0) \o E("EndFontMetrics", 0)
Many == Head0("Many", "Many One", FALSE) \o Chars(3) \o E("EndCharMetrics", 0)
        \o Pairs(3) \o E("EndKernPairs", 0) \o E("EndFontMetrics", 0)
Open == Head0("Open", "Open One", FALSE) \o Chars(2) \o E("EndCharMetrics", 0)
        \o E("StartTrackKern", 0) \o E("EndKernData", 0) \o Pairs(3)
        \o E("EndFontMetrics", 0)
Cut  == Head0("Cut", "Cut One", FALSE) \o Chars(2)
Void == Head0("Void", "Void One", TRUE) \o E("StartCharMetrics", 1) \o Char("a", 0)
        \o E("EndCharMetrics", 0) \o E("EndKernData", 0)
Anon == E("FullName", "Anon") \o E("EndFontMetrics", 0)

AfmFiles == {Sans, Mono, Rich, Few, Many, Open, Cut, Void, Anon}

\* Fonts that differ in their pairs, up to three: amounts that scale to the limits
\* of a byte (128.04 does not fit, -128.88 is cut to what does), both characters in
\* set 0, one, none, and glyphs that WordPerfect does not know.
KernPairs == {Kpx("a", "a", 1067), Kpx("a", "a", -1074), Kpx("a", "b", 1067),
              Kpx("b", "a", 1067), Kpx("b", "a", -1074), Kpx("a", "beta", 1067),
              Kpx("beta", "a", -1074), Kpx("beta", "beta", 1067),
              Kpx("x", "a", 1067), Kpx("beta", "x", -1074)}
WithPairs(pairs) == Head0("Kern", "Kern One", FALSE) \o Chars(2) \o E("EndCharMetrics", 0)
                 \o E("StartKernPairs", Len(pairs)) \o FlattenSeq(pairs)
                 \o E("EndKernPairs", 0) \o E("EndFontMetrics", 0)

(* The charmap as a text: plain; and with one line, or all, laid out in    *)
(* another way, behind another section, or without the last end of line.   *)
MCValues == "0,2" :> <<0, 2>> @@ "0,3" :> <<0, 3>> @@ "1,1" :> <<1, 1>>
            @@ "1,3" :> <<1, 3>> @@ "3,0" :> <<3, 0>>
Word(set, c) == CHOOSE v \in DOMAIN MCValues : MCValues[v] = <<set, c>>

SectionHead == <<"[", "WPCharMap", "]", "\n">>
Row(i) == <<MCCharmap[i][1], "=", Word(MCCharmap[i][2], MCCharmap[i][3]), "\n">>
Rows == [i \in DOMAIN MCCharmap |-> Row(i)]
Text(rows) == SectionHead \o FlattenSeq(rows)
Plain == Text(Rows)

\* Ways to lay out a row r that mean the same: spaces, the other separator, a
\* comment behind it and before it, another section, an indented row without one
\* before it, and the row repeated as its own continuation.
Layouts(r) == { <<r[1], " ", ":", " ", r[3], " ", "\n">>,
                <<r[1], "=", r[3], " ", ";", "x", "=", "1,3", "\n">>,
                <<";", "a", "=", "1,3", "\n">> \o r,
                <<" ", "#", "a", "=", "1,3", "\n", "\n">> \o r,
                <<"[", "x", "]", "\n", "a", "=", "1,3", "\n">> \o SectionHead \o r,
                SectionHead \o <<" ">> \o r,
                r \o <<" ", r[3], "\n">> }
MCCharmapFiles ==
  {Plain, Front(Plain)}
    \cup UNION {{Text([Rows EXCEPT ![i] = l]) : l \in Layouts(Row(i))} : i \in DOMAIN Rows}

\* Rows that are wrong, with the line of the first that is, counted from theirs:
\* no separator, no bracket, the tail of a comment that is too long; and with a
\* value that is none: 0.
Wrong == { [row |-> <<"x", "\n">>, line |-> 1],
           [row |-> <<"x", " ", ";", "=", "1,3", "\n", "x", "\n">>, line |-> 1],
           [row |-> <<"[", "x", "\n">>, line |-> 1],
           [row |-> <<"[", "x", " ", ";", "]", "\n">>, line |-> 1],
           [row |-> <<";">> \o [k \in 1 .. 12 |-> "x"] \o <<"\n">>, line |-> 2],
           [row |-> <<"a", "=", "x", "\n">>, line |-> 0],
           [row |-> <<"a", "=", ";", "\n">>, line |-> 0],
           [row |-> <<"a", "=", "1,3", ";", "x", "\n">>, line |-> 0] }
Insert(i, row) == Text([Rows EXCEPT ![i] = row \o Row(i)])
MCBrokenFiles ==
  {[text |-> Insert(i, w.row), line |-> IF w.line = 0 THEN 0 ELSE i + w.line] :
     i \in {1, 4}, w \in Wrong}
    \cup {[text |-> Text([Rows EXCEPT ![i] = <<" ">> \o Row(i)]), line |-> 0] : i \in {2, 6}}

MCCommandLines == UNION {[1 .. n -> AfmFiles] : n \in 1 .. 2}
                  \cup {<<WithPairs(s)>> : s \in BoundedSeq(KernPairs, 3)}

\* All fonts with the plain text, one with the others.
MCJobs == {[files |-> files, charmap |-> Plain] : files \in MCCommandLines}
          \cup {[files |-> <<WithPairs(<<>>)>>, charmap |-> text] :
                  text \in MCCharmapFiles \cup {f.text : f \in MCBrokenFiles}}

ASSUME FilesFit == PairsFit /\ FilesInTurn
=============================================================================
