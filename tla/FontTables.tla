----------------------------- MODULE FontTables -----------------------------
(***************************************************************************)
(* The tables afm2add writes for a font, as sequences of numbers and names *)
(* in the order of the file, without the prefix that is the same for all:  *)
(* fonts/charmap.c, spacing.c, mapfile.c, typeface.c and addall.c.         *)
(* The kerning table is the subject of KernTable.  A reader finds an entry *)
(* by the sizes in the header.                                             *)
(***************************************************************************)
EXTENDS Integers, SequencesExt, FiniteSetsExt

CONSTANTS CharmapLines,   \* charmap.ini: <<glyph, set, c>>, in its order
          NumSets,        \* WP_NUMSETS: 13
          AsciiSize,      \* the size of set 0: 127
          Implicit        \* of which so many come first and are not written: 32

WP_ASCII == 0
NoGlyph  == "NULL"
Sets     == 0 .. NumSets - 1

\* A line names a glyph, and does not give one to the characters below Implicit
\* (charmap.ini begins with 0,32) or past the end of set 0.
ASSUME FontTablesAssumption ==
    /\ NumSets \in Nat \ {0} /\ AsciiSize \in Nat /\ Implicit \in 1 .. AsciiSize
    /\ CharmapLines \in Seq(Range(CharmapLines))
    /\ \A i \in DOMAIN CharmapLines :
          /\ CharmapLines[i][1] # NoGlyph
          /\ CharmapLines[i][2] \in Sets /\ CharmapLines[i][3] \in 0 .. 254
          /\ CharmapLines[i][2] = WP_ASCII => CharmapLines[i][3] \in Implicit .. AsciiSize - 1

-----------------------------------------------------------------------------
(* charmap.c.  A position has one glyph, the last the file gives it; one   *)
(* glyph may have several positions.                                       *)

LinesFor(set, c) == {i \in DOMAIN CharmapLines : CharmapLines[i][2] = set /\ CharmapLines[i][3] = c}
CharToGlyph(set, c) ==
    IF LinesFor(set, c) = {} THEN NoGlyph ELSE CharmapLines[Max(LinesFor(set, c))][1]

Positions == {<<CharmapLines[i][2], CharmapLines[i][3]>> : i \in DOMAIN CharmapLines}

\* The first position of a glyph, as set * 256 + c; 0 if WordPerfect has none.
GlyphToChar(glyph) ==
    LET found == {p \in Positions : CharToGlyph(p[1], p[2]) = glyph}
    IN  IF found = {} THEN 0 ELSE Min({p[1] * 256 + p[2] : p \in found})

SetSize(set) ==
    IF set = WP_ASCII THEN AsciiSize
    ELSE Max({0} \cup {p[2] + 1 : p \in {q \in Positions : q[1] = set}})

\* The characters of a set that a table has entries for, and their number as
\* its header gives it.
First(set) == IF set = WP_ASCII THEN Implicit ELSE 0
Written(set) == [i \in 1 .. SetSize(set) - First(set) |-> First(set) + i - 1]
Sizes == [i \in 1 .. NumSets |-> SetSize(i - 1) - First(i - 1)]

\* One entry for every written character of every set.
ForAllChars(entry(_, _)) ==
    FlattenSeq([i \in 1 .. NumSets |->
        [k \in DOMAIN Written(i - 1) |-> entry(i - 1, Written(i - 1)[k])]])

-----------------------------------------------------------------------------
(* spacing.c: the width of every character, -1 for those the font lacks.   *)

Int16(n) == ((n + 32768) % 65536) - 32768

Width(fi, glyph) ==
    LET has == {i \in DOMAIN fi.chars : fi.chars[i].name = glyph}
    IN  IF glyph = NoGlyph \/ has = {} THEN -1 ELSE Int16(fi.chars[Min(has)].wx)

SpacingTable(fi, stem) ==
    [table  |-> fi.fontName, sizes |-> Sizes,
     widths |-> ForAllChars(LAMBDA set, c : Width(fi, CharToGlyph(set, c))),
     krn    |-> <<stem, "KRN">>]

-----------------------------------------------------------------------------
(* mapfile.c: how to print every character: an ASCII character as itself,  *)
(* and a list of the others that have glyphs.                              *)

MapChar(set, c) == IF set = WP_ASCII /\ CharToGlyph(set, c) # NoGlyph THEN c ELSE -1

GlyphsOf(set) ==
    FlattenSeq([k \in 1 .. SetSize(set) |->
        IF set # WP_ASCII /\ CharToGlyph(set, k - 1) # NoGlyph
        THEN << <<k - 1, set, CharToGlyph(set, k - 1)>> >> ELSE <<>>])
GlyphList == FlattenSeq([i \in 1 .. NumSets |-> GlyphsOf(i - 1)])

MapTable(fi) ==
    [table |-> fi.fontName, sizes |-> Sizes, chars |-> ForAllChars(MapChar),
     glyphcnt |-> Len(GlyphList), glyphs |-> GlyphList]

-----------------------------------------------------------------------------
(* typeface.c: of its flags, the weight and whether the font is italic.    *)

TF_ITALIC     == 8
TF_POSTSCRIPT == 16
TF_NORMAL     == 64
TF_DEMIBOLD   == 96
TF_BOLD       == 128

WeightToDesc(weight) == CASE weight = "Bold" -> TF_BOLD
                          [] weight = "Demi" -> TF_DEMIBOLD
                          [] OTHER           -> TF_NORMAL

TypefaceTable(fi) ==
    [table  |-> fi.fontName,
     tfflgs1 |-> TF_POSTSCRIPT + WeightToDesc(fi.weight)
                   + IF fi.italicAngle # 0 THEN TF_ITALIC ELSE 0]

-----------------------------------------------------------------------------
(* addall.c: the operation that adds the font, naming the tables' files.   *)

\* The two assertions about the width of a monospaced font.
HasFixedWidth(fi) == fi.chars # <<>> /\ fi.chars[1].wx # 0

Operation(fi, stem) ==
    [font |-> fi.fullName, select |-> fi.fontName,
     vmud |-> IF fi.isFixedPitch THEN fi.chars[1].wx % 65536 ELSE 0,
     typ  |-> <<stem, "TYP">>, map |-> <<stem, "MAP">>,
     spc  |-> IF fi.isFixedPitch THEN <<>> ELSE <<stem, "SPC">>]

-----------------------------------------------------------------------------
(* kerning.c: the pairs as its loops see them, by characters.              *)

WpPairs(fi) ==
    [i \in DOMAIN fi.pairs |-> [left  |-> GlyphToChar(fi.pairs[i].left),
                                right |-> GlyphToChar(fi.pairs[i].right),
                                xamt  |-> fi.pairs[i].xamt]]

-----------------------------------------------------------------------------
(* Reading a table.                                                        *)

\* The index of a written character: behind all those of earlier sets.
IndexOf(sizes, set, c) == SumFunctionOnSet(sizes, 1 .. set) + c - First(set) + 1

WidthAt(spc, set, c)  == spc.widths[IndexOf(spc.sizes, set, c)]
PrintsAt(map, set, c) ==
    LET i == IndexOf(map.sizes, set, c)
    IN  IF map.chars[i] # -1 THEN CharToGlyph(WP_ASCII, map.chars[i])
        ELSE LET listed == {k \in 1 .. map.glyphcnt :
                               map.glyphs[k][1] = c /\ map.glyphs[k][2] = set}
             IN  IF listed = {} THEN NoGlyph ELSE map.glyphs[Min(listed)][3]
=============================================================================
