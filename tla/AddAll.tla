------------------------------- MODULE AddAll -------------------------------
(***************************************************************************)
(* fonts/addall.sh and fonts/afm2add.c: each font metrics file is          *)
(* translated to the tables of a printer's font, one file per table and    *)
(* one with the operation that adds the font, and then merged into the     *)
(* printer's master file (.ALL) by WordPerfect's ADDALL.  A table's file   *)
(* has eight characters of the font's name, so two fonts may share it.     *)
(***************************************************************************)
EXTENDS Afm, FontTables, KernTable, Ini

CONSTANTS Jobs,         \* [files, charmap]: the metrics files named on a command
                        \* line, as sequences of entries, and the text of charmap.ini
          CharmapFiles, \* the texts of charmap.ini that mean CharmapLines
          BrokenFiles,  \* others, and the line that is wrong: [text, line]
          Stem(_),      \* the first eight characters of a font's name
          Named         \* NULL as printf writes it: (null)

ASSUME AddAllAssumption ==
    \A job \in Jobs :
      /\ job.charmap \in CharmapFiles \cup {f.text : f \in BrokenFiles}
      /\ job.files \in Seq(Range(job.files))
      /\ \A e \in Range(job.files) :
           /\ e \in Seq(Range(e))
           /\ \A i \in DOMAIN e :
                 /\ e[i].key = "StartCharMetrics" => e[i].val \in Nat \ {0}
                 /\ e[i].key = "StartKernPairs" => e[i].val \in Nat

\* What the fields of a kerning table can hold: a word for each count, and at
\* most a word for each value.
PairsFit ==
    \A job \in Jobs : \A e \in Range(job.files) : \A i \in DOMAIN e :
        /\ e[i].key = "StartKernPairs" => e[i].val <= 65535
        /\ e[i].key = "KPX" => /\ e[i].val.xamt \in Int
                               /\ -32768 <= Scaled(e[i].val) /\ Scaled(e[i].val) <= 32767

\* The order of a file: the global information before the characters, the width of
\* a character behind its code, its name behind that, and the pairs at the end.
InTurn(e) ==
    /\ \A i \in DOMAIN e : e[i].key \in GlobalKeys =>
          \A s \in 1 .. i - 1 : e[s].key \notin {"StartCharMetrics", "EndFontMetrics"}
    /\ \A i \in DOMAIN e : e[i].key = "WX" =>
          /\ i - 1 \in DOMAIN e /\ e[i - 1].key = "C"
          /\ \E s \in 1 .. i - 1 : e[s].key = "StartCharMetrics"
    /\ \A i \in DOMAIN e : e[i].key = "N" => i - 1 \in DOMAIN e /\ e[i - 1].key = "WX"
    /\ \A i, s \in DOMAIN e :
          e[i].key = "EndCharMetrics" /\ e[s].key = "StartKernPairs" => i < s

\* Widths that fit a field of the spacing table, and what parseGlobals makes of
\* IsFixedPitch.
Widths == {w \in Nat : w < 32768}
ArgumentsFit(e) ==
    \A i \in DOMAIN e : /\ e[i].key = "WX" => e[i].val \in Widths
                        /\ e[i].key = "IsFixedPitch" => e[i].val \in BOOLEAN

FilesInTurn ==
    \A job \in Jobs : \A e \in Range(job.files) : InTurn(e) /\ ArgumentsFit(e)

VARIABLES given,      \* the files on the command line
          charmap,    \* the text of charmap.ini
          queue,      \* those that follow
          phase,      \* "next", "parse", "charmap", "krn", "kerning", "spc", "typ", "map",
                      \* "add", "merge", "done"; "stopped" when the script gave up
          dir,        \* the files of the tables, by stem and extension
          toMerge,    \* the operations files the inner loop has left
          all         \* the master file: the resources of each font

vars == <<afmVars, kernVars, iniVars, charmap, given, queue, phase, dir, toMerge, all>>

Empty   == [f \in {} |-> 0]
Partial == [partial |-> TRUE]

Init == /\ \E job \in Jobs : given = job.files /\ charmap = job.charmap
        /\ queue = given
        /\ AfmStart(<<>>) /\ KernIdle /\ IniIdle
        /\ phase = "next" /\ dir = Empty /\ toMerge = {} /\ all = Empty

-----------------------------------------------------------------------------
(* The loop over the command line.                                         *)

\* (mutant of the next: the tables of the font before stay)
NextFileKeeps ==
    /\ phase = "next" /\ queue # <<>>
    /\ \/ phase' = "parse" /\ AfmRestart(Head(queue))
       \/ phase' = "next" /\ UNCHANGED afmVars
    /\ queue' = Tail(queue)
    /\ UNCHANGED <<kernVars, iniVars, charmap, given, dir, toMerge, all>>

\* The old tables are removed, the file is opened; if it cannot be, the
\* script skips it.
NextFile ==
    /\ phase = "next" /\ queue # <<>>
    /\ dir' = Empty
    /\ \/ phase' = "parse" /\ AfmRestart(Head(queue))
       \/ phase' = "next" /\ UNCHANGED afmVars
    /\ queue' = Tail(queue)
    /\ UNCHANGED <<kernVars, iniVars, charmap, given, toMerge, all>>

Done == /\ phase = "next" /\ queue = <<>>
        /\ phase' = "done"
        /\ UNCHANGED <<afmVars, kernVars, iniVars, charmap, given, queue, dir, toMerge, all>>

-----------------------------------------------------------------------------
(* afm2add.                                                                *)

Parse == /\ phase = "parse" /\ AfmNext
         /\ UNCHANGED <<kernVars, iniVars, charmap, given, queue, phase, dir, toMerge, all>>

\* What parseFile returns makes no difference.
Parsed ==
    /\ phase = "parse" /\ section = "end"
    /\ phase' = "charmap" /\ IniStart(charmap)
    /\ UNCHANGED <<afmVars, kernVars, charmap, given, queue, dir, toMerge, all>>

ReadCharmap == /\ phase = "charmap" /\ IniNext
               /\ UNCHANGED <<afmVars, kernVars, charmap, given, queue, phase, dir, toMerge, all>>

\* charmap.ini cannot be opened; the program ends for an entry that is wrong, or
\* at the end for a wrong line.
CharmapFailed ==
    /\ phase = "charmap"
    /\ lineno = 0 \/ reading = "exit" \/ (reading = "read" /\ errline # 0)
    /\ phase' = "next"
    /\ UNCHANGED <<afmVars, kernVars, iniVars, charmap, given, queue, dir, toMerge, all>>

CharmapRead ==
    /\ phase = "charmap" /\ reading = "read" /\ errline = 0
    /\ phase' = IF fi.fontName = NULL THEN "next"
                ELSE IF fi.isFixedPitch THEN "typ" ELSE "krn"
    /\ UNCHANGED <<afmVars, kernVars, iniVars, charmap, given, queue, dir, toMerge, all>>

File(ext) == <<Stem(fi.fontName), ext>>

\* f with a new value under x, whether there was one or not.
With(f, x, value) == [y \in DOMAIN f \cup {x} |-> IF y = x THEN value ELSE f[y]]

\* The file of a table is created and written; then comes the next one.
Put(this, ext, contents, next) ==
    /\ phase = this
    /\ dir' = With(dir, File(ext), contents)
    /\ phase' = next
    /\ UNCHANGED <<afmVars, kernVars, iniVars, charmap, given, queue, all>>

\* The kerning table's file is created, its five passes write it.
Kerning ==
    /\ phase = "krn"
    /\ dir' = With(dir, File("KRN"), Partial)
    /\ phase' = "kerning" /\ KernStart(WpPairs(fi))
    /\ UNCHANGED <<afmVars, iniVars, charmap, given, queue, toMerge, all>>

KerningPass == /\ phase = "kerning" /\ KernNext
               /\ UNCHANGED <<afmVars, iniVars, charmap, given, queue, phase, dir, toMerge, all>>

\* A font without known pairs is given up.
KerningFailed == /\ phase = "kerning" /\ kerned = "failed"
                 /\ phase' = "next"
                 /\ UNCHANGED <<afmVars, kernVars, iniVars, charmap, given, queue, dir, toMerge, all>>

KerningDone ==
    /\ kerned = "done"
    /\ Put("kerning", "KRN", [table |-> fi.fontName, header |-> header, body |-> out], "spc")
    /\ UNCHANGED toMerge
Spacing ==
    Put("spc", "SPC", SpacingTable(fi, Stem(fi.fontName)), "typ") /\ UNCHANGED toMerge
Typeface == Put("typ", "TYP", TypefaceTable(fi), "map") /\ UNCHANGED toMerge
CharacterMap == Put("map", "MAP", MapTable(fi), "add") /\ UNCHANGED toMerge

\* The assertions about a monospaced font abort the program.
Aborts ==
    /\ fi.isFixedPitch /\ ~HasFixedWidth(fi)
    /\ Put("add", "ADD", Partial, "next") /\ UNCHANGED toMerge

Operations ==
    /\ fi.isFixedPitch => HasFixedWidth(fi)
    /\ Put("add", "ADD", Operation(fi, Stem(fi.fontName)), "merge")
    /\ toMerge' = {f \in DOMAIN dir' : f[2] = "ADD"}

\* A file cannot be created: afm2add fails, and the script skips the font.
CannotCreate ==
    /\ phase \in {"krn", "spc", "typ", "map", "add"}
    /\ phase' = "next"
    /\ UNCHANGED <<afmVars, kernVars, iniVars, charmap, given, queue, dir, toMerge, all>>

-----------------------------------------------------------------------------
(* The loop over the operations files.  ADDALL replaces the font of that   *)
(* name by the tables in the files the operation names; it cannot read an  *)
(* operations file that was not finished.                                  *)

FontName(op) == IF op.font = NULL THEN Named ELSE op.font

Resources(op) ==
    [op |-> op, typ |-> dir[op.typ], map |-> dir[op.map],
     spc |-> IF op.spc = <<>> THEN <<>> ELSE dir[op.spc],
     krn |-> IF op.spc = <<>> THEN <<>> ELSE dir[dir[op.spc].krn]]

Merge(f) ==
    /\ phase = "merge" /\ f \in toMerge /\ dir[f] # Partial
    /\ all' = With(all, FontName(dir[f]), Resources(dir[f]))
    /\ toMerge' = toMerge \ {f}
    /\ UNCHANGED <<afmVars, kernVars, iniVars, charmap, given, queue, phase, dir>>

MergeFails ==
    /\ phase = "merge" /\ toMerge # {}
    /\ phase' = "stopped"
    /\ UNCHANGED <<afmVars, kernVars, iniVars, charmap, given, queue, dir, toMerge, all>>

Merged == /\ phase = "merge" /\ toMerge = {}
          /\ phase' = "next"
          /\ UNCHANGED <<afmVars, kernVars, iniVars, charmap, given, queue, dir, toMerge, all>>

Proceed == \/ NextFile \/ Done
           \/ Parse \/ Parsed \/ CharmapFailed \/ CharmapRead
           \/ Kerning \/ KerningPass \/ KerningFailed \/ KerningDone
           \/ Spacing \/ Typeface \/ CharacterMap
           \/ Aborts \/ Operations \/ CannotCreate
           \/ (\E f \in toMerge : Merge(f)) \/ MergeFails \/ Merged

Over == phase \in {"done", "stopped"}
Next == Proceed \/ ReadCharmap \/ (Over /\ UNCHANGED vars)

\* The script and the programs it starts run on to their ends.  (Reading a line
\* is possible as long as the file is read, which is written out here because
\* ENABLED of it is out of reach.)
Fairness ==
    /\ WF_vars(Proceed)
    /\ <>[](phase = "charmap" /\ reading = "reading") => []<><<ReadCharmap>>_vars

Spec == Init /\ [][Next]_vars /\ Fairness

-----------------------------------------------------------------------------
(* What a metrics file says, read as a whole and not by its parser.        *)

Places(e, key) == {i \in DOMAIN e : e[i].key = key}
Says(e, key) == IF Places(e, key) = {} THEN NULL ELSE e[Max(Places(e, key))].val
Monospaced(e) == Places(e, "IsFixedPitch") # {} /\ Says(e, "IsFixedPitch") = TRUE

\* The widths under a glyph's name (N comes right behind WX), and the pairs.
Listed(e, glyph) == {e[i - 1].val : i \in {j \in Places(e, "N") : e[j].val = glyph}}
Known(glyph)     == \E p \in Positions : CharToGlyph(p[1], p[2]) = glyph
ListedPairs(e)   ==
    {<<e[i].val.left, e[i].val.right, Scaled(e[i].val)>> :
        i \in {j \in Places(e, "KPX") : Known(e[j].val.left) /\ Known(e[j].val.right)}}

\* The entry at n may be in a list that is skipped.
Skipped(e, n) ==
    \E s \in 1 .. n - 1 :
       \/ e[s].key = "StartTrackKern"
          /\ \A k \in s + 1 .. n - 1 : e[k].key \notin {"EndTrackKern", "EndKernData"}
       \/ e[s].key = "StartComposites" /\ \A k \in s + 1 .. n - 1 : e[k].key # "EndComposites"

\* There is one list of that kind; it goes from i to j and holds all such entries.
IsList(e, start, ends, key, i, j) ==
    /\ i \in DOMAIN e /\ j \in DOMAIN e /\ i < j /\ e[j].key \in ends
    /\ Places(e, start) = {i} /\ ~Skipped(e, i)
    /\ \A k \in i + 1 .. j - 1 : e[k].key \notin ends
    /\ \A k \in Places(e, key) : i < k /\ k < j

IsCharList(e, i, j) == IsList(e, "StartCharMetrics", {"EndCharMetrics"}, "C", i, j)
IsPairList(e, i, j) == IsList(e, "StartKernPairs", {"EndKernPairs", "EndKernData"}, "KPX", i, j)

\* The lists have their ends, and the last is followed by that of the file.
Closed(e) ==
    /\ Places(e, "EndFontMetrics") = {Len(e)}
    /\ \E i \in Places(e, "StartCharMetrics"), j \in DOMAIN e : IsCharList(e, i, j)
    /\ \/ Places(e, "StartKernPairs") = {} /\ Places(e, "KPX") = {}
       \/ \E i \in Places(e, "StartKernPairs"), j \in DOMAIN e : IsPairList(e, i, j)

\* Each character has its width and its name, and no pair looks like none.
Filled(e) ==
    /\ \A i \in Places(e, "C") :
          i + 2 \in DOMAIN e /\ e[i + 1].key = "WX" /\ e[i + 2].key = "N"
    /\ \A i \in Places(e, "N") : e[i].val # NULL
    /\ \A i \in Places(e, "KPX") : e[i].val # NoPair

Counts(e) ==
    /\ Says(e, "StartCharMetrics") = Cardinality(Places(e, "C"))
    /\ Places(e, "StartKernPairs") # {}
          => Says(e, "StartKernPairs") = Cardinality(Places(e, "KPX"))

WrittenPositions == {p \in Positions : p[2] >= First(p[1])}

Describes(e, r) ==
    /\ r.op.select = Says(e, "FontName") /\ r.typ.table = Says(e, "FontName")
    /\ \A p \in WrittenPositions :
          PrintsAt(r.map, p[1], p[2]) = CharToGlyph(p[1], p[2])
    /\ IF Monospaced(e)
       THEN r.op.spc = <<>> /\ r.op.vmud = e[Min(Places(e, "WX"))].val
       ELSE LET \* read back by the positions they were written for
                read  == {<<CharToGlyph(k.left \div 256, k.left % 256),
                            CharToGlyph(k.right \div 256, k.right % 256), k.value>> :
                             k \in Range(ReadTable(r.krn.header, r.krn.body))}
                sound == Closed(e) /\ Counts(e)
            IN  /\ \A p \in WrittenPositions :
                      LET widths == Listed(e, CharToGlyph(p[1], p[2]))
                      IN  WidthAt(r.spc, p[1], p[2]) \in
                             IF sound /\ widths # {} THEN widths ELSE widths \cup {-1}
                /\ read \subseteq ListedPairs(e)
                /\ sound => read = ListedPairs(e)

-----------------------------------------------------------------------------
(* Every font in the master file has the tables of one and the same        *)
(* metrics file: each character of WordPerfect's is printed with the glyph *)
(* of its position, and is as wide as the file says of that glyph; each    *)
(* pair is kerned as the file says.  For a file whose counts are wrong or  *)
(* that is cut off, which afm2add calls "probably still okay", characters  *)
(* and pairs may be missing, but none is wrong.                            *)
PrintedAsMeasured ==
    \A name \in DOMAIN all : \E e \in Range(given) : Describes(e, all[name])

(* However charmap.ini is laid out, once it is accepted every position has *)
(* the glyph that its lines say, the last of several; and it is accepted   *)
(* unless a line is wrong: then the first of these is what is reported, or *)
(* an entry that is wrong has ended the program.                           *)
CharmapIsRead ==
    /\ reading = "read" /\ errline = 0 =>
          /\ charmap \in CharmapFiles
          /\ DOMAIN glyph_names = Positions
          /\ \A p \in Positions : glyph_names[p] = <<CharToGlyph(p[1], p[2])>>
    /\ reading = "read" /\ errline # 0 => [text |-> charmap, line |-> errline] \in BrokenFiles
    /\ reading = "exit" => [text |-> charmap, line |-> 0] \in BrokenFiles

(* A merge changes the font that was translated just before and no other,  *)
(* though earlier translations, finished or not, have left their files     *)
(* (rm in addall.sh).                                                      *)
MergesOnlyNew ==
    [][all' # all =>
         /\ all'[FontName([font |-> fi.fullName])].op.select = fi.fontName
         /\ \A name \in DOMAIN all :
               all'[name] # all[name] => name = FontName([font |-> fi.fullName])
         /\ \A name \in DOMAIN all' \ DOMAIN all :
               name = FontName([font |-> fi.fullName])]_vars

(* If parseFile reports no error for a file whose lists come once and have *)
(* their ends, and whose characters have names, everything the lists       *)
(* announce and hold was kept.                                             *)
CleanIsComplete ==
    section = "end" /\ error = "ok" /\ Closed(file) /\ Filled(file)
        => /\ Len(fi.chars) = Cardinality(Places(file, "C"))
           /\ Len(fi.pairs) = Cardinality(Places(file, "KPX"))
           /\ \A i \in DOMAIN fi.chars : fi.chars[i] # NoChar
           /\ \A i \in DOMAIN fi.pairs : fi.pairs[i] # NoPair

(* Whatever the files are like, the parser reaches their ends and the      *)
(* script that of its command line, unless a merge fails.                  *)
ScriptEnds == <>Over
=============================================================================
