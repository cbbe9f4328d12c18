-------------------------------- MODULE Ini ---------------------------------
(***************************************************************************)
(* fonts/ini.c, configured as by its header, with the handler of           *)
(* fonts/charmap.c: reading charmap.ini into the table of glyph names.     *)
(* The file is a sequence of characters, where a word without any of the   *)
(* characters that matter is a character, too; the sizes of the buffers    *)
(* are counted in the same way.                                            *)
(***************************************************************************)
EXTENDS Integers, SequencesExt, FiniteSetsExt

CONSTANTS MaxLine,      \* INI_MAX_LINE
          MaxName,      \* MAX_NAME and MAX_SECTION
          Values        \* what is a set and a character, as a function to <<set, c>>

ASSUME IniAssumption == MaxLine \in Nat \ {0, 1} /\ MaxName \in Nat \ {0}

VARIABLES reading,      \* "idle"; "reading", "read"; "exit": charmapline gave up
          rest,         \* what is left of the file
          heading,      \* the section, as it was copied
          prev_name,    \* the name of the entry that a line may continue
          lineno, errline,    \* the number of lines, that of the first error
          glyph_names   \* glyph_names_table: from <<set, c>>

iniVars == <<reading, rest, heading, prev_name, lineno, errline, glyph_names>>

Space == {" ", "\n"}

IniStart(text) ==
    /\ reading' = "reading" /\ rest' = text
    /\ heading' = <<>> /\ prev_name' = <<>> /\ lineno' = 0 /\ errline' = 0
    /\ glyph_names' = [p \in {} |-> ""]

IniIdle ==
    /\ reading = "idle" /\ rest = <<>>
    /\ heading = <<>> /\ prev_name = <<>> /\ lineno = 0 /\ errline = 0
    /\ glyph_names = [p \in {} |-> ""]

-----------------------------------------------------------------------------
(* Strings.                                                                *)

rstrip(s) == SubSeq(s, 1, Max({0} \cup {i \in DOMAIN s : s[i] \notin Space}))
lskip(s)  == SubSeq(s, Min({Len(s) + 1} \cup {i \in DOMAIN s : s[i] \notin Space}), Len(s))
UpTo(s, end)  == SubSeq(s, 1, end - 1)
Behind(s, end)  == SubSeq(s, end + 1, Len(s))
Is(s, end, chars) == end \in DOMAIN s /\ s[end] \in chars
strncpy0(s) == SubSeq(s, 1, Min({Len(s), MaxName - 1}))

\* (mutant of the next: a semicolon always begins a comment)
FindCommentAnywhere(s, chars) ==
    Min({Len(s) + 1} \cup {i \in DOMAIN s : s[i] \in chars \/ s[i] = ";"})

\* The place of one of these characters, or of a comment, or of the end.
find_chars_or_comment(s, chars) ==
    Min({Len(s) + 1} \cup {i \in DOMAIN s :
           s[i] \in chars \/ (s[i] = ";" /\ i > 1 /\ s[i - 1] \in Space)})

Uncommented(s) == UpTo(s, find_chars_or_comment(s, {}))

-----------------------------------------------------------------------------
(* One line: what fgets reads, and no more than fits the buffer.           *)

LineEnd  == Min({Len(rest), MaxLine - 1} \cup {i \in DOMAIN rest : rest[i] = "\n"})
Line     == SubSeq(rest, 1, LineEnd)
Stripped == lskip(rstrip(Line))
Indented == Line[1] \in Space
Begins(chars) == Stripped # <<>> /\ Stripped[1] \in chars

ReadLine == /\ reading = "reading" /\ rest # <<>>
            /\ rest' = Behind(rest, LineEnd) /\ lineno' = lineno + 1

Failed == errline' = IF errline = 0 THEN lineno' ELSE errline

IsPlace(value) == Len(value) = 1 /\ value[1] \in DOMAIN Values

\* charmapline: the last entry for a position wins, a value that is none ends
\* the program, and other sections are nothing to it.
charmapline(name, value) ==
    CASE heading # <<"WPCharMap">> -> UNCHANGED <<reading, glyph_names>>
      [] heading = <<"WPCharMap">> /\ ~IsPlace(value) ->
            reading' = "exit" /\ UNCHANGED glyph_names
      [] OTHER -> /\ glyph_names' = (Values[value[1]] :> name) @@ glyph_names
                  /\ UNCHANGED reading

CommentLine ==
    /\ ReadLine /\ (Stripped = <<>> \/ Begins({";", "#"}))
    /\ UNCHANGED <<reading, heading, prev_name, errline, glyph_names>>

EntryLine == ReadLine /\ Stripped # <<>> /\ ~Begins({";", "#"})

\* An indented line is another value of the name before.
Continues == prev_name # <<>> /\ Indented

ContinuationLine ==
    /\ EntryLine /\ Continues
    /\ charmapline(prev_name, rstrip(Uncommented(Stripped)))
    /\ UNCHANGED <<heading, prev_name, errline>>

SectionLine ==
    /\ EntryLine /\ ~Continues /\ Begins({"["})
    /\ LET s   == Tail(Stripped)
           end == find_chars_or_comment(s, {"]"})
       IN  IF Is(s, end, {"]"})
           THEN heading' = strncpy0(UpTo(s, end)) /\ prev_name' = <<>> /\ UNCHANGED errline
           ELSE Failed /\ UNCHANGED <<heading, prev_name>>
    /\ UNCHANGED <<reading, glyph_names>>

PairEnd == find_chars_or_comment(Stripped, {"=", ":"})

PairLine ==
    /\ EntryLine /\ ~Continues /\ ~Begins({"["}) /\ Is(Stripped, PairEnd, {"=", ":"})
    /\ LET name  == rstrip(UpTo(Stripped, PairEnd))
           value == rstrip(lskip(Uncommented(Behind(Stripped, PairEnd))))
       IN  prev_name' = strncpy0(name) /\ charmapline(name, value)
    /\ UNCHANGED <<heading, errline>>

NoPairLine ==
    /\ EntryLine /\ ~Continues /\ ~Begins({"["}) /\ ~Is(Stripped, PairEnd, {"=", ":"})
    /\ Failed
    /\ UNCHANGED <<reading, heading, prev_name, glyph_names>>

EndOfIni ==
    /\ reading = "reading" /\ rest = <<>>
    /\ reading' = "read"
    /\ UNCHANGED <<rest, heading, prev_name, lineno, errline, glyph_names>>

IniNext == CommentLine \/ ContinuationLine \/ SectionLine \/ PairLine \/ NoPairLine \/ EndOfIni
=============================================================================
