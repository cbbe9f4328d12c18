------------------------------ MODULE MacTool -------------------------------
(***************************************************************************)
(* macro/mactool.c: compiling the text of a macro into WordPerfect words,  *)
(* one iteration of the loop of main to an action, and decompile_macro,    *)
(* which turns words back into text.  A text is a sequence of characters,  *)
(* a word stands for itself: an ASCII character, a named key or command, a *)
(* character of one of WordPerfect's sets, or NUL, which ends a macro.     *)
(***************************************************************************)
EXTENDS Integers, FiniteSets, SequencesExt

CONSTANTS Chars,    \* the ASCII characters texts are made of, without NUL
          Names,    \* the names in braces: functions from names to words
          Glyphs,   \* the other words: functions from them to a character
          Rank,     \* and the order finducs searches them in
          Strange,  \* what iconv rejects, and characters of no table
          MaxText, MaxMacro,   \* bounds of texts and macros (of the model)
          Macros    \* the words macros are made of

NUL == "NUL"
\* Space, newline, #, quotation mark (` in the code), { and }.
Special == {"space", "nl", "hash", "quote", "open", "close"}
Undefined == "undefined"   \* the character of a word the tables leave out

NonAscii == Range(Glyphs) \ (Chars \cup {Undefined})
Keys     == Range(Names) \ Chars

ASSUME MacToolAssumption ==
    /\ Special \subseteq Chars /\ NUL \notin Chars
    /\ \A n \in DOMAIN Names : n \in Seq(Chars)
    /\ Macros \subseteq Chars \cup Keys \cup DOMAIN Glyphs \cup {NUL}
    /\ \A word \in DOMAIN Glyphs : Rank[word] \in Int
    /\ DOMAIN Glyphs \cap Chars = {} /\ Strange \cap (Chars \cup NonAscii) = {}
    /\ MaxText \in Nat /\ MaxMacro \in Nat

-----------------------------------------------------------------------------
(* decompile_macro.                                                        *)

\* A key or command is printed as its name, a character as it is.
Spelling(word) ==
    IF word \in Keys
    THEN <<"open">> \o (CHOOSE n \in DOMAIN Names : Names[n] = word) \o <<"close">>
    ELSE IF word \in DOMAIN Glyphs THEN <<Glyphs[word]>> ELSE <<word>>

\* Everything up to the first NUL.
UpToNul(macro) ==
    SubSeq(macro, 1, SelectInSeq(macro, LAMBDA word : word = NUL) - 1)

\* Behind them comes a newline, printed to stdout, which may be the output.
Printed(macro, tostdout) ==
    UpToNul(macro) \o (IF tostdout THEN <<"nl">> ELSE <<>>)

\* It stops in mid-file at a word that is not defined.
Decompiles(words) == \A i \in DOMAIN words : Spelling(words[i]) # <<Undefined>>
Decompiled(words) == FlattenSeq([i \in DOMAIN words |-> Spelling(words[i])])

-----------------------------------------------------------------------------
VARIABLES
    text,     \* the input
    macro,    \* the macro it was decompiled from, or <<>>: someone typed it
    tostdout, \* decompile_macro wrote it to stdout, not to a file
    stripspace, inquote, lastc,
    at,       \* the index of the next character
    status,   \* "reading", "done" or "failed"
    out,      \* the words written
    dropped   \* the indices read for which nothing was written (history)

input == <<text, macro, tostdout, stripspace>>
vars == <<input, inquote, lastc, at, status, out, dropped>>

MacroFiles == {m \o <<NUL>> : m \in BoundedSeq(Macros, MaxMacro)}

Init ==
    /\ \/ /\ text \in BoundedSeq(Chars \cup NonAscii \cup Strange, MaxText)
          /\ macro = <<>> /\ tostdout = FALSE /\ stripspace \in BOOLEAN
       \/ /\ macro \in MacroFiles /\ tostdout \in BOOLEAN
          /\ Decompiles(Printed(macro, tostdout))
          /\ text = Decompiled(Printed(macro, tostdout)) /\ stripspace = FALSE
    /\ inquote = FALSE /\ lastc = NUL
    /\ at = 1 /\ status = "reading" /\ out = <<>> /\ dropped = {}

-----------------------------------------------------------------------------
(* One iteration of the loop of main.                                      *)

Reading == status = "reading" /\ at <= Len(text)
c == text[at]

\* The first ch after i, and whether there is one.
After(ch, i) == {j \in i + 1 .. Len(text) : text[j] = ch}
First(S) == CHOOSE j \in S : \A k \in S : j <= k

Drop(last) == /\ dropped' = dropped \cup (at .. last)
              /\ at' = last + 1
              /\ UNCHANGED <<input, status, out>>
Write(word, last) == /\ out' = Append(out, word)
                     /\ at' = last + 1
                     /\ UNCHANGED <<input, inquote, status, dropped>>
Fail == /\ status' = "failed"
        /\ UNCHANGED <<input, inquote, lastc, at, out, dropped>>

\* (mutant: quotation marks do not protect)
StrippedAlways == c = "space" /\ stripspace

Stripped == c = "space" /\ stripspace /\ ~inquote
Quoting == c = "quote" /\ stripspace

StripSpace == Reading /\ Stripped /\ Drop(at) /\ UNCHANGED <<inquote, lastc>>

Quote == /\ Reading /\ Quoting /\ Drop(at)
         /\ inquote' = ~inquote /\ UNCHANGED lastc

Plain == Reading /\ ~Stripped /\ ~Quoting

\* freadmacro: a name runs to the closing brace, and is looked up.
Closing == After("close", at)
Name == SubSeq(text, at + 1, First(Closing) - 1)
Known == Closing # {} /\ Name \in DOMAIN Names

MacroName == /\ Plain /\ c = "open" /\ Known
             /\ Write(Names[Name], First(Closing)) /\ UNCHANGED lastc
BadName   == Plain /\ c = "open" /\ ~Known /\ Fail

\* A # starts a comment if no ASCII character was written since the newline.
StartsComment == c = "hash" /\ lastc \in {"nl", NUL}

\* (mutant of the next: the line after a comment is lost as well)
CommentTwoLines ==
    /\ Plain /\ StartsComment
    /\ LET ends == After("nl", at) IN
       IF ends = {} \/ After("nl", First(ends)) = {}
       THEN Drop(Len(text)) /\ lastc' = "EOF"
       ELSE Drop(First(After("nl", First(ends)))) /\ lastc' = "nl"
    /\ UNCHANGED inquote

Comment ==
    /\ Plain /\ StartsComment
    /\ LET ends == After("nl", at) IN
       IF ends = {} THEN Drop(Len(text)) /\ lastc' = "EOF"
                    ELSE Drop(First(ends)) /\ lastc' = "nl"
    /\ UNCHANGED inquote

Ascii == /\ Plain /\ c \in Chars \ {"open"} /\ ~StartsComment
         /\ Write(c, at) /\ lastc' = c

\* (mutant of the next: the last word that has it)
FindUcsLast(ch) == CHOOSE word \in DOMAIN Glyphs :
                      /\ Glyphs[word] = ch
                      /\ \A other \in DOMAIN Glyphs :
                            Glyphs[other] = ch => Rank[word] >= Rank[other]

\* finducs: the first word of the tables that has this character.
FindUcs(ch) == CHOOSE word \in DOMAIN Glyphs :
                  /\ Glyphs[word] = ch
                  /\ \A other \in DOMAIN Glyphs :
                        Glyphs[other] = ch => Rank[word] <= Rank[other]

NonAsciiChar == /\ Plain /\ c \in NonAscii
                /\ Write(FindUcs(c), at) /\ UNCHANGED lastc
\* iconv rejects the bytes, the file ends amidst them, or finducs finds nothing.
BadChar      == Plain /\ c \in Strange /\ Fail

Finish == /\ status = "reading" /\ at > Len(text)
          /\ status' = "done" /\ out' = Append(out, NUL)
          /\ UNCHANGED <<input, inquote, lastc, at, dropped>>

Next == \/ StripSpace \/ Quote \/ MacroName \/ BadName
        \/ Comment \/ Ascii \/ NonAsciiChar \/ BadChar \/ Finish

Spec == Init /\ [][Next]_vars

-----------------------------------------------------------------------------
(* Properties.                                                             *)

\* The text of a word needs no escape: it is not { nor #, its name has no },
\* and no word that finducs meets before it has the same character.
ReadsBack(word) ==
    IF word \in Keys
    THEN LET name == CHOOSE n \in DOMAIN Names : Names[n] = word
         IN  "close" \notin Range(name)
    ELSE IF word \in DOMAIN Glyphs
    THEN /\ Glyphs[word] \notin Chars
         /\ \A other \in DOMAIN Glyphs \ {word} :
               Glyphs[other] = Glyphs[word] => Rank[word] < Rank[other]
    ELSE word \notin {"open", "hash"}

\* "It can decompile existing macros to plain text, and then recompile
\* them": compiling the text of a macro whose words need no escape gives that
\* macro, whatever the order in which its characters, keys and lines come, and
\* the newline that is added to it on the way through stdout.
RoundTrip ==
    macro # <<>> /\ (\A word \in Range(UpToNul(macro)) : ReadsBack(word))
        => /\ status = "done" => out = Printed(macro, tostdout) \o <<NUL>>
           /\ status # "failed"

\* The line of index i begins after the last newline before i.
LineOf(i) == {j \in 1 .. i : \A k \in j .. i - 1 : text[k] # "nl"}

\* The character of index i stands in braces: a { that was read comes before
\* it, and no } in between.
InName(i) == \E l \in (1 .. i) \ dropped :
                text[l] = "open" /\ \A m \in l .. i - 1 : text[m] # "close"

\* What is left out is a comment, up to the end of its line, or a space or
\* quotation mark that -s strips.  Only keys, characters that are not ASCII
\* and what -s strips can come before the # of a comment on its line.
DropsOnlyComments ==
    \A i \in dropped :
        \/ stripspace /\ text[i] \in {"space", "quote"}
        \/ \E j \in LineOf(i) :
              /\ text[j] = "hash"
              /\ \A k \in LineOf(j) \ {j} :
                    \/ text[k] \in NonAscii
                    \/ stripspace /\ text[k] \in {"space", "quote"}
                    \/ InName(k)

\* Strings in backquotes "are protected": of a text without names and comments
\* -s leaves everything but the spaces outside quotation marks, and the marks.
Quoted(i) == Cardinality({j \in 1 .. i : text[j] = "quote"}) % 2 = 1
StripsOutsideQuotes ==
    stripspace /\ status = "done" /\ Range(text) \cap {"hash", "open"} = {} =>
        out = FlattenSeq([i \in DOMAIN text |->
                  IF text[i] = "quote" \/ (text[i] = "space" /\ ~Quoted(i)) THEN <<>>
                  ELSE IF text[i] \in NonAscii THEN <<FindUcs(text[i])>>
                  ELSE <<text[i]>>]) \o <<NUL>>
=============================================================================
