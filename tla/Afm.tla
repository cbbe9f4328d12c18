-------------------------------- MODULE Afm ---------------------------------
(***************************************************************************)
(* parseFile of fonts/parseafm.c, as afm2add calls it (P_GMP: the global   *)
(* information, the characters and the kerning pairs are kept, the rest is *)
(* skipped).  A file is a sequence of entries, each a keyword with its     *)
(* arguments; the action that handles a keyword takes its arguments, too.  *)
(* Counts announce the size of each list, and storage is allocated for     *)
(* them before the list is read.  Assumed of a file: it announces at least *)
(* one character, and does not end within an entry (parseafm.c would read  *)
(* past what it has allocated, or from a null pointer).  A Comment stands  *)
(* for every entry whose arguments afm2add does not use.                   *)
(***************************************************************************)
EXTENDS Integers, SequencesExt

VARIABLES
    file,      \* the entries
    at,        \* the next one
    section,   \* which function reads: "globals", "metrics", "file", "pairs",
               \* "tracks", "composites"; or "end"
    fi,        \* the FontInfo
    count,     \* the characters or pairs of this list so far
    code,      \* the error this function is going to return
    error      \* the error parseFile is going to return

afmVars == <<file, at, section, fi, count, code, error>>

NULL == "NULL"
NoChar == [name |-> NULL, wx |-> 0]
NoPair == [left |-> NULL, right |-> NULL, xamt |-> 0]
Blank(n, entry) == [i \in 1 .. n |-> entry]

\* calloc'ed: everything is 0, or NULL.
NoFont == [fontName |-> NULL, fullName |-> NULL, weight |-> NULL,
           italicAngle |-> 0, isFixedPitch |-> FALSE,
           chars |-> <<>>, pairs |-> <<>>]

AfmStart(entries) ==
    /\ file = entries /\ at = 1 /\ section = "globals" /\ fi = NoFont
    /\ count = 0 /\ code = "ok" /\ error = "ok"

AfmRestart(entries) ==
    /\ file' = entries /\ at' = 1 /\ section' = "globals" /\ fi' = NoFont
    /\ count' = 0 /\ code' = "ok" /\ error' = "ok"

-----------------------------------------------------------------------------
Failures == {"parseError", "earlyEOF"}

Entry(key) == at <= Len(file) /\ file[at].key = key
Consume == at' = at + 1 /\ UNCHANGED file

\* An entry the section has no use for: an error, but it goes on.
Misplaced == /\ Consume /\ code' = "parseError"
             /\ UNCHANGED <<section, fi, count, error>>

\* The function returns c; parseFile keeps what is an error, and goes on
\* unless the end has been reached.
Return(c) ==
    /\ error' = IF c \in Failures THEN c ELSE error
    /\ section' = IF c \in {"normalEOF", "earlyEOF"} THEN "end" ELSE "file"
    /\ code' = "ok" /\ count' = 0

\* (mutant of the next: nobody counts)
CountedAny(n) == code

\* At the end of a list the count must be the one announced.
Counted(n) == IF code = "ok" /\ count # n THEN "parseError" ELSE code

-----------------------------------------------------------------------------
(* parseGlobals.                                                           *)

\* Of the global information, what the tables use.
GlobalField == [FontName |-> "fontName", FullName |-> "fullName", Weight |-> "weight",
                ItalicAngle |-> "italicAngle", IsFixedPitch |-> "isFixedPitch"]
GlobalKeys == DOMAIN GlobalField

Global ==
    /\ section = "globals" /\ at <= Len(file) /\ file[at].key \in GlobalKeys
    /\ fi' = [fi EXCEPT ![GlobalField[file[at].key]] = file[at].val]
    /\ Consume /\ UNCHANGED <<section, count, code, error>>

StartCharMetrics ==
    /\ section = "globals" /\ Entry("StartCharMetrics")
    /\ fi' = [fi EXCEPT !.chars = Blank(file[at].val, NoChar)]
    /\ section' = "metrics" /\ count' = 0 /\ code' = "ok"
    /\ error' = IF code \in Failures THEN code ELSE error
    /\ Consume

-----------------------------------------------------------------------------
(* parseCharMetrics.  The keywords of one character follow its code, C.    *)

\* Attributes go to the first character until there has been a C.
Temp == IF count = 0 THEN 1 ELSE count

CharCode ==
    /\ section = "metrics" /\ Entry("C")
    /\ IF count < Len(fi.chars)
       THEN count' = count + 1 /\ UNCHANGED <<section, code, error>>
       ELSE Return("parseError")
    /\ Consume /\ UNCHANGED fi

\* (mutant of the next: a width belongs to the following character)
CharWidthNext ==
    /\ section = "metrics" /\ Entry("WX")
    /\ fi' = [fi EXCEPT !.chars =
                 [i \in DOMAIN @ |-> IF i = Temp + 1 THEN [@[i] EXCEPT !.wx = file[at].val]
                                     ELSE @[i]]]
    /\ Consume /\ UNCHANGED <<section, count, code, error>>

CharWidth ==
    /\ section = "metrics" /\ Entry("WX")
    /\ fi' = [fi EXCEPT !.chars[Temp].wx = file[at].val]
    /\ Consume /\ UNCHANGED <<section, count, code, error>>

CharName ==
    /\ section = "metrics" /\ Entry("N")
    /\ fi' = [fi EXCEPT !.chars[Temp].name = file[at].val]
    /\ Consume /\ UNCHANGED <<section, count, code, error>>

EndCharMetrics ==
    /\ section = "metrics" /\ Entry("EndCharMetrics")
    /\ Return(Counted(Len(fi.chars)))
    /\ Consume /\ UNCHANGED fi

-----------------------------------------------------------------------------
(* parsePairKernData, parseTrackKernData, parseCompCharData; the last two  *)
(* save nothing and only look for their end.                               *)

KernPair ==
    /\ section = "pairs" /\ Entry("KPX")
    /\ IF count < Len(fi.pairs)
       THEN /\ fi' = [fi EXCEPT !.pairs[count + 1] = file[at].val]
            /\ count' = count + 1
            /\ UNCHANGED <<section, code, error>>
       ELSE Return("parseError") /\ UNCHANGED fi
    /\ Consume

EndKernPairs ==
    /\ section = "pairs" /\ (Entry("EndKernPairs") \/ Entry("EndKernData"))
    /\ Return(Counted(Len(fi.pairs)))
    /\ Consume /\ UNCHANGED fi

EndSkipped ==
    /\ \/ section = "tracks" /\ (Entry("EndTrackKern") \/ Entry("EndKernData"))
       \/ section = "composites" /\ Entry("EndComposites")
    /\ Return("ok")
    /\ Consume /\ UNCHANGED fi

Skip ==
    /\ \/ section = "tracks" /\ ~(Entry("EndTrackKern") \/ Entry("EndKernData"))
       \/ section = "composites" /\ ~Entry("EndComposites")
    /\ at <= Len(file) /\ ~Entry("EndFontMetrics")
    /\ Consume /\ UNCHANGED <<section, fi, count, code, error>>

-----------------------------------------------------------------------------
(* parseFile: which list comes next.                                       *)

StartKernPairs ==
    /\ section = "file" /\ Entry("StartKernPairs")
    /\ fi' = [fi EXCEPT !.pairs = Blank(file[at].val, NoPair)]
    /\ section' = "pairs" /\ count' = 0 /\ code' = "ok"
    /\ Consume /\ UNCHANGED error

StartSkipped ==
    /\ section = "file"
    /\ \/ Entry("StartTrackKern") /\ section' = "tracks"
       \/ Entry("StartComposites") /\ section' = "composites"
    /\ count' = 0 /\ code' = "ok"
    /\ Consume /\ UNCHANGED <<fi, error>>

KernData ==
    /\ section = "file" /\ (Entry("StartKernData") \/ Entry("EndKernData"))
    /\ Consume /\ UNCHANGED <<section, fi, count, code, error>>

\* Every function but parseFile itself knows comments.
Comment ==
    /\ section \in {"globals", "metrics", "pairs"} /\ Entry("Comment")
    /\ Consume /\ UNCHANGED <<section, fi, count, code, error>>

EndFontMetrics ==
    /\ section # "end" /\ Entry("EndFontMetrics")
    /\ Return("normalEOF")
    /\ Consume /\ UNCHANGED fi

\* (mutant of the next: no token is taken for one of no use, again and again)
EndOfFileUnnoticed ==
    /\ section # "end" /\ at > Len(file)
    /\ UNCHANGED afmVars

EndOfFile ==
    /\ section # "end" /\ at > Len(file)
    /\ Return("earlyEOF")
    /\ UNCHANGED <<file, at, fi>>

Expected ==
    [globals |-> GlobalKeys \cup {"StartCharMetrics", "Comment"},
     metrics |-> {"C", "WX", "N", "EndCharMetrics", "Comment"},
     pairs   |-> {"KPX", "EndKernPairs", "EndKernData", "Comment"},
     file    |-> {"StartKernPairs", "StartTrackKern", "StartComposites",
                  "StartKernData", "EndKernData"}]

Unexpected ==
    /\ section \in {"globals", "metrics", "pairs", "file"} /\ at <= Len(file)
    /\ file[at].key \notin Expected[section] \cup {"EndFontMetrics"}
    /\ IF section = "file" THEN /\ Return("parseError")
                                /\ Consume /\ UNCHANGED fi
                           ELSE Misplaced

AfmNext ==
    \/ Global \/ StartCharMetrics
    \/ CharCode \/ CharWidth \/ CharName \/ EndCharMetrics
    \/ KernPair \/ EndKernPairs \/ EndSkipped \/ Skip
    \/ StartKernPairs \/ StartSkipped \/ KernData
    \/ Comment \/ Unexpected \/ EndFontMetrics \/ EndOfFile
=============================================================================
