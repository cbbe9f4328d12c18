---------------------------- MODULE MacToolProofs ----------------------------
(***************************************************************************)
(* Proofs about MacTool, for every character set, every table of names and *)
(* characters, and texts and macros of every length.                       *)
(***************************************************************************)
EXTENDS MacTool, Sums

-----------------------------------------------------------------------------
(* The operators of the model.                                             *)

Letters == Chars \cup NonAscii \cup Strange
Texts == Seq(Letters)

LEMMA FlattenIs ==
    ASSUME NEW s
    PROVE  FlattenSeq(s) = Joined(s)
BY DEF FlattenSeq, Joined

LEMMA FirstIs ==
    ASSUME NEW S, \A x \in S : x \in Nat, S # {}
    PROVE  First(S) \in S /\ \A k \in S : First(S) <= k
BY LeastOf DEF First

LEMMA SeqMore ==
    ASSUME NEW A, NEW B, A \subseteq B, NEW s \in Seq(A)
    PROVE  s \in Seq(B)
<1>1. s \in [1 .. Len(s) -> A] /\ Len(s) \in Nat
      OBVIOUS
<1>2. s \in [1 .. Len(s) -> B]
      BY <1>1
<1>3. QED BY <1>1, <1>2

\* The words texts are decompiled from.
Words == (Macros \cup {"nl"}) \ {NUL}

\* The words before the first NUL.
LEMMA UpToNulIs ==
    ASSUME NEW m \in MacroFiles
    PROVE  UpToNul(m) \in Seq(Words)
<1> DEFINE I == {i \in 1 .. Len(m) : m[i] = NUL}
<1>1. PICK b \in BoundedSeq(Macros, MaxMacro) : m = b \o <<NUL>>
      BY DEF MacroFiles
<1>2. b \in Seq(Macros)
      BY DEF BoundedSeq, SeqOf
<1>3. /\ Len(m) = Len(b) + 1 /\ m[Len(b) + 1] = NUL
      /\ \A i \in 1 .. Len(b) : m[i] \in Macros
      BY <1>1, <1>2
<1>4. Len(b) \in Nat
      BY <1>2
<1>5. Len(b) + 1 \in I
      BY <1>3, <1>4
<1>6. PICK n \in I : \A i \in I : n <= i
      <2>1. \A x \in I : x \in Nat
            OBVIOUS
      <2>2. QED BY <1>5, <2>1, LeastOf
<1>7. SelectInSeq(m, LAMBDA word : word = NUL) = n
      <2>1. \A k \in I : (\A i \in I : k <= i) => k = n
            BY <1>6
      <2>2. Min(I) = n
            BY <1>6, <2>1 DEF Min
      <2>3. QED BY <1>5, <2>2 DEF SelectInSeq
<1>8. n - 1 \in 0 .. Len(b)
      BY <1>3, <1>4, <1>5, <1>6
<1>9. \A i \in 1 .. n - 1 : m[i] \in Words
      <2>1. ASSUME NEW i \in 1 .. n - 1 PROVE m[i] \in Words
            <3>1. i \in 1 .. Len(b) /\ i \in 1 .. Len(m) /\ ~(n <= i)
                  BY <1>3, <1>4, <1>8
            <3>2. i \notin I
                  BY <1>6, <3>1
            <3>3. QED BY <1>3, <3>1, <3>2 DEF Words
      <2>2. QED BY <2>1
<1>10. SubSeq(m, 1, n - 1) \in Seq(Words)
      <2>1. SubSeq(m, 1, n - 1) = [i \in 1 .. n - 1 |-> m[i]]
            BY <1>3, <1>4, <1>8
      <2>2. n - 1 \in Nat
            BY <1>8
      <2>3. QED BY <1>9, <2>1, <2>2
<1>11. QED BY <1>7, <1>10 DEF UpToNul

\* They, and the newline that is printed.
LEMMA PrintedIs ==
    ASSUME NEW m \in MacroFiles, NEW b
    PROVE  Printed(m, b) \in Seq(Words)
<1>1. UpToNul(m) \in Seq(Words)
      BY UpToNulIs
<1>2. <<"nl">> \in Seq(Words)
      BY DEF Words, NUL
<1>3. CASE b
      BY <1>1, <1>2, <1>3 DEF Printed
<1>4. CASE ~b
      BY <1>1, <1>4 DEF Printed
<1>5. QED BY <1>3, <1>4

\* A name in braces, or one character.
LEMMA SpellingIs ==
    ASSUME NEW word \in Words, Spelling(word) # <<Undefined>>
    PROVE  /\ Spelling(word) \in Texts
           /\ Len(Spelling(word)) >= 1
<1>1. word \in Chars \cup Keys \cup DOMAIN Glyphs
      BY MacToolAssumption DEF Words, Special
<1>2. CASE word \in Keys
      <2> DEFINE nm == CHOOSE x \in DOMAIN Names : Names[x] = word
                 D == Letters
      <2>1. \E x \in DOMAIN Names : Names[x] = word
            BY <1>2 DEF Keys, Range
      <2>2. nm \in DOMAIN Names
            BY <2>1
      <2>3. nm \in Seq(Chars)
            BY <2>2, MacToolAssumption
      <2>4. Spelling(word) = (<<"open">> \o nm) \o <<"close">>
            BY <1>2 DEF Spelling
      <2>5. "open" \in D /\ "close" \in D /\ Chars \subseteq D
            BY MacToolAssumption DEF Special, Letters
      <2> HIDE DEF D, nm
      <2>6. nm \in Seq(D) /\ <<"open">> \in Seq(D) /\ <<"close">> \in Seq(D)
            <3>1. nm \in Seq(D)
                  BY <2>3, <2>5, SeqMore
            <3>2. QED BY <2>5, <3>1
      <2>7. <<"open">> \o nm \in Seq(D)
            BY <2>6, SeqBehind, Zenon
      <2>8. /\ (<<"open">> \o nm) \o <<"close">> \in Seq(D)
            /\ Len((<<"open">> \o nm) \o <<"close">>) = Len(<<"open">> \o nm) + Len(<<"close">>)
        <3>1. \A a \in Seq(D), b \in Seq(D) : a \o b \in Seq(D) /\ Len(a \o b) = Len(a) + Len(b)
              BY SeqBehind
        <3>2. QED BY <2>6, <2>7, <3>1, Zenon
      <2>9. Len(<<"close">>) = 1 /\ Len(<<"open">> \o nm) \in Nat
            BY <2>7
      <2>10. Len((<<"open">> \o nm) \o <<"close">>) >= 1
            BY <2>8, <2>9
      <2>11. QED BY <2>4, <2>8, <2>10 DEF Texts, D
<1>3. CASE word \notin Keys
      <2>1. PICK ch : Spelling(word) = <<ch>> /\ ch = IF word \in DOMAIN Glyphs THEN Glyphs[word] ELSE word
            BY <1>3 DEF Spelling
      <2>2. ch # Undefined
            BY <2>1
      <2>3. ch \in Letters
            BY <1>1, <1>3, <2>1, <2>2 DEF NonAscii, Range, Letters
      <2>4. QED BY <2>1, <2>3 DEF Texts
<1>4. QED BY <1>2, <1>3

\* The spellings of words.
Spellings(words) == [i \in DOMAIN words |-> Spelling(words[i])]

LEMMA SpellingsAre ==
    ASSUME NEW words \in Seq(Words), Decompiles(words)
    PROVE  /\ Spellings(words) \in Seq(Texts)
           /\ Len(Spellings(words)) = Len(words)
           /\ \A i \in 1 .. Len(words) : /\ words[i] \in Words
                                         /\ Spelling(words[i]) # <<Undefined>>
                                         /\ Spellings(words)[i] = Spelling(words[i])
<1>1. \A i \in DOMAIN words : Spelling(words[i]) # <<Undefined>>
      BY DEF Decompiles
<1>2. DOMAIN words = 1 .. Len(words) /\ Len(words) \in Nat /\ \A i \in 1 .. Len(words) : words[i] \in Words
      OBVIOUS
<1>3. \A i \in 1 .. Len(words) : Spelling(words[i]) \in Texts
      BY <1>1, <1>2, SpellingIs
<1>4. Spellings(words) \in [1 .. Len(words) -> Texts]
      BY <1>2, <1>3 DEF Spellings
<1>5. Spellings(words) \in Seq(Texts) /\ Len(Spellings(words)) = Len(words)
      BY <1>2, <1>4
<1>6. QED BY <1>1, <1>2, <1>5 DEF Spellings

LEMMA DecompiledIs ==
    ASSUME NEW words \in Seq(Words), Decompiles(words)
    PROVE  Decompiled(words) = Joined(Spellings(words)) /\ Decompiled(words) \in Texts
<1>1. Decompiled(words) = FlattenSeq(Spellings(words))
      BY DEF Decompiled, Spellings
<1>2. Spellings(words) \in Seq(Seq(Letters))
      BY SpellingsAre DEF Texts
<1>3. Joined(Spellings(words)) \in Seq(Letters)
      BY <1>2, JoinedType
<1>4. QED BY <1>1, <1>3, FlattenIs DEF Texts

-----------------------------------------------------------------------------
(* What is dropped.                                                        *)

MacTypes ==
    /\ text \in Texts
    /\ at \in Nat \ {0}
    /\ dropped \subseteq 1 .. at - 1
    /\ inquote \in BOOLEAN /\ stripspace \in BOOLEAN

\* No newline from k up to the next character: they are on one line.
SameLine(k) == \A m \in k .. at - 1 : text[m] # "nl"

\* What may come before a comment on its line.
Leads(k) ==
    \/ text[k] \in NonAscii
    \/ stripspace /\ text[k] \in {"space", "quote"}
    \/ InName(k)

LineInv == lastc \in {"nl", NUL} => \A k \in 1 .. at - 1 : SameLine(k) => Leads(k)

MacInv == MacTypes /\ LineInv /\ DropsOnlyComments

\* One iteration of the loop: of four kinds, if it does not fail.
DropsOne ==
    /\ dropped' = dropped \cup (at .. at) /\ at' = at + 1 /\ lastc' = lastc
    /\ stripspace /\ c \in {"space", "quote"}

DropsComment ==
    /\ c = "hash" /\ lastc \in {"nl", NUL} /\ lastc' \in {"nl", "EOF"}
    /\ \E last \in Nat :
          /\ last >= at
          /\ dropped' = dropped \cup (at .. last) /\ at' = last + 1
          /\ \A k \in at .. last - 1 : text[k] # "nl"
          /\ lastc' = "nl" => text[last] = "nl"

WritesOne ==
    /\ dropped' = dropped /\ at' = at + 1
    /\ \/ c \in Chars /\ lastc' = c
       \/ c \in NonAscii /\ lastc' = lastc

WritesName ==
    /\ c = "open" /\ dropped' = dropped /\ lastc' = lastc
    /\ \E last \in Nat :
          /\ last > at /\ at' = last + 1
          /\ \A k \in at .. last - 1 : text[k] # "close"

Stays == at' = at /\ dropped' = dropped /\ lastc' = lastc

LEMMA ClosingIs ==
    ASSUME MacTypes, Closing # {}
    PROVE  /\ First(Closing) \in Nat /\ First(Closing) > at
           /\ First(Closing) \in Closing
           /\ \A k \in at + 1 .. First(Closing) - 1 : text[k] # "close"
<1>1. Len(text) \in Nat /\ at \in Nat
      BY DEF MacTypes, Texts
<1>2. Closing = {j \in at + 1 .. Len(text) : text[j] = "close"}
      BY DEF Closing, After
<1>3. \A x \in Closing : x \in Nat /\ x > at
      BY <1>1, <1>2
<1>4. First(Closing) \in Closing /\ \A k \in Closing : First(Closing) <= k
      BY <1>3, FirstIs
<1> DEFINE f == First(Closing)
<1> HIDE DEF f
<1>5. f \in Nat /\ f > at /\ f <= Len(text)
      BY <1>1, <1>2, <1>3, <1>4 DEF f
<1>6. ASSUME NEW k \in at + 1 .. f - 1, text[k] = "close" PROVE FALSE
      <2>1. k \in at + 1 .. Len(text) /\ ~(f <= k)
            BY <1>1, <1>5
      <2>2. k \in Closing
            BY <1>2, <1>6, <2>1
      <2>3. QED BY <1>4, <2>1, <2>2 DEF f
<1>7. QED BY <1>3, <1>4, <1>6 DEF f

LEMMA CommentIs ==
    ASSUME MacTypes, Comment
    PROVE  DropsComment
<1> DEFINE ends == After("nl", at)
<1>1. Len(text) \in Nat /\ at \in Nat /\ at <= Len(text)
      BY DEF MacTypes, Texts, Comment, Plain, Reading
<1>2. ends = {j \in at + 1 .. Len(text) : text[j] = "nl"}
      BY DEF After
<1>3. c = "hash" /\ lastc \in {"nl", NUL}
      BY DEF Comment, StartsComment
<1>4. CASE ends = {}
      <2>1. Drop(Len(text)) /\ lastc' = "EOF"
            BY <1>4 DEF Comment
      <2>2. dropped' = dropped \cup (at .. Len(text)) /\ at' = Len(text) + 1
            BY <2>1 DEF Drop
      <2>3. text[at] # "nl"
            BY <1>3 DEF c
      <2>4. \A k \in at .. Len(text) - 1 : text[k] # "nl"
            BY <1>1, <1>2, <1>4, <2>3
      <2>5. "EOF" # "nl"
            OBVIOUS
      <2>6. QED BY <1>1, <1>3, <2>1, <2>2, <2>4, <2>5, Zenon DEF DropsComment
<1>5. CASE ends # {}
      <2> DEFINE f == First(ends)
      <2>1. \A x \in ends : x \in Nat
            BY <1>1, <1>2
      <2>2. f \in ends /\ \A k \in ends : f <= k
            BY <1>5, <2>1, FirstIs
      <2>3. Drop(f) /\ lastc' = "nl"
            BY <1>5 DEF Comment
      <2>4. dropped' = dropped \cup (at .. f) /\ at' = f + 1
            BY <2>3 DEF Drop
      <2> HIDE DEF f
      <2>5. f \in Nat /\ f >= at /\ f <= Len(text) /\ text[f] = "nl"
            BY <1>1, <1>2, <2>2
      <2>6. text[at] # "nl"
            BY <1>3 DEF c
      <2>7. ASSUME NEW k \in at .. f - 1 PROVE text[k] # "nl"
            <3>1. CASE k = at
                  BY <2>6, <3>1
            <3>2. CASE k # at
                  <4>1. k \in at + 1 .. Len(text) /\ ~(f <= k)
                        BY <1>1, <2>5, <3>2
                  <4>2. QED BY <1>2, <2>2, <4>1
            <3>3. QED BY <3>1, <3>2
      <2>8. QED BY <1>3, <2>3, <2>4, <2>5, <2>7, Zenon DEF DropsComment
<1>6. QED BY <1>4, <1>5

LEMMA MacOutcome ==
    ASSUME MacTypes, [Next]_vars
    PROVE  /\ UNCHANGED <<text, macro, tostdout, stripspace>>
           /\ inquote' \in BOOLEAN
           /\ \/ Stays
              \/ at <= Len(text) /\ (DropsOne \/ DropsComment \/ WritesOne \/ WritesName)
<1>1. CASE StripSpace
      BY <1>1 DEF StripSpace, Reading, Stripped, Drop, input, DropsOne, MacTypes
<1>2. CASE Quote
      BY <1>2 DEF Quote, Reading, Quoting, Drop, input, DropsOne, MacTypes
<1>3. CASE MacroName
      <2>1. /\ c = "open" /\ Closing # {} /\ at <= Len(text)
            /\ at' = First(Closing) + 1 /\ dropped' = dropped /\ lastc' = lastc
            /\ UNCHANGED <<text, macro, tostdout, stripspace, inquote>>
            BY <1>3 DEF MacroName, Plain, Reading, Known, Write, input
      <2>2. First(Closing) \in Nat /\ First(Closing) > at
            /\ \A k \in at + 1 .. First(Closing) - 1 : text[k] # "close"
            BY <2>1, ClosingIs
      <2>3. ASSUME NEW k \in at .. First(Closing) - 1 PROVE text[k] # "close"
            <3>1. CASE k = at
                  BY <2>1, <3>1 DEF c
            <3>2. CASE k # at
                  BY <2>2, <3>2 DEF MacTypes
            <3>3. QED BY <3>1, <3>2
      <2>4. WritesName
            BY <2>1, <2>2, <2>3, Zenon DEF WritesName
      <2>5. QED BY <2>1, <2>4 DEF MacTypes
<1>4. CASE BadName \/ BadChar
      BY <1>4 DEF BadName, BadChar, Fail, input, Stays, MacTypes
<1>5. CASE Comment
      <2>1. DropsComment /\ at <= Len(text)
            BY <1>5, CommentIs DEF Comment, Plain, Reading
      <2>2. UNCHANGED <<text, macro, tostdout, stripspace, inquote>>
            BY <1>5 DEF Comment, Drop, input
      <2>3. QED BY <2>1, <2>2 DEF MacTypes
<1>6. CASE Ascii
      BY <1>6 DEF Ascii, Plain, Reading, Write, input, WritesOne, MacTypes
<1>7. CASE NonAsciiChar
      BY <1>7 DEF NonAsciiChar, Plain, Reading, Write, input, WritesOne, MacTypes
<1>8. CASE Finish
      BY <1>8 DEF Finish, input, Stays, MacTypes
<1>9. CASE UNCHANGED vars
      BY <1>9 DEF vars, input, Stays, MacTypes
<1>10. QED BY <1>1, <1>2, <1>3, <1>4, <1>5, <1>6, <1>7, <1>8, <1>9 DEF Next

LEMMA MacInit ==
    ASSUME Init
    PROVE  MacInv
<1>1. text \in Texts /\ stripspace \in BOOLEAN
      <2>1. CASE text \in BoundedSeq(Letters, MaxText) /\ stripspace \in BOOLEAN
            BY <2>1 DEF BoundedSeq, SeqOf, Texts
      <2>2. CASE /\ macro \in MacroFiles /\ Decompiles(Printed(macro, tostdout))
                 /\ text = Decompiled(Printed(macro, tostdout)) /\ stripspace = FALSE
            BY <2>2, PrintedIs, DecompiledIs
      <2>3. QED BY <2>1, <2>2 DEF Init, Letters
<1>2. inquote = FALSE /\ at = 1 /\ dropped = {}
      BY DEF Init
<1>3. 1 .. at - 1 = {}
      BY <1>2
<1>4. MacTypes
      <2>1. inquote \in BOOLEAN
            BY <1>2
      <2>2. at \in Nat \ {0} /\ dropped \subseteq 1 .. at - 1
            BY <1>2
      <2>3. QED BY <1>1, <2>1, <2>2, Zenon DEF MacTypes
<1>5. LineInv
      BY <1>3 DEF LineInv
<1>6. DropsOnlyComments
      BY <1>2 DEF DropsOnlyComments
<1>7. QED BY <1>4, <1>5, <1>6 DEF MacInv

LEMMA MacTypesStep ==
    ASSUME MacTypes, [Next]_vars
    PROVE  MacTypes'
<1>1. UNCHANGED <<text, stripspace>> /\ inquote' \in BOOLEAN
      BY MacOutcome
<1>2. at' \in Nat \ {0} /\ at' >= at /\ dropped' \subseteq 1 .. at' - 1
      <2>1. CASE Stays
            BY <2>1 DEF Stays, MacTypes
      <2>2. CASE DropsOne
            BY <2>2 DEF DropsOne, MacTypes
      <2>3. CASE DropsComment
            BY <2>3 DEF DropsComment, MacTypes
      <2>4. CASE WritesOne
            BY <2>4 DEF WritesOne, MacTypes
      <2>5. CASE WritesName
            BY <2>5 DEF WritesName, MacTypes
      <2>6. QED BY <2>1, <2>2, <2>3, <2>4, <2>5, MacOutcome
<1>3. QED BY <1>1, <1>2 DEF MacTypes

\* A name that began before the next character is not dropped later.
LEMMA InNameStays ==
    ASSUME MacTypes, [Next]_vars, NEW k \in 1 .. at - 1, InName(k)
    PROVE  InName(k)'
<1>1. PICK l \in (1 .. k) \ dropped : text[l] = "open" /\ \A m \in l .. k - 1 : text[m] # "close"
      BY DEF InName
<1>2. l \notin dropped'
      <2>1. at \in Nat /\ l < at
            BY DEF MacTypes
      <2>2. CASE Stays \/ WritesOne \/ WritesName
            BY <1>1, <2>2 DEF Stays, WritesOne, WritesName
      <2>3. CASE DropsOne
            BY <1>1, <2>1, <2>3 DEF DropsOne
      <2>4. CASE DropsComment
            BY <1>1, <2>1, <2>4 DEF DropsComment
      <2>5. QED BY <2>2, <2>3, <2>4, MacOutcome
<1>3. text' = text
      BY MacOutcome
<1>4. QED BY <1>1, <1>2, <1>3 DEF InName

LEMMA LeadsStays ==
    ASSUME MacTypes, [Next]_vars, NEW k \in 1 .. at - 1, Leads(k)
    PROVE  Leads(k)'
<1>1. text' = text /\ stripspace' = stripspace
      BY MacOutcome
<1>2. QED BY <1>1, InNameStays DEF Leads

\* The last character that was read ends the line, or is one that may lead.
LEMMA LineStep ==
    ASSUME MacInv, [Next]_vars
    PROVE  LineInv'
<1> MacTypes /\ LineInv
    BY DEF MacInv
<1> SUFFICES ASSUME lastc' \in {"nl", NUL}, NEW k \in 1 .. at' - 1, SameLine(k)'
             PROVE  Leads(k)'
    BY DEF LineInv
<1>1. at \in Nat \ {0} /\ Len(text) \in Nat /\ text' = text /\ stripspace' = stripspace
      BY MacOutcome DEF MacTypes, Texts
<1>2. ASSUME lastc \in {"nl", NUL}, k <= at - 1, at' >= at PROVE Leads(k)'
      <2>1. k \in 1 .. at - 1
            BY <1>1, <1>2
      <2>2. \A m \in k .. at' - 1 : text[m] # "nl"
            BY <1>1 DEF SameLine
      <2>3. SameLine(k)
            <3>1. \A m \in k .. at - 1 : m \in k .. at' - 1
                  BY <1>1, <1>2, MacTypesStep DEF MacTypes
            <3>2. QED BY <2>2, <3>1 DEF SameLine
      <2>4. QED BY <1>2, <2>1, <2>3, LeadsStays DEF LineInv
<1>3. CASE Stays
      BY <1>1, <1>2, <1>3 DEF Stays
<1>4. CASE DropsOne
      <2>1. CASE k = at
            <3>1. stripspace /\ text[k] \in {"space", "quote"}
                  BY <1>4, <2>1 DEF DropsOne, c
            <3>2. QED BY <1>1, <3>1 DEF Leads
      <2>2. CASE k # at
            BY <1>1, <1>2, <1>4, <2>2 DEF DropsOne
      <2>3. QED BY <2>1, <2>2
<1>5. CASE DropsComment
      <2>1. PICK last \in Nat : /\ last >= at /\ at' = last + 1
                                /\ lastc' = "nl" => text[last] = "nl"
            BY <1>5 DEF DropsComment
      <2>2. lastc' = "nl"
            BY <1>5 DEF DropsComment, NUL
      <2>3. last \in k .. at' - 1
            BY <1>1, <2>1
      <2>4. text[last] # "nl"
            BY <1>1, <2>3 DEF SameLine
      <2>5. QED BY <2>1, <2>2, <2>4
<1>6. CASE WritesOne /\ at <= Len(text)
      <2>1. at \in k .. at' - 1
            BY <1>1, <1>6 DEF WritesOne
      <2>2. c # "nl"
            BY <1>1, <2>1 DEF SameLine, c
      <2>3. c \in NonAscii /\ lastc' = lastc /\ at' = at + 1
            BY <1>6, <2>2, MacToolAssumption DEF WritesOne
      <2>4. CASE k = at
            BY <1>1, <2>3, <2>4 DEF Leads, c
      <2>5. CASE k # at
            BY <1>1, <1>2, <2>3, <2>5
      <2>6. QED BY <2>4, <2>5
<1>7. CASE WritesName
      <2>1. PICK last \in Nat : /\ last > at /\ at' = last + 1
                                /\ \A m \in at .. last - 1 : text[m] # "close"
            BY <1>7 DEF WritesName
      <2>2. text[at] = "open" /\ dropped' = dropped /\ lastc' = lastc
            BY <1>7 DEF WritesName, c
      <2>3. CASE k <= at - 1
            BY <1>1, <1>2, <2>1, <2>2, <2>3
      <2>4. CASE ~(k <= at - 1)
            <3>1. at \in (1 .. k) \ dropped'
                  BY <1>1, <2>2, <2>4 DEF MacTypes
            <3>2. \A m \in at .. k - 1 : text[m] # "close"
                  BY <1>1, <2>1
            <3>3. InName(k)'
                  BY <1>1, <2>2, <3>1, <3>2 DEF InName
            <3>4. QED BY <3>3 DEF Leads
      <2>5. QED BY <2>3, <2>4
<1>8. QED BY <1>3, <1>4, <1>5, <1>6, <1>7, MacOutcome

\* Of one index: it is stripped, or in a comment.
Rightly(i) ==
    \/ stripspace /\ text[i] \in {"space", "quote"}
    \/ \E j \in LineOf(i) : text[j] = "hash" /\ \A k \in LineOf(j) \ {j} : Leads(k)

LEMMA RightlyStays ==
    ASSUME MacTypes, [Next]_vars, NEW i \in 1 .. at - 1, Rightly(i)
    PROVE  Rightly(i)'
<1>1. text' = text /\ stripspace' = stripspace
      BY MacOutcome
<1>2. CASE stripspace /\ text[i] \in {"space", "quote"}
      BY <1>1, <1>2 DEF Rightly
<1>3. ASSUME NEW j \in LineOf(i), text[j] = "hash", \A k \in LineOf(j) \ {j} : Leads(k)
      PROVE  Rightly(i)'
      <2>1. j \in 1 .. i /\ \A k \in LineOf(j) : k \in 1 .. j
            BY DEF LineOf
      <2>2. at \in Nat
            BY DEF MacTypes
      <2>3. \A k \in LineOf(j) : k \in 1 .. at - 1
            BY <2>1, <2>2
      <2>4. \A k \in LineOf(j) \ {j} : Leads(k)'
            BY <1>3, <2>3, LeadsStays
      <2>5. LineOf(i)' = LineOf(i) /\ LineOf(j)' = LineOf(j)
            BY <1>1 DEF LineOf
      <2>6. QED BY <1>1, <1>3, <2>4, <2>5 DEF Rightly
<1>4. QED BY <1>2, <1>3 DEF Rightly

LEMMA DropsStep ==
    ASSUME MacInv, [Next]_vars
    PROVE  DropsOnlyComments'
<1> MacTypes /\ LineInv /\ DropsOnlyComments
    BY DEF MacInv
<1>1. at \in Nat \ {0} /\ text' = text /\ stripspace' = stripspace /\ dropped \subseteq 1 .. at - 1
      BY MacOutcome DEF MacTypes
<1>2. ASSUME NEW i \in dropped PROVE Rightly(i)'
      <2>1. Rightly(i)
            BY DEF DropsOnlyComments, Rightly, Leads
      <2>2. QED BY <1>1, <2>1, RightlyStays
<1>3. ASSUME NEW i \in dropped' PROVE Rightly(i)'
      <2>1. CASE Stays \/ WritesOne \/ WritesName
            BY <1>2, <2>1 DEF Stays, WritesOne, WritesName
      <2>2. CASE DropsOne
            <3>1. CASE i \in dropped
                  BY <1>2, <3>1
            <3>2. CASE i \notin dropped
                  <4>1. i = at
                        BY <1>1, <2>2, <3>2 DEF DropsOne
                  <4>2. stripspace /\ text[i] \in {"space", "quote"}
                        BY <2>2, <4>1 DEF DropsOne, c
                  <4>3. QED BY <1>1, <4>2 DEF Rightly
            <3>3. QED BY <3>1, <3>2
      <2>3. CASE DropsComment
            <3>1. CASE i \in dropped
                  BY <1>2, <3>1
            <3>2. CASE i \notin dropped
                  <4>1. PICK last \in Nat : /\ dropped' = dropped \cup (at .. last)
                                            /\ \A k \in at .. last - 1 : text[k] # "nl"
                        BY <2>3 DEF DropsComment
                  <4>2. text[at] = "hash" /\ lastc \in {"nl", NUL}
                        BY <2>3 DEF DropsComment, c
                  <4>3. i \in at .. last
                        BY <3>2, <4>1
                  <4>4. at \in LineOf(i)
                        BY <1>1, <4>1, <4>3 DEF LineOf
                  <4>5. ASSUME NEW k \in LineOf(at) \ {at} PROVE Leads(k)'
                        <5>1. k \in 1 .. at - 1 /\ \A m \in k .. at - 1 : text[m] # "nl"
                              BY <1>1 DEF LineOf
                        <5>2. Leads(k)
                              BY <4>2, <5>1 DEF LineInv, SameLine
                        <5>3. QED BY <5>1, <5>2, LeadsStays
                  <4>6. LineOf(i)' = LineOf(i) /\ \A j : LineOf(j)' = LineOf(j)
                        BY <1>1 DEF LineOf
                  <4>7. QED BY <1>1, <4>2, <4>4, <4>5, <4>6 DEF Rightly
            <3>3. QED BY <3>1, <3>2
      <2>4. QED BY <2>1, <2>2, <2>3, MacOutcome
<1>4. QED BY <1>3 DEF DropsOnlyComments, Rightly, Leads

LEMMA MacInvariant == Spec => []MacInv
<1>1. MacInv /\ [Next]_vars => MacInv'
      BY MacTypesStep, LineStep, DropsStep DEF MacInv
<1>2. QED BY MacInit, <1>1, PTL DEF Spec

\* Compiling a macro leaves out comments and what -s strips, and nothing else,
\* however names, comments and quotation marks follow each other.
THEOREM CompilerDropsOnlyComments == Spec => []DropsOnlyComments
<1>1. MacInv => DropsOnlyComments
      BY DEF MacInv
<1>2. QED BY <1>1, MacInvariant, PTL

-----------------------------------------------------------------------------
(* What -s strips.                                                         *)

\* What is left of the character of index i.
LeftOf(i) ==
    IF text[i] = "quote" \/ (text[i] = "space" /\ ~Quoted(i)) THEN <<>>
    ELSE IF text[i] \in NonAscii THEN <<FindUcs(text[i])>>
    ELSE <<text[i]>>
AllLeft == [i \in DOMAIN text |-> LeftOf(i)]

NoMarkup == stripspace /\ Range(text) \cap {"hash", "open"} = {}

StripInv == NoMarkup =>
    /\ status = "reading" => /\ at <= Len(text) + 1
                             /\ out = FirstJoined(AllLeft, at - 1)
                             /\ inquote = Quoted(at - 1)
    /\ status = "done" => out = Joined(AllLeft) \o <<NUL>>

LEMMA AppendIs ==
    ASSUME NEW D, NEW s \in Seq(D), NEW x \in D
    PROVE  Append(s, x) = s \o <<x>> /\ s \o <<>> = s
OBVIOUS

\* A quotation mark turns the parity round, nothing else does.
LEMMA QuotedNext ==
    ASSUME NEW i \in Nat
    PROVE  /\ Quoted(0) = FALSE
           /\ Quoted(i) \in BOOLEAN
           /\ text[i + 1] = "quote" => Quoted(i + 1) = ~Quoted(i)
           /\ text[i + 1] # "quote" => Quoted(i + 1) = Quoted(i)
<1> DEFINE Q(k) == {j \in 1 .. k : text[j] = "quote"}
<1>1. Q(0) = {}
      OBVIOUS
<1>2. Quoted(0) = FALSE
      BY <1>1, FS_EmptySet DEF Quoted
<1>3. IsFiniteSet(Q(i)) /\ Cardinality(Q(i)) \in Nat
      <2>1. IsFiniteSet(1 .. i)
            BY FS_Interval
      <2>2. Q(i) \subseteq 1 .. i
            OBVIOUS
      <2>3. QED BY <2>1, <2>2, FS_Subset, FS_CardinalityType
<1>4. CASE text[i + 1] = "quote"
      <2>1. Q(i + 1) = Q(i) \cup {i + 1} /\ i + 1 \notin Q(i)
            BY <1>4
      <2>2. Cardinality(Q(i + 1)) = Cardinality(Q(i)) + 1
            BY <1>3, <2>1, FS_AddElement
      <2>3. \A n \in Nat : ((n + 1) % 2 = 1) = ~(n % 2 = 1)
            OBVIOUS
      <2>4. Quoted(i + 1) = ~Quoted(i)
            BY <1>3, <2>2, <2>3 DEF Quoted
      <2>5. QED BY <1>2, <1>4, <2>4 DEF Quoted
<1>5. CASE text[i + 1] # "quote"
      <2>1. Q(i + 1) = Q(i)
            BY <1>5
      <2>2. Quoted(i + 1) = Quoted(i)
            BY <2>1 DEF Quoted
      <2>3. QED BY <1>2, <1>5, <2>2 DEF Quoted
<1>6. QED BY <1>4, <1>5

LEMMA AllLeftType ==
    ASSUME text \in Texts
    PROVE  \E D : /\ AllLeft \in Seq(Seq(D)) /\ Len(AllLeft) = Len(text)
                  /\ \A i \in 1 .. Len(text) : AllLeft[i] = LeftOf(i)
<1> DEFINE D == Range(text) \cup {FindUcs(text[i]) : i \in DOMAIN text}
<1>1. DOMAIN text = 1 .. Len(text) /\ Len(text) \in Nat
      BY DEF Texts
<1>2. ASSUME NEW i \in DOMAIN text PROVE LeftOf(i) \in Seq(D)
      <2>1. text[i] \in D /\ FindUcs(text[i]) \in D
            BY DEF Range
      <2> HIDE DEF D
      <2>2. <<>> \in Seq(D) /\ <<text[i]>> \in Seq(D) /\ <<FindUcs(text[i])>> \in Seq(D)
            BY <2>1
      <2>3. QED BY <2>2, Zenon DEF LeftOf
<1> HIDE DEF D
<1>3. AllLeft \in [1 .. Len(text) -> Seq(D)]
      BY <1>1, <1>2 DEF AllLeft
<1>4. AllLeft \in Seq(Seq(D)) /\ Len(AllLeft) = Len(text)
      BY <1>1, <1>3
<1>5. \A i \in 1 .. Len(text) : AllLeft[i] = LeftOf(i)
      BY <1>1 DEF AllLeft
<1>6. QED BY <1>4, <1>5

\* What one character leaves is written behind what the earlier ones left.
LEMMA LeftBehind ==
    ASSUME text \in Texts, NEW i \in 1 .. Len(text)
    PROVE  /\ LeftOf(i) = <<>> => FirstJoined(AllLeft, i) = FirstJoined(AllLeft, i - 1)
           /\ \A x : LeftOf(i) = <<x>> =>
                 FirstJoined(AllLeft, i) = Append(FirstJoined(AllLeft, i - 1), x)
<1>1. PICK D : /\ AllLeft \in Seq(Seq(D)) /\ Len(AllLeft) = Len(text)
               /\ \A j \in 1 .. Len(text) : AllLeft[j] = LeftOf(j)
      BY AllLeftType
<1> DEFINE k == i - 1
<1>2. k \in 0 .. Len(AllLeft) - 1 /\ k + 1 = i /\ k \in 0 .. Len(AllLeft)
      BY <1>1 DEF Texts
<1>3. FirstJoined(AllLeft, i) = FirstJoined(AllLeft, k) \o LeftOf(i)
      <2> HIDE DEF k
      <2>1. FirstJoined(AllLeft, k + 1) = FirstJoined(AllLeft, k) \o AllLeft[k + 1]
            BY <1>1, <1>2, JoinedStep
      <2>2. QED BY <1>1, <1>2, <2>1
<1>4. FirstJoined(AllLeft, k) \in Seq(D)
      BY <1>1, <1>2, FirstJoinedType
<1>5. LeftOf(i) \in Seq(D)
      BY <1>1
<1> DEFINE f == FirstJoined(AllLeft, k)
<1> HIDE DEF f
<1>6. LeftOf(i) = <<>> => f \o LeftOf(i) = f
      BY <1>4 DEF f
<1>7. ASSUME NEW x, LeftOf(i) = <<x>> PROVE f \o LeftOf(i) = Append(f, x)
      <2>1. x \in D
            BY <1>5, <1>7
      <2>2. QED BY <1>4, <1>7, <2>1, AppendIs DEF f
<1>8. QED BY <1>3, <1>6, <1>7 DEF f

LEMMA StripStep ==
    ASSUME MacTypes, StripInv, [Next]_vars
    PROVE  StripInv'
<1> DEFINE Goal == /\ status' = "reading" => /\ at' <= Len(text) + 1
                                              /\ out' = FirstJoined(AllLeft, at' - 1)
                                              /\ inquote' = Quoted(at' - 1)
                   /\ status' = "done" => out' = Joined(AllLeft) \o <<NUL>>
<1>1. text' = text /\ stripspace' = stripspace
      BY MacOutcome
<1>0. SUFFICES ASSUME NoMarkup' PROVE Goal
      <2>1. AllLeft' = AllLeft
            BY <1>1 DEF AllLeft, LeftOf, Quoted
      <2>2. Quoted(at - 1)' = Quoted(at' - 1)
            BY <1>1 DEF Quoted
      <2>3. (NoMarkup' => Goal) => StripInv'
            BY <1>1, <2>1, <2>2, Zenon DEF StripInv
      <2>4. QED BY <2>3
<1>2. NoMarkup
      BY <1>0, <1>1 DEF NoMarkup
<1>4. /\ status = "reading" => /\ at <= Len(text) + 1
                               /\ out = FirstJoined(AllLeft, at - 1)
                               /\ inquote = Quoted(at - 1)
      /\ status = "done" => out = Joined(AllLeft) \o <<NUL>>
      BY <1>2 DEF StripInv
<1>5. text \in Texts /\ Len(text) \in Nat /\ DOMAIN text = 1 .. Len(text) /\ at \in Nat \ {0}
      BY DEF MacTypes, Texts
<1>6. ASSUME Reading PROVE c \notin {"hash", "open"} /\ at \in 1 .. Len(text) /\ stripspace
      <2>1. at \in 1 .. Len(text)
            BY <1>5, <1>6 DEF Reading
      <2>2. text[at] \in Range(text)
            BY <1>5, <2>1 DEF Range
      <2>3. QED BY <1>2, <2>1, <2>2 DEF NoMarkup, c
<1>7. ASSUME Reading PROVE /\ c = "quote" => Quoted(at) = ~Quoted(at - 1)
                           /\ c # "quote" => Quoted(at) = Quoted(at - 1)
      <2>1. at - 1 \in Nat /\ (at - 1) + 1 = at
            BY <1>5
      <2>2. QED BY <2>1, QuotedNext DEF c
\* The step writes what the character leaves.
<1>8. ASSUME Reading, status' = status, at' = at + 1, inquote' = Quoted(at),
             \/ LeftOf(at) = <<>> /\ out' = out
             \/ LeftOf(at) = <<c>> /\ out' = Append(out, c)
             \/ LeftOf(at) = <<FindUcs(c)>> /\ out' = Append(out, FindUcs(c))
      PROVE  Goal
      <2>1. at \in 1 .. Len(text) /\ at' - 1 = at /\ status = "reading"
            BY <1>5, <1>6, <1>8 DEF Reading
      <2>2. out' = FirstJoined(AllLeft, at)
            BY <1>4, <1>5, <1>8, <2>1, LeftBehind
      <2>3. at' <= Len(text) + 1
            BY <1>5, <1>8, <2>1
      <2>4. QED BY <1>8, <2>1, <2>2, <2>3
<1>9. CASE StripSpace
      <2>1. Reading /\ c = "space" /\ ~inquote /\ at' = at + 1 /\ out' = out /\ status' = status
            /\ inquote' = inquote
            BY <1>9 DEF StripSpace, Stripped, Drop
      <2>2. inquote = Quoted(at - 1) /\ Quoted(at) = Quoted(at - 1)
            BY <1>4, <1>7, <2>1 DEF Reading
      <2>3. LeftOf(at) = <<>>
            BY <2>1, <2>2 DEF LeftOf, c
      <2>4. QED BY <1>8, <2>1, <2>2, <2>3
<1>10. CASE Quote
      <2>1. Reading /\ c = "quote" /\ at' = at + 1 /\ out' = out /\ status' = status
            /\ inquote' = ~inquote
            BY <1>10 DEF Quote, Quoting, Drop
      <2>2. inquote = Quoted(at - 1) /\ Quoted(at) = ~Quoted(at - 1)
            BY <1>4, <1>7, <2>1 DEF Reading
      <2>3. LeftOf(at) = <<>>
            BY <2>1 DEF LeftOf, c
      <2>4. QED BY <1>8, <2>1, <2>2, <2>3
<1>11. ASSUME Plain PROVE /\ Reading /\ c # "quote" /\ ~(c = "space" /\ ~Quoted(at))
                          /\ inquote = Quoted(at)
      <2>1. Reading /\ ~Stripped /\ ~Quoting
            BY <1>11 DEF Plain
      <2>2. c # "quote" /\ ~(c = "space" /\ ~inquote)
            BY <1>6, <2>1 DEF Stripped, Quoting
      <2>3. inquote = Quoted(at - 1) /\ Quoted(at) = Quoted(at - 1)
            BY <1>4, <1>7, <2>1, <2>2 DEF Reading
      <2>4. QED BY <2>1, <2>2, <2>3
<1>12. CASE Ascii
      <2>1. Plain /\ c \in Chars /\ at' = at + 1 /\ out' = Append(out, c) /\ status' = status
            /\ inquote' = inquote
            BY <1>12 DEF Ascii, Write
      <2>2. LeftOf(at) = <<c>>
            BY <1>11, <2>1 DEF LeftOf, c, NonAscii
      <2>3. QED BY <1>8, <1>11, <2>1, <2>2
<1>13. CASE NonAsciiChar
      <2>1. Plain /\ at' = at + 1 /\ out' = Append(out, FindUcs(c))
            /\ status' = status /\ inquote' = inquote
            BY <1>13 DEF NonAsciiChar, Write
      <2>2. c \in NonAscii
            BY <1>13 DEF NonAsciiChar
      <2>3. LeftOf(at) = <<FindUcs(c)>>
            BY <1>11, <2>1, <2>2 DEF LeftOf, c
      <2>4. QED BY <1>8, <1>11, <2>1, <2>3
<1>14. CASE MacroName \/ BadName \/ Comment
      BY <1>6, <1>14 DEF MacroName, BadName, Comment, Plain, StartsComment
<1>15. CASE Finish
      <2>1. status = "reading" /\ at = Len(text) + 1 /\ status' = "done" /\ out' = Append(out, NUL)
            BY <1>4, <1>5, <1>15 DEF Finish
      <2>2. PICK D : AllLeft \in Seq(Seq(D)) /\ Len(AllLeft) = Len(text)
            BY <1>5, AllLeftType
      <2>3. at - 1 = Len(AllLeft)
            BY <1>5, <2>1, <2>2
      <2>4. out = Joined(AllLeft)
            BY <1>4, <2>1, <2>2, <2>3, JoinedStarts
      <2>5. out \in Seq(D)
            BY <2>2, <2>4, JoinedType
      <2>6. out \in Seq(D \cup {NUL}) /\ NUL \in D \cup {NUL}
            BY <2>5, SeqMore
      <2>7. out' = out \o <<NUL>>
            BY <2>1, <2>6, AppendIs
      <2>8. QED BY <2>1, <2>4, <2>7
<1>16. CASE BadChar
      BY <1>16 DEF BadChar, Fail
<1>17. CASE UNCHANGED vars
      BY <1>4, <1>17 DEF vars
<1>18. QED BY <1>9, <1>10, <1>12, <1>13, <1>14, <1>15, <1>16, <1>17 DEF Next

LEMMA StripInit ==
    ASSUME Init
    PROVE  StripInv
<1>1. text \in Texts
      BY MacInit DEF MacInv, MacTypes
<1>2. PICK D : AllLeft \in Seq(Seq(D))
      BY <1>1, AllLeftType
<1>3. status = "reading" /\ at = 1 /\ out = <<>> /\ inquote = FALSE
      BY DEF Init
<1>4. at - 1 = 0 /\ at <= Len(text) + 1
      BY <1>1, <1>3 DEF Texts
<1>5. FirstJoined(AllLeft, 0) = <<>>
      BY <1>2, JoinedStarts
<1>6. Quoted(0) = FALSE
      BY QuotedNext
<1>7. QED BY <1>3, <1>4, <1>5, <1>6 DEF StripInv

\* With -s, strings in backquotes are protected: of a text without names and
\* comments nothing is lost but the marks and the spaces outside them.
THEOREM CompilerStripsOutsideQuotes == Spec => []StripsOutsideQuotes
<1>1. StripInv => StripsOutsideQuotes
      <2> SUFFICES ASSUME StripInv, stripspace, status = "done",
                          Range(text) \cap {"hash", "open"} = {}
                   PROVE  out = FlattenSeq(AllLeft) \o <<NUL>>
          BY Zenon DEF StripsOutsideQuotes, AllLeft, LeftOf
      <2>1. out = Joined(AllLeft) \o <<NUL>>
            BY DEF StripInv, NoMarkup
      <2>2. QED BY <2>1, FlattenIs
<1>2. MacInv => MacTypes
      BY DEF MacInv
<1>3. QED BY StripInit, StripStep, MacInvariant, <1>1, <1>2, PTL DEF Spec

-----------------------------------------------------------------------------
(* The text of a macro compiles to the macro.                              *)

\* The words the text stands for, and those of the macro that need no escape.
Wanted == Printed(macro, tostdout)
PlainMacro == macro # <<>> /\ \A word \in Range(UpToNul(macro)) : ReadsBack(word)

\* The text of the first n of them.
TextOf(n) == FirstJoined(Spellings(Wanted), n)

TripInv == PlainMacro =>
    /\ macro \in MacroFiles /\ Decompiles(Wanted)
    /\ text = Joined(Spellings(Wanted)) /\ stripspace = FALSE
    /\ status # "failed"
    /\ status = "reading" => \E n \in 0 .. Len(Wanted) :
                                /\ out = SubSeq(Wanted, 1, n)
                                /\ at = Len(TextOf(n)) + 1
    /\ status = "done" => out = Wanted \o <<NUL>>

\* The newline reads back as the words of the macro do.
LEMMA WantedReadsBack ==
    ASSUME PlainMacro, macro \in MacroFiles, NEW n \in 0 .. Len(Wanted) - 1
    PROVE  ReadsBack(Wanted[n + 1])
<1>1. UpToNul(macro) \in Seq(Words)
      BY UpToNulIs
<1>2. CASE n + 1 \in 1 .. Len(UpToNul(macro))
      <2>1. Wanted[n + 1] = UpToNul(macro)[n + 1]
            BY <1>1, <1>2 DEF Wanted, Printed
      <2>2. UpToNul(macro)[n + 1] \in Range(UpToNul(macro))
            BY <1>1, <1>2 DEF Range
      <2>3. QED BY <2>1, <2>2 DEF PlainMacro
<1>3. CASE n + 1 \notin 1 .. Len(UpToNul(macro))
      <2>1. Wanted[n + 1] = "nl"
            BY <1>1, <1>3 DEF Wanted, Printed
      <2>2. "nl" \in Chars /\ "nl" \notin DOMAIN Glyphs
            BY MacToolAssumption DEF Special
      <2>3. QED BY <2>1, <2>2 DEF ReadsBack, Keys
<1>4. QED BY <1>2, <1>3

\* While words are left, the text goes on with the spelling of the next one.
LEMMA NextWord ==
    ASSUME Wanted \in Seq(Words), Decompiles(Wanted), text = Joined(Spellings(Wanted)),
           NEW n \in 0 .. Len(Wanted) - 1, at = Len(TextOf(n)) + 1,
           NEW word, word = Wanted[n + 1]
    PROVE  /\ at \in Nat \ {0} /\ word \in Words /\ Spelling(word) # <<Undefined>>
           /\ Spelling(word) \in Texts
           /\ Len(Spelling(word)) >= 1
           /\ \A p \in 1 .. Len(Spelling(word)) : text[at + p - 1] = Spelling(word)[p]
           /\ at + Len(Spelling(word)) - 1 <= Len(text)
           /\ at + Len(Spelling(word)) = Len(TextOf(n + 1)) + 1
<1> DEFINE S == Spellings(Wanted)
           D == Letters
           sp == Spelling(word)
<1>1. S \in Seq(Seq(D)) /\ Len(S) = Len(Wanted) /\ Len(S) \in Nat
      BY SpellingsAre DEF Texts
<1>2. n + 1 \in 1 .. Len(S) /\ n \in 0 .. Len(S) - 1 /\ n \in 0 .. Len(S)
      BY <1>1
<1>3. /\ word \in Words /\ Spelling(word) # <<Undefined>>
      /\ S[n + 1] = sp
      BY <1>1, <1>2, SpellingsAre
<1>4. sp \in Seq(D) /\ Len(sp) >= 1 /\ Len(sp) \in Nat
      BY <1>3, SpellingIs DEF Texts
<1> DEFINE a == TextOf(n)
           b == TextOf(n + 1)
<1>5. b = a \o sp
      BY <1>1, <1>2, <1>3, JoinedStep DEF TextOf
<1>6. a \in Seq(D)
      BY <1>1, <1>2, FirstJoinedType DEF TextOf
<1>7. /\ Len(b) <= Len(text)
      /\ \A p \in 1 .. Len(b) : text[p] = b[p]
      <2>1. n + 1 \in 0 .. Len(S) /\ Len(S) \in n + 1 .. Len(S)
            BY <1>2
      <2>2. FirstJoined(S, Len(S)) = text
            BY <1>1, JoinedStarts
      <2> HIDE DEF S
      <2>3. QED BY <1>1, <2>1, <2>2, JoinedPrefix DEF TextOf, S
<1> HIDE DEF S, D, sp, a, b
<1>8. /\ Len(b) = Len(a) + Len(sp)
      /\ \A p \in 1 .. Len(sp) : b[Len(a) + p] = sp[p]
      BY <1>4, <1>5, <1>6, SeqBehind
<1>9. Len(a) \in Nat /\ at = Len(a) + 1
      BY <1>6 DEF a
<1>10. at + Len(sp) = Len(b) + 1 /\ at + Len(sp) - 1 <= Len(text)
      <2>1. Len(text) \in Nat
            BY <1>1, JoinedType DEF S
      <2>2. Len(b) <= Len(text) /\ Len(b) = Len(a) + Len(sp)
            BY <1>7, <1>8
      <2> DEFINE x == Len(a)
                 y == Len(sp)
                 z == Len(text)
      <2>3. x \in Nat /\ y \in Nat /\ z \in Nat /\ at = x + 1 /\ x + y <= z /\ Len(b) = x + y
            BY <1>4, <1>9, <2>1, <2>2
      <2> HIDE DEF x, y, z
      <2>4. at + y = (x + y) + 1 /\ at + y - 1 <= z
            BY <2>3
      <2>5. QED BY <2>3, <2>4 DEF y, z
<1>11. ASSUME NEW p \in 1 .. Len(sp) PROVE text[at + p - 1] = sp[p]
      <2>1. at + p - 1 = Len(a) + p /\ Len(a) + p \in 1 .. Len(b)
            <3>1. Len(b) = Len(a) + Len(sp)
                  BY <1>8
            <3> DEFINE x == Len(a)
                       y == Len(sp)
            <3>2. x \in Nat /\ y \in Nat /\ at = x + 1 /\ p \in 1 .. y /\ Len(b) = x + y
                  BY <1>4, <1>9, <3>1
            <3> HIDE DEF x, y
            <3>3. at + p - 1 = x + p /\ x + p \in 1 .. x + y
                  BY <3>2
            <3>4. QED BY <3>2, <3>3 DEF x
      <2>2. QED BY <1>7, <1>8, <2>1
<1>12. QED BY <1>3, <1>4, <1>9, <1>10, <1>11 DEF sp, b, Texts, D

LEMMA PartIs ==
    ASSUME NEW D, NEW s \in Seq(D), NEW m \in 1 .. Len(s), NEW n \in m - 1 .. Len(s)
    PROVE  SubSeq(s, m, n) = [i \in 1 .. 1 + n - m |-> s[i + m - 1]]
OBVIOUS

\* A name in braces is read to the first closing brace and found.
LEMMA NameIsRead ==
    ASSUME MacTypes, NEW nm \in DOMAIN Names, "close" \notin Range(nm),
           \A p \in 1 .. Len(nm) + 2 : text[at + p - 1] = (<<"open">> \o nm \o <<"close">>)[p],
           at + Len(nm) + 1 <= Len(text)
    PROVE  c = "open" /\ Known /\ Name = nm /\ First(Closing) = at + Len(nm) + 1
<1>1. nm \in Seq(Chars) /\ Len(nm) \in Nat /\ DOMAIN nm = 1 .. Len(nm)
      BY MacToolAssumption
<1>2. at \in Nat \ {0} /\ Len(text) \in Nat /\ text \in Texts
      BY DEF MacTypes, Texts
<1> DEFINE D == Chars \cup {"open", "close"}
<1>3. nm \in Seq(D) /\ <<"open">> \in Seq(D) /\ <<"close">> \in Seq(D)
      <2>1. nm \in Seq(D)
            BY <1>1, SeqMore
      <2>2. QED BY <2>1
<1> HIDE DEF D
<1> DEFINE h == <<"open">> \o nm
           w == h \o <<"close">>
<1>4. h \in Seq(D) /\ Len(h) = Len(nm) + 1 /\ h[1] = "open"
      /\ \A p \in 1 .. Len(nm) : h[p + 1] = nm[p]
      BY <1>3
<1> HIDE DEF h
<1>5. /\ \A p \in 1 .. Len(h) : w[p] = h[p]
      /\ w[Len(h) + 1] = "close"
      BY <1>3, <1>4
<1>6. \A p \in 1 .. Len(nm) + 2 : text[at + p - 1] = w[p]
      BY DEF h
<1> HIDE DEF w
<1>7. c = "open"
      <2>1. 1 \in 1 .. Len(nm) + 2 /\ 1 \in 1 .. Len(h) /\ at + 1 - 1 = at
            BY <1>1, <1>2, <1>4
      <2>2. QED BY <1>4, <1>5, <1>6, <2>1 DEF c
<1>8. ASSUME NEW p \in 1 .. Len(nm) PROVE text[at + p] = nm[p] /\ text[at + p] # "close"
      <2>1. p + 1 \in 1 .. Len(nm) + 2 /\ p + 1 \in 1 .. Len(h) /\ at + (p + 1) - 1 = at + p
            BY <1>1, <1>2, <1>4
      <2>2. text[at + p] = nm[p]
            BY <1>4, <1>5, <1>6, <2>1
      <2>3. nm[p] \in Range(nm)
            BY <1>1 DEF Range
      <2>4. QED BY <2>2, <2>3
<1> DEFINE e == at + Len(nm) + 1
<1>9. text[e] = "close" /\ e \in at + 1 .. Len(text)
      <2>1. Len(nm) + 2 \in 1 .. Len(nm) + 2 /\ at + (Len(nm) + 2) - 1 = e
            /\ Len(h) + 1 = Len(nm) + 2
            BY <1>1, <1>2, <1>4
      <2>2. e \in at + 1 .. Len(text)
            BY <1>1, <1>2
      <2> HIDE DEF e
      <2>3. QED BY <1>5, <1>6, <2>1, <2>2
<1> HIDE DEF e
<1>10. Closing = {j \in at + 1 .. Len(text) : text[j] = "close"}
      BY DEF Closing, After
<1>11. e \in Closing
      BY <1>9, <1>10
<1>12. First(Closing) = e
      <2>1. /\ First(Closing) \in Nat /\ First(Closing) > at /\ text[First(Closing)] = "close"
            /\ \A k \in at + 1 .. First(Closing) - 1 : text[k] # "close"
            BY <1>10, <1>11, ClosingIs
      <2> DEFINE f == First(Closing)
      <2> HIDE DEF f
      <2>2. ~(f < e)
            <3> SUFFICES ASSUME f < e PROVE FALSE
                OBVIOUS
            <3>1. f - at \in 1 .. Len(nm) /\ at + (f - at) = f
                  BY <1>1, <1>2, <2>1 DEF e, f
            <3>2. QED BY <1>8, <2>1, <3>1 DEF f
      <2>3. ~(e < f)
            BY <1>2, <1>9, <2>1 DEF f
      <2>4. e \in Nat /\ f \in Nat
            BY <1>1, <1>2, <2>1 DEF e, f
      <2>5. QED BY <2>2, <2>3, <2>4 DEF f
<1>13. Name = nm
      <2>1. First(Closing) - 1 = at + Len(nm)
            BY <1>1, <1>2, <1>12 DEF e
      <2>2. Name = SubSeq(text, at + 1, at + Len(nm))
            BY <2>1 DEF Name
      <2>3. SubSeq(text, at + 1, at + Len(nm)) = [i \in 1 .. Len(nm) |-> text[at + i]]
            <3>1. /\ at + 1 \in 1 .. Len(text) /\ at + Len(nm) \in at .. Len(text)
                  BY <1>1, <1>2, <1>9 DEF e
            <3> DEFINE m == at + 1
                       z == at + Len(nm)
            <3>2. SubSeq(text, m, z) = [i \in 1 .. (1 + z - m) |-> text[i + m - 1]]
                  <4>1. m \in 1 .. Len(text) /\ z \in m - 1 .. Len(text)
                        BY <1>2, <3>1
                  <4> HIDE DEF m, z
                  <4>2. QED BY <1>2, <4>1, PartIs DEF Texts
            <3>3. 1 + z - m = Len(nm) /\ \A i \in 1 .. Len(nm) : i + m - 1 = at + i
                  BY <1>1, <1>2
            <3>4. QED BY <3>2, <3>3
      <2>4. nm = [i \in 1 .. Len(nm) |-> nm[i]]
            BY <1>1
      <2>5. QED BY <1>8, <2>2, <2>3, <2>4
<1>14. QED BY <1>7, <1>11, <1>12, <1>13 DEF Known, e

\* A word that reads back is written in one step of the loop.
LEMMA WordIsRead ==
    ASSUME MacTypes, NEW word \in Words, ReadsBack(word), Spelling(word) # <<Undefined>>,
           \A p \in 1 .. Len(Spelling(word)) : text[at + p - 1] = Spelling(word)[p],
           at + Len(Spelling(word)) - 1 <= Len(text), Len(Spelling(word)) >= 1,
           stripspace = FALSE, status = "reading", Next
    PROVE  out' = Append(out, word) /\ at' = at + Len(Spelling(word)) /\ status' = "reading"
<1> DEFINE sp == Spelling(word)
<1>1. at \in Nat \ {0} /\ Len(text) \in Nat
      BY DEF MacTypes, Texts
<1>2. Len(sp) \in Nat
      BY SpellingIs DEF Texts
<1>3. at <= Len(text)
      <2> DEFINE y == Len(sp)
      <2>1. y \in Nat /\ y >= 1 /\ at + y - 1 <= Len(text)
            BY <1>2
      <2> HIDE DEF y
      <2>2. QED BY <1>1, <2>1
<1>4. ~Stripped /\ ~Quoting /\ Reading
      BY <1>3 DEF Stripped, Quoting, Reading
<1>5. ~Finish
      BY <1>1, <1>3 DEF Finish
<1>6. ~StripSpace /\ ~Quote
      BY <1>4 DEF StripSpace, Quote
<1>7. c = sp[1]
      <2>1. 1 \in 1 .. Len(sp) /\ at + 1 - 1 = at
            BY <1>1, <1>2
      <2>2. QED BY <2>1 DEF c
<1>8. CASE word \in Keys
      <2> DEFINE nm == CHOOSE x \in DOMAIN Names : Names[x] = word
      <2>1. \E x \in DOMAIN Names : Names[x] = word
            BY <1>8 DEF Keys, Range
      <2>2. nm \in DOMAIN Names /\ Names[nm] = word
            BY <2>1
      <2>3. "close" \notin Range(nm)
            BY <1>8 DEF ReadsBack
      <2>4. sp = <<"open">> \o nm \o <<"close">>
            BY <1>8 DEF Spelling
      <2> HIDE DEF nm, sp
      <2>5. Len(sp) = Len(nm) + 2 /\ Len(nm) \in Nat
            <3>1. nm \in Seq(Chars)
                  BY <2>2, MacToolAssumption
            <3> DEFINE D == Chars \cup {"open", "close"}
            <3>2. nm \in Seq(D)
                  BY <3>1, SeqMore
            <3>3. <<"open">> \in Seq(D) /\ <<"close">> \in Seq(D)
                  OBVIOUS
            <3> HIDE DEF D
            <3>4. <<"open">> \o nm \in Seq(D) /\ Len(<<"open">> \o nm) = 1 + Len(nm)
                  BY <3>2, <3>3
            <3>5. Len((<<"open">> \o nm) \o <<"close">>) = Len(<<"open">> \o nm) + 1
                  BY <3>3, <3>4
            <3>6. Len(nm) \in Nat
                  BY <3>2
            <3>7. QED BY <2>4, <3>4, <3>5, <3>6
      <2>6. c = "open" /\ Known /\ Name = nm /\ First(Closing) = at + Len(nm) + 1
            <3>1. \A p \in 1 .. Len(nm) + 2 : text[at + p - 1] = (<<"open">> \o nm \o <<"close">>)[p]
                  BY <2>4, <2>5 DEF sp
            <3>2. at + Len(nm) + 1 <= Len(text)
                  <4>1. at + Len(sp) - 1 <= Len(text)
                        BY DEF sp
                  <4>2. QED BY <1>1, <2>5, <4>1
            <3>3. QED BY <2>2, <2>3, <3>1, <3>2, NameIsRead
      <2>7. ~BadName /\ ~Comment /\ ~Ascii /\ ~NonAsciiChar /\ ~BadChar
            <3>1. "open" \in Chars
                  BY MacToolAssumption DEF Special
            <3>2. QED BY <2>6, <3>1, MacToolAssumption
                      DEF BadName, Comment, StartsComment, Ascii, NonAsciiChar, BadChar, NonAscii
      <2>8. MacroName
            BY <1>5, <1>6, <2>7 DEF Next
      <2>9. Write(word, at + Len(nm) + 1)
            BY <2>2, <2>6, <2>8 DEF MacroName
      <2>10. (at + Len(nm) + 1) + 1 = at + Len(sp)
            BY <1>1, <2>5
      <2>11. QED BY <2>9, <2>10 DEF Write, sp
<1>9. CASE word \notin Keys /\ word \in DOMAIN Glyphs
      <2>1. sp = <<Glyphs[word]>>
            BY <1>9 DEF Spelling
      <2>2. c = Glyphs[word] /\ Len(sp) = 1
            BY <1>7, <2>1
      <2>3. /\ Glyphs[word] \notin Chars
            /\ \A other \in DOMAIN Glyphs \ {word} :
                  Glyphs[other] = Glyphs[word] => Rank[word] < Rank[other]
            BY <1>9 DEF ReadsBack
      <2>4. ~MacroName /\ ~BadName /\ ~Comment /\ ~Ascii /\ ~BadChar
            <3>1. "open" \in Chars /\ "hash" \in Chars
                  BY MacToolAssumption DEF Special
            <3>2. c \in NonAscii
                  BY <1>9, <2>1, <2>2, <2>3 DEF NonAscii, Range
            <3>3. QED BY <2>2, <2>3, <3>1, <3>2, MacToolAssumption
                      DEF MacroName, BadName, Comment, StartsComment, Ascii, BadChar
      <2>5. NonAsciiChar
            BY <1>5, <1>6, <2>4 DEF Next
      <2>6. FindUcs(c) = word
            <3> DEFINE Found(w) == /\ Glyphs[w] = c
                                   /\ \A other \in DOMAIN Glyphs :
                                         Glyphs[other] = c => Rank[w] <= Rank[other]
            <3>1. \A w \in DOMAIN Glyphs : Rank[w] \in Int
                  BY MacToolAssumption
            <3>2. Found(word)
                  BY <1>9, <2>2, <2>3, <3>1
            <3>3. ASSUME NEW w \in DOMAIN Glyphs, Found(w), w # word PROVE FALSE
                  <4>1. Rank[w] <= Rank[word]
                        BY <1>9, <2>2, <3>3
                  <4>2. Rank[word] < Rank[w]
                        BY <2>2, <2>3, <3>3
                  <4>3. QED BY <1>9, <3>1, <3>3, <4>1, <4>2
            <3>4. FindUcs(c) = CHOOSE w \in DOMAIN Glyphs : Found(w)
                  BY DEF FindUcs
            <3> HIDE DEF Found
            <3>5. QED BY <1>9, <3>2, <3>3, <3>4
      <2>7. Write(word, at)
            BY <2>5, <2>6 DEF NonAsciiChar
      <2>8. QED BY <2>2, <2>7 DEF Write
<1>10. CASE word \notin Keys /\ word \notin DOMAIN Glyphs
      <2>1. word \in Chars
            BY <1>10, MacToolAssumption DEF Words, Special
      <2>2. sp = <<word>>
            BY <1>10 DEF Spelling
      <2>3. c = word /\ Len(sp) = 1
            BY <1>7, <2>2
      <2>4. c \notin {"open", "hash"}
            BY <1>10, <2>3 DEF ReadsBack
      <2>5. ~MacroName /\ ~BadName /\ ~Comment /\ ~NonAsciiChar /\ ~BadChar
            BY <2>1, <2>3, <2>4, MacToolAssumption
            DEF MacroName, BadName, Comment, StartsComment, NonAsciiChar, BadChar, NonAscii
      <2>6. Ascii
            BY <1>5, <1>6, <2>5 DEF Next
      <2>7. Write(word, at)
            BY <2>3, <2>6 DEF Ascii
      <2>8. QED BY <2>3, <2>7 DEF Write
<1>11. QED BY <1>8, <1>9, <1>10

LEMMA TripStep ==
    ASSUME MacTypes, TripInv, [Next]_vars
    PROVE  TripInv'
<1> DEFINE U == Wanted
           Goal == /\ status' # "failed"
                   /\ status' = "reading" => \E n \in 0 .. Len(U) : /\ out' = SubSeq(U, 1, n)
                                                                   /\ at' = Len(TextOf(n)) + 1
                   /\ status' = "done" => out' = U \o <<NUL>>
<1>1. UNCHANGED <<text, macro, tostdout, stripspace>>
      BY MacOutcome
<1>2. SUFFICES ASSUME PlainMacro PROVE Goal
      <2>0. PlainMacro' = PlainMacro
            BY <1>1 DEF PlainMacro
      <2>1. Spellings(Wanted)' = Spellings(Wanted) /\ Wanted' = U
            BY <1>1 DEF Wanted
      <2>2. \A n : TextOf(n)' = TextOf(n)
            BY <2>1 DEF TextOf
      <2>3. Decompiles(Wanted)' = Decompiles(Wanted)
            BY <1>1 DEF Wanted
      <2>4. ASSUME Goal, PlainMacro PROVE TripInv'
            <3>1. /\ macro \in MacroFiles /\ Decompiles(Wanted)
                  /\ text = Joined(Spellings(Wanted)) /\ stripspace = FALSE
                  BY <2>4 DEF TripInv
            <3>2. MacroFiles' = MacroFiles
                  BY DEF MacroFiles
            <3>3. status' = "reading" => (\E n \in 0 .. Len(Wanted) :
                                             /\ out = SubSeq(Wanted, 1, n)
                                             /\ at = Len(TextOf(n)) + 1)'
                  BY <2>1, <2>2, <2>4
            <3> HIDE DEF U
            <3>4. QED BY <1>1, <2>0, <2>1, <2>3, <2>4, <3>1, <3>2, <3>3, Zenon DEF TripInv
      <2>5. ASSUME ~PlainMacro PROVE TripInv'
            BY <2>0, <2>5 DEF TripInv
      <2>6. QED BY <2>4, <2>5
<1>3. /\ macro \in MacroFiles /\ Decompiles(Wanted)
      /\ text = Joined(Spellings(Wanted)) /\ stripspace = FALSE
      /\ status # "failed"
      /\ status = "reading" => \E n \in 0 .. Len(U) : /\ out = SubSeq(U, 1, n)
                                                      /\ at = Len(TextOf(n)) + 1
      /\ status = "done" => out = U \o <<NUL>>
      BY <1>2 DEF TripInv
<1>4. CASE UNCHANGED vars
      BY <1>3, <1>4 DEF vars
<1>5. CASE Next
      <2>1. status = "reading"
            BY <1>5 DEF Next, StripSpace, Quote, MacroName, BadName, Comment, Ascii,
                        NonAsciiChar, BadChar, Finish, Plain, Reading
      <2>2. U \in Seq(Words) /\ Len(U) \in Nat
            BY <1>3, PrintedIs DEF Wanted
      <2>3. PICK n \in 0 .. Len(U) : out = SubSeq(U, 1, n) /\ at = Len(TextOf(n)) + 1
            BY <1>3, <2>1
      <2> HIDE DEF U
      <2>4. CASE n # Len(U)
            <3> DEFINE word == U[n + 1]
            <3>1. n \in 0 .. Len(Wanted) - 1 /\ word = Wanted[n + 1]
                  BY <2>2, <2>4 DEF U
            <3> HIDE DEF word
            <3>2. /\ word \in Words /\ Spelling(word) # <<Undefined>>
                  /\ Len(Spelling(word)) >= 1
                  /\ \A p \in 1 .. Len(Spelling(word)) : text[at + p - 1] = Spelling(word)[p]
                  /\ at + Len(Spelling(word)) - 1 <= Len(text)
                  /\ at + Len(Spelling(word)) = Len(TextOf(n + 1)) + 1
                  BY <1>3, <2>2, <2>3, <3>1, NextWord DEF U
            <3>3. ReadsBack(word)
                  BY <1>2, <1>3, <2>2, <3>1, WantedReadsBack
            <3>4. out' = Append(out, word) /\ at' = at + Len(Spelling(word)) /\ status' = "reading"
                  BY <1>3, <1>5, <2>1, <3>2, <3>3, WordIsRead
            <3>5. out' = SubSeq(U, 1, n + 1)
                  <4>1. word = U[n + 1] /\ n + 1 \in 1 .. Len(U)
                        BY <2>2, <2>4 DEF word
                  <4>2. Append(SubSeq(U, 1, n), U[n + 1]) = SubSeq(U, 1, n + 1)
                        BY <2>2, <4>1
                  <4>3. QED BY <2>3, <3>4, <4>1, <4>2
            <3>6. n + 1 \in 0 .. Len(U)
                  BY <2>2, <2>4
            <3>7. QED BY <3>2, <3>4, <3>5, <3>6
      <2>5. CASE n = Len(U)
            <3>1. /\ Spellings(Wanted) \in Seq(Seq(Letters))
                  /\ Len(Spellings(Wanted)) = n
                  BY <1>3, <2>2, <2>5, SpellingsAre DEF Texts, U
            <3>2. TextOf(n) = text
                  BY <1>3, <3>1, JoinedStarts DEF TextOf
            <3>3. at = Len(text) + 1 /\ Len(text) \in Nat
                  BY <2>3, <3>2 DEF MacTypes, Texts
            <3>4. Finish
                  BY <1>5, <3>3 DEF Next, StripSpace, Quote, MacroName, BadName, Comment, Ascii,
                                    NonAsciiChar, BadChar, Plain, Reading
            <3>5. out = U
                  BY <2>2, <2>3, <2>5
            <3>6. out' = Append(U, NUL) /\ status' = "done"
                  BY <3>4, <3>5 DEF Finish
            <3>7. U \in Seq(Words \cup {NUL})
                  BY <2>2, SeqMore
            <3>8. Append(U, NUL) = U \o <<NUL>>
                  BY <3>7, AppendIs
            <3>9. QED BY <3>6, <3>8
      <2>6. QED BY <2>4, <2>5
<1>6. QED BY <1>4, <1>5

LEMMA TripInit ==
    ASSUME Init
    PROVE  TripInv
<1> SUFFICES ASSUME PlainMacro PROVE TripInv
    BY DEF TripInv
<1>1. /\ macro \in MacroFiles /\ Decompiles(Wanted)
      /\ text = Decompiled(Wanted) /\ stripspace = FALSE
      BY DEF Init, PlainMacro, Wanted
<1>2. Wanted \in Seq(Words)
      BY <1>1, PrintedIs DEF Wanted
<1>3. text = Joined(Spellings(Wanted))
      BY <1>1, <1>2, DecompiledIs
<1>4. status = "reading" /\ at = 1 /\ out = <<>>
      BY DEF Init
<1>5. Spellings(Wanted) \in Seq(Seq(Letters))
      BY <1>1, <1>2, SpellingsAre DEF Texts
<1>6. TextOf(0) = <<>>
      BY <1>5, JoinedStarts DEF TextOf
<1>7. out = SubSeq(Wanted, 1, 0) /\ at = Len(TextOf(0)) + 1 /\ 0 \in 0 .. Len(Wanted)
      BY <1>2, <1>4, <1>6
<1>8. QED BY <1>1, <1>3, <1>4, <1>7 DEF TripInv

\* Decompiling a macro whose words need no escape and compiling the text gives
\* the same words, and a newline if the text went through stdout, for every
\* table of keys and of characters.
THEOREM CompilerRoundTrip == Spec => []RoundTrip
<1>1. TripInv => RoundTrip
      BY DEF TripInv, RoundTrip, PlainMacro, Wanted
<1>2. MacInv => MacTypes
      BY DEF MacInv
<1>3. MacTypes /\ TripInv /\ [Next]_vars => TripInv'
      BY TripStep
<1>4. QED BY TripInit, MacInvariant, <1>1, <1>2, <1>3, PTL DEF Spec
=============================================================================
