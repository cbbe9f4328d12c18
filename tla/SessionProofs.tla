--------------------------- MODULE SessionProofs ----------------------------
(***************************************************************************)
(* Proofs about Patch, for every set of sizes and delays and any number of *)
(* resizes, and about Session, whatever the tables of wp hold.             *)
(***************************************************************************)
EXTENDS Session, TLAPS

-----------------------------------------------------------------------------
(* Patch.                                                                  *)

\* The variables keep their types; in particular no sleep is ever negative
\* and no stage of the handler is left out of its order.
THEOREM PatchTypes == Spec => []TypeOK
<1>1. Init => TypeOK
  <2> SUFFICES ASSUME Init PROVE TypeOK
      OBVIOUS
  <2> USE PatchAssumption DEF Init
  <2>1. term \in Sizes /\ resizes \in 0 .. MaxResizes /\ tty \in BOOLEAN
        OBVIOUS
  <2>2. {w, wp, drawn} \subseteq Nat \X Nat
        BY <<0, 0>> \in Nat \X Nat
  <2>3. /\ phase \in {"shell", "lines", "exec", "running"}
        /\ environ \in Environments /\ notice \in {"early", "missed", "signalled"}
        /\ pending \in BOOLEAN
        /\ handler \in {"none", "fetch", "resize", "draw"}
        /\ main \in {"busy", "asleep", "woken"}
        /\ errno \in {"EINTR", "other"}
        OBVIOUS
  <2>4. {asked, left, elapsed} \subseteq Nat
        OBVIOUS
  <2>5. QED BY <2>1, <2>2, <2>3, <2>4 DEF TypeOK
<1>2. TypeOK /\ [Next]_vars => TypeOK'
  <2> SUFFICES ASSUME TypeOK, [Next]_vars PROVE TypeOK'
      OBVIOUS
  <2> USE PatchAssumption DEF TypeOK, terminal, sizes, delay
  <2>1. CASE AskColumns \/ AskLines \/ Start
    <3>1. Dimension(1) \in Nat /\ Dimension(2) \in Nat
          BY DEF Dimension, Unset
    <3>2. {w, wp, drawn}' \subseteq Nat \X Nat
      <4>1. CASE AskColumns
            BY <3>1, <4>1 DEF AskColumns
      <4>2. CASE AskLines
            BY <3>1, <4>2 DEF AskLines
      <4>3. CASE Start
            BY <4>3 DEF Start
      <4>4. QED BY <2>1, <4>1, <4>2, <4>3
    <3>3. QED BY <2>1, <3>2 DEF AskColumns, AskLines, Start
  <2>2. CASE ResizeTerminal
        BY <2>2 DEF ResizeTerminal
  <2>3. CASE Deliver
        BY <2>3 DEF Deliver
  <2>4. CASE FetchFails
        BY <2>4 DEF FetchFails, Return
  <2>5. CASE Fetch
        BY <2>5 DEF Fetch, Sane, Max2
  <2>6. CASE Resize
        BY <2>6 DEF Resize
  <2>7. CASE Redraw
        BY <2>7 DEF Redraw, Return
  <2>8. CASE \E d \in Delays : StartDelay(d)
        BY <2>8 DEF StartDelay
  <2>9. CASE Tick \/ WakeUp \/ TestErrno
        BY <2>9 DEF Tick, WakeUp, TestErrno
  <2>10. CASE UNCHANGED vars
         BY <2>10 DEF vars
  <2>11. QED
         BY <2>1, <2>2, <2>3, <2>4, <2>5, <2>6, <2>7, <2>8, <2>9, <2>10 DEF Next
<1>3. QED BY <1>1, <1>2, PTL DEF Spec

-----------------------------------------------------------------------------
(* The size.  After a resize that was signalled each stage of the handler   *)
(* holds the current size unless a signal is pending; before any resize wp  *)
(* has what wp8.sh passed.                                                  *)

\* What wp8.sh has got right if the window was left alone since.
Passed ==
    /\ phase = "lines" => wp = <<Dimension(1), 0>>
    /\ phase \in {"exec", "running"} => wp = <<Dimension(1), Dimension(2)>>

\* What each stage has got right when no signal is pending.
Handled ==
    /\ handler = "none" => wp = Sane(term)
    /\ handler = "resize" => w = Sane(term)
    /\ handler = "draw" => wp = Sane(term)

SizeInv ==
    /\ phase \in {"shell", "lines", "exec", "running"}
    /\ notice \in {"early", "missed", "signalled"}
    /\ phase = "shell" => notice = "early"
    /\ notice = "signalled" => phase = "running"
    /\ phase # "running" \/ notice = "early" => handler = "none" /\ ~pending
    /\ phase \in {"exec", "running"} /\ handler # "draw" => drawn = wp
    /\ notice = "early" => Passed
    /\ ~pending /\ tty /\ notice = "signalled" => Handled

LEMMA SizeInvStep ==
    ASSUME SizeInv, [Next]_vars
    PROVE  SizeInv'
<1> USE DEF SizeInv, Passed, Handled, Dimension, terminal, sizes, delay
<1>1. CASE AskColumns \/ AskLines \/ Start
      BY <1>1 DEF AskColumns, AskLines, Start
<1>2. CASE ResizeTerminal
      BY <1>2 DEF ResizeTerminal
<1>3. CASE Deliver
      BY <1>3 DEF Deliver
<1>4. CASE FetchFails
      BY <1>4 DEF FetchFails, Return
<1>5. CASE Fetch
      BY <1>5 DEF Fetch
<1>6. CASE Resize
      BY <1>6 DEF Resize
<1>7. CASE Redraw
      BY <1>7 DEF Redraw, Return
<1>8. CASE \E d \in Delays : StartDelay(d)
      BY <1>8 DEF StartDelay
<1>9. CASE Tick \/ WakeUp \/ TestErrno
      BY <1>9 DEF Tick, WakeUp, TestErrno
<1>10. CASE UNCHANGED vars
      BY <1>10 DEF vars
<1>11. QED
      BY <1>1, <1>2, <1>3, <1>4, <1>5, <1>6, <1>7, <1>8, <1>9, <1>10 DEF Next

\* However many resizes coalesce into one signal, wp knows and has drawn the
\* size of the terminal whenever no signal is left to handle, once it has been
\* signalled, and what wp8.sh passed if there was no resize to see.
THEOREM SizeIsCurrent == Spec => []QuietIsCurrent
<1>1. Init => SizeInv
      BY DEF Init, SizeInv, Passed, Handled
<1>2. SizeInv /\ [Next]_vars => SizeInv'
      BY SizeInvStep
<1>3. SizeInv => QuietIsCurrent
      BY DEF SizeInv, Passed, Handled, QuietIsCurrent, Quiet, Told
<1>4. QED BY <1>1, <1>2, <1>3, PTL DEF Spec

-----------------------------------------------------------------------------
(* The delay.  What has been slept and what is left add up to what was     *)
(* asked for.                                                              *)

DelayInv ==
    /\ {asked, left, elapsed} \subseteq Nat
    /\ main \in {"busy", "asleep", "woken"}
    /\ main # "busy" => elapsed + left = asked

LEMMA DelayInvStep ==
    ASSUME DelayInv, [Next]_vars
    PROVE  DelayInv'
<1> USE DEF DelayInv, terminal, sizes, delay
<1>1. CASE AskColumns \/ AskLines \/ Start \/ ResizeTerminal
      BY <1>1 DEF AskColumns, AskLines, Start, ResizeTerminal
<1>2. CASE Deliver \/ FetchFails \/ Fetch \/ Resize
      BY <1>2 DEF Deliver, FetchFails, Fetch, Resize, Return
<1>3. CASE Redraw
      BY <1>3 DEF Redraw, Return
<1>4. ASSUME NEW d \in Delays, StartDelay(d) PROVE DelayInv'
      BY <1>4, PatchAssumption DEF StartDelay
<1>5. CASE Tick
      BY <1>5 DEF Tick
<1>6. CASE WakeUp \/ TestErrno
      BY <1>6 DEF WakeUp, TestErrno
<1>7. CASE UNCHANGED vars
      BY <1>7 DEF vars
<1>8. QED
      BY <1>1, <1>2, <1>3, <1>4, <1>5, <1>6, <1>7 DEF Next

LEMMA DelayInvHolds == Spec => []DelayInv
<1>1. Init => DelayInv
      BY DEF Init, DelayInv
<1>2. DelayInv /\ [Next]_vars => DelayInv'
      BY DelayInvStep
<1>3. QED BY <1>1, <1>2, PTL DEF Spec

\* Only two steps return from delay_millis, and neither counts time.
LEMMA ReturnSteps ==
    ASSUME DelayInv, [Next]_vars, main # "busy", main' = "busy"
    PROVE  /\ elapsed' = elapsed /\ asked' = asked
           /\ main = "asleep" => left = 0
           /\ main = "woken" => errno # "EINTR"
<1> USE DEF delay
<1>1. CASE WakeUp
      BY <1>1 DEF WakeUp
<1>2. CASE TestErrno
      BY <1>2 DEF TestErrno
<1>3. CASE AskColumns \/ AskLines \/ Start \/ ResizeTerminal \/ Deliver \/ Fetch \/ Resize
      BY <1>3 DEF AskColumns, AskLines, Start, ResizeTerminal, Deliver, Fetch, Resize
<1>4. CASE FetchFails \/ Redraw
      BY <1>4 DEF FetchFails, Redraw, Return
<1>5. CASE Tick \/ \E d \in Delays : StartDelay(d)
      BY <1>5 DEF Tick, StartDelay
<1>6. CASE UNCHANGED vars
      BY <1>6 DEF vars
<1>7. QED BY <1>1, <1>2, <1>3, <1>4, <1>5, <1>6 DEF Next

\* Whatever interrupts it, whatever errno is and however often, no delay
\* takes longer than was asked for.
THEOREM DelaysAreNeverLate == Spec => DelayNeverLate
<1>1. DelayInv /\ [Next]_vars => (main # "busy" /\ main' = "busy" => elapsed' <= asked)
      BY ReturnSteps DEF DelayInv
<1>2. QED BY <1>1, DelayInvHolds, PTL DEF Spec, DelayNeverLate

-----------------------------------------------------------------------------
(* Session is Patch with more around it.                                   *)

LEMMA SessionStepIsPatchStep ==
    ASSUME [SessionNext]_sessionVars
    PROVE  [Next]_vars
<1>1. CASE PatchStep
      BY <1>1 DEF PatchStep, Delay, Next
<1>2. CASE _init
      BY <1>2 DEF _init, Next
<1>3. CASE Use
      BY <1>3 DEF Use
<1>4. ASSUME NEW byte, Gets(byte) PROVE UNCHANGED vars
      BY <1>4 DEF Gets
<1>5. CASE Key
      BY <1>4, <1>5 DEF Key
<1>6. CASE MouseEvent \/ Button \/ Column \/ Row
      BY <1>4, <1>6 DEF MouseEvent, Button, Column, Row, Msqot
<1>7. CASE UNCHANGED sessionVars
      BY <1>7 DEF sessionVars
<1>8. QED BY <1>1, <1>2, <1>3, <1>5, <1>6, <1>7 DEF SessionNext

\* What patch.c adds besides, the keys, the mouse and redirects that may be
\* refused, leaves the handler and the delays to behave as in Patch, which is
\* why all that is proved of Patch holds of the whole.
THEOREM SessionImplementsPatch == SessionSpec => Spec
<1>1. SessionInit => Init
      BY DEF SessionInit
<1>2. [SessionNext]_sessionVars => [Next]_vars
      BY SessionStepIsPatchStep
<1>3. QED BY <1>1, <1>2, PTL DEF SessionSpec, SessionFairness, Spec

\* However many resizes coalesce while keys are mapped and clicks are read,
\* wp knows and has drawn the size it was told last whenever none is left.
THEOREM SizeIsCurrentInSession == SessionSpec => []QuietIsCurrent
BY SizeIsCurrent, SessionImplementsPatch, PTL

\* Nor does any of it make a delay longer than was asked for.
THEOREM DelaysAreNeverLateInSession == SessionSpec => DelayNeverLate
BY DelaysAreNeverLate, SessionImplementsPatch, PTL

-----------------------------------------------------------------------------
(* The key mapping.                                                        *)

Keyboard == [lastkey : Nat, scnbuf : Nat, kybdnam : Nat, wpc : Nat]

LEMMA KeyArithmetic ==
    ASSUME NEW code \in Nat
    PROVE  /\ KeyChar(code) \in Nat /\ KeyWpc(code) \in Nat /\ Swapped(code) \in Nat
           /\ KeyType(code) = KEY_SETNUM => ~OneByte(code)
BY SMT DEF KeyChar, KeyWpc, Swapped, KeyType, KEY_SETNUM, OneByte

LEMMA LookupTypes ==
    ASSUME NEW code \in Nat, NEW value \in Nat, NEW table \in {"ch_tab", "ex_tab"}
    PROVE  lukupes(code, table, value) \in [found : BOOLEAN, value : Nat]
BY MapKeyAssumption, KeyArithmetic DEF lukupes

LEMMA OutcomeTypes ==
    ASSUME NEW kb \in Keyboard, NEW wpc \in Nat
    PROVE  /\ Keeps(kb, wpc) \in Keyboard /\ Keeps(kb, wpc).wpc = wpc
           /\ Clears(kb, wpc) \in Keyboard /\ Clears(kb, wpc).scnbuf = 0
           /\ Returns(kb, wpc) \in Keyboard
           /\ Returns(kb, wpc).wpc = 0 => Returns(kb, wpc).scnbuf = 0
BY DEF Keeps, Clears, Returns, Keyboard

\* An outcome of which the rest of the proof needs to know no more.
Undone(kb) == kb \in Keyboard /\ (kb.wpc = 0 => kb.scnbuf = 0)

LEMMA OutcomesUndo ==
    ASSUME NEW kb \in Keyboard, NEW wpc \in Nat
    PROVE  /\ Returns(kb, wpc) \in Keyboard /\ Undone(Returns(kb, wpc))
           /\ Undone(Clears(kb, wpc))
           /\ wpc # 0 => Undone(Keeps(kb, wpc))
BY OutcomeTypes DEF Undone

LEMMA FunctionKeyUndoes ==
    ASSUME NEW code \in Nat, NEW kb \in Keyboard
    PROVE  Undone(FunctionKey(code, kb))
<1> DEFINE entry == lukupes(Swapped(code), "ex_tab", Swapped(code))
<1>2. entry \in [found : BOOLEAN, value : Nat]
      BY KeyArithmetic, LookupTypes
<1>3. CASE entry.value = 3 \/ (entry.found /\ entry.value # 0)
      BY <1>2, <1>3, OutcomesUndo DEF FunctionKey
<1>4. CASE ~(entry.value = 3 \/ (entry.found /\ entry.value # 0))
      BY <1>4, OutcomesUndo DEF FunctionKey
<1>5. QED BY <1>3, <1>4

LEMMA ExtendedKeyUndoes ==
    ASSUME NEW code \in Nat, NEW kb \in Keyboard
    PROVE  Undone(ExtendedKey(code, kb))
<1> DEFINE entry == lukupes(code, "ch_tab", 0)
           last  == [kb EXCEPT !.lastkey = KeyChar(code)]
<1>1. entry \in [found : BOOLEAN, value : Nat]
      BY LookupTypes
<1>2. last \in Keyboard
      BY KeyArithmetic DEF Keyboard
<1>3. CASE entry.found
  <2>1. ExtendedKey(code, kb) = Returns(kb, entry.value)
        BY <1>3 DEF ExtendedKey
  <2>2. QED BY <2>1, <1>1, OutcomesUndo
<1>4. CASE ~entry.found /\ code = RESET
  <2>1. ExtendedKey(code, kb) = ResetKeyboard(kb)
        BY <1>4 DEF ExtendedKey
  <2>2. [kb EXCEPT !.kybdnam = 0] \in Keyboard
        BY DEF Keyboard
  <2>3. QED BY <2>1, <2>2, OutcomesUndo DEF ResetKeyboard
<1>5. CASE ~entry.found /\ code # RESET
  <2>1. ExtendedKey(code, kb) = findwp(code, last, Clears(last, 0))
        BY <1>5 DEF ExtendedKey
  <2>2. CASE KeyChar(code) \in DOMAIN Findwp
    <3>1. Findwp[KeyChar(code)] \in Nat \ {0}
          BY <2>2, MapKeyAssumption
    <3>2. QED BY <2>1, <2>2, <3>1, <1>2, OutcomesUndo DEF findwp
  <2>3. CASE KeyChar(code) \notin DOMAIN Findwp
        BY <2>1, <2>3, <1>2, OutcomesUndo DEF findwp
  <2>4. QED BY <2>2, <2>3
<1>6. QED BY <1>3, <1>4, <1>5

LEMMA SpecialKeyUndoes ==
    ASSUME NEW code \in Nat, NEW kb \in Keyboard
    PROVE  Undone(SpecialKey(code, kb))
<1> DEFINE c     == KeyChar(code)
           table == Special[IF c > 31 THEN "np_tab" ELSE "cc_tab"]
<1>1. CASE c > 47 \/ c = 32 \/ code \notin DOMAIN table
      BY <1>1, ExtendedKeyUndoes DEF SpecialKey
<1>2. CASE ~(c > 47 \/ c = 32 \/ code \notin DOMAIN table)
  <2>1. table[code] \in Nat
        BY <1>2, MapKeyAssumption
  <2>2. QED BY <1>2, <2>1, OutcomesUndo DEF SpecialKey
<1>3. QED BY <1>1, <1>2

\* What the mapping of a key with its table is.
KeyOutcome(code, kb) ==
    IF KeyType(code) = KEY_SETNUM /\ KeyChar(code) # 224 THEN kb.wpc = KeyWpc(code)
    ELSE kb.wpc = 0 /\ ~OneByte(code) => kb.scnbuf = 0

LEMMA MapKeyOutcome ==
    ASSUME NEW code \in Nat, NEW kb \in Keyboard
    PROVE  MapKey(code, kb) \in Keyboard /\ KeyOutcome(code, MapKey(code, kb))
<1> DEFINE c == KeyChar(code)
           set == KeyType(code) = KEY_SETNUM
<1>0. /\ c \in Nat /\ KeyWpc(code) \in Nat
      /\ set => ~OneByte(code)
      BY KeyArithmetic
<1>1. CASE c = 0 /\ ~set
  <2>1. MapKey(code, kb) = FunctionKey(code, kb)
        BY <1>1 DEF MapKey
  <2>2. QED BY <2>1, <1>1, FunctionKeyUndoes DEF KeyOutcome, Undone
<1>2. CASE c # 0 /\ OneByte(code)
  <2> DEFINE last == [kb EXCEPT !.lastkey = code]
  <2>1. MapKey(code, kb) = findwp(code, last, Keeps(last, 0))
        BY <1>0, <1>2 DEF MapKey, PlainKey
  <2>2. last \in Keyboard
        BY DEF Keyboard
  <2>3. findwp(code, last, Keeps(last, 0)) \in Keyboard
        BY <2>2, OutcomeTypes, MapKeyAssumption DEF findwp
  <2>4. QED BY <2>1, <2>3, <1>0, <1>2 DEF KeyOutcome
<1>3. CASE c = 224 /\ ~OneByte(code)
  <2>1. CASE code \in DOMAIN Special["e0_tab"]
    <3>1. MapKey(code, kb) = Returns(kb, Special["e0_tab"][code])
          BY <1>3, <2>1 DEF MapKey
    <3>2. Special["e0_tab"][code] \in Nat
          BY <2>1, MapKeyAssumption
    <3>3. Undone(MapKey(code, kb))
          BY <3>1, <3>2, OutcomesUndo
    <3>4. QED BY <3>3, <1>3 DEF KeyOutcome, Undone
  <2>2. CASE code \notin DOMAIN Special["e0_tab"]
    <3>1. MapKey(code, kb) = FunctionKey(code, kb)
          BY <1>3, <2>2 DEF MapKey
    <3>2. QED BY <3>1, <1>3, FunctionKeyUndoes DEF KeyOutcome, Undone
  <2>3. QED BY <2>1, <2>2
<1>4. CASE c # 224 /\ set
  <2>1. MapKey(code, kb) = Keeps(kb, KeyWpc(code))
        BY <1>0, <1>4 DEF MapKey
  <2> DEFINE kept == MapKey(code, kb)
             wpc == KeyWpc(code)
  <2>2. wpc \in Nat
        BY <1>0
  <2>3. Keeps(kb, wpc) \in Keyboard /\ Keeps(kb, wpc).wpc = wpc
    <3> HIDE DEF wpc
    <3>1. QED BY <2>2, OutcomeTypes DEF Keeps, Keyboard
  <2>4. kept \in Keyboard /\ kept.wpc = wpc
        BY <2>1, <2>3
  <2> HIDE DEF kept
  <2>5. KeyOutcome(code, kept)
        BY <1>4, <2>4 DEF KeyOutcome
  <2>6. QED BY <2>4, <2>5 DEF kept
<1>5. CASE ~set /\ c # 0 /\ ~OneByte(code) /\ c # 224
  <2>1. MapKey(code, kb) = SpecialKey(code, kb)
        BY <1>0, <1>5 DEF MapKey
  <2>2. QED BY <2>1, <1>5, SpecialKeyUndoes DEF KeyOutcome, Undone
<1>6. QED BY <1>0, <1>1, <1>2, <1>3, <1>4, <1>5

\* wp's own mapping keeps the types, too, which is all that is known of it.
LEMMA MapKeyOfWpType ==
    ASSUME NEW code \in Nat, NEW kb \in Keyboard
    PROVE  MapKeyOfWp(code, kb) \in Keyboard
<1>1. KeyWpc(code) \in Nat
      BY KeyArithmetic
<1>2. QED BY <1>1, FunctionKeyUndoes, SpecialKeyUndoes, OutcomeTypes DEF MapKeyOfWp, Undone

\* Before _init has run nothing was mapped by either mapping.
KeyInv ==
    /\ keyboard \in Keyboard /\ \E S : taken \in Seq(S)
    /\ phase # "running" => taken = <<>>
    /\ KeysAreMapped

LEMMA AppendLast ==
    ASSUME NEW s, NEW e, \E S : s \in Seq(S)
    PROVE  /\ \E S : Append(s, e) \in Seq(S)
           /\ Append(s, e) # <<>> /\ Last(Append(s, e)) = e
<1>1. PICK S : s \in Seq(S)
      OBVIOUS
<1>2. s \in Seq(S \cup {e})
      BY <1>1
<1>3. Append(s, e) \in Seq(S \cup {e}) /\ Append(s, e) # <<>> /\ Last(Append(s, e)) = e
      BY <1>2 DEF Last
<1>4. QED BY <1>3

LEMMA KeyInvStep ==
    ASSUME KeyInv, [SessionNext]_sessionVars
    PROVE  KeyInv'
<1>1. CASE PatchStep /\ UNCHANGED <<redirected, user, mouseVars, keyVars>>
  <2>1. phase = "running" => phase' = "running"
        BY <1>1 DEF PatchStep, AskColumns, AskLines, ResizeTerminal, Deliver, FetchFails, Fetch, Resize,
                    Redraw, Delay, StartDelay, Tick, WakeUp, TestErrno
  <2>2. UNCHANGED <<redirected, keyboard, taken>>
        BY <1>1 DEF keyVars
  <2>3. QED BY <2>1, <2>2 DEF KeyInv, KeysAreMapped
<1>2. CASE _init
  <2>1. taken = <<>> /\ UNCHANGED <<keyboard, taken>> /\ phase' = "running"
        BY <1>2 DEF _init, Start, keyVars, KeyInv
  <2>2. QED BY <2>1 DEF KeyInv, KeysAreMapped
<1>3. CASE Use
  <2>1. UNCHANGED <<redirected, phase, keyboard, taken>>
        BY <1>3 DEF Use, vars, keyVars
  <2>2. QED BY <2>1 DEF KeyInv, KeysAreMapped
<1>4. ASSUME NEW byte, Gets(byte)
      PROVE  phase = "running" /\ UNCHANGED <<phase, redirected>>
      BY <1>4 DEF Gets, vars
<1>5. CASE Key
  <2>1. PICK code \in Keys :
          /\ Gets(code)
          /\ keyboard' = IF "mapkey" \in redirected
                         THEN MapKey(code, [keyboard EXCEPT !.scnbuf = code])
                         ELSE MapKeyOfWp(code, [keyboard EXCEPT !.scnbuf = code])
          /\ taken' = Append(taken, [kind |-> "key", code |-> code])
        BY <1>5 DEF Key, Takes
  <2> DEFINE scanned == [keyboard EXCEPT !.scnbuf = code]
             event   == [kind |-> "key", code |-> code]
  <2>2. code \in Nat
        BY SessionAssumption
  <2>3. scanned \in Keyboard
        BY <2>2 DEF KeyInv, Keyboard
  <2>5. (\E S : taken' \in Seq(S)) /\ Last(taken') = event
        BY <2>1, AppendLast DEF KeyInv
  <2>6. keyboard' \in Keyboard
        BY <2>1, <2>2, <2>3, MapKeyOutcome, MapKeyOfWpType
  <2>7. "mapkey" \in redirected => KeyOutcome(code, keyboard')
        BY <2>1, <2>2, <2>3, MapKeyOutcome
  <2>8. KeysAreMapped'
        BY <2>1, <1>4, <2>5, <2>7 DEF KeysAreMapped, KeyOutcome
  <2>9. QED BY <2>1, <1>4, <2>5, <2>6, <2>8 DEF KeyInv
<1>6. CASE MouseEvent \/ Button \/ Column
  <2>1. UNCHANGED <<keyboard, taken, phase, redirected>>
        BY <1>4, <1>6 DEF MouseEvent, Button, Column, Msqot, keyVars
  <2>2. QED BY <2>1 DEF KeyInv, KeysAreMapped
<1>7. CASE Row
  <2> DEFINE event == [kind |-> "click", at |-> <<mouse_x, mouse_y'>>]
  <2>1. /\ UNCHANGED <<keyboard, phase, redirected>> /\ phase = "running"
        /\ taken' = Append(taken, event)
        BY <1>4, <1>7 DEF Row, Msqot, Takes
  <2>3. (\E S : taken' \in Seq(S)) /\ Last(taken') = event
        BY <2>1, AppendLast DEF KeyInv
  <2>4. KeysAreMapped'
        BY <2>3 DEF KeysAreMapped
  <2>5. QED BY <2>1, <2>3, <2>4 DEF KeyInv
<1>8. CASE UNCHANGED sessionVars
  <2>1. UNCHANGED <<keyboard, taken, phase, redirected>>
        BY <1>8 DEF sessionVars, vars, keyVars
  <2>2. QED BY <2>1 DEF KeyInv, KeysAreMapped
<1>9. QED BY <1>1, <1>2, <1>3, <1>5, <1>6, <1>7, <1>8 DEF SessionNext

\* With the redirect in place every character of a set can be entered by its
\* number, the zeroth included, and no other way through the mapping reports an
\* error and leaves the scan buffer as it is, whatever wp's tables hold.
THEOREM KeysMapped == SessionSpec => []KeysAreMapped
<1>1. SessionInit => KeyInv
      BY DEF SessionInit, Init, KeyInv, Keyboard, KeysAreMapped
<1>2. KeyInv /\ [SessionNext]_sessionVars => KeyInv'
      BY KeyInvStep
<1>3. KeyInv => KeysAreMapped
      BY DEF KeyInv
<1>4. QED BY <1>1, <1>2, <1>3, PTL DEF SessionSpec

-----------------------------------------------------------------------------
(* The input.  The events that wp has not taken yet stand in it one behind *)
(* the other: event i of ev from the place p[i] on, the first of them, f,  *)
(* behind the bytes that are left of the click that is being read.         *)

Size(e) == IF e.kind = "key" THEN 1 ELSE 4

Spelt(s, q, e) ==
    IF e.kind = "key" THEN s[q] = e.code
    ELSE /\ s[q] = Mouse
         /\ s[q + 2] = e.at[1] + 33 /\ s[q + 3] = e.at[2] + 33

LaidOut(p, s, ev, f, rest) ==
    /\ p \in [Nat -> Int]
    /\ p[f] = rest + 1 /\ p[Len(ev) + 1] = Len(s) + 1
    /\ \A i, j \in f .. Len(ev) + 1 : i <= j => p[i] <= p[j]
    /\ \A i \in f .. Len(ev) : p[i + 1] = p[i] + Size(ev[i]) /\ Spelt(s, p[i], ev[i])

Left == IF reading = "nothing" THEN 0 ELSE IF reading = "button" THEN 3
        ELSE IF reading = "x" THEN 2 ELSE 1
Next_ == Len(taken) + IF reading = "nothing" THEN 1 ELSE 2

\* The click that is being read, of which the rest comes first.
Halfway ==
    reading # "nothing" =>
        LET e == sent[Len(taken) + 1]
        IN  /\ e.kind = "click"
            /\ reading = "button" => input[2] = e.at[1] + 33 /\ input[3] = e.at[2] + 33
            /\ reading = "x" => input[1] = e.at[1] + 33 /\ input[2] = e.at[2] + 33
            /\ reading = "y" => input[1] = e.at[2] + 33 /\ mouse_x = e.at[1]

InputTypes ==
    /\ input \in Seq(Int) /\ sent \in Seq(Events) /\ taken \in Seq(Events) /\ todo \in Seq(Events)
    /\ reading \in {"nothing", "button", "x", "y"}

Waiting == \E p : LaidOut(p, input, sent, Next_, Left)

InputInv ==
    /\ InputTypes
    /\ Next_ <= Len(sent) + 1
    /\ \A j \in 1 .. Len(taken) : taken[j] = sent[j]
    /\ Halfway
    /\ Waiting

-----------------------------------------------------------------------------
\* What an event is.
LEMMA EventIs ==
    ASSUME NEW e \in Events
    PROVE  \/ e.kind = "key" /\ e.code \in Nat /\ e = [kind |-> "key", code |-> e.code]
           \/ /\ e.kind = "click" /\ e.at[1] \in 0 .. 222 /\ e.at[2] \in 0 .. 222
              /\ e = [kind |-> "click", at |-> <<e.at[1], e.at[2]>>]
<1>1. CASE e \in [kind : {"key"}, code : Keys]
  <2>1. e.kind = "key" /\ e.code \in Keys /\ e = [kind |-> "key", code |-> e.code]
        BY <1>1
  <2>2. QED BY <2>1, SessionAssumption DEF SessionAssumption
<1>2. CASE e \in [kind : {"click"}, at : Clicks]
  <2>1. e.kind = "click" /\ e.at \in Clicks /\ e = [kind |-> "click", at |-> e.at]
        BY <1>2
  <2>2. e.at \in (0 .. 222) \X (0 .. 222)
        BY <2>1, SessionAssumption DEF SessionAssumption
  <2>3. e.at[1] \in 0 .. 222 /\ e.at[2] \in 0 .. 222 /\ e.at = <<e.at[1], e.at[2]>>
        BY <2>2
  <2>4. QED BY <2>1, <2>3
<1>3. QED BY <1>1, <1>2 DEF Events

\* The first byte is read: what stands behind it moves up by one.
LEMMA MovesUp ==
    ASSUME NEW p, NEW s \in Seq(Int), s # <<>>, NEW ev \in Seq(Events), NEW f \in Nat \ {0}, NEW rest \in Nat,
           LaidOut(p, s, ev, f, rest),
           NEW g \in Nat, NEW l \in Nat, f <= g, g <= Len(ev) + 1, p[g] = l + 2
    PROVE  LaidOut([i \in Nat |-> p[i] - 1], Tail(s), ev, g, l)
<1> DEFINE r == [i \in Nat |-> p[i] - 1]
           n == Len(ev)
<1>a. n \in Nat /\ Len(s) \in Nat
      OBVIOUS
<1>1. /\ p \in [Nat -> Int] /\ p[n + 1] = Len(s) + 1
      /\ \A i, j \in f .. n + 1 : i <= j => p[i] <= p[j]
      /\ \A i \in f .. n : p[i + 1] = p[i] + Size(ev[i]) /\ Spelt(s, p[i], ev[i])
      BY DEF LaidOut
<1>2. /\ Tail(s) \in Seq(Int) /\ Len(Tail(s)) = Len(s) - 1 /\ Len(s) \in Nat
      /\ \A q \in 1 .. Len(s) - 1 : Tail(s)[q] = s[q + 1]
      OBVIOUS
<1>b. p \in [Nat -> Int]
      BY <1>1
<1>3. r \in [Nat -> Int] /\ \A i \in Nat : r[i] = p[i] - 1
  <2> HIDE DEF n
  <2>1. \A i \in Nat : p[i] - 1 \in Int
        BY <1>b
  <2>2. QED BY <2>1
<1> HIDE DEF r, n
<1>4. \A i \in g .. n + 1 : i \in Nat /\ i \in f .. n + 1
      BY <1>a
<1>5. \A i, j \in g .. n + 1 : i <= j => r[i] <= r[j]
  <2> TAKE i, j \in g .. n + 1
  <2>1. i <= j => p[i] <= p[j]
        BY <1>1, <1>4
  <2>2. r[i] = p[i] - 1 /\ r[j] = p[j] - 1 /\ p[i] \in Int /\ p[j] \in Int
        BY <1>1, <1>3, <1>4
  <2>3. QED BY <2>1, <2>2
<1>6. ASSUME NEW i \in g .. n
      PROVE  r[i + 1] = r[i] + Size(ev[i]) /\ Spelt(Tail(s), r[i], ev[i])
  <2>1. i \in f .. n /\ i \in Nat /\ i + 1 \in Nat /\ i \in g .. n + 1 /\ i + 1 \in g .. n + 1
        /\ g \in g .. n + 1 /\ n + 1 \in g .. n + 1
        BY <1>a
  <2>2. p[i + 1] = p[i] + Size(ev[i]) /\ Spelt(s, p[i], ev[i])
        BY <1>1, <2>1
  <2>3. r[i] = p[i] - 1 /\ r[i + 1] = p[i + 1] - 1 /\ p[i] \in Int /\ p[i + 1] \in Int
        BY <1>1, <1>3, <2>1
  <2>4. p[g] <= p[i] /\ p[i + 1] <= p[n + 1]
    <3>1. g \in f .. n + 1 /\ i \in f .. n + 1 /\ i + 1 \in f .. n + 1 /\ n + 1 \in f .. n + 1
          BY <1>4, <2>1
    <3>2. g <= i /\ i + 1 <= n + 1
          BY <1>a, <2>1
    <3>3. QED BY <1>1, <3>1, <3>2
  <2>5. 2 <= p[i] /\ p[i + 1] <= Len(s) + 1
    <3>1. p[g] = l + 2 /\ p[n + 1] = Len(s) + 1
          BY <1>1 DEF n
    <3>2. l + 2 <= p[i] /\ p[i + 1] <= Len(s) + 1
          BY <2>4, <3>1
    <3> DEFINE a == p[i]
    <3>a. a \in Int /\ l + 2 <= a
          BY <2>3, <3>2
    <3> HIDE DEF a
    <3>b. 2 <= a
          BY <3>a
    <3>3. QED BY <3>2, <3>b DEF a
  <2>6. Size(ev[i]) \in {1, 4} /\ (ev[i].kind = "key" <=> Size(ev[i]) = 1)
        BY DEF Size
  <2>7. r[i + 1] = r[i] + Size(ev[i])
    <3> DEFINE a == p[i]
               z == Size(ev[i])
    <3>1. a \in Int /\ z \in {1, 4} /\ r[i] = a - 1 /\ r[i + 1] = (a + z) - 1
          BY <2>2, <2>3, <2>6
    <3> HIDE DEF a, z
    <3>2. r[i + 1] = r[i] + z
          BY <3>1
    <3>3. QED BY <3>2 DEF z
  <2> DEFINE q == p[i]
  <2> HIDE DEF q
  <2>8. q \in Int /\ 2 <= q /\ q + Size(ev[i]) <= Len(s) + 1 /\ r[i] = q - 1
        BY <2>2, <2>3, <2>5 DEF q
  <2> DEFINE m == Len(s)
  <2>a. m \in Nat
        BY <1>a
  <2>b. q + Size(ev[i]) <= m + 1
        BY <2>8
  <2> HIDE DEF m
  <2>9. CASE ev[i].kind = "key"
    <3>1. q - 1 \in 1 .. m - 1 /\ (q - 1) + 1 = q
          BY <2>a, <2>b, <2>6, <2>8, <2>9
    <3>2. Tail(s)[q - 1] = s[q]
          BY <1>2, <3>1 DEF m
    <3>3. QED BY <2>2, <2>7, <2>8, <2>9, <3>2 DEF Spelt, q
  <2>10. CASE ev[i].kind # "key"
    <3>a. Size(ev[i]) = 4
          BY <2>6, <2>10
    <3>1. /\ q - 1 \in 1 .. m - 1 /\ (q - 1) + 1 = q
          /\ (q - 1) + 2 \in 1 .. m - 1 /\ ((q - 1) + 2) + 1 = q + 2
          /\ (q - 1) + 3 \in 1 .. m - 1 /\ ((q - 1) + 3) + 1 = q + 3
          BY <2>a, <2>b, <2>8, <3>a
    <3>2. /\ Tail(s)[q - 1] = s[q] /\ Tail(s)[(q - 1) + 2] = s[q + 2]
          /\ Tail(s)[(q - 1) + 3] = s[q + 3]
          BY <1>2, <3>1 DEF m
    <3>3. QED BY <2>2, <2>7, <2>8, <2>10, <3>2 DEF Spelt, q
  <2>11. QED BY <2>9, <2>10
<1>7. r[g] = l + 1
  <2>1. r[g] = p[g] - 1
        BY <1>3
  <2>2. QED BY <2>1
<1>8. r[n + 1] = Len(Tail(s)) + 1
  <2>1. n + 1 \in Nat
        BY <1>a
  <2>2. r[n + 1] = p[n + 1] - 1
        BY <1>3, <2>1
  <2>3. QED BY <1>1, <1>2, <2>2
<1>9. QED BY <1>3, <1>5, <1>6, <1>7, <1>8 DEF LaidOut, r, n

\* The bytes of an event spell it.
LEMMA BytesAre ==
    ASSUME NEW e \in Events
    PROVE  /\ Bytes(e) \in Seq(Int) /\ Len(Bytes(e)) = Size(e) /\ Size(e) \in {1, 4}
           /\ Spelt(Bytes(e), 1, e)
<1>1. CASE e.kind = "key"
  <2>1. e.code \in Int
        BY <1>1, EventIs
  <2>2. Bytes(e) = <<e.code>> /\ Size(e) = 1
        BY <1>1 DEF Bytes, Size
  <2>3. QED BY <1>1, <2>1, <2>2 DEF Spelt
<1>2. CASE e.kind = "click"
  <2>a. e.at[1] \in 0 .. 222 /\ e.at[2] \in 0 .. 222
    <3>1. e.kind # "key"
          BY <1>2
    <3>2. QED BY <3>1, EventIs
  <2>1. e.at[1] + 33 \in Int /\ e.at[2] + 33 \in Int
    <3> DEFINE x == e.at[1]
               y == e.at[2]
    <3>1. x \in 0 .. 222 /\ y \in 0 .. 222
          BY <2>a
    <3> HIDE DEF x, y
    <3>2. x + 33 \in Int /\ y + 33 \in Int
          BY <3>1
    <3>3. QED BY <3>2 DEF x, y
  <2>2. Bytes(e) = <<Mouse, 32, e.at[1] + 33, e.at[2] + 33>> /\ Size(e) = 4 /\ Mouse \in Int
        BY <1>2 DEF Bytes, Size, Mouse
  <2>3. 1 + 2 = 3 /\ 1 + 3 = 4
        OBVIOUS
  <2>4. QED BY <1>2, <2>1, <2>2, <2>3 DEF Spelt
<1>3. QED BY <1>1, <1>2, EventIs

\* The user does something: its bytes come last.
LEMMA ComesLast ==
    ASSUME NEW p, NEW s \in Seq(Int), NEW ev \in Seq(Events), NEW f \in Nat \ {0}, NEW rest \in Nat,
           LaidOut(p, s, ev, f, rest), f <= Len(ev) + 1, NEW e \in Events
    PROVE  LET n == Len(ev) + 1
           IN  LaidOut([p EXCEPT ![n + 1] = p[n] + Size(e)], s \o Bytes(e), Append(ev, e), f, rest)
<1> DEFINE n == Len(ev) + 1
           r == [p EXCEPT ![n + 1] = p[n] + Size(e)]
           t == s \o Bytes(e)
           ew == Append(ev, e)
<1>1. /\ p \in [Nat -> Int] /\ p[n] = Len(s) + 1 /\ p[f] = rest + 1
      /\ \A i, j \in f .. n : i <= j => p[i] <= p[j]
      /\ \A i \in f .. Len(ev) : p[i + 1] = p[i] + Size(ev[i]) /\ Spelt(s, p[i], ev[i])
      BY DEF LaidOut
<1>2. Len(ev) \in Nat /\ Len(s) \in Nat /\ n \in Nat /\ n + 1 \in Nat
      OBVIOUS
<1>3. /\ Len(ew) = n /\ ew[n] = e /\ \A i \in 1 .. Len(ev) : ew[i] = ev[i]
      OBVIOUS
<1>4. /\ Bytes(e) \in Seq(Int) /\ Len(Bytes(e)) = Size(e) /\ Size(e) \in {1, 4}
      /\ Spelt(Bytes(e), 1, e)
      BY BytesAre
<1>5. /\ t \in Seq(Int) /\ Len(t) = Len(s) + Size(e)
      /\ \A q \in 1 .. Len(s) : t[q] = s[q]
      /\ \A q \in 1 .. Size(e) : t[Len(s) + q] = Bytes(e)[q]
      BY <1>4
<1>6. r \in [Nat -> Int] /\ r[n + 1] = p[n] + Size(e) /\ \A i \in 0 .. n : r[i] = p[i]
  <2> DEFINE z == p[n] + Size(e)
             k == n + 1
  <2>1. k \in Nat /\ z \in Int
        BY <1>1, <1>2, <1>4
  <2>2. r = [p EXCEPT ![k] = z]
        OBVIOUS
  <2>3. \A i \in 0 .. n : i \in Nat /\ i # k
        BY <1>2
  <2> HIDE DEF z, k, r, n
  <2>4. r \in [Nat -> Int] /\ r[k] = z /\ \A i \in Nat : i # k => r[i] = p[i]
        BY <1>1, <2>1, <2>2
  <2>5. QED BY <2>3, <2>4 DEF z, k
<1> HIDE DEF r, t, ew, n
<1>7. r[f] = rest + 1 /\ r[n + 1] = Len(t) + 1
  <2>1. f \in 0 .. n /\ n \in 0 .. n
        BY <1>2 DEF n
  <2>2. QED BY <1>1, <1>2, <1>4, <1>5, <1>6, <2>1
<1>8. \A i, j \in f .. n + 1 : i <= j => r[i] <= r[j]
  <2> TAKE i, j \in f .. n + 1
  <2>1. CASE i \in f .. n /\ j \in f .. n
    <3>1. i \in 0 .. n /\ j \in 0 .. n
          BY <1>2, <2>1
    <3>2. QED BY <1>1, <1>6, <2>1, <3>1
  <2>2. CASE i \in f .. n /\ j = n + 1
    <3>1. i \in 0 .. n /\ n \in f .. n /\ i <= n /\ i \in Nat
          BY <1>2, <2>2
    <3>2. p[i] <= p[n]
          BY <1>1, <2>2, <3>1
    <3>a. r[i] = p[i] /\ p[i] \in Int /\ p[n] \in Int
          BY <1>1, <1>2, <1>6, <3>1
    <3>b. r[j] = p[n] + Size(e)
          BY <1>6, <2>2
    <3>c. p[n] <= p[n] + Size(e)
          BY <1>4, <3>a
    <3>d. r[j] \in Int
          BY <1>4, <3>a, <3>b
    <3>3. QED BY <1>4, <3>2, <3>a, <3>b
  <2>3. CASE i = n + 1 /\ j = n + 1
    <3>1. r[i] \in Int /\ r[j] = r[i]
          BY <1>2, <1>6, <2>3
    <3>2. QED BY <3>1
  <2>4. QED BY <1>2, <2>1, <2>2, <2>3
<1>9. ASSUME NEW i \in f .. n
      PROVE  r[i + 1] = r[i] + Size(ew[i]) /\ Spelt(t, r[i], ew[i])
  <2>1. CASE i = n
    <3>1. p[n] = Len(s) + 1 /\ r[n] = p[n] /\ ew[n] = e /\ r[n + 1] = p[n] + Size(e)
          BY <1>1, <1>2, <1>3, <1>6
    <3>2. CASE e.kind = "key"
      <4>1. Size(e) = 1 /\ t[Len(s) + 1] = Bytes(e)[1]
            BY <1>5, <3>2 DEF Size
      <4>2. Bytes(e)[1] = e.code
            BY <1>4, <3>2 DEF Spelt
      <4>3. QED BY <2>1, <3>1, <3>2, <4>1, <4>2 DEF Spelt
    <3>3. CASE e.kind # "key"
      <4>1. /\ Size(e) = 4 /\ t[Len(s) + 1] = Bytes(e)[1]
            /\ t[Len(s) + 3] = Bytes(e)[3] /\ t[Len(s) + 4] = Bytes(e)[4]
        <5>1. Size(e) = 4
              BY <3>3 DEF Size
        <5>2. 1 \in 1 .. Size(e) /\ 3 \in 1 .. Size(e) /\ 4 \in 1 .. Size(e)
              BY <5>1
        <5>3. QED BY <1>5, <5>1, <5>2
      <4>2. Bytes(e)[1] = Mouse /\ Bytes(e)[3] = e.at[1] + 33 /\ Bytes(e)[4] = e.at[2] + 33
        <5>1. 1 + 2 = 3 /\ 1 + 3 = 4
              OBVIOUS
        <5>2. QED BY <1>4, <3>3, <5>1 DEF Spelt
      <4>3. (Len(s) + 1) + 2 = Len(s) + 3 /\ (Len(s) + 1) + 3 = Len(s) + 4
            BY <1>2
      <4>4. QED BY <2>1, <3>1, <3>3, <4>1, <4>2, <4>3 DEF Spelt
    <3>4. QED BY <3>2, <3>3
  <2>2. CASE i \in f .. Len(ev)
    <3>1. /\ i \in 0 .. n /\ i + 1 \in 0 .. n /\ i \in f .. n /\ i + 1 \in f .. n
          /\ f \in f .. n /\ n \in f .. n
          BY <1>2, <2>2 DEF n
    <3>2. /\ r[i] = p[i] /\ r[i + 1] = p[i + 1] /\ p[i] \in Int /\ p[i + 1] \in Int
          /\ p[i + 1] = p[i] + Size(ev[i]) /\ Spelt(s, p[i], ev[i])
          BY <1>1, <1>6, <2>2, <3>1
    <3>a. f <= i /\ i + 1 <= n
          BY <1>2, <2>2 DEF n
    <3>3. p[f] <= p[i] /\ p[i + 1] <= p[n]
          BY <1>1, <3>1, <3>a
    <3> DEFINE q == p[i]
    <3> HIDE DEF q
    <3>4. Size(ev[i]) \in {1, 4} /\ (ev[i].kind = "key" <=> Size(ev[i]) = 1)
          BY DEF Size
    <3>5. q \in Int /\ 1 <= q /\ q + Size(ev[i]) <= Len(s) + 1
      <4> DEFINE z == Size(ev[i])
                 h == p[f]
                 k == p[n]
      <4>1. q \in Int /\ h <= q /\ q + z <= k
            BY <3>2, <3>3 DEF q
      <4>2. h = rest + 1 /\ k = Len(s) + 1
            BY <1>1
      <4> HIDE DEF z, h, k
      <4>3. rest + 1 <= q /\ q + z <= Len(s) + 1
            BY <4>1, <4>2
      <4>4. 1 <= q
            BY <4>1, <4>3
      <4>5. QED BY <4>1, <4>3, <4>4 DEF z
    <3>6. i >= 1
          BY <2>2
    <3>7. QED
      <4>1. ew[i] = ev[i]
            BY <1>2, <1>3, <2>2, <3>6
      <4>2. CASE ev[i].kind = "key"
        <5>1. q \in 1 .. Len(s)
              BY <1>2, <3>4, <3>5, <4>2
        <5>2. QED BY <1>5, <3>2, <4>1, <4>2, <5>1 DEF Spelt, q
      <4>3. CASE ev[i].kind # "key"
        <5>a. Size(ev[i]) = 4
              BY <3>4, <4>3
        <5>1. q \in 1 .. Len(s) /\ q + 2 \in 1 .. Len(s) /\ q + 3 \in 1 .. Len(s)
              BY <1>2, <3>5, <5>a
        <5>2. t[q] = s[q] /\ t[q + 2] = s[q + 2] /\ t[q + 3] = s[q + 3]
              BY <1>5, <5>1
        <5>3. QED BY <3>2, <4>1, <4>3, <5>2 DEF Spelt, q
      <4>4. QED BY <4>2, <4>3
  <2>3. QED BY <1>2, <2>1, <2>2 DEF n
<1>10. QED BY <1>3, <1>6, <1>7, <1>8, <1>9 DEF LaidOut, r, t, ew, n

\* What stands first.
LEMMA FirstOf ==
    ASSUME NEW p, NEW s \in Seq(Int), NEW ev \in Seq(Events), NEW f \in Nat \ {0}, NEW rest \in Nat,
           LaidOut(p, s, ev, f, rest), f <= Len(ev) + 1
    PROVE  /\ rest <= Len(s)
           /\ rest = 0 /\ s # <<>> =>
                  f <= Len(ev) /\ p[f + 1] = Size(ev[f]) + 1 /\ Size(ev[f]) <= Len(s) /\ Spelt(s, 1, ev[f])
<1> DEFINE n == Len(ev)
           m == Len(s)
<1>a. n \in Nat /\ m \in Nat /\ (s # <<>> => m # 0)
      OBVIOUS
<1>1. /\ p \in [Nat -> Int] /\ p[f] = rest + 1 /\ p[n + 1] = m + 1
      /\ \A i, j \in f .. n + 1 : i <= j => p[i] <= p[j]
      /\ \A i \in f .. n : p[i + 1] = p[i] + Size(ev[i]) /\ Spelt(s, p[i], ev[i])
      BY DEF LaidOut
<1>2. f <= n + 1
      OBVIOUS
<1> HIDE DEF n, m
<1>3. rest <= m
  <2>1. f \in f .. n + 1 /\ n + 1 \in f .. n + 1
        BY <1>a, <1>2
  <2>2. p[f] <= p[n + 1]
        BY <1>1, <1>2, <2>1
  <2>3. rest + 1 <= m + 1
        BY <1>1, <2>2
  <2>4. QED BY <1>a, <2>3
<1>4. ASSUME rest = 0, s # <<>>
      PROVE  f <= n /\ p[f + 1] = Size(ev[f]) + 1 /\ Size(ev[f]) <= m /\ Spelt(s, 1, ev[f])
  <2>1. f # n + 1
    <3>1. ASSUME f = n + 1 PROVE FALSE
      <4>1. 0 + 1 = m + 1
            BY <1>1, <1>4, <3>1
      <4>2. QED BY <1>a, <1>4, <4>1
    <3>2. QED BY <3>1
  <2>2. f <= n /\ f \in f .. n /\ f + 1 \in f .. n + 1 /\ n + 1 \in f .. n + 1 /\ f + 1 <= n + 1
        BY <1>a, <1>2, <2>1
  <2>3. p[f] = 1
        BY <1>1, <1>4
  <2>4. p[f + 1] = 1 + Size(ev[f]) /\ Spelt(s, 1, ev[f])
        BY <1>1, <2>2, <2>3
  <2>5. p[f + 1] <= p[n + 1]
        BY <1>1, <2>2
  <2>6. Size(ev[f]) \in {1, 4}
        BY DEF Size
  <2> DEFINE z == Size(ev[f])
  <2>7. 1 + z <= m + 1 /\ z \in {1, 4}
        BY <1>1, <2>4, <2>5, <2>6
  <2> HIDE DEF z
  <2>8. z <= m /\ 1 + z = z + 1
        BY <1>a, <2>7
  <2>9. QED BY <2>2, <2>4, <2>8 DEF z
<1>5. QED BY <1>3, <1>4 DEF n, m

\* At the start there is nothing.
LEMMA InputInvInit == SessionInit => InputInv
<1> SUFFICES ASSUME SessionInit PROVE InputInv
    OBVIOUS
<1>1. input = <<>> /\ sent = <<>> /\ taken = <<>> /\ reading = "nothing" /\ todo \in Inputs
      BY DEF SessionInit
<1>2. InputTypes
      BY <1>1, SessionAssumption DEF InputTypes, SessionAssumption
<1>3. Next_ = 1 /\ Left = 0 /\ Len(sent) = 0 /\ Len(input) = 0
      BY <1>1 DEF Next_, Left
<1>4. Waiting
  <2> DEFINE p == [i \in Nat |-> 1]
  <2>1. p \in [Nat -> Int] /\ p[1] = 1
        OBVIOUS
  <2>2. \A i, j \in 1 .. 1 : i <= j => p[i] <= p[j]
        BY <2>1
  <2>3. LaidOut(p, input, sent, 1, 0)
        BY <1>3, <2>1, <2>2 DEF LaidOut
  <2>4. QED BY <1>3, <2>3 DEF Waiting
<1>5. QED BY <1>1, <1>2, <1>3, <1>4 DEF InputInv, Halfway

\* While nothing is read and nothing done the input stays as it is.
LEMMA InputStays ==
    ASSUME InputInv, UNCHANGED <<input, sent, taken, todo, reading, mouse_x>>
    PROVE  InputInv'
<1>1. input' = input /\ sent' = sent /\ taken' = taken /\ todo' = todo
      /\ reading' = reading /\ mouse_x' = mouse_x
      OBVIOUS
<1>2. Next_' = Next_ /\ Left' = Left
      BY <1>1 DEF Next_, Left
<1>3. Waiting'
  <2>1. PICK p : LaidOut(p, input, sent, Next_, Left)
        BY DEF InputInv, Waiting
  <2>2. LaidOut(p, input', sent', Next_', Left')
        BY <1>1, <1>2, <2>1
  <2>3. QED BY <2>2 DEF Waiting
<1>4. InputTypes' /\ Halfway'
      BY <1>1 DEF InputInv, InputTypes, Halfway
<1>5. QED BY <1>1, <1>2, <1>3, <1>4 DEF InputInv

\* What the two numbers are.
LEMMA LeftNext ==
    ASSUME InputTypes
    PROVE  /\ Left \in Nat /\ Next_ \in Nat \ {0} /\ Len(taken) \in Nat /\ Len(sent) \in Nat
           /\ Left = 0 <=> reading = "nothing"
           /\ Next_ = Len(taken) + IF reading = "nothing" THEN 1 ELSE 2
<1>1. Len(taken) \in Nat /\ Len(sent) \in Nat
      BY DEF InputTypes
<1>2. Left \in Nat /\ (Left = 0 <=> reading = "nothing")
      BY DEF InputTypes, Left
<1>3. QED BY <1>1, <1>2 DEF Next_

\* The first byte is that of the next event, when none is being read.
LEMMA FirstByte ==
    ASSUME InputInv, input # <<>>, reading = "nothing"
    PROVE  /\ Next_ = Len(taken) + 1 /\ Next_ \in 1 .. Len(sent) /\ sent[Next_] \in Events
           /\ Size(sent[Next_]) <= Len(input) /\ Spelt(input, 1, sent[Next_])
<1>1. InputTypes /\ Next_ <= Len(sent) + 1 /\ Waiting
      BY DEF InputInv
<1>2. Left = 0 /\ Next_ \in Nat \ {0} /\ Next_ = Len(taken) + 1 /\ Len(sent) \in Nat
      BY <1>1, LeftNext
<1>3. PICK p : LaidOut(p, input, sent, Next_, 0)
      BY <1>1, <1>2 DEF Waiting
<1>4. /\ Next_ <= Len(sent) /\ Size(sent[Next_]) <= Len(input) /\ Spelt(input, 1, sent[Next_])
  <2> DEFINE f == Next_
  <2>1. f \in Nat \ {0} /\ f <= Len(sent) + 1 /\ LaidOut(p, input, sent, f, 0)
        BY <1>1, <1>2, <1>3
  <2>2. input \in Seq(Int) /\ sent \in Seq(Events)
        BY <1>1 DEF InputTypes
  <2> HIDE DEF f
  <2>3. f <= Len(sent) /\ Size(sent[f]) <= Len(input) /\ Spelt(input, 1, sent[f])
        BY <2>1, <2>2, FirstOf
  <2>4. QED BY <2>3 DEF f
<1>5. Next_ \in 1 .. Len(sent)
      BY <1>2, <1>4
<1>6. QED BY <1>1, <1>2, <1>4, <1>5 DEF InputTypes

\* What is left of a click is there to be read.
LEMMA RestIsThere ==
    ASSUME InputInv
    PROVE  Left <= Len(input)
<1>1. InputTypes /\ Next_ <= Len(sent) + 1
      BY DEF InputInv
<1>2. Left \in Nat /\ Next_ \in Nat \ {0}
      BY <1>1, LeftNext
<1>3. PICK p : LaidOut(p, input, sent, Next_, Left)
      BY DEF InputInv, Waiting
<1>4. input \in Seq(Int) /\ sent \in Seq(Events)
      BY <1>1 DEF InputTypes
<1>5. QED BY <1>1, <1>2, <1>3, <1>4, FirstOf

\* After one byte the rest of the same click comes first, or that of the next
\* event when its first byte was it.
LEMMA NextByte ==
    ASSUME InputInv, input # <<>>, input' = Tail(input), sent' = sent,
           Left' \in Nat, Next_' \in Nat,
           \/ Next_' = Next_ /\ Left = Left' + 1
           \/ reading = "nothing" /\ Next_' = Next_ + 1 /\ Left' + 1 = Size(sent[Next_])
    PROVE  Waiting' /\ Next_' <= Len(sent) + 1
<1> DEFINE f == Next_
           rest == Left
           g == Next_'
           l == Left'
<1>1. InputTypes /\ f <= Len(sent) + 1 /\ input \in Seq(Int) /\ sent \in Seq(Events)
      BY DEF InputInv, InputTypes
<1>2. rest \in Nat /\ f \in Nat \ {0} /\ Len(sent) \in Nat /\ (rest = 0 <=> reading = "nothing")
      BY <1>1, LeftNext
<1>3. PICK p : LaidOut(p, input, sent, f, rest)
      BY DEF InputInv, Waiting
<1>4. l \in Nat /\ g \in Nat
      OBVIOUS
<1>5. \/ g = f /\ rest = l + 1
      \/ rest = 0 /\ g = f + 1 /\ l + 1 = Size(sent[f])
      BY <1>2
<1>6. Waiting' <=> \E q : LaidOut(q, input', sent', g, l)
      BY DEF Waiting
<1>a. input # <<>>
      OBVIOUS
<1>b. Next_' <= Len(sent) + 1 <=> g <= Len(sent) + 1
      OBVIOUS
<1> HIDE DEF f, rest, g, l
<1>7. f <= g /\ g <= Len(sent) + 1 /\ p[g] = l + 2
  <2>1. CASE g = f /\ rest = l + 1
    <3>1. p[f] = rest + 1
          BY <1>3 DEF LaidOut
    <3>2. QED BY <1>1, <1>2, <1>4, <2>1, <3>1
  <2>2. CASE rest = 0 /\ g = f + 1 /\ l + 1 = Size(sent[f])
    <3>1. f <= Len(sent) /\ p[f + 1] = Size(sent[f]) + 1
          BY <1>1, <1>2, <1>3, <1>a, <2>2, FirstOf
    <3>2. p[g] = (l + 1) + 1
          BY <2>2, <3>1
    <3>3. QED BY <1>2, <1>4, <2>2, <3>1, <3>2
  <2>3. QED BY <1>5, <2>1, <2>2
<1>8. LaidOut([i \in Nat |-> p[i] - 1], Tail(input), sent, g, l)
      BY <1>1, <1>2, <1>3, <1>4, <1>a, <1>7, MovesUp
<1>9. QED BY <1>6, <1>7, <1>8, <1>b

\* The user does something.
LEMMA InputInvUse == InputInv /\ Use => InputInv'
<1> SUFFICES ASSUME InputInv, Use PROVE InputInv'
    OBVIOUS
<1> DEFINE e == Head(todo)
<1>1. /\ InputTypes /\ Next_ <= Len(sent) + 1 /\ Halfway
      /\ \A j \in 1 .. Len(taken) : taken[j] = sent[j]
      BY DEF InputInv
<1>2. /\ todo # <<>> /\ todo' = Tail(todo) /\ sent' = Append(sent, e) /\ input' = input \o Bytes(e)
      /\ taken' = taken /\ reading' = reading /\ mouse_x' = mouse_x
      BY DEF Use, keyVars, mouseVars
<1>3. /\ input \in Seq(Int) /\ sent \in Seq(Events) /\ taken \in Seq(Events) /\ todo \in Seq(Events)
      /\ reading \in {"nothing", "button", "x", "y"}
      BY <1>1 DEF InputTypes
<1>4. e \in Events
      BY <1>2, <1>3
<1>5. /\ Left \in Nat /\ Next_ \in Nat \ {0} /\ Len(taken) \in Nat /\ Len(sent) \in Nat
      /\ (Left = 0 <=> reading = "nothing")
      /\ Next_ = Len(taken) + IF reading = "nothing" THEN 1 ELSE 2
      BY <1>1, LeftNext
<1>6. Next_' = Next_ /\ Left' = Left
      BY <1>2 DEF Next_, Left
<1> HIDE DEF e
<1>7. Bytes(e) \in Seq(Int)
      BY <1>4, BytesAre
<1>8. InputTypes'
      BY <1>2, <1>3, <1>4, <1>7 DEF InputTypes
<1>9. Waiting'
  <2>1. PICK p : LaidOut(p, input, sent, Next_, Left)
        BY DEF InputInv, Waiting
  <2>2. \E q : LaidOut(q, input \o Bytes(e), Append(sent, e), Next_, Left)
        BY <1>1, <1>3, <1>4, <1>5, <2>1, ComesLast
  <2>3. \E q : LaidOut(q, input', sent', Next_', Left')
        BY <1>2, <1>6, <2>2
  <2>4. QED BY <2>3 DEF Waiting
<1>10. Len(sent') = Len(sent) + 1 /\ \A j \in 1 .. Len(sent) : sent'[j] = sent[j]
       BY <1>2, <1>3, <1>4
<1>11. Next_' <= Len(sent') + 1
       BY <1>1, <1>5, <1>6, <1>10
<1>12. \A j \in 1 .. Len(taken') : taken'[j] = sent'[j]
  <2>1. Len(taken) <= Len(sent)
        BY <1>1, <1>5
  <2>2. \A j \in 1 .. Len(taken) : j \in 1 .. Len(sent)
        BY <1>5, <2>1
  <2>3. QED BY <1>1, <1>2, <1>10, <2>2
<1>13. Halfway'
  <2> SUFFICES ASSUME reading # "nothing" PROVE Halfway'
      BY <1>2 DEF Halfway
  <2>1. Len(taken) + 1 \in 1 .. Len(sent)
        BY <1>1, <1>5
  <2>2. sent'[Len(taken') + 1] = sent[Len(taken) + 1]
        BY <1>2, <1>10, <2>1
  <2>3. Left <= Len(input) /\ Len(input) \in Nat
        BY <1>3, RestIsThere
  <2>4. \A q \in 1 .. Len(input) : input'[q] = input[q]
        BY <1>2, <1>3, <1>7
  <2>5. \A q \in 1 .. Left : input'[q] = input[q]
        BY <1>5, <2>3, <2>4
  <2>6. CASE reading = "button"
    <3>1. Left = 3
          BY <2>6 DEF Left
    <3>2. 2 \in 1 .. Left /\ 3 \in 1 .. Left
          BY <3>1
    <3>3. input'[2] = input[2] /\ input'[3] = input[3]
          BY <2>5, <3>2
    <3>4. QED BY <1>1, <1>2, <2>2, <2>6, <3>3 DEF Halfway
  <2>7. CASE reading = "x"
    <3>1. Left = 2
          BY <2>7 DEF Left
    <3>2. 1 \in 1 .. Left /\ 2 \in 1 .. Left
          BY <3>1
    <3>3. input'[1] = input[1] /\ input'[2] = input[2]
          BY <2>5, <3>2
    <3>4. QED BY <1>1, <1>2, <2>2, <2>7, <3>3 DEF Halfway
  <2>8. CASE reading = "y"
    <3>1. Left = 1
          BY <2>8 DEF Left
    <3>2. 1 \in 1 .. Left
          BY <3>1
    <3>3. input'[1] = input[1]
          BY <2>5, <3>2
    <3>4. QED BY <1>1, <1>2, <2>2, <2>8, <3>3 DEF Halfway
  <2>9. QED BY <1>3, <2>6, <2>7, <2>8
<1>14. QED BY <1>8, <1>9, <1>11, <1>12, <1>13 DEF InputInv

\* What is taken is the event whose turn it is.
LEMMA TakesNext ==
    ASSUME InputInv, NEW e \in Events, Len(taken) + 1 \in 1 .. Len(sent), sent[Len(taken) + 1] = e,
           taken' = Append(taken, e), sent' = sent
    PROVE  /\ taken' \in Seq(Events) /\ Len(taken') = Len(taken) + 1
           /\ \A j \in 1 .. Len(taken') : taken'[j] = sent'[j]
<1>1. taken \in Seq(Events) /\ \A j \in 1 .. Len(taken) : taken[j] = sent[j]
      BY DEF InputInv, InputTypes
<1>2. Len(taken) \in Nat
      BY <1>1
<1>3. /\ taken' \in Seq(Events) /\ Len(taken') = Len(taken) + 1
      /\ taken'[Len(taken) + 1] = e /\ \A j \in 1 .. Len(taken) : taken'[j] = taken[j]
      BY <1>1
<1>4. \A j \in 1 .. Len(taken) + 1 : j \in 1 .. Len(taken) \/ j = Len(taken) + 1
      BY <1>2
<1>5. QED BY <1>1, <1>3, <1>4

\* A key is read.
LEMMA InputInvKey == InputInv /\ Key => InputInv'
<1> SUFFICES ASSUME InputInv, Key PROVE InputInv'
    OBVIOUS
<1>1. PICK code \in Keys :
          /\ reading = "nothing" /\ input # <<>> /\ code = Head(input) /\ input' = Tail(input)
          /\ sent' = sent /\ todo' = todo /\ reading' = reading /\ mouse_x' = mouse_x
          /\ taken' = Append(taken, [kind |-> "key", code |-> code])
      BY DEF Key, Gets, Takes, mouseVars
<1> DEFINE f == Next_
           e == sent[f]
<1>2. InputTypes /\ f = Len(taken) + 1 /\ f \in 1 .. Len(sent) /\ e \in Events /\ Spelt(input, 1, e)
      BY <1>1, FirstByte DEF InputInv
<1>3. input \in Seq(Int) /\ taken \in Seq(Events) /\ sent \in Seq(Events) /\ todo \in Seq(Events)
      BY <1>2 DEF InputTypes
<1>4. input[1] = code /\ code \in Nat
      BY <1>1, <1>3, SessionAssumption DEF SessionAssumption
<1>5. e.kind = "key" /\ e.code = code
  <2>1. CASE e.kind # "key"
    <3>1. input[1] = Mouse
          BY <1>2, <2>1 DEF Spelt
    <3>2. QED BY <1>4, <3>1 DEF Mouse
  <2>2. CASE e.kind = "key"
        BY <1>2, <1>4, <2>2 DEF Spelt
  <2>3. QED BY <2>1, <2>2
<1>6. e = [kind |-> "key", code |-> code]
      BY <1>2, <1>5, EventIs
<1>7. /\ taken' \in Seq(Events) /\ Len(taken') = Len(taken) + 1
      /\ \A j \in 1 .. Len(taken') : taken'[j] = sent'[j]
      BY <1>1, <1>2, <1>6, TakesNext
<1>8. Left' = 0 /\ Next_' = Len(taken') + 1 /\ Size(e) = 1
      BY <1>1, <1>5 DEF Left, Next_, Size
<1>9. Next_' = f + 1 /\ Len(taken) \in Nat
      BY <1>2, <1>3, <1>7, <1>8
<1>10. Waiting' /\ Next_' <= Len(sent) + 1
  <2>1. Left' \in Nat /\ Next_' \in Nat /\ Left' + 1 = Size(sent[Next_]) /\ Next_' = Next_ + 1
        BY <1>2, <1>8, <1>9
  <2>2. QED BY <1>1, <2>1, NextByte
<1>11. InputTypes'
       BY <1>1, <1>2, <1>3, <1>7 DEF InputTypes
<1>12. QED BY <1>1, <1>7, <1>10, <1>11 DEF InputInv, Halfway

\* A click begins.
LEMMA InputInvMouse == InputInv /\ MouseEvent => InputInv'
<1> SUFFICES ASSUME InputInv, MouseEvent PROVE InputInv'
    OBVIOUS
<1>1. /\ reading = "nothing" /\ input # <<>> /\ Mouse = Head(input) /\ input' = Tail(input)
      /\ sent' = sent /\ todo' = todo /\ reading' = "button" /\ mouse_x' = mouse_x /\ taken' = taken
      BY DEF MouseEvent, Gets, keyVars
<1> DEFINE f == Next_
           e == sent[f]
<1>2. InputTypes /\ f = Len(taken) + 1 /\ f \in 1 .. Len(sent) /\ e \in Events /\ Spelt(input, 1, e)
      /\ Size(e) <= Len(input)
      BY <1>1, FirstByte DEF InputInv
<1>3. input \in Seq(Int) /\ taken \in Seq(Events) /\ sent \in Seq(Events) /\ todo \in Seq(Events)
      BY <1>2 DEF InputTypes
<1>4. e.kind # "key"
  <2>1. input[1] = Mouse
        BY <1>1, <1>3
  <2>2. ASSUME e.kind = "key" PROVE FALSE
    <3>1. input[1] = e.code /\ e.code \in Nat
          BY <1>2, <2>2, EventIs DEF Spelt
    <3>2. QED BY <2>1, <3>1 DEF Mouse
  <2>3. QED BY <2>2
<1>5. e.kind = "click" /\ Size(e) = 4
      BY <1>2, <1>4, EventIs DEF Size
<1>6. input[3] = e.at[1] + 33 /\ input[4] = e.at[2] + 33
  <2>1. 1 + 2 = 3 /\ 1 + 3 = 4
        OBVIOUS
  <2>2. QED BY <1>2, <1>4, <2>1 DEF Spelt
<1>7. Left' = 3 /\ Next_' = Len(taken) + 2 /\ Len(taken) \in Nat
      BY <1>1, <1>3 DEF Left, Next_
<1>8. Waiting' /\ Next_' <= Len(sent) + 1
  <2>1. Left' \in Nat /\ Next_' \in Nat /\ Left' + 1 = Size(sent[Next_]) /\ Next_' = Next_ + 1
        BY <1>2, <1>5, <1>7
  <2>2. QED BY <1>1, <2>1, NextByte
<1>9. InputTypes'
      BY <1>1, <1>2, <1>3 DEF InputTypes
<1>10. input'[2] = input[3] /\ input'[3] = input[4]
  <2>1. Len(input) \in Nat /\ 4 <= Len(input)
        BY <1>2, <1>3, <1>5
  <2>2. \A q \in 1 .. Len(input) - 1 : input'[q] = input[q + 1]
        BY <1>1, <1>3
  <2>3. 2 \in 1 .. Len(input) - 1 /\ 3 \in 1 .. Len(input) - 1 /\ 2 + 1 = 3 /\ 3 + 1 = 4
        BY <2>1
  <2>4. QED BY <2>2, <2>3
<1>11. Halfway'
  <2>1. sent'[Len(taken') + 1] = e
        BY <1>1, <1>2
  <2>2. QED BY <1>1, <1>5, <1>6, <1>10, <2>1 DEF Halfway
<1>12. \A j \in 1 .. Len(taken') : taken'[j] = sent'[j]
       BY <1>1 DEF InputInv
<1>13. QED BY <1>1, <1>8, <1>9, <1>11, <1>12 DEF InputInv

\* The click of which a byte is read.
LEMMA ClickIsRead ==
    ASSUME InputInv, reading # "nothing"
    PROVE  /\ Len(taken) + 1 \in 1 .. Len(sent)
           /\ sent[Len(taken) + 1].at[1] \in 0 .. 222 /\ sent[Len(taken) + 1].at[2] \in 0 .. 222
           /\ sent[Len(taken) + 1] = [kind |-> "click",
                                      at |-> <<sent[Len(taken) + 1].at[1], sent[Len(taken) + 1].at[2]>>]
<1> DEFINE e == sent[Len(taken) + 1]
<1>1. InputTypes /\ Next_ <= Len(sent) + 1 /\ e.kind = "click"
      BY DEF InputInv, Halfway
<1>2. /\ Len(taken) \in Nat /\ Len(sent) \in Nat /\ Next_ = Len(taken) + 2
      BY <1>1, LeftNext
<1>3. Len(taken) + 1 \in 1 .. Len(sent)
      BY <1>1, <1>2
<1>4. e \in Events
      BY <1>1, <1>3 DEF InputTypes
<1>5. e.kind # "key"
      BY <1>1
<1> HIDE DEF e
<1>6. e.at[1] \in 0 .. 222 /\ e.at[2] \in 0 .. 222 /\ e = [kind |-> "click", at |-> <<e.at[1], e.at[2]>>]
      BY <1>4, <1>5, EventIs
<1>7. QED BY <1>3, <1>6 DEF e

\* A coordinate comes back as it was sent.
LEMMA ComesBack ==
    ASSUME NEW x \in 0 .. 222, NEW byte, byte = x + 33
    PROVE  (byte - 33) % 65536 = x
OBVIOUS

\* The button, or the column, is read.
LEMMA InputInvColumn == InputInv /\ (Button \/ Column) => InputInv'
<1> SUFFICES ASSUME InputInv, Button \/ Column PROVE InputInv'
    OBVIOUS
<1> DEFINE e == sent[Len(taken) + 1]
<1>1. /\ input # <<>> /\ input' = Tail(input) /\ sent' = sent /\ todo' = todo /\ taken' = taken
      /\ \/ reading = "button" /\ reading' = "x"
         \/ reading = "x" /\ reading' = "y"
  <2>1. CASE Button
        BY <2>1 DEF Button, Msqot, Gets, keyVars
  <2>2. CASE Column
        BY <2>2 DEF Column, Msqot, Gets, keyVars
  <2>3. QED BY <2>1, <2>2
<1>2. reading # "nothing" /\ InputTypes /\ Halfway /\ \A j \in 1 .. Len(taken) : taken[j] = sent[j]
      BY <1>1 DEF InputInv
<1>3. input \in Seq(Int) /\ taken \in Seq(Events) /\ sent \in Seq(Events) /\ todo \in Seq(Events)
      BY <1>2 DEF InputTypes
<1>4. e.kind = "click" /\ e.at[1] \in 0 .. 222 /\ e.at[2] \in 0 .. 222
      BY <1>2, ClickIsRead DEF Halfway
<1>5. Left \in Nat /\ Left' \in Nat /\ Left = Left' + 1 /\ Left' >= 1
      BY <1>1 DEF Left
<1>6. Next_' = Next_ /\ Next_ \in Nat
      BY <1>1, <1>3 DEF Next_
<1>7. Waiting' /\ Next_' <= Len(sent) + 1
      BY <1>1, <1>5, <1>6, NextByte
<1>8. InputTypes'
      BY <1>1, <1>2, <1>3 DEF InputTypes
<1>9. \A q \in 1 .. Left' : input'[q] = input[q + 1]
  <2>1. Left <= Len(input) /\ Len(input) \in Nat
        BY <1>3, RestIsThere
  <2>2. \A q \in 1 .. Len(input) - 1 : input'[q] = input[q + 1]
        BY <1>1, <1>3
  <2>3. \A q \in 1 .. Left' : q \in 1 .. Len(input) - 1
        BY <1>5, <2>1
  <2>4. QED BY <2>2, <2>3
<1>10. sent'[Len(taken') + 1] = e
       BY <1>1
<1>11. Halfway'
  <2>1. CASE Button
    <3>1. reading = "button" /\ reading' = "x"
          BY <2>1 DEF Button, Msqot
    <3>2. Left' = 2
          BY <3>1 DEF Left
    <3>3. 1 \in 1 .. Left' /\ 2 \in 1 .. Left' /\ 1 + 1 = 2 /\ 2 + 1 = 3
          BY <3>2
    <3>4. input'[1] = input[2] /\ input'[2] = input[3]
          BY <1>9, <3>3
    <3>5. QED BY <1>2, <1>4, <1>10, <3>1, <3>4 DEF Halfway
  <2>2. CASE Column
    <3>1. reading = "x" /\ reading' = "y" /\ mouse_x' = (Head(input) - 33) % 65536
          BY <2>2 DEF Column, Msqot
    <3>2. Left' = 1
          BY <3>1 DEF Left
    <3>3. 1 \in 1 .. Left' /\ 1 + 1 = 2
          BY <3>2
    <3>4. input'[1] = input[2]
          BY <1>9, <3>3
    <3>5. Head(input) = e.at[1] + 33 /\ input[2] = e.at[2] + 33
          BY <1>1, <1>2, <1>3, <3>1 DEF Halfway
    <3> DEFINE x == e.at[1]
    <3>a. x \in 0 .. 222 /\ Head(input) = x + 33
          BY <1>4, <3>5
    <3> HIDE DEF x
    <3>b. mouse_x' = x
          BY <3>1, <3>a, ComesBack
    <3>6. mouse_x' = e.at[1]
          BY <3>b DEF x
    <3> HIDE DEF e
    <3>c. input'[1] = e.at[2] + 33
          BY <3>4, <3>5
    <3>7. QED BY <1>4, <1>10, <3>1, <3>6, <3>c DEF Halfway
  <2>3. QED BY <2>1, <2>2
<1>12. QED BY <1>1, <1>2, <1>7, <1>8, <1>11 DEF InputInv

\* The row is read, and the click is taken.
LEMMA InputInvRow == InputInv /\ Row => InputInv'
<1> SUFFICES ASSUME InputInv, Row PROVE InputInv'
    OBVIOUS
<1> DEFINE e == sent[Len(taken) + 1]
<1>1. /\ input # <<>> /\ input' = Tail(input) /\ sent' = sent /\ todo' = todo /\ mouse_x' = mouse_x
      /\ reading = "y" /\ reading' = "nothing"
      BY DEF Row, Msqot, Gets
<1>c. mouse_y' = (Head(input) - 33) % 65536
      BY DEF Row
<1>d. taken' = Append(taken, [kind |-> "click", at |-> <<mouse_x, mouse_y'>>])
      BY DEF Row, Takes
<1>2. reading # "nothing" /\ InputTypes /\ Halfway
      BY <1>1 DEF InputInv
<1>3. input \in Seq(Int) /\ taken \in Seq(Events) /\ sent \in Seq(Events) /\ todo \in Seq(Events)
      BY <1>2 DEF InputTypes
<1>4. /\ Len(taken) + 1 \in 1 .. Len(sent) /\ e.at[1] \in 0 .. 222 /\ e.at[2] \in 0 .. 222
      /\ e = [kind |-> "click", at |-> <<e.at[1], e.at[2]>>]
      BY <1>2, ClickIsRead
<1>5. Head(input) = e.at[2] + 33 /\ mouse_x = e.at[1]
      BY <1>1, <1>2, <1>3 DEF Halfway
<1> DEFINE x == e.at[1]
           y == e.at[2]
<1>g. Len(taken) + 1 \in 1 .. Len(sent)
      BY <1>4
<1>b. e \in Events /\ sent[Len(taken) + 1] = e
      BY <1>3, <1>g
<1> HIDE DEF e
<1>a. Head(input) = y + 33 /\ mouse_x = x
      BY <1>5
<1>e. y \in 0 .. 222
      BY <1>4
<1>f. e = [kind |-> "click", at |-> <<x, y>>]
      BY <1>4
<1> HIDE DEF x, y
<1>6. mouse_y' = y
      BY <1>a, <1>c, <1>e, ComesBack
<1>7. taken' = Append(taken, e)
      BY <1>a, <1>d, <1>f, <1>6
<1>8. /\ taken' \in Seq(Events) /\ Len(taken') = Len(taken) + 1
      /\ \A j \in 1 .. Len(taken') : taken'[j] = sent'[j]
      BY <1>1, <1>4, <1>7, <1>b, TakesNext
<1>9. Left = 1 /\ Left' = 0
      BY <1>1 DEF Left
<1>10. Next_' = Next_ /\ Next_ \in Nat
  <2>1. Next_ = Len(taken) + 2 /\ Next_' = Len(taken') + 1 /\ Len(taken) \in Nat
        BY <1>1, <1>3 DEF Next_
  <2>2. QED BY <1>8, <2>1
<1>11. Waiting' /\ Next_' <= Len(sent) + 1
       BY <1>1, <1>9, <1>10, NextByte
<1>12. InputTypes'
       BY <1>1, <1>2, <1>3, <1>8 DEF InputTypes
<1>13. QED BY <1>1, <1>8, <1>11, <1>12 DEF InputInv, Halfway

\* Whatever delays, resizes and handlers come between the bytes of a click, and
\* whatever else is typed and clicked before they are read, what wp has taken
\* is what the user did, in that order.
THEOREM InputIsTakenAsSent == SessionSpec => []TakenAsSent
<1>1. InputInv /\ [SessionNext]_sessionVars => InputInv'
  <2> SUFFICES ASSUME InputInv, [SessionNext]_sessionVars PROVE InputInv'
      OBVIOUS
  <2>1. CASE PatchStep /\ UNCHANGED <<redirected, user, mouseVars, keyVars>>
        BY <2>1, InputStays DEF user, mouseVars, keyVars
  <2>2. CASE _init
        BY <2>2, InputStays DEF _init, user, mouseVars, keyVars
  <2>3. CASE Use
        BY <2>3, InputInvUse
  <2>4. CASE Key
        BY <2>4, InputInvKey
  <2>5. CASE MouseEvent
        BY <2>5, InputInvMouse
  <2>6. CASE Button \/ Column
        BY <2>6, InputInvColumn
  <2>7. CASE Row
        BY <2>7, InputInvRow
  <2>8. CASE UNCHANGED sessionVars
        BY <2>8, InputStays DEF sessionVars, user, mouseVars, keyVars
  <2>9. QED BY <2>1, <2>2, <2>3, <2>4, <2>5, <2>6, <2>7, <2>8 DEF SessionNext
<1>2. InputInv => TakenAsSent
  <2> SUFFICES ASSUME InputInv PROVE TakenAsSent
      OBVIOUS
  <2>1. /\ InputTypes /\ Next_ <= Len(sent) + 1
        /\ \A j \in 1 .. Len(taken) : taken[j] = sent[j]
        BY DEF InputInv
  <2>2. Len(taken) \in Nat /\ Len(sent) \in Nat /\ Next_ >= Len(taken) + 1 /\ Next_ \in Nat
        BY <2>1, LeftNext
  <2>3. Len(taken) <= Len(sent)
        BY <2>1, <2>2
  <2>4. taken \in Seq(Events) /\ sent \in Seq(Events)
        BY <2>1 DEF InputTypes
  <2>5. SubSeq(taken, 1, Len(taken)) = SubSeq(sent, 1, Len(taken))
        BY <2>1, <2>2, <2>3, <2>4
  <2>6. QED BY <2>3, <2>5 DEF TakenAsSent, IsPrefix
<1>3. QED BY <1>1, <1>2, InputInvInit, PTL DEF SessionSpec
=============================================================================
