------------------------------ MODULE Session -------------------------------
(***************************************************************************)
(* All that src/patch.c puts into wp: _init, a client of hook.c whose      *)
(* insertions may be refused, the key mapping and the mouse callback,      *)
(* besides the handler and the delays of Patch.  wp reads one byte of its  *)
(* input after the other, and the handler may run before any of them.      *)
(***************************************************************************)
EXTENDS Patch, MapKey, SequencesExt

CONSTANTS Keys,       \* codes of keys
          Clicks,     \* positions <<x, y>> on the screen
          Inputs      \* what the user does: sequences of keys and clicks

Events == [kind : {"key"}, code : Keys] \cup [kind : {"click"}, at : Clicks]

\* The encoding of positions ends with the byte 255.
ASSUME SessionAssumption ==
    /\ Keys \subseteq Nat /\ Clicks \subseteq (0 .. 222) \X (0 .. 222)
    /\ Inputs \subseteq Seq(Events)

VARIABLES redirected,  \* which of "dodelay" and "mapkey" _init has redirected
          input,       \* what the terminal has sent: codes and bytes
          reading,     \* "nothing"; where xy_xterm_mouse is: "button", "x", "y"
          mouse_x, mouse_y,
          keyboard,    \* see MapKey
          todo,        \* what the user will do
          sent, taken  \* what the user did; what wp took it for (history)

keyVars   == <<keyboard, taken>>
user      == <<todo, input, sent>>
mouseVars == <<reading, mouse_x, mouse_y>>
sessionVars == <<vars, redirected, user, mouseVars, keyVars>>

SessionInit ==
    /\ Init
    /\ redirected = {}
    /\ input = <<>> /\ reading = "nothing" /\ mouse_x = 0 /\ mouse_y = 0
    /\ keyboard = [lastkey |-> 0, scnbuf |-> 0, kybdnam |-> 0, wpc |-> 0]
    /\ todo \in Inputs /\ sent = <<>> /\ taken = <<>>

-----------------------------------------------------------------------------
\* An insertion that is refused makes no difference to the next.  (What else is
\* set here, the mouse callback and its number of bytes, is never set again.)
_init ==
    /\ Start
    /\ redirected' \in SUBSET {"dodelay", "mapkey"}
    /\ UNCHANGED <<user, mouseVars, keyVars>>

\* With its own dodelay wp is just busy.
Delay(d) == "dodelay" \in redirected /\ StartDelay(d)

Mouse == -1      \* the sequence that announces a click

\* The terminal sends a position as two bytes, behind that of the button.
Bytes(event) == IF event.kind = "key" THEN <<event.code>>
                ELSE <<Mouse, 32, event.at[1] + 33, event.at[2] + 33>>

Use ==
    /\ phase = "running" /\ todo # <<>>
    /\ todo' = Tail(todo)
    /\ sent' = Append(sent, Head(todo))
    /\ input' = input \o Bytes(Head(todo))
    /\ UNCHANGED <<vars, redirected, mouseVars, keyVars>>

\* msqot, or whatever reads the next byte, when no handler runs.
Gets(byte) ==
    /\ phase = "running" /\ main = "busy" /\ handler = "none"
    /\ input # <<>> /\ byte = Head(input) /\ input' = Tail(input)
    /\ UNCHANGED <<vars, redirected, todo, sent>>

Takes(event) == taken' = Append(taken, event)

\* wp scans a key, which leaves it in scnbuf, and maps it.
Key == \E code \in Keys :
    /\ reading = "nothing" /\ Gets(code)
    /\ LET scanned == [keyboard EXCEPT !.scnbuf = code]
       IN  keyboard' = IF "mapkey" \in redirected THEN MapKey(code, scanned)
                       ELSE MapKeyOfWp(code, scanned)
    /\ Takes([kind |-> "key", code |-> code])
    /\ UNCHANGED mouseVars

\* A click calls the callback.
MouseEvent ==
    /\ reading = "nothing" /\ Gets(Mouse)
    /\ reading' = "button"
    /\ UNCHANGED <<mouse_x, mouse_y, keyVars>>

Msqot(this, next) == /\ reading = this /\ input # <<>> /\ Gets(Head(input))
                     /\ reading' = next

Button == Msqot("button", "x") /\ UNCHANGED <<mouse_x, mouse_y, keyVars>>

\* (mutant of the next: the origin is taken for 1, 1)
ColumnFromOne ==
    /\ Msqot("x", "y")
    /\ mouse_x' = (Head(input) - 32) % 65536
    /\ UNCHANGED <<mouse_y, keyVars>>

Column ==
    /\ Msqot("x", "y")
    /\ mouse_x' = (Head(input) - 33) % 65536
    /\ UNCHANGED <<mouse_y, keyVars>>

Row == /\ Msqot("y", "nothing")
       /\ mouse_y' = (Head(input) - 33) % 65536
       /\ Takes([kind |-> "click", at |-> <<mouse_x, mouse_y'>>])
       /\ UNCHANGED <<mouse_x, keyboard>>

-----------------------------------------------------------------------------
PatchStep == \/ AskColumns \/ AskLines \/ ResizeTerminal
             \/ Deliver \/ FetchFails \/ Fetch \/ Resize \/ Redraw
             \/ (\E d \in Delays : reading = "nothing" /\ Delay(d))
             \/ Tick \/ WakeUp \/ TestErrno

SessionNext ==
    \/ PatchStep /\ UNCHANGED <<redirected, user, mouseVars, keyVars>>
    \/ _init
    \/ Use
    \/ Key \/ MouseEvent \/ Button \/ Column \/ Row

\* Besides Patch's: wp asks for input when nothing else is to be done; between
\* two delays it does so again.
SessionFairness ==
    /\ Fairness
    /\ SF_sessionVars(Key \/ MouseEvent) /\ WF_sessionVars(Button \/ Column \/ Row)

SessionSpec == SessionInit /\ [][SessionNext]_sessionVars /\ SessionFairness

-----------------------------------------------------------------------------
(* Whatever comes between its bytes, a click is where the user clicked, and  *)
(* it takes no byte from the keys around it (three bytes, not four): what    *)
(* wp has taken is what was done, in that order.                             *)
TakenAsSent == IsPrefix(taken, sent)

(* "A bug in mapkey() that prevent us entering the zeroth entry of extended  *)
(* character sets": with the redirect in place every character of a set can  *)
(* be entered by its number, but for those numbered E0; and every other exit *)
(* of the mapping that reports an error has emptied the scan buffer, so that *)
(* the next key is not read on from this one (codes of one byte excepted).   *)
KeysAreMapped ==
    "mapkey" \in redirected /\ taken # <<>> /\ Last(taken).kind = "key"
        => LET code == Last(taken).code
           IN  IF KeyType(code) = KEY_SETNUM /\ KeyChar(code) # 224
               THEN keyboard.wpc = KeyWpc(code)
               ELSE keyboard.wpc = 0 /\ ~OneByte(code) => keyboard.scnbuf = 0

(* Every delay ends, however often it is interrupted, and wp then takes all  *)
(* that was typed and clicked meanwhile.                                     *)
AllIsTaken == <>[](taken = sent)
=============================================================================
