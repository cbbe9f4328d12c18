------------------------------- MODULE Patch --------------------------------
(***************************************************************************)
(* How wp learns the size of the terminal, from wp8.sh, which starts it,   *)
(* and then from the SIGWINCH handler of src/patch.c; and delay_millis,    *)
(* which replaces wp's busy-waiting dodelay by nanosleep.  The handler and *)
(* the delay share a process: a signal interrupts a sleep, and the handler *)
(* runs between any two steps of the program, also between nanosleep's     *)
(* return and the test of errno.                                           *)
(***************************************************************************)
EXTENDS Integers

Unset == -1               \* a variable that is not exported, or empty

CONSTANTS Sizes,          \* terminal sizes <<columns, rows>>
          Environments,   \* what COLUMNS and LINES may be when wp8.sh runs
          Delays,         \* delays wp asks for, in hundredths of a second
          MaxResizes,     \* how often the user resizes (bound of the model)
          Ttys,           \* whether standard output may be a terminal, or not
          RedrawClobbers  \* whether redrawing the screen may change errno

ASSUME PatchAssumption ==
    /\ Sizes \subseteq Nat \X Nat
    /\ Environments \subseteq (Nat \cup {Unset}) \X (Nat \cup {Unset})
    /\ Delays \subseteq Nat
    /\ MaxResizes \in Nat
    /\ Ttys \subseteq BOOLEAN /\ RedrawClobbers \subseteq BOOLEAN

VARIABLES
    term,      \* the size of the terminal
    resizes,   \* how often it has changed
    tty,       \* ioctl(STDOUT_FILENO, TIOCGWINSZ) works
    environ,   \* COLUMNS and LINES in the environment of wp8.sh
    notice,    \* of the last resize: "early" (before wp8.sh asked, or none),
               \* "missed" (before the handler was there), "signalled" (history)
    phase,     \* "shell", "lines" (of wp8.sh), "exec" (wp is loaded), "running"
    pending,   \* SIGWINCH is pending: one bit, however many were sent
    handler,   \* where win_resize_event is, or "none"
    w,         \* its local variable
    wp,        \* the size wp believes in
    drawn,     \* the size wp last drew its screen for
    main,      \* "busy", or in delay_millis: "asleep", "woken"
    asked,     \* the delay wp asked for (history)
    left,      \* what nanosleep still has to sleep, and writes to req
    elapsed,   \* how long this delay has taken (history)
    errno

vars == <<term, resizes, tty, environ, notice, phase, pending, handler, w, wp, drawn,
          main, asked, left, elapsed, errno>>
terminal == <<term, resizes, tty, environ, notice>>
sizes    == <<w, wp, drawn>>
delay    == <<main, asked, left, elapsed>>

TypeOK ==
    /\ term \in Sizes /\ resizes \in 0 .. MaxResizes /\ tty \in BOOLEAN
    /\ environ \in Environments /\ notice \in {"early", "missed", "signalled"}
    /\ phase \in {"shell", "lines", "exec", "running"}
    /\ pending \in BOOLEAN
    /\ handler \in {"none", "fetch", "resize", "draw"}
    /\ {w, wp, drawn} \subseteq Nat \X Nat
    /\ main \in {"busy", "asleep", "woken"}
    /\ {asked, left, elapsed} \subseteq Nat
    /\ errno \in {"EINTR", "other"}

Init ==
    /\ term \in Sizes /\ resizes = 0 /\ tty \in Ttys
    /\ environ \in Environments /\ notice = "early"
    /\ phase = "shell" /\ pending = FALSE /\ handler = "none"
    /\ w = <<0, 0>> /\ wp = <<0, 0>> /\ drawn = <<0, 0>>
    /\ main = "busy" /\ asked = 0 /\ left = 0 /\ elapsed = 0
    /\ errno = "other"

-----------------------------------------------------------------------------
(* Starting wp.                                                            *)

\* What wp8.sh passes for a dimension: the environment's answer, or tput's.
Dimension(i) == IF environ[i] = Unset THEN term[i] ELSE environ[i]

\* -c ${COLUMNS:-$(tput cols)}
AskColumns ==
    /\ phase = "shell"
    /\ phase' = "lines"
    /\ wp' = <<Dimension(1), 0>>
    /\ UNCHANGED <<terminal, pending, handler, w, drawn, delay, errno>>

\* -r ${LINES:-$(tput lines)}, and exec: wp draws its first screen for both.
AskLines ==
    /\ phase = "lines"
    /\ phase' = "exec"
    /\ wp' = <<wp[1], Dimension(2)>> /\ drawn' = wp'
    /\ UNCHANGED <<terminal, pending, handler, w, delay, errno>>

\* _init, run by the loader before wp's own code, installs the handler.
Start ==
    /\ phase = "exec"
    /\ phase' = "running"
    /\ UNCHANGED <<terminal, pending, handler, sizes, delay, errno>>

\* The user resizes the window.  Without a handler the signal is ignored.
ResizeTerminal ==
    /\ resizes < MaxResizes
    /\ term' \in Sizes \ {term}
    /\ resizes' = resizes + 1
    /\ pending' = (pending \/ phase = "running")
    /\ notice' = CASE phase = "shell" -> notice
                   [] phase \in {"lines", "exec"} -> "missed"
                   [] phase = "running" -> "signalled"
    /\ UNCHANGED <<tty, environ, phase, handler, sizes, delay, errno>>

-----------------------------------------------------------------------------
(* win_resize_event.  SIGWINCH is blocked while it runs, so a signal that  *)
(* arrives then is delivered when it has returned.                         *)

Max2(a, b) == IF a < b THEN b ELSE a

\* The code's idea of a sane size.
Sane(size) == <<Max2(size[1], 24), Max2(size[2], 80)>>

\* Return from the handler with errno = e: a sleep it interrupted fails.
Return(e) ==
    /\ handler' = "none"
    /\ main' = IF main = "asleep" THEN "woken" ELSE main
    /\ errno' = IF main = "asleep" THEN "EINTR" ELSE e
    /\ UNCHANGED <<asked, left, elapsed>>

Deliver ==
    /\ phase = "running" /\ pending /\ handler = "none"
    /\ pending' = FALSE
    /\ handler' = "fetch"
    /\ UNCHANGED <<terminal, phase, sizes, delay, errno>>

FetchFails ==
    /\ handler = "fetch" /\ ~tty
    /\ Return("other")
    /\ UNCHANGED <<terminal, phase, pending, sizes>>

Fetch ==
    /\ handler = "fetch" /\ tty
    /\ w' = Sane(term)
    /\ handler' = "resize"
    /\ UNCHANGED <<terminal, phase, pending, wp, drawn, delay, errno>>

\* (mutant of the next: signals that came in the meantime are forgotten)
ResizeForgetsSignal ==
    /\ handler = "resize"
    /\ wp' = w
    /\ handler' = "draw"
    /\ pending' = FALSE
    /\ UNCHANGED <<terminal, phase, w, drawn, delay, errno>>

Resize ==
    /\ handler = "resize"
    /\ wp' = w
    /\ handler' = "draw"
    /\ UNCHANGED <<terminal, phase, pending, w, drawn, delay, errno>>

Redraw ==
    /\ handler = "draw"
    /\ drawn' = wp
    /\ \E clobbers \in RedrawClobbers : Return(IF clobbers THEN "other" ELSE errno)
    /\ UNCHANGED <<terminal, phase, pending, w, wp>>

-----------------------------------------------------------------------------
(* delay_millis.                                                           *)

StartDelay(d) ==
    /\ phase = "running" /\ main = "busy" /\ handler = "none"
    /\ main' = "asleep" /\ asked' = d /\ left' = d /\ elapsed' = 0
    /\ UNCHANGED <<terminal, phase, pending, handler, sizes, errno>>

\* A hundredth of a second passes in nanosleep.
Tick ==
    /\ main = "asleep" /\ handler = "none" /\ left > 0
    /\ left' = left - 1 /\ elapsed' = elapsed + 1
    /\ UNCHANGED <<terminal, phase, pending, handler, sizes, main, asked, errno>>

\* nanosleep returns 0.
WakeUp ==
    /\ main = "asleep" /\ handler = "none" /\ left = 0
    /\ main' = "busy"
    /\ UNCHANGED <<terminal, phase, pending, handler, sizes, asked, left, elapsed, errno>>

\* (mutants of the next: sleep for the whole delay again, or not at all)
TestErrnoRestarts ==
    /\ main = "woken" /\ handler = "none"
    /\ main' = IF errno = "EINTR" THEN "asleep" ELSE "busy"
    /\ left' = asked
    /\ UNCHANGED <<terminal, phase, pending, handler, sizes, asked, elapsed, errno>>
TestErrnoLoops ==
    /\ main = "woken" /\ handler = "none" /\ errno # "EINTR"
    /\ main' = "asleep"
    /\ UNCHANGED <<terminal, phase, pending, handler, sizes, asked, left, elapsed, errno>>

\* nanosleep returned -1: sleep for the rest only if errno says EINTR.
TestErrno ==
    /\ main = "woken" /\ handler = "none"
    /\ main' = IF errno = "EINTR" THEN "asleep" ELSE "busy"
    /\ UNCHANGED <<terminal, phase, pending, handler, sizes, asked, left, elapsed, errno>>

-----------------------------------------------------------------------------
Next ==
    \/ AskColumns \/ AskLines \/ Start \/ ResizeTerminal
    \/ Deliver \/ FetchFails \/ Fetch \/ Resize \/ Redraw
    \/ \E d \in Delays : StartDelay(d)
    \/ Tick \/ WakeUp \/ TestErrno

\* The shell and the loader go on, the kernel delivers what is pending, and a process
\* that is running keeps running.  The user and wp owe nothing.
Fairness ==
    /\ WF_vars(AskColumns \/ AskLines \/ Start) /\ WF_vars(Deliver)
    /\ WF_vars(FetchFails \/ Fetch \/ Resize \/ Redraw)
    /\ WF_vars(Tick \/ WakeUp \/ TestErrno)

Spec == Init /\ [][Next]_vars /\ Fairness

-----------------------------------------------------------------------------
(* Properties.                                                             *)

\* Nothing of a resize is left to do.
Quiet == phase = "running" /\ ~pending /\ handler = "none"

\* The size wp has been told: by wp8.sh as long as the window was left alone
\* since, and by the handler, made "sane", after any resize that it could see.
\* What wp takes a resize in between for is anybody's guess.
Told == CASE notice = "early"     -> wp = <<Dimension(1), Dimension(2)>>
          [] notice = "signalled" -> wp = Sane(term)
          [] notice = "missed"    -> TRUE

\* However signals coalesce, and whichever size each run of the handler saw:
\* when none is left wp knows the size the terminal has now, as far as it has
\* been told, and has drawn its screen for it.  A size in the environment, or
\* a resize that came too early, is corrected by the next resize.
QuietIsCurrent == Quiet /\ tty => Told /\ drawn = wp

\* Once the user stops resizing, wp gets there.
SizeSettles == <>[](tty => Quiet /\ Told /\ drawn = wp)

\* delay_millis returns when the delay has passed, neither before (an
\* interrupted sleep is resumed) nor later (only the rest is slept).
DelayIsExact ==
    [][main # "busy" /\ main' = "busy" => elapsed' = asked]_vars

\* Whatever interrupts it and however often, no delay takes longer than was
\* asked for, not counting the time the handler takes.
DelayNeverLate ==
    [][main # "busy" /\ main' = "busy" => elapsed' <= asked]_vars

\* "Make sure this looks sane": a terminal of the usual 80 columns and 24
\* rows, or a larger one, is reported as it is by the handler.
UsualSizeIsReported ==
    Quiet /\ tty /\ notice = "signalled" /\ term[1] >= 80 /\ term[2] >= 24 => wp = term
=============================================================================
