------------------------------- MODULE DirAbs -------------------------------
(***************************************************************************)
(* What readdir promises the program that lists a directory while others   *)
(* change it: names come in the order of the directory, none twice, none   *)
(* that was never there, and none missing that was there all the time.     *)
(* It may give up, with errno set, on a disk that fails and, as this       *)
(* readdir does, on a name that is too long for it.                        *)
(***************************************************************************)
EXTENDS Integers

CONSTANT Names   \* positive numbers, in the order of the directory

NULL == 0

VARIABLES
    entries,   \* the names in the directory
    steady,    \* those there ever since opendir
    ever,      \* those there at some time since opendir
    last,      \* the last name returned since opendir, or 0
    result,    \* what the last call returned, or NULL
    errno,     \* and the errno of that call
    long       \* the names that are too long
absVars == <<entries, steady, ever, last, result, errno, long>>

Opened(dir) == /\ steady = dir /\ ever = dir
               /\ last = 0 /\ result = NULL /\ errno = "none"

AbsInit == entries \in SUBSET Names /\ long \in SUBSET Names /\ Opened(entries)

AbsOpen == /\ steady' = entries /\ ever' = entries /\ last' = 0
           /\ result' = NULL /\ errno' = "none" /\ UNCHANGED <<entries, long>>

AbsCreate == \E n \in Names \ entries :
    /\ entries' = entries \cup {n}
    /\ ever' = ever \cup {n}
    /\ UNCHANGED <<steady, last, result, errno, long>>

AbsDelete == \E n \in entries :
    /\ entries' = entries \ {n}
    /\ steady' = steady \ {n}
    /\ UNCHANGED <<ever, last, result, errno, long>>

AbsRead == \E n \in ever :
    /\ n > last /\ \A m \in steady : m > last => m >= n
    /\ last' = n /\ result' = n /\ errno' = "none"
    /\ UNCHANGED <<entries, steady, ever, long>>

AbsEnd ==
    /\ \A m \in steady : m <= last
    /\ result' = NULL /\ errno' = "none"
    /\ UNCHANGED <<entries, steady, ever, last, long>>

\* Every name before the long one has been returned.
AbsTooLong == \E n \in long \cap entries :
    /\ n > last /\ \A m \in steady : m > last => m >= n
    /\ result' = NULL /\ errno' = "EINVAL"
    /\ UNCHANGED <<entries, steady, ever, last, long>>

AbsFail ==
    /\ result' = NULL /\ errno' = "EIO"
    /\ UNCHANGED <<entries, steady, ever, last, long>>

AbsSpec == AbsInit /\ [][\/ AbsOpen \/ AbsCreate \/ AbsDelete
                        \/ AbsRead \/ AbsEnd \/ AbsTooLong \/ AbsFail]_absVars
=============================================================================
