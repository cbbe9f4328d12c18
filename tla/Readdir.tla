------------------------------ MODULE Readdir -------------------------------
(***************************************************************************)
(* readdir of src/compat.c: libc5's directory streams on top of the 64-bit *)
(* system call.  A batch of records is fetched from the kernel, translated *)
(* into the old, shorter records in the stream's buffer, and handed out    *)
(* one by one by their byte offsets, while the directory changes.  opendir *)
(* (libc5's) and the kernel's getdents64 are external.                     *)
(***************************************************************************)
EXTENDS Integers, FiniteSetsExt, Functions

CONSTANTS Names,      \* positive numbers, in the order of the directory
          Lengths,    \* name lengths: functions from Names to 1..255
          Alloc,      \* the size opendir gave the buffer of the stream
          WideOffset, \* the names whose d_off does not fit 32 bits
          MayFail     \* whether the disk may fail

ASSUME ReaddirAssumption ==
    /\ Names \subseteq Nat \ {0} /\ IsFiniteSet(Names)
    /\ Lengths \subseteq [Names -> 1 .. 255]
    /\ Alloc \in Nat \ 0 .. 511
    /\ WideOffset \subseteq Names
    /\ MayFail \in BOOLEAN

NULL == 0

VARIABLES
    entries, length,  \* the directory, and the lengths of the names
    pos,              \* the kernel's position: the last name it has passed
    dd_buf,           \* the buffer: which name's record is at which offset
    dd_size, dd_nextloc, dd_max, dd_nextoff,
    written,          \* the end of the last write to the buffer (history)
    steady, ever, last, result, errno   \* as in DirAbs (history)

stream  == <<pos, dd_buf, dd_size, dd_nextloc, dd_max, dd_nextoff, written>>
history == <<steady, ever>>
vars == <<entries, length, stream, history, last, result, errno>>

-----------------------------------------------------------------------------
(* Records, in the two formats.                                            *)

OLDDIRENT == 268    \* sizeof(struct olddirent)
NAMESIZE  == 256    \* of which this is the name, at
NAMEAT    == 10     \* this offset

\* d_reclen of the kernel's record, a multiple of 8, and of its translation.
Dirent64Len == [n \in Names |-> 8 * ((length[n] + 20 + 7) \div 8)]
OldDirentLen == [n \in Names |-> length[n] + 14]

\* The batch getdents64 returns: the next names whose records fit in max.
Rest == {n \in entries : n > pos}
UpTo(n) == {m \in Rest : m <= n}
Batch(max) == {n \in Rest : SumFunctionOnSet(Dirent64Len, UpTo(n)) <= max}

\* translate_getdents puts the records one behind the other ...
OffsetIn(batch, n) == SumFunctionOnSet(OldDirentLen, {m \in batch : m < n})
\* (mutant: and returns the size of what it has read)
TranslatedSize64(batch) == SumFunctionOnSet(Dirent64Len, batch)
\* ... and returns the size of what it has written.
TranslatedSize(batch) == SumFunctionOnSet(OldDirentLen, batch)

\* strncpy pads each name to the full width of d_name, so the last record
\* is written far beyond its length.
WrittenEnd(batch) == OffsetIn(batch, Max(batch)) + NAMEAT + NAMESIZE

Translated(batch, old) ==
    [loc \in {OffsetIn(batch, n) : n \in batch}
             \cup {o \in DOMAIN old : o >= WrittenEnd(batch)} |->
        IF loc >= WrittenEnd(batch) THEN old[loc]
        ELSE CHOOSE n \in batch : OffsetIn(batch, n) = loc]

-----------------------------------------------------------------------------
(* opendir and the other programs that use the directory (external).       *)

Opened(dir) ==
    /\ pos = 0 /\ dd_buf = <<>> /\ dd_size = 0 /\ dd_nextloc = 0
    /\ dd_max = Alloc /\ dd_nextoff = 0 /\ written = 0
    /\ steady = dir /\ ever = dir
    /\ last = 0 /\ result = NULL /\ errno = "none"

Init == /\ entries \in SUBSET Names
        /\ length \in Lengths
        /\ Opened(entries)

Open == /\ pos' = 0 /\ dd_buf' = <<>> /\ dd_size' = 0 /\ dd_nextloc' = 0
        /\ dd_max' = Alloc /\ dd_nextoff' = 0 /\ written' = 0
        /\ steady' = entries /\ ever' = entries
        /\ last' = 0 /\ result' = NULL /\ errno' = "none"
        /\ UNCHANGED <<entries, length>>

Create == \E n \in Names \ entries :
    /\ entries' = entries \cup {n}
    /\ ever' = ever \cup {n}
    /\ UNCHANGED <<length, stream, steady, last, result, errno>>

Delete == \E n \in entries :
    /\ entries' = entries \ {n}
    /\ steady' = steady \ {n}
    /\ UNCHANGED <<length, stream, ever, last, result, errno>>

-----------------------------------------------------------------------------
(* readdir.                                                                *)

\* (mutant: as much as the buffer takes)
UncappedMax == dd_max
\* No more than one old record's worth at a time.
CappedMax == Min({dd_max, OLDDIRENT})

Exhausted == dd_size <= dd_nextloc

\* (mutant of the next: the same record again and again)
TakeFromForgets(buf, loc) ==
    LET de == IF loc \in DOMAIN buf THEN buf[loc] ELSE -1 IN
    /\ result' = de /\ last' = de /\ errno' = "none"
    /\ dd_nextloc' = loc
    /\ dd_nextoff' = IF de \in WideOffset THEN -1 ELSE de

\* Hand out the record at loc of buf; -1 is what no record starts with.
TakeFrom(buf, loc) ==
    LET de == IF loc \in DOMAIN buf THEN buf[loc] ELSE -1 IN
    /\ result' = de /\ last' = de /\ errno' = "none"
    /\ dd_nextloc' = loc + (IF de = -1 THEN OLDDIRENT ELSE OldDirentLen[de])
    /\ dd_nextoff' = IF de \in WideOffset THEN -1 ELSE de

ReadBuffered ==
    /\ ~Exhausted
    /\ dd_max' = CappedMax
    /\ TakeFrom(dd_buf, dd_nextloc)
    /\ UNCHANGED <<entries, length, pos, dd_buf, dd_size, written, history>>

Refill ==
    LET batch == Batch(CappedMax) IN
    /\ Exhausted /\ batch # {}
    /\ dd_max' = CappedMax
    /\ pos' = Max(batch)
    /\ dd_buf' = Translated(batch, dd_buf)
    /\ dd_size' = TranslatedSize(batch)
    /\ written' = WrittenEnd(batch)
    /\ TakeFrom(dd_buf', 0)
    /\ UNCHANGED <<entries, length, history>>

\* getdents64 returns 0 at the end and fails with EINVAL when not even one
\* record fits, or with EIO: readdir returns NULL, and goes on there if it
\* is called again.
NothingRead(e) ==
    /\ Exhausted
    /\ dd_max' = CappedMax
    /\ result' = NULL /\ errno' = e
    /\ UNCHANGED <<entries, length, pos, dd_buf, dd_size, dd_nextloc,
                   dd_nextoff, written, history, last>>

AtEnd     == Rest = {} /\ NothingRead("none")
TooLong   == Rest # {} /\ Batch(CappedMax) = {} /\ NothingRead("EINVAL")
ReadFails == MayFail /\ NothingRead("EIO")

Readdir == ReadBuffered \/ Refill \/ AtEnd \/ TooLong

Next == Open \/ Create \/ Delete \/ Readdir \/ ReadFails

\* The program that lists the directory keeps calling readdir.
Fairness == WF_vars(Readdir)

Spec == Init /\ [][Next]_vars /\ Fairness

-----------------------------------------------------------------------------
(* Properties.                                                             *)

\* readdir keeps the promises of DirAbs: whatever the lengths of the names,
\* the batches they fall into and the changes made during the listing, each
\* name that stays is returned once, in order, and the listing ends only at
\* the end of the directory (or with an error: of the disk, or for a name
\* longer than 244 bytes).
Abs == INSTANCE DirAbs WITH long <- {n \in Names : Dirent64Len[n] > OLDDIRENT}
AbsSpec == Abs!AbsSpec

\* Though strncpy writes 256 bytes for every name, also for the last one of
\* a batch, a buffer of 512 bytes, the smallest block size, takes it.
BufferHolds == written <= Alloc

\* A program that reads until NULL reaches it, unless it starts again.
ListingEnds == []<>(result = NULL)

\* "A dirent64 is smaller than a dirent, so no need to check if it fits":
\* readdir reports the end only when no name that stayed is left.
EndIsTheEnd == [][Readdir /\ result' = NULL => \A m \in steady : m <= last]_vars
=============================================================================
