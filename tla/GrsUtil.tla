------------------------------ MODULE GrsUtil -------------------------------
(***************************************************************************)
(* util/grsutil.c: listing the drivers of a graphics settings file, and    *)
(* showing and editing, in place, the fields of one of them.  A header per *)
(* driver says where its data is: its size, then a sequence of fields,     *)
(* each with its length before it.  One file is open for reading and       *)
(* writing: what is written waits in the buffer of the stream until the    *)
(* stream reads again (as glibc has it) or is closed, and is lost if the   *)
(* program aborts before.                                                  *)
(***************************************************************************)
EXTENDS Integers, SequencesExt

CONSTANTS Files,      \* what a file holds: its drivers, and their data
          Names,      \* what -d asks for
          Values,     \* what -s sets
          FieldNums   \* what -f chooses

WORD == 2      \* sizeof(uint16_t)
MAXDATA == 256 \* sizeof data

Field == [length : Nat, val : Nat]
DataBlock == [size : Nat, fields : Seq(Field)]
ASSUME GrsAssumption ==
    /\ FieldNums \subseteq Nat /\ Values \subseteq Nat
    /\ \A f \in Files :
          /\ f.drivers # <<>> /\ f.drivers \in Seq(Range(f.drivers))
          /\ f.data \in Seq(DataBlock)
          /\ \A k \in DOMAIN f.drivers : f.drivers[k].dataoff \in DOMAIN f.data

None == [none |-> TRUE]

VARIABLES
    drivers,   \* the headers in the file: [name, dataoff]
    disk,      \* the data in the file, per driver: [size, fields]
    before,    \* as it was (history)
    driverstr, fieldnum, newval,   \* the options -d, -f, -s: a value in a record, or None
    i, driver, \* the loop over the drivers: its index, and the header it read last
    field,     \* the loop over the fields: its index
    datalen,   \* what is left of the size of the data
    buffer,    \* the indices of the fields written and not flushed
    shown,     \* the indices of which a "New Field Value" was shown (history)
    status     \* "drivers", "fields", "listed", "done", "failed" or "aborted"

file == <<drivers, before, driverstr, fieldnum, newval>>
vars == <<disk, file, i, driver, field, datalen, buffer, shown, status>>

Option(S) == {[val |-> v] : v \in S} \cup {None}

Init ==
    /\ \E f \in Files : drivers = f.drivers /\ disk = f.data
    /\ before = disk
    /\ driverstr \in Option(Names) /\ fieldnum \in Option(FieldNums) /\ newval \in Option(Values)
    /\ i = 1 /\ driver = None
    /\ field = 1 /\ datalen = 0 /\ buffer = {} /\ shown = {}
    /\ status = "drivers"

\* (mutant of the next: exit without closing the stream)
ExitUnflushed == /\ status' = "failed" /\ buffer' = {}
                 /\ UNCHANGED <<disk, file, i, driver, field, datalen, shown>>

\* The fields of the driver that was found.
Block  == disk[driver.dataoff]
fields == Block.fields
length == fields[field].length

\* What is in the buffer reaches the disk.
Flushed ==
    IF buffer = {} THEN disk
    ELSE [disk EXCEPT ![driver.dataoff].fields =
             [f \in DOMAIN @ |-> IF f \in buffer THEN [@[f] EXCEPT !.val = newval.val] ELSE @[f]]]

\* err and errx: exit flushes and closes the stream.
Exit == /\ status' = "failed"
        /\ disk' = Flushed /\ buffer' = {}
        /\ UNCHANGED <<file, i, driver, field, datalen, shown>>

-----------------------------------------------------------------------------
(* Looking for the driver.  What was found is remembered in driver only.   *)

IsNamed(d) == driverstr # None /\ d # None /\ d.name = driverstr.val

\* (mutant of the next: no break)
NextDriverAlways ==
    /\ status = "drivers" /\ i <= Len(drivers)
    /\ driver' = drivers[i] /\ i' = i + 1
    /\ UNCHANGED <<disk, file, field, datalen, buffer, shown, status>>

NextDriver ==
    /\ status = "drivers" /\ i <= Len(drivers) /\ ~IsNamed(driver)
    /\ driver' = drivers[i] /\ i' = i + 1
    /\ UNCHANGED <<disk, file, field, datalen, buffer, shown, status>>

DriversRead == status = "drivers" /\ (i > Len(drivers) \/ IsNamed(driver))

JustListed ==
    /\ DriversRead /\ driverstr = None
    /\ status' = "listed"
    /\ UNCHANGED <<disk, file, i, driver, field, datalen, buffer, shown>>

NotFound == DriversRead /\ driverstr # None /\ ~IsNamed(driver) /\ Exit

\* The size counts itself and the lengths of the fields.
Overhead == WORD * (Len(fields) + 1)

Corrupt == DriversRead /\ IsNamed(driver) /\ Block.size < Overhead /\ Exit

Found ==
    /\ DriversRead /\ IsNamed(driver) /\ Block.size >= Overhead
    /\ datalen' = Block.size - Overhead
    /\ status' = "fields"
    /\ UNCHANGED <<disk, file, i, driver, field, buffer, shown>>

-----------------------------------------------------------------------------
(* The walk over its fields.                                               *)

Running == status = "fields" /\ field <= Len(fields)
\* (mutant: all fields are chosen)
ChosenAll == TRUE
\* Fields are numbered from 0.
Chosen == fieldnum \in {None, [val |-> field - 1]}

\* The next iteration reads the next length, and so flushes.
Continue == /\ field' = field + 1
            /\ disk' = Flushed
            /\ UNCHANGED <<file, i, driver, status>>

Empty == /\ Running /\ length = 0
         /\ Continue /\ buffer' = {} /\ UNCHANGED <<datalen, shown>>

TooBig == Running /\ length # 0 /\ (length > MAXDATA \/ length > datalen) /\ Exit

Fits == Running /\ length # 0 /\ length <= MAXDATA /\ length <= datalen

\* Not chosen, or shown and not changed.
Pass == /\ Fits /\ (~Chosen \/ newval = None)
        /\ Continue /\ datalen' = datalen - length
        /\ buffer' = {} /\ UNCHANGED shown

NotAWord == Fits /\ Chosen /\ newval # None /\ length # WORD /\ Exit

\* (mutant of the next: a field of another length is overwritten, too)
EditAnything ==
    /\ Fits /\ Chosen /\ newval # None
    /\ Continue /\ datalen' = datalen - length
    /\ buffer' = {field} /\ shown' = shown \cup {field}

\* Seek back over the field and write the new value.
Edit == /\ Fits /\ Chosen /\ newval # None /\ length = WORD
        /\ Continue /\ datalen' = datalen - length
        /\ buffer' = {field} /\ shown' = shown \cup {field}

\* fclose, if the assertion about datalen holds; else the program aborts.
Finish == /\ status = "fields" /\ field > Len(fields)
          /\ status' = IF datalen = 0 THEN "done" ELSE "aborted"
          /\ disk' = IF datalen = 0 THEN Flushed ELSE disk
          /\ buffer' = {}
          /\ UNCHANGED <<file, i, driver, field, datalen, shown>>

Next == NextDriver \/ JustListed \/ NotFound \/ Corrupt \/ Found
        \/ Empty \/ TooBig \/ Pass \/ NotAWord \/ Edit \/ Finish

Spec == Init /\ [][Next]_vars

-----------------------------------------------------------------------------
(* Properties.                                                             *)

Ended == status \notin {"drivers", "fields"}

\* The data that the first driver of the name has.
Asked == LET named == {k \in DOMAIN drivers : IsNamed(drivers[k])}
         IN  {drivers[k].dataoff : k \in {m \in named : \A n \in named : m <= n}}

\* However the tool ends, a field differs from what it was only if its driver
\* was asked for, and it is one WORD, was chosen, and now holds the new value.
EditsOnlyWhatWasChosen ==
    \A b \in DOMAIN before :
        /\ disk[b].size = before[b].size
        /\ \A f \in DOMAIN before[b].fields : disk[b].fields[f] # before[b].fields[f] =>
              /\ b \in Asked
              /\ disk[b].fields[f] = [length |-> WORD, val |-> newval.val]
              /\ fieldnum \in {None, [val |-> f - 1]}

\* Unless it aborted, what was shown as a new value is in the file.
ShownIsWritten ==
    status \in {"done", "failed"} =>
        \A f \in shown : fields[f].val = newval.val

\* The fields of the driver asked for fill its data, and none is too long.
SizeOf(block) == LET fs == block.fields
                 IN WORD + SumFunctionOnSet([f \in DOMAIN fs |-> WORD + fs[f].length], DOMAIN fs)
Sound == \A b \in Asked : /\ before[b].size = SizeOf(before[b])
                          /\ \A f \in Range(before[b].fields) : f.length <= MAXDATA

\* In a sound file an edit with -f is all or nothing: when the tool fails the
\* file is as it was, and it never aborts.
AllOrNothing ==
    fieldnum # None /\ Sound => /\ status = "failed" => disk = before
                                /\ status # "aborted"

\* An edit of a field that is there, in a sound file, is made, wherever its
\* driver and the field stand.
EditIsMade ==
    Ended /\ fieldnum # None /\ newval # None /\ Sound =>
        \A b \in Asked : \A f \in DOMAIN before[b].fields :
            f = fieldnum.val + 1 /\ before[b].fields[f].length = WORD
                => disk[b].fields[f].val = newval.val
=============================================================================
