----------------------------- MODULE GrsProofs ------------------------------
(***************************************************************************)
(* Proofs about GrsUtil, for every file, sound or not, and every choice of *)
(* options.                                                                *)
(***************************************************************************)
EXTENDS GrsUtil, Sums

-----------------------------------------------------------------------------
(* The invariant: the driver is the first of its name, the data keeps its  *)
(* shape, and what differs in it was shown.                                *)

TypeInv ==
  /\ drivers \in Seq(Range(drivers))
  /\ before \in Seq(DataBlock)
  /\ \A k \in DOMAIN drivers : drivers[k].dataoff \in DOMAIN before
  /\ disk \in [DOMAIN before -> DataBlock]
  /\ newval # None => newval.val \in Nat
  /\ i \in 1 .. Len(drivers) + 1
  /\ field \in Nat \ {0}

\* What the tool writes does not move anything.
SameShape(data) ==
  \A b \in DOMAIN before :
    /\ data[b].size = before[b].size
    /\ DOMAIN data[b].fields = DOMAIN before[b].fields
    /\ \A f \in DOMAIN before[b].fields :
          data[b].fields[f].length = before[b].fields[f].length

\* The loop stops behind the first header of the name.
LookInv ==
  /\ driver = IF i = 1 THEN None ELSE drivers[i - 1]
  /\ \A k \in DOMAIN drivers : k < i - 1 => ~IsNamed(drivers[k])
  /\ status = "fields" \/ shown # {} => IsNamed(driver)
  /\ status = "drivers" => shown = {}

\* What is shown as a new value may be written, and waits in the buffer if it
\* is not in the data yet.
ShownInv ==
  /\ buffer \subseteq shown
  /\ buffer # {} => status = "fields"
  /\ \A f \in shown :
       /\ f \in DOMAIN fields /\ fields[f].length = WORD
       /\ newval # None /\ fieldnum \in {None, [val |-> f - 1]}
       /\ f \notin buffer /\ status # "aborted" => fields[f].val = newval.val

DiffersOnlyIn(data, where, which) ==
  \A b \in DOMAIN before : \A f \in DOMAIN before[b].fields :
    data[b].fields[f] # before[b].fields[f] =>
      /\ b = where /\ f \in which
      /\ data[b].fields[f] = [length |-> WORD, val |-> newval.val]

GrsInv ==
  /\ TypeInv
  /\ SameShape(disk)
  /\ LookInv
  /\ ShownInv
  /\ DiffersOnlyIn(disk, driver.dataoff, shown)

-----------------------------------------------------------------------------
\* The driver that was found is in the file.
LEMMA FoundInFile ==
  ASSUME TypeInv, LookInv, IsNamed(driver)
  PROVE  /\ i - 1 \in DOMAIN drivers /\ driver = drivers[i - 1]
         /\ driver.dataoff \in DOMAIN before
BY DEF TypeInv, LookInv, IsNamed

\* A flush writes the new value over the fields in the buffer, and only there.
LEMMA FlushedData ==
  ASSUME TypeInv, LookInv, ShownInv, SameShape(disk)
  PROVE  /\ Flushed \in [DOMAIN before -> DataBlock]
         /\ SameShape(Flushed)
         /\ \A b \in DOMAIN before : \A f \in DOMAIN before[b].fields :
              Flushed[b].fields[f] =
                IF b = driver.dataoff /\ f \in buffer
                THEN [length |-> WORD, val |-> newval.val] ELSE disk[b].fields[f]
<1>1. CASE buffer = {}
      BY <1>1 DEF Flushed, TypeInv, ShownInv
<1>2. CASE buffer # {}
  <2> DEFINE D == driver.dataoff
             New(f) == IF f \in buffer THEN [disk[D].fields[f] EXCEPT !.val = newval.val]
                       ELSE disk[D].fields[f]
             Fields == [f \in DOMAIN disk[D].fields |-> New(f)]
  <2>1. D \in DOMAIN before /\ newval.val \in Nat
        BY <1>2, FoundInFile DEF LookInv, ShownInv, TypeInv
  <2>2. disk[D] \in DataBlock /\ disk[D].fields \in Seq(Field)
        BY <2>1 DEF TypeInv, DataBlock
  <2>3. Flushed = [disk EXCEPT ![D].fields = Fields]
        BY <1>2 DEF Flushed
  <2>4. \A f \in DOMAIN disk[D].fields : disk[D].fields[f] \in Field
        BY <2>2
  <2>5. \A f \in DOMAIN disk[D].fields : f \in buffer => disk[D].fields[f].length = WORD
        BY DEF ShownInv, fields, Block
  <2>6. \A f \in DOMAIN disk[D].fields :
          /\ New(f) \in Field
          /\ New(f).length = disk[D].fields[f].length
          /\ f \in buffer => New(f) = [length |-> WORD, val |-> newval.val]
        BY <2>1, <2>4, <2>5 DEF Field, WORD
  <2>7. Fields \in Seq(Field)
        BY <2>2, <2>6
  <2> HIDE DEF New
  <2>8. /\ DOMAIN Flushed = DOMAIN before
        /\ Flushed[D] = [disk[D] EXCEPT !.fields = Fields]
        /\ \A b \in DOMAIN before : b # D => Flushed[b] = disk[b]
        BY <2>1, <2>3 DEF TypeInv
  <2>9. /\ Flushed[D] = [size |-> disk[D].size, fields |-> Fields]
        /\ Flushed[D] \in DataBlock
        BY <2>2, <2>7, <2>8 DEF DataBlock
  <2>10. Flushed \in [DOMAIN before -> DataBlock]
    <3>1. Flushed = [b \in DOMAIN before |-> Flushed[b]]
          BY <2>3 DEF TypeInv
    <3>2. \A b \in DOMAIN before : Flushed[b] \in DataBlock
          BY <2>8, <2>9 DEF TypeInv
    <3>3. QED BY <3>1, <3>2
  <2>11. SameShape(Flushed)
        BY <2>1, <2>6, <2>8, <2>9 DEF SameShape
  <2>12. ASSUME NEW b \in DOMAIN before, NEW f \in DOMAIN before[b].fields
         PROVE  Flushed[b].fields[f] =
                  IF b = D /\ f \in buffer
                  THEN [length |-> WORD, val |-> newval.val] ELSE disk[b].fields[f]
    <3>1. CASE b # D
          BY <3>1, <2>8
    <3>2. CASE b = D
      <4>1. Flushed[b].fields[f] = New(f) /\ f \in DOMAIN disk[D].fields
            BY <3>2, <2>9 DEF SameShape
      <4>2. QED BY <3>2, <4>1, <2>6 DEF New
    <3>3. QED BY <3>1, <3>2
  <2>13. QED BY <2>10, <2>11, <2>12
<1>3. QED BY <1>1, <1>2

\* A flush keeps the invariant and leaves nothing that was shown unwritten.
LEMMA FlushKeeps ==
  ASSUME GrsInv, disk' = Flushed, UNCHANGED <<file, i, driver>>, status # "aborted",
         shown \subseteq shown'
  PROVE  /\ disk' \in [DOMAIN before' -> DataBlock]
         /\ SameShape(disk)'
         /\ DiffersOnlyIn(disk, driver.dataoff, shown)'
         /\ \A f \in shown : /\ f \in DOMAIN fields'
                             /\ fields'[f].length = WORD
                             /\ fields'[f].val = newval'.val
<1>1. /\ disk' \in [DOMAIN before -> DataBlock]
      /\ SameShape(disk')
      /\ \A b \in DOMAIN before : \A f \in DOMAIN before[b].fields :
           disk'[b].fields[f] =
             IF b = driver.dataoff /\ f \in buffer
             THEN [length |-> WORD, val |-> newval.val] ELSE disk[b].fields[f]
      BY FlushedData DEF GrsInv
<1>2. UNCHANGED <<before, newval, driver, driverstr>>
      BY DEF file
<1>3. SameShape(disk)'
      BY <1>1, <1>2 DEF SameShape
<1>4. DiffersOnlyIn(disk, driver.dataoff, shown)'
      BY <1>1, <1>2 DEF DiffersOnlyIn, GrsInv, ShownInv
<1>5. ASSUME NEW f \in shown
      PROVE  f \in DOMAIN fields' /\ fields'[f].length = WORD /\ fields'[f].val = newval'.val
  <2>1. IsNamed(driver) /\ driver.dataoff \in DOMAIN before
        BY FoundInFile DEF GrsInv, LookInv
  <2>2. /\ f \in DOMAIN disk[driver.dataoff].fields
        /\ f \notin buffer => disk[driver.dataoff].fields[f].val = newval.val
        /\ disk[driver.dataoff].fields[f].length = WORD
        BY DEF GrsInv, ShownInv, fields, Block
  <2>3. f \in DOMAIN before[driver.dataoff].fields
        BY <2>1, <2>2 DEF GrsInv, SameShape
  <2>4. /\ DOMAIN disk'[driver.dataoff].fields = DOMAIN before[driver.dataoff].fields
        /\ disk'[driver.dataoff].fields[f].length = WORD
        /\ disk'[driver.dataoff].fields[f].val = newval.val
        BY <1>1, <2>1, <2>2, <2>3 DEF SameShape, GrsInv
  <2>5. QED BY <1>2, <2>3, <2>4 DEF fields, Block
<1>6. QED BY <1>1, <1>2, <1>3, <1>4, <1>5

-----------------------------------------------------------------------------
(* The steps.                                                              *)

LEMMA GrsInit == Init => GrsInv
<1> SUFFICES ASSUME Init PROVE GrsInv
    OBVIOUS
<1>1. PICK f \in Files : drivers = f.drivers /\ disk = f.data /\ before = f.data
      BY DEF Init
<1>2. TypeInv
  <2>1. drivers \in Seq(Range(drivers)) /\ before \in Seq(DataBlock)
        BY <1>1, GrsAssumption
  <2>2. disk \in [DOMAIN before -> DataBlock]
        BY <1>1, <2>1
  <2>3. newval # None => newval.val \in Nat
        BY GrsAssumption DEF Init, Option
  <2>4. Len(drivers) \in Nat
        BY <2>1
  <2>5. QED BY <1>1, <2>1, <2>2, <2>3, <2>4, GrsAssumption DEF TypeInv, Init
<1>3. SameShape(disk) /\ DiffersOnlyIn(disk, driver.dataoff, shown)
      BY DEF Init, SameShape, DiffersOnlyIn
<1>4. Len(drivers) \in Nat /\ DOMAIN drivers = 1 .. Len(drivers)
      BY <1>2 DEF TypeInv
<1>5. LookInv /\ ShownInv
      BY <1>4 DEF Init, LookInv, ShownInv
<1>6. QED BY <1>2, <1>3, <1>5 DEF GrsInv

LEMMA GrsStep == GrsInv /\ [Next]_vars => GrsInv'
<1> SUFFICES ASSUME GrsInv, [Next]_vars PROVE GrsInv'
    OBVIOUS
<1> USE DEF GrsInv
<1>0. Len(drivers) \in Nat /\ DOMAIN drivers = 1 .. Len(drivers)
      BY DEF TypeInv
<1>1. CASE NextDriver
  <2> USE <1>1 DEF NextDriver, file
  <2>1. TypeInv' /\ SameShape(disk)'
        BY <1>0 DEF TypeInv, SameShape
  <2>2. shown = {} /\ buffer = {}
        BY DEF LookInv, ShownInv
  <2>3. DiffersOnlyIn(disk, driver.dataoff, shown)'
        BY <2>2 DEF DiffersOnlyIn
  <2>4. LookInv'
    <3>1. driver' = drivers'[i' - 1] /\ i' # 1
          BY DEF TypeInv
    <3>2. \A k \in DOMAIN drivers : k < i => ~IsNamed(drivers[k])
      <4> SUFFICES ASSUME NEW k \in DOMAIN drivers, k < i PROVE ~IsNamed(drivers[k])
          OBVIOUS
      <4>1. CASE k < i - 1
            BY <4>1 DEF LookInv
      <4>2. CASE k = i - 1
        <5>1. i # 1
              BY <4>2, <1>0
        <5>2. driver = drivers[k]
              BY <4>2, <5>1 DEF LookInv
        <5>3. ~IsNamed(driver)
              BY DEF NextDriver
        <5>4. QED BY <5>2, <5>3
      <4>3. k \in Int /\ i \in Int
            BY <1>0 DEF TypeInv
      <4>4. k < i - 1 \/ k = i - 1
            BY <4>3
      <4>5. QED BY <4>1, <4>2, <4>4
    <3>3. \A k \in DOMAIN drivers' : k < i' - 1 => ~IsNamed(drivers[k])'
          BY <3>2 DEF TypeInv, IsNamed
    <3>4. QED BY <2>2, <3>1, <3>3 DEF LookInv
  <2>5. ShownInv'
        BY <2>2 DEF ShownInv
  <2>6. QED BY <2>1, <2>3, <2>4, <2>5
<1>2. CASE JustListed \/ Found
  <2> USE <1>2 DEF JustListed, Found, DriversRead, file
  <2>1. TypeInv' /\ SameShape(disk)' /\ DiffersOnlyIn(disk, driver.dataoff, shown)'
        BY DEF TypeInv, SameShape, DiffersOnlyIn
  <2>2. LookInv' /\ ShownInv'
        BY DEF LookInv, ShownInv, IsNamed, fields, Block
  <2>3. QED BY <2>1, <2>2
<1>3. CASE Exit /\ status # "aborted"
  <2> USE <1>3 DEF Exit, file
  <2>1. QED BY FlushKeeps DEF TypeInv, LookInv, ShownInv, IsNamed
<1>4. CASE Empty \/ Pass
  <2> USE <1>4 DEF Empty, Pass, Continue, Running, Fits, file
  <2>1. QED BY SMTT(20), FlushKeeps DEF TypeInv, LookInv, ShownInv, IsNamed
<1>5. CASE Edit
  <2> USE <1>5 DEF Edit, Continue, Running, Fits, file
  <2>1. /\ disk' \in [DOMAIN before' -> DataBlock]
        /\ SameShape(disk)'
        /\ DiffersOnlyIn(disk, driver.dataoff, shown)'
        /\ \A f \in shown : /\ f \in DOMAIN fields'
                            /\ fields'[f].length = WORD
                            /\ fields'[f].val = newval'.val
        BY FlushKeeps
  <2>2. IsNamed(driver) /\ driver.dataoff \in DOMAIN before
        BY FoundInFile DEF LookInv
  <2>3. disk[driver.dataoff].fields \in Seq(Field)
        BY <2>2 DEF TypeInv, DataBlock
  <2>4. field \in DOMAIN disk[driver.dataoff].fields
        BY <2>3 DEF TypeInv, fields, Block
  <2>5. field \in DOMAIN fields' /\ fields'[field].length = WORD
        BY <2>1, <2>2, <2>4 DEF SameShape, fields, Block, length
  <2>6. TypeInv' /\ LookInv'
        BY <2>1, <2>2 DEF TypeInv, LookInv, IsNamed
  <2>7. ShownInv'
        BY <2>1, <2>5 DEF ShownInv, Chosen
  <2>8. QED BY <2>1, <2>6, <2>7
<1>6. CASE Finish
  <2> USE <1>6 DEF Finish, file
  <2>1. CASE datalen = 0
        BY <2>1, FlushKeeps DEF TypeInv, LookInv, ShownInv, IsNamed
  <2>2. CASE datalen # 0
        BY <2>2 DEF TypeInv, SameShape, DiffersOnlyIn, LookInv, ShownInv, IsNamed, fields, Block
  <2>3. QED BY <2>1, <2>2
<1>7. CASE UNCHANGED vars
      BY <1>7 DEF vars, file, TypeInv, SameShape, DiffersOnlyIn, LookInv, ShownInv, IsNamed,
                  fields, Block
<1>8. CASE NotFound \/ Corrupt \/ TooBig \/ NotAWord
      BY <1>3, <1>8 DEF NotFound, Corrupt, TooBig, NotAWord, DriversRead, Running, Fits
<1>9. QED BY <1>1, <1>2, <1>4, <1>5, <1>6, <1>7, <1>8 DEF Next

-----------------------------------------------------------------------------
(* The results.                                                            *)

\* However it ends, and whatever the file holds, the tool changes no field but
\* those that were asked for, of the first driver with the name, and gives them
\* the value that was asked for (main of src/util/grsutil.c).
THEOREM OnlyTheChosenChange == Spec => []EditsOnlyWhatWasChosen
<1>1. GrsInv => EditsOnlyWhatWasChosen
  <2> SUFFICES ASSUME GrsInv, NEW b \in DOMAIN before
               PROVE  /\ disk[b].size = before[b].size
                      /\ \A f \in DOMAIN before[b].fields :
                           disk[b].fields[f] # before[b].fields[f] =>
                             /\ b \in Asked
                             /\ disk[b].fields[f] = [length |-> WORD, val |-> newval.val]
                             /\ fieldnum \in {None, [val |-> f - 1]}
      BY DEF EditsOnlyWhatWasChosen
  <2>1. disk[b].size = before[b].size
        BY DEF GrsInv, SameShape
  <2>2. ASSUME NEW f \in DOMAIN before[b].fields,
               disk[b].fields[f] # before[b].fields[f]
        PROVE  /\ b \in Asked
               /\ disk[b].fields[f] = [length |-> WORD, val |-> newval.val]
               /\ fieldnum \in {None, [val |-> f - 1]}
    <3>1. /\ b = driver.dataoff /\ f \in shown
          /\ disk[b].fields[f] = [length |-> WORD, val |-> newval.val]
          BY <2>2 DEF GrsInv, DiffersOnlyIn
    <3>2. fieldnum \in {None, [val |-> f - 1]}
          BY <3>1 DEF GrsInv, ShownInv
    <3>3. IsNamed(driver) /\ i - 1 \in DOMAIN drivers /\ driver = drivers[i - 1]
          BY <3>1, FoundInFile DEF GrsInv, LookInv
    <3>4. \A k \in DOMAIN drivers : IsNamed(drivers[k]) => i - 1 <= k
      <4>1. i \in Int /\ DOMAIN drivers \subseteq Int
            BY DEF GrsInv, TypeInv
      <4>2. \A k \in DOMAIN drivers : IsNamed(drivers[k]) => ~(k < i - 1)
            BY DEF GrsInv, LookInv
      <4>3. QED BY <4>1, <4>2
    <3>5. b \in Asked
          BY <3>1, <3>3, <3>4 DEF Asked
    <3>6. QED BY <3>1, <3>2, <3>5
  <2>3. QED BY <2>1, <2>2
<1>2. QED BY <1>1, GrsInit, GrsStep, PTL DEF Spec

\* Unless the program aborts, which loses what is in the stream's buffer, what
\* it said to have set is set.
THEOREM ShownIsInTheFile == Spec => []ShownIsWritten
<1>1. GrsInv => ShownIsWritten
      BY DEF GrsInv, ShownInv, ShownIsWritten
<1>2. QED BY <1>1, GrsInit, GrsStep, PTL DEF Spec

-----------------------------------------------------------------------------
(* Sound files.  The size of a sound block leaves, at each field, exactly  *)
(* what the fields from there on take; so that the only way to fail is a   *)
(* field that was chosen and is no word, and nothing else is written then. *)

Lengths(b) == [f \in DOMAIN before[b].fields |-> before[b].fields[f].length]
From(b, n) == {f \in DOMAIN before[b].fields : f >= n}
ToBeEdited(b, f) == fieldnum = [val |-> f - 1] /\ before[b].fields[f].length = WORD

WalkInv ==
  /\ status \in {"drivers", "fields", "listed", "done", "failed", "aborted"}
  /\ status = "listed" => driverstr = None
  /\ status \in {"fields", "done", "aborted"} => IsNamed(driver)
  /\ status = "done" => field > Len(before[driver.dataoff].fields)
  /\ status = "drivers" => field = 1
  /\ fieldnum \in Option(FieldNums)
  /\ \A f \in shown : f < field

SoundInv ==
  Sound /\ fieldnum # None =>
    /\ status # "aborted"
    /\ status = "fields" => datalen = SumFunctionOnSet(Lengths(driver.dataoff), From(driver.dataoff, field))
    /\ status = "failed" => shown = {}
    /\ newval # None =>
         /\ status \in {"fields", "done"} =>
              \A f \in DOMAIN before[driver.dataoff].fields :
                f < field /\ ToBeEdited(driver.dataoff, f) => f \in shown
         /\ status = "failed" =>
              \A b \in Asked : \A f \in DOMAIN before[b].fields : ~ToBeEdited(b, f)

LEMMA Untouched ==
  ASSUME GrsInv, shown = {}
  PROVE  disk = before /\ Flushed = before
<1>1. /\ disk \in [DOMAIN before -> DataBlock] /\ before \in Seq(DataBlock)
      /\ SameShape(disk) /\ DiffersOnlyIn(disk, driver.dataoff, {}) /\ buffer = {}
      BY DEF GrsInv, TypeInv, ShownInv
<1>2. before \in [DOMAIN before -> DataBlock]
      BY <1>1
<1>3. ASSUME NEW b \in DOMAIN before PROVE disk[b] = before[b]
  <2>1. disk[b] \in DataBlock /\ before[b] \in DataBlock
        BY <1>1, <1>2
  <2>2. disk[b].size = before[b].size /\ DOMAIN disk[b].fields = DOMAIN before[b].fields
        BY <1>1 DEF SameShape
  <2>3. \A f \in DOMAIN before[b].fields : disk[b].fields[f] = before[b].fields[f]
        BY <1>1 DEF DiffersOnlyIn
  <2>4. disk[b].fields \in Seq(Field) /\ before[b].fields \in Seq(Field)
        BY <2>1 DEF DataBlock
  <2>5. disk[b].fields = before[b].fields
        BY <2>2, <2>3, <2>4
  <2>6. QED BY <2>1, <2>2, <2>5 DEF DataBlock
<1>4. disk = before
      BY <1>1, <1>2, <1>3
<1>5. QED BY <1>1, <1>4 DEF Flushed

LEMMA AskedIs ==
  ASSUME GrsInv
  PROVE  /\ IsNamed(driver) => /\ Asked = {driver.dataoff} /\ driver.dataoff \in DOMAIN before
         /\ DriversRead /\ ~IsNamed(driver) => Asked = {}
         /\ driverstr = None => Asked = {}
<1>1. /\ i \in Int /\ DOMAIN drivers \subseteq Int /\ DOMAIN drivers = 1 .. Len(drivers)
      /\ Len(drivers) \in Nat /\ i \in 1 .. Len(drivers) + 1
      BY DEF GrsInv, TypeInv
<1>2. /\ \A k \in DOMAIN drivers : IsNamed(drivers[k]) => ~(k < i - 1)
      /\ driver = IF i = 1 THEN None ELSE drivers[i - 1]
      BY DEF GrsInv, LookInv
<1>3. ASSUME IsNamed(driver) PROVE Asked = {driver.dataoff} /\ driver.dataoff \in DOMAIN before
  <2>1. i - 1 \in DOMAIN drivers /\ driver = drivers[i - 1] /\ driver.dataoff \in DOMAIN before
        BY <1>3, FoundInFile DEF GrsInv
  <2>2. \A k \in DOMAIN drivers : IsNamed(drivers[k]) => i - 1 <= k
        BY <1>1, <1>2
  <2>3. \A k \in DOMAIN drivers :
          IsNamed(drivers[k]) /\ (\A n \in DOMAIN drivers : IsNamed(drivers[n]) => k <= n) <=> k = i - 1
        BY <1>1, <1>3, <2>1, <2>2
  <2>4. QED BY <2>1, <2>3 DEF Asked
<1>4. ASSUME DriversRead, ~IsNamed(driver) PROVE Asked = {}
  <2>1. i > Len(drivers)
        BY <1>4 DEF DriversRead
  <2>2. \A k \in DOMAIN drivers : ~IsNamed(drivers[k])
    <3>1. SUFFICES ASSUME NEW k \in DOMAIN drivers, IsNamed(drivers[k]) PROVE FALSE
          OBVIOUS
    <3>2. k = i - 1 /\ i # 1
          BY <1>1, <1>2, <2>1, <3>1
    <3>3. QED BY <1>2, <1>4, <3>1, <3>2
  <2>3. QED BY <2>2 DEF Asked
<1>5. ASSUME driverstr = None PROVE Asked = {}
      BY <1>5 DEF Asked, IsNamed
<1>6. QED BY <1>3, <1>4, <1>5

\* The driver's block has the lengths it had; a sound one has room for them.
LEMMA BlockIs ==
  ASSUME GrsInv, IsNamed(driver)
  PROVE  LET D == driver.dataoff
         IN  /\ DOMAIN fields = DOMAIN before[D].fields /\ Len(fields) = Len(before[D].fields)
             /\ Len(fields) \in Nat /\ DOMAIN fields = 1 .. Len(fields)
             /\ \A f \in DOMAIN fields : /\ fields[f].length = Lengths(D)[f] /\ Lengths(D)[f] \in Nat
                                         /\ Lengths(D)[f] = before[D].fields[f].length
             /\ IsFiniteSet(DOMAIN fields)
             /\ Sound => /\ Block.size >= Overhead
                         /\ Block.size - Overhead = SumFunctionOnSet(Lengths(D), DOMAIN fields)
                         /\ \A f \in DOMAIN fields : fields[f].length <= MAXDATA
<1> DEFINE D == driver.dataoff
           S == DOMAIN before[D].fields
           Raised == [f \in S |-> WORD + before[D].fields[f].length]
           n == Len(fields)
<1>1. D \in DOMAIN before /\ Asked = {D}
      BY AskedIs
<1>2. disk[D] \in DataBlock /\ before[D] \in DataBlock
      BY <1>1 DEF GrsInv, TypeInv
<1>3. /\ fields \in Seq(Field) /\ before[D].fields \in Seq(Field)
      BY <1>2 DEF DataBlock, fields, Block
<1>4. /\ DOMAIN fields = S /\ Block.size = before[D].size
      /\ \A f \in S : fields[f].length = before[D].fields[f].length
      BY <1>1 DEF GrsInv, SameShape, fields, Block
<1>5. n \in Nat /\ DOMAIN fields = 1 .. n /\ n = Len(before[D].fields)
      BY <1>3, <1>4
<1>6. \A f \in S : /\ fields[f].length = Lengths(D)[f] /\ Lengths(D)[f] \in Nat
                   /\ Lengths(D)[f] = before[D].fields[f].length
  <2>1. ASSUME NEW f \in S PROVE before[D].fields[f].length \in Nat
    <3>1. before[D].fields[f] \in Field
          BY <1>3
    <3>2. QED BY <3>1 DEF Field
  <2>2. QED BY <1>4, <2>1 DEF Lengths
<1>7. IsFiniteSet(S) /\ Cardinality(S) = n
  <2>1. S = 1 .. n
        BY <1>4, <1>5
  <2>2. IsFiniteSet(1 .. n) /\ Cardinality(1 .. n) = n
    <3> HIDE DEF n
    <3>1. 1 \in Int /\ n \in Int /\ n \in Nat
          BY <1>5
    <3>2. IsFiniteSet(1 .. n) /\ Cardinality(1 .. n) = IF 1 > n THEN 0 ELSE n - 1 + 1
          BY <3>1, FS_Interval
    <3>3. QED BY <3>1, <3>2
  <2>3. QED BY <2>1, <2>2
<1>8. ASSUME Sound
      PROVE  /\ Block.size >= Overhead
             /\ Block.size - Overhead = SumFunctionOnSet(Lengths(D), S)
             /\ \A f \in S : fields[f].length <= MAXDATA
  <2>1. before[D].size = WORD + SumFunctionOnSet(Raised, S)
        BY <1>1, <1>8 DEF Sound, SizeOf
  <2>2. \A f \in S : before[D].fields[f].length <= MAXDATA
    <3>1. \A x \in Range(before[D].fields) : x.length <= MAXDATA
          BY <1>1, <1>8 DEF Sound
    <3>2. QED BY <3>1 DEF Range
  <2>3. SumFunctionOnSet(Raised, S) = 2 * n + SumFunctionOnSet(Lengths(D), S)
    <3>1. \A f \in S : Lengths(D)[f] \in Nat /\ Raised[f] = 2 + Lengths(D)[f]
          BY <1>6 DEF WORD
    <3> DEFINE l == Lengths(D)
    <3> HIDE DEF Raised, S, n, l
    <3>2. \A f \in S : l[f] \in Nat /\ Raised[f] = 2 + l[f]
          BY <3>1 DEF l
    <3>3. SumFunctionOnSet(Raised, S) = 2 * Cardinality(S) + SumFunctionOnSet(l, S)
          BY <1>7, <3>2, SumOfRaised
    <3>4. QED BY <1>7, <3>3 DEF l
  <2>4. SumFunctionOnSet(Lengths(D), S) \in Nat
    <3> HIDE DEF S, D
    <3>1. QED BY <1>6, <1>7, SumType
  <2>5. Overhead = 2 * (n + 1)
        BY DEF Overhead, WORD
  <2> DEFINE sum == SumFunctionOnSet(Lengths(D), S)
             size == Block.size
             over == Overhead
  <2>6. size = 2 + (2 * n + sum) /\ over = 2 * (n + 1) /\ sum \in Nat /\ n \in Nat
        BY <1>4, <1>5, <2>1, <2>3, <2>4, <2>5 DEF WORD
  <2> HIDE DEF sum, size, over, n
  <2>7. size >= over /\ size - over = sum
        BY <2>6
  <2>8. QED BY <1>4, <2>2, <2>7 DEF sum, size, over
<1>9. QED BY <1>4, <1>5, <1>6, <1>7, <1>8

\* What is left at a field is its length and what is left after it.
LEMMA LeftIs ==
  ASSUME GrsInv, IsNamed(driver), field \in DOMAIN fields
  PROVE  LET D == driver.dataoff
         IN  /\ SumFunctionOnSet(Lengths(D), From(D, field))
                  = length + SumFunctionOnSet(Lengths(D), From(D, field + 1))
             /\ SumFunctionOnSet(Lengths(D), From(D, field + 1)) \in Nat
             /\ length \in Nat
<1> DEFINE D == driver.dataoff
           T == From(D, field)
           l == Lengths(D)
<1>1. /\ field \in Nat /\ DOMAIN before[D].fields \subseteq Nat
      /\ field \in DOMAIN before[D].fields /\ IsFiniteSet(DOMAIN before[D].fields)
      /\ \A f \in DOMAIN before[D].fields : l[f] \in Nat
      /\ length = l[field]
      BY BlockIs DEF length
<1>2. T \in SUBSET DOMAIN before[D].fields /\ field \in T /\ T \ {field} = From(D, field + 1)
      BY <1>1 DEF From
<1>3. IsFiniteSet(T) /\ IsFiniteSet(T \ {field})
      BY <1>1, <1>2, FS_Subset
<1>4. /\ \A f \in T : l[f] \in Nat
      /\ \A f \in T \ {field} : l[f] \in Nat
      BY <1>1, <1>2
<1> HIDE DEF T, l, D
<1>5. SumFunctionOnSet(l, T) = l[field] + SumFunctionOnSet(l, T \ {field})
      BY <1>2, <1>3, <1>4, SumWithout
<1>6. SumFunctionOnSet(l, T \ {field}) \in Nat /\ l[field] \in Nat
      BY <1>2, <1>3, <1>4, SumType
<1>7. QED BY <1>1, <1>2, <1>5, <1>6 DEF D, T, l

\* What the file was and what was asked for does not change.
LEMMA FileStays ==
  ASSUME UNCHANGED file
  PROVE  /\ Sound' = Sound /\ Asked' = Asked /\ UNCHANGED <<drivers, before, driverstr, fieldnum, newval>>
         /\ \A b : Lengths(b)' = Lengths(b)
         /\ \A b, n : From(b, n)' = From(b, n)
         /\ \A b, f : ToBeEdited(b, f)' = ToBeEdited(b, f)
<1>1. UNCHANGED <<drivers, before, driverstr, fieldnum, newval>>
      BY DEF file
<1>2. Asked' = Asked
      BY <1>1 DEF Asked, IsNamed
<1>3. Sound' = Sound
      BY <1>1, <1>2 DEF Sound, SizeOf
<1>4. QED BY <1>1, <1>2, <1>3 DEF Lengths, From, ToBeEdited

LEMMA SoundInit == Init => WalkInv /\ SoundInv
BY DEF Init, WalkInv, SoundInv

\* The way out: if nothing was shown, nothing is written.
LEMMA ExitKeeps ==
  ASSUME GrsInv, WalkInv, SoundInv, Exit,
         Sound /\ fieldnum # None =>
            /\ shown = {}
            /\ newval # None => \A b \in Asked : \A f \in DOMAIN before[b].fields : ~ToBeEdited(b, f)
  PROVE  WalkInv' /\ SoundInv'
<1>1. UNCHANGED <<i, driver, field, datalen, shown>> /\ status' = "failed" /\ UNCHANGED file
      BY DEF Exit
<1>2. WalkInv'
      BY <1>1, FileStays DEF WalkInv
<1>3. SoundInv'
      BY <1>1, FileStays DEF SoundInv
<1>4. QED BY <1>2, <1>3

LEMMA SearchKeeps ==
  ASSUME GrsInv, WalkInv, SoundInv,
         NextDriver \/ JustListed \/ NotFound \/ Corrupt \/ Found
  PROVE  WalkInv' /\ SoundInv'
<1>1. status = "drivers" /\ shown = {}
      BY DEF NextDriver, JustListed, NotFound, Corrupt, Found, DriversRead, GrsInv, LookInv
<1>2. CASE NextDriver
      BY <1>1, <1>2, FileStays DEF NextDriver, WalkInv, SoundInv
<1>3. CASE JustListed
      BY <1>1, <1>3, FileStays DEF JustListed, WalkInv, SoundInv
<1>4. CASE NotFound
  <2>1. Asked = {}
        BY <1>4, AskedIs DEF NotFound
  <2>2. QED BY <1>1, <1>4, <2>1, ExitKeeps DEF NotFound
<1>5. CASE Corrupt
  <2>1. ~Sound
    <3>1. IsNamed(driver) /\ Block.size < Overhead
          BY <1>5 DEF Corrupt
    <3>2. Block.size \in Nat /\ Overhead \in Nat
      <4>1. driver.dataoff \in DOMAIN before /\ Len(fields) \in Nat
            BY <3>1, AskedIs, BlockIs
      <4>2. Overhead \in Nat
            BY <4>1 DEF Overhead, WORD
      <4>3. QED BY <4>1, <4>2 DEF Block, GrsInv, TypeInv, DataBlock
    <3>3. QED BY <3>1, <3>2, BlockIs
  <2>2. QED BY <1>5, <2>1, ExitKeeps DEF Corrupt
<1>6. CASE Found
  <2> DEFINE D == driver.dataoff
  <2>1. /\ IsNamed(driver) /\ datalen' = Block.size - Overhead /\ status' = "fields"
        /\ UNCHANGED <<disk, file, i, driver, field, buffer, shown>>
        BY <1>6 DEF Found
  <2>2. field = 1
        BY <1>1 DEF WalkInv
  <2>3. /\ From(D, 1) = DOMAIN fields
        /\ Sound => Block.size - Overhead = SumFunctionOnSet(Lengths(D), DOMAIN fields)
    <3>1. DOMAIN fields = DOMAIN before[D].fields /\ DOMAIN fields = 1 .. Len(fields) /\ Len(fields) \in Nat
          BY <2>1, BlockIs
    <3>2. From(D, 1) = DOMAIN fields
          BY <3>1 DEF From
    <3>3. QED BY <2>1, <3>2, BlockIs
  <2>4. WalkInv'
        BY <1>1, <2>1, FileStays DEF WalkInv, IsNamed
  <2>5. \A f \in DOMAIN before[D].fields : ~(f < 1)
    <3>1. DOMAIN before[D].fields = 1 .. Len(fields)
          BY <2>1, BlockIs
    <3>2. QED BY <3>1
  <2>6. Sound => datalen' = SumFunctionOnSet(Lengths(D), From(D, field))
        BY <2>1, <2>2, <2>3
  <2>7. UNCHANGED <<driver, field, shown>> /\ status' = "fields"
        BY <2>1
  <2>8. SoundInv'
        BY <2>2, <2>5, <2>6, <2>7, <2>1, FileStays DEF SoundInv
  <2>9. QED BY <2>4, <2>8
<1>7. QED BY <1>2, <1>3, <1>4, <1>5, <1>6

LEMMA ContinueKeeps ==
  ASSUME GrsInv, WalkInv, SoundInv, Empty \/ Pass \/ Edit
  PROVE  WalkInv' /\ SoundInv'
<1> DEFINE D == driver.dataoff
<1>1. /\ status = "fields" /\ status' = "fields" /\ field <= Len(fields) /\ field' = field + 1
      /\ UNCHANGED <<file, i, driver>> /\ UNCHANGED file /\ driver' = driver
      /\ datalen' = datalen - length \/ (length = 0 /\ datalen' = datalen)
      /\ shown' \subseteq shown \cup {field} /\ shown \subseteq shown'
  <2>1. status = "fields" /\ field <= Len(fields) /\ Continue
        BY DEF Empty, Pass, Edit, Running, Fits
  <2>2. shown' \subseteq shown \cup {field} /\ shown \subseteq shown'
        BY DEF Empty, Pass, Edit
  <2>3. datalen' = datalen - length \/ (length = 0 /\ datalen' = datalen)
        BY Zenon DEF Empty, Pass, Edit
  <2>4. QED BY <2>1, <2>2, <2>3 DEF Continue
<1>2. IsNamed(driver)
      BY <1>1 DEF WalkInv
<1>3. /\ Len(fields) \in Nat /\ DOMAIN fields = 1 .. Len(fields)
      /\ DOMAIN fields = DOMAIN before[D].fields
      BY <1>2, BlockIs
<1>4. field \in DOMAIN fields /\ field \in Nat
      BY <1>1, <1>3 DEF GrsInv, TypeInv
<1>5. WalkInv'
  <2>1. \A f \in shown : f \in Nat /\ f < field
        BY <1>3 DEF GrsInv, ShownInv, WalkInv
  <2>2. \A f \in shown' : f < field'
        BY <1>1, <1>4, <2>1
  <2>3. QED BY <1>1, <1>2, <2>2 DEF WalkInv, IsNamed, file
<1>6. Sound /\ fieldnum # None => datalen' = SumFunctionOnSet(Lengths(D), From(D, field + 1))
  <2>1. SUFFICES ASSUME Sound, fieldnum # None
                 PROVE  datalen' = SumFunctionOnSet(Lengths(D), From(D, field + 1))
        OBVIOUS
  <2>2. datalen = SumFunctionOnSet(Lengths(D), From(D, field))
        BY <1>1, <2>1 DEF SoundInv
  <2> DEFINE sum == SumFunctionOnSet(Lengths(D), From(D, field + 1))
  <2>3. datalen = length + sum /\ sum \in Nat /\ length \in Nat
        BY <1>2, <1>4, <2>2, LeftIs
  <2> HIDE DEF sum
  <2>4. datalen' = sum
        BY <1>1, <2>3
  <2>5. QED BY <2>4 DEF sum
<1>7. ASSUME newval # None, NEW f \in DOMAIN before[D].fields, f < field + 1, ToBeEdited(D, f),
             Sound, fieldnum # None
      PROVE  f \in shown'
  <2>1. f \in Nat
        BY <1>3
  <2>2. CASE f < field
        BY <1>1, <1>7, <2>2 DEF SoundInv
  <2>3. CASE f = field
    <3>1. length = WORD
          BY <1>2, <1>4, <1>7, <2>3, BlockIs DEF ToBeEdited, length
    <3>2. Chosen
          BY <1>7, <2>3 DEF ToBeEdited, Chosen
    <3>3. Edit
          BY <1>7, <3>1, <3>2 DEF Empty, Pass, WORD
    <3>4. QED BY <2>3, <3>3 DEF Edit
  <2>4. QED BY <1>4, <1>7, <2>1, <2>2, <2>3
<1>8. SoundInv'
  <2>1. D' = D
        BY <1>1
  <2>2. QED BY <1>1, <1>6, <1>7, <2>1, FileStays DEF SoundInv
<1>9. QED BY <1>5, <1>8

LEMMA StopKeeps ==
  ASSUME GrsInv, WalkInv, SoundInv, TooBig \/ NotAWord
  PROVE  WalkInv' /\ SoundInv'
<1> DEFINE D == driver.dataoff
<1>1. status = "fields" /\ field <= Len(fields) /\ Exit
      BY DEF TooBig, NotAWord, Running, Fits
<1>2. IsNamed(driver)
      BY <1>1 DEF WalkInv
<1>3. /\ Len(fields) \in Nat /\ DOMAIN fields = 1 .. Len(fields)
      /\ DOMAIN fields = DOMAIN before[D].fields
      BY <1>2, BlockIs
<1>4. field \in DOMAIN fields /\ field \in Nat
      BY <1>1, <1>3 DEF GrsInv, TypeInv
<1>5. CASE TooBig
  <2>1. ASSUME Sound, fieldnum # None PROVE FALSE
    <3> DEFINE sum == SumFunctionOnSet(Lengths(D), From(D, field + 1))
    <3>1. datalen = length + sum /\ sum \in Nat /\ length \in Nat
          BY <1>1, <1>2, <1>4, <2>1, LeftIs DEF SoundInv
    <3>2. length <= MAXDATA
          BY <1>2, <1>4, <2>1, BlockIs DEF length
    <3>3. length > MAXDATA \/ length > datalen
          BY <1>5 DEF TooBig
    <3> HIDE DEF sum
    <3>4. QED BY <3>1, <3>2, <3>3 DEF MAXDATA
  <2>2. QED BY <1>1, <2>1, ExitKeeps
<1>6. CASE NotAWord
  <2>1. ASSUME Sound, fieldnum # None
        PROVE  /\ shown = {}
               /\ \A b \in Asked : \A f \in DOMAIN before[b].fields : ~ToBeEdited(b, f)
    <3>1. fieldnum = [val |-> field - 1] /\ length # WORD
          BY <1>6, <2>1 DEF NotAWord, Chosen
    <3>2. \A f \in DOMAIN fields : fieldnum = [val |-> f - 1] => f = field
      <4>1. SUFFICES ASSUME NEW f \in DOMAIN fields, fieldnum = [val |-> f - 1] PROVE f = field
            OBVIOUS
      <4>2. f - 1 = field - 1 /\ f \in Int /\ field \in Int
            BY <1>3, <1>4, <3>1, <4>1
      <4>3. QED BY <4>2
    <3>3. ASSUME NEW f \in shown PROVE FALSE
      <4>1. f \in DOMAIN fields /\ fieldnum = [val |-> f - 1] /\ f < field
            BY <2>1 DEF GrsInv, ShownInv, WalkInv
      <4>2. QED BY <1>4, <3>2, <4>1
    <3>4. ASSUME NEW b \in Asked, NEW f \in DOMAIN before[b].fields, ToBeEdited(b, f) PROVE FALSE
      <4>1. b = D
            BY <1>2, AskedIs
      <4>2. f = field /\ before[D].fields[f].length = WORD
            BY <1>3, <3>2, <3>4, <4>1 DEF ToBeEdited
      <4>3. length = before[D].fields[field].length
            BY <1>2, <1>4, BlockIs DEF length
      <4>4. QED BY <3>1, <4>2, <4>3
    <3>5. QED BY <3>3, <3>4
  <2>2. QED BY <1>1, <2>1, ExitKeeps
<1>7. QED BY <1>5, <1>6

LEMMA FinishKeeps ==
  ASSUME GrsInv, WalkInv, SoundInv, Finish
  PROVE  WalkInv' /\ SoundInv'
<1> DEFINE D == driver.dataoff
<1>1. /\ status = "fields" /\ field > Len(fields) /\ UNCHANGED <<i, driver, field, datalen, shown>>
      /\ UNCHANGED file /\ status' = IF datalen = 0 THEN "done" ELSE "aborted"
      BY DEF Finish
<1>2. IsNamed(driver)
      BY <1>1 DEF WalkInv
<1>3. /\ Len(fields) \in Nat /\ DOMAIN before[D].fields = 1 .. Len(fields)
      /\ Len(before[D].fields) = Len(fields)
      BY <1>2, BlockIs
<1>4. WalkInv'
      BY <1>1, <1>2, <1>3 DEF WalkInv, IsNamed, file
<1>5. Sound /\ fieldnum # None => datalen = 0
  <2>1. From(D, field) = {}
        BY <1>1, <1>3 DEF From, GrsInv, TypeInv
  <2>2. QED BY <1>1, <2>1, SumEmpty DEF SoundInv
<1>6. SoundInv'
      BY <1>1, <1>5, FileStays DEF SoundInv
<1>7. QED BY <1>4, <1>6

LEMMA SoundStep == GrsInv /\ WalkInv /\ SoundInv /\ [Next]_vars => WalkInv' /\ SoundInv'
<1> SUFFICES ASSUME GrsInv, WalkInv, SoundInv, [Next]_vars PROVE WalkInv' /\ SoundInv'
    OBVIOUS
<1>1. CASE UNCHANGED vars
  <2>1. UNCHANGED <<i, driver, field, datalen, shown, status>> /\ UNCHANGED file
        BY <1>1 DEF vars
  <2>2. QED BY <2>1, FileStays DEF WalkInv, SoundInv, IsNamed
<1>2. QED BY <1>1, SearchKeeps, ContinueKeeps, StopKeeps, FinishKeeps DEF Next

\* In a sound file, whatever the fields are, an edit of one field never fails
\* half-way: when the tool fails, the file is as it was, and it never aborts.
THEOREM EditsAreAllOrNothing == Spec => []AllOrNothing
<1>1. GrsInv /\ WalkInv /\ SoundInv => AllOrNothing
  <2>1. SUFFICES ASSUME GrsInv, SoundInv, Sound, fieldnum # None
                 PROVE  (status = "failed" => disk = before) /\ status # "aborted"
        BY DEF AllOrNothing
  <2>2. QED BY <2>1, Untouched DEF SoundInv
<1>2. QED BY <1>1, GrsInit, GrsStep, SoundInit, SoundStep, PTL DEF Spec

\* In a sound file the one field that was asked for is edited if it is a word,
\* wherever it and its driver stand, whatever comes before.
THEOREM EditsAreMade == Spec => []EditIsMade
<1>1. GrsInv /\ WalkInv /\ SoundInv => EditIsMade
  <2>1. SUFFICES ASSUME GrsInv, WalkInv, SoundInv, Ended, fieldnum # None, newval # None, Sound,
                        NEW b \in Asked, NEW f \in DOMAIN before[b].fields,
                        f = fieldnum.val + 1, before[b].fields[f].length = WORD
                 PROVE  disk[b].fields[f].val = newval.val
        BY DEF EditIsMade
  <2> DEFINE D == driver.dataoff
  <2>2. ToBeEdited(b, f)
    <3>1. PICK v \in Nat : fieldnum = [val |-> v]
          BY <2>1, GrsAssumption DEF WalkInv, Option
    <3>2. f - 1 = v
          BY <2>1, <3>1
    <3>3. QED BY <2>1, <3>1, <3>2 DEF ToBeEdited
  <2>3. status # "failed" /\ status # "aborted" /\ status # "listed"
        BY <2>1, <2>2, AskedIs DEF SoundInv, WalkInv
  <2>4. status = "done"
        BY <2>1, <2>3 DEF Ended, WalkInv
  <2>5. IsNamed(driver) /\ b = D /\ field > Len(before[D].fields)
        BY <2>1, <2>4, AskedIs DEF WalkInv
  <2>6. f < field
    <3>1. Len(fields) \in Nat /\ DOMAIN before[D].fields = 1 .. Len(fields)
          /\ Len(before[D].fields) = Len(fields)
          BY <2>1, <2>5, BlockIs
    <3>2. QED BY <2>1, <2>5, <3>1 DEF GrsInv, TypeInv
  <2>7. f \in shown
        BY <2>1, <2>2, <2>4, <2>5, <2>6 DEF SoundInv
  <2>8. buffer = {}
        BY <2>1, <2>4 DEF GrsInv, ShownInv
  <2>9. fields[f].val = newval.val
        BY <2>1, <2>4, <2>7, <2>8 DEF GrsInv, ShownInv
  <2>10. QED BY <2>5, <2>9 DEF fields, Block
<1>2. QED BY <1>1, GrsInit, GrsStep, SoundInit, SoundStep, PTL DEF Spec
=============================================================================
