--------------------------- MODULE SaveSlotsProofs ---------------------------
(***************************************************************************)
(* Proofs about SaveSlots, for any number of routines, save games and      *)
(* damaged records.                                                        *)
(*                                                                         *)
(* The slot promises something to a game that uses it one routine at a     *)
(* time, Exclusive.  Then one routine at most is under way, and where it   *)
(* is says what the two records of the slot can be: the invariant SlotInv  *)
(* has a conjunct for the reads, one for the writes, one for deletions and *)
(* one, Goal, for what the routine is about to do.                         *)
(***************************************************************************)
EXTENDS SaveSlots, TLAPS

-----------------------------------------------------------------------------
(* The state *)

Kinds == {"none", "broken", "new", "old"}
Record == [kind : Kinds, n : Nat]
IsValue(v) == v \in Record /\ (v.kind \in {"none", "broken"} => v.n = 0)
IsStore(store) == store \in [Key -> Record] /\ \A k \in Key : IsValue(store[k])

Slot == {"main", "backup"}
Places == DOMAIN Reads \cup DOMAIN Writes \cup {"idle", "delete", "forget"}
Steps == {"py", "browser", "migrate", "clear", "alone", "done", "failed"}
Marks == [Slot -> Steps] \cup [{"legacy"} -> Steps]
Calls == [at : Places, io : Steps \cup Marks, val : Record, prev : Record]
IsCall(c) ==
    /\ c \in Calls /\ IsValue(c.val) /\ IsValue(c.prev)
    /\ c.io \in IF c.at \in {"delete", "forget"} THEN Marks ELSE Steps

TypeInv ==
    /\ desktop \in BOOLEAN
    /\ IsStore(py) /\ IsStore(idb) /\ IsStore(local) /\ IsStore(mem)
    /\ ~desktop => \A k \in Key : py[k] = Nothing
    /\ run \in [Routine -> Calls] /\ \A r \in Routine : IsCall(run[r])
    /\ ~desktop => \A r \in Routine :
         run[r].at \notin {"idle", "delete", "forget"} => run[r].io = "alone"
    /\ serial \in Nat /\ floor \in Nat \X Nat
    /\ gone \in BOOLEAN /\ early \in BOOLEAN /\ cleared \in BOOLEAN
    /\ overlap \in BOOLEAN /\ cut \in BOOLEAN
    /\ damage \in Nat /\ faults \in Nat

\* The storage operations by the points that await them.
LEMMA Points ==
  /\ DOMAIN Reads = {"previous", "check", "verify", "primary", "spare",
                     "quick", "early"}
  /\ DOMAIN Writes = {"backup", "save", "upgrade", "repair", "adopt"}
  /\ \A at \in DOMAIN Reads : Reads[at] \in Key
  /\ \A at \in DOMAIN Writes : Writes[at] \in Slot /\ Writes[at] \in Key
  BY DEF Reads, Writes, Key, Slot

LEMMA Values ==
  /\ IsValue(Nothing) /\ IsValue(Broken) /\ Nothing # Broken
  /\ \A n \in Nat : IsValue(New(n)) /\ IsValue(Old(n))
  /\ \A v : IsValue(v) => IsValue(Upgraded(v)) /\ v.n \in Nat
  BY DEF IsValue, Record, Kinds, Nothing, Broken, New, Old, Upgraded

LEMMA IdleCall == IsCall(Idle) /\ Idle.at = "idle"
  BY Values DEF IsCall, Calls, Idle, Places, Steps, IsValue

LEMMA AwaitCall ==
  ASSUME TypeInv, NEW at \in Places \ {"idle", "delete", "forget"}, NEW val,
         IsValue(val)
  PROVE  /\ IsCall(Await(at, val))
         /\ Await(at, val).at = at /\ Await(at, val).val = val
         /\ Await(at, val).io = IF desktop THEN "py" ELSE "alone"
         /\ Await(at, val).prev = Nothing
  BY Values DEF IsCall, Calls, Idle, Await, Places, Steps, IsValue

LEMMA AwaitDeleteCall ==
  ASSUME NEW at \in {"delete", "forget"}, NEW keys \in {Slot, {"legacy"}}
  PROVE  /\ IsCall(AwaitDelete(at, keys))
         /\ AwaitDelete(at, keys).at = at
         /\ AwaitDelete(at, keys).io
              = [k \in keys |-> IF desktop THEN "py" ELSE "browser"]
  <1> DEFINE io == [k \in keys |-> IF desktop THEN "py" ELSE "browser"]
  <1>1. io \in Marks
    BY DEF Marks, Steps
  <1> HIDE DEF io
  <1>2. AwaitDelete(at, keys) = [Idle EXCEPT !.at = at, !.io = io]
    BY DEF AwaitDelete, io
  <1>3. AwaitDelete(at, keys)
          = [at |-> at, io |-> io, val |-> Nothing, prev |-> Nothing]
    BY <1>2 DEF Idle
  <1> QED
    BY <1>1, <1>3, Values DEF IsCall, Calls, Places, IsValue, io

\* A call that fits the storage: without the desktop service it is not asked.
Fits(c) ==
    /\ IsCall(c)
    /\ ~desktop /\ c.at \notin {"idle", "delete", "forget"} => c.io = "alone"

\* What a routine goes on with is such a call.
LEMMA AwaitFits ==
  ASSUME TypeInv, NEW at \in Places \ {"idle", "delete", "forget"}, NEW val,
         IsValue(val)
  PROVE  Fits(Await(at, val))
  BY AwaitCall DEF Fits

LEMMA IdleFits == Fits(Idle)
  BY IdleCall DEF Fits

LEMMA ToSaveFits == TypeInv => Fits(ToSave)
  <1>1. TypeInv => IsValue(New(serial + 1))
    BY Values DEF TypeInv
  <1> QED
    BY <1>1, AwaitFits, Points DEF ToSave, Places

LEMMA ToSpareFits == TypeInv => Fits(ToSpare)
  BY AwaitFits, Points, Values DEF ToSpare, Places

LEMMA AfterReadFits ==
  ASSUME TypeInv, NEW c, IsCall(c), c.at \in DOMAIN Reads, NEW v, IsValue(v)
  PROVE  Fits(AfterRead(c, v))
  <1>a. /\ {"check", "backup", "upgrade", "repair", "early", "primary", "adopt"}
             \subseteq Places \ {"idle", "delete", "forget"}
        /\ IsValue(Nothing) /\ IsValue(Upgraded(v)) /\ IsValue(c.prev)
    BY Points, Values DEF Places, IsCall
  <1>b. \A at \in {"check", "backup", "upgrade", "repair", "early", "primary",
                   "adopt"} :
          /\ Fits(Await(at, Nothing)) /\ Fits(Await(at, c.prev))
          /\ Fits(Await(at, Upgraded(v)))
    BY <1>a, AwaitFits
  <1>c. Fits(Idle) /\ Fits(ToSave) /\ Fits(ToSpare)
    BY IdleFits, ToSaveFits, ToSpareFits
  <1>1. CASE c.at = "previous"
    <2> DEFINE w == Await("check", Nothing)
    <2>1. Fits(w)
      BY <1>b
    <2> HIDE DEF w
    <2>2. Fits([w EXCEPT !.prev = v])
      BY <2>1 DEF Fits, IsCall, Calls, IsValue
    <2>3. AfterRead(c, v) = IF v = Nothing THEN ToSave
                            ELSE [w EXCEPT !.prev = v]
      BY <1>1 DEF AfterRead, w
    <2> QED
      BY <2>2, <2>3, <1>c
  <1>2. CASE c.at = "check"
    BY <1>2, <1>b, <1>c DEF AfterRead, Checked
  <1>3. CASE c.at = "verify"
    BY <1>3, <1>c DEF AfterRead
  <1>4. CASE c.at = "primary"
    BY <1>4, <1>b, <1>c DEF AfterRead
  <1>5. CASE c.at = "spare"
    BY <1>5, <1>b, <1>c DEF AfterRead
  <1>6. CASE c.at = "quick"
    BY <1>6, <1>b DEF AfterRead
  <1>7. CASE c.at = "early"
    BY <1>7, <1>b, <1>c DEF AfterRead
  <1> QED
    BY <1>1, <1>2, <1>3, <1>4, <1>5, <1>6, <1>7, Points

LEMMA AfterWriteFits ==
  ASSUME TypeInv, NEW c, IsCall(c)
  PROVE  Fits(AfterWrite(c))
  <1>1. Fits(Await("verify", c.val))
    BY AwaitFits, Points DEF IsCall, Places
  <1>2. Fits(AwaitDelete("forget", {"legacy"}))
    BY AwaitDeleteCall DEF Fits
  <1> QED
    BY <1>1, <1>2, ToSaveFits, IdleFits DEF AfterWrite

LEMMA AfterThrowFits ==
  ASSUME TypeInv, NEW c
  PROVE  Fits(AfterThrow(c))
  BY ToSaveFits, ToSpareFits, IdleFits DEF AfterThrow

\* A routine's call changes, the others stay.
LEMMA RunFits ==
  ASSUME TypeInv, NEW r \in Routine, NEW c, Fits(c),
         run' = [run EXCEPT ![r] = c], UNCHANGED desktop
  PROVE  /\ run' \in [Routine -> Calls] /\ \A q \in Routine : IsCall(run'[q])
         /\ ~desktop' => \A q \in Routine :
              run'[q].at \notin {"idle", "delete", "forget"}
                => run'[q].io = "alone"
  BY DEF TypeInv, Fits, IsCall

LEMMA PutType ==
  ASSUME NEW store, IsStore(store), NEW k \in Key, NEW v, IsValue(v)
  PROVE  /\ IsStore(Put(store, k, v))
         /\ Put(store, k, v)[k] = v
         /\ \A j \in Key \ {k} : Put(store, k, v)[j] = store[j]
  BY DEF IsStore, IsValue, Put

LEMMA EmptyType == IsStore(NoValues) /\ \A k \in Key : NoValues[k] = Nothing
  BY Values DEF IsStore, IsValue, NoValues

LEMMA StayFits ==
  ASSUME TypeInv, NEW r \in Routine,
         run[r].at \in DOMAIN Reads \cup DOMAIN Writes,
         NEW io \in {"browser", "migrate", "clear", "alone"},
         desktop \/ io = "alone", NEW val, IsValue(val)
  PROVE  /\ Fits([run[r] EXCEPT !.io = io])
         /\ Fits([run[r] EXCEPT !.io = io, !.val = val])
  <1>1. /\ run[r] \in Calls /\ IsValue(run[r].val) /\ IsValue(run[r].prev)
        /\ io \in Steps /\ run[r].at \notin {"delete", "forget"}
        /\ val \in Record
    BY Points DEF TypeInv, IsCall, Steps, IsValue
  <1> QED
    BY <1>1 DEF Fits, IsCall, Calls

\* The numbers and flags that an operation of the storage may change.
Counters ==
    /\ serial' \in Nat /\ floor' \in Nat \X Nat
    /\ UNCHANGED <<gone, early, cleared, overlap, cut>>

LEMMA GoType ==
  ASSUME TypeInv, NEW r \in Routine, NEW c, Fits(c), Go(r, c),
         UNCHANGED history
  PROVE  run' = [run EXCEPT ![r] = c] /\ Counters
  BY DEF Go, Counters, TypeInv, history

LEMMA GotValueType ==
  ASSUME TypeInv, NEW r \in Routine, run[r].at \in DOMAIN Reads, NEW v,
         IsValue(v), GotValue(r, v)
  PROVE  /\ run' = [run EXCEPT ![r] = AfterRead(run[r], v)]
         /\ Fits(AfterRead(run[r], v)) /\ Counters
  <1>1. Fits(AfterRead(run[r], v))
    BY AfterReadFits DEF TypeInv
  <1>2. run[r].val.n \in Nat /\ floor \in Nat \X Nat
    BY Values DEF TypeInv, IsCall
  <1>3. floor' \in Nat \X Nat
    BY <1>2 DEF GotValue
  <1> QED
    BY <1>1, <1>3 DEF GotValue, Go, Counters, TypeInv

LEMMA StayType ==
  ASSUME TypeInv, NEW r \in Routine, NEW c, Fits(c), Stay(r, c)
  PROVE  run' = [run EXCEPT ![r] = c] /\ Counters
  BY DEF Stay, Counters, TypeInv, history

\* A step of a routine at the storage: what is to be shown of it.
LEMMA StorageType ==
  ASSUME TypeInv, NEW r \in Routine, NEW c, Fits(c),
         run' = [run EXCEPT ![r] = c], Counters, Works \/ Fails,
         IsStore(py'), IsStore(idb'), IsStore(local'), IsStore(mem'),
         ~desktop => \A k \in Key : py'[k] = Nothing
  PROVE  TypeInv'
  <1>1. UNCHANGED desktop /\ damage' \in Nat /\ faults' \in Nat
    BY DEF TypeInv, Works, Fails
  <1>2. /\ run' \in [Routine -> Calls] /\ \A q \in Routine : IsCall(run'[q])
        /\ ~desktop' => \A q \in Routine :
             run'[q].at \notin {"idle", "delete", "forget"}
               => run'[q].io = "alone"
    BY <1>1, RunFits
  <1> QED
    BY <1>1, <1>2 DEF TypeInv, Counters

LEMMA ReadType ==
  ASSUME TypeInv, NEW r \in Routine,
         ReadPython(r) \/ ReadBrowser(r) \/ Migrate(r) \/ ClearMigrated(r)
  PROVE  TypeInv'
  <1> DEFINE k == Reads[run[r].at]
  <1>a. /\ run[r].at \in DOMAIN Reads /\ k \in Key
        /\ IsValue(run[r].val)
    BY Points
    DEF ReadPython, ReadBrowser, Migrate, ClearMigrated, TypeInv, IsCall
  <1>b. run[r].io # "alone" => desktop
    BY <1>a, Points DEF TypeInv
  <1>c. IsStore(py) /\ IsStore(idb) /\ IsStore(local) /\ IsStore(mem)
    BY DEF TypeInv
  <1>d. /\ IsValue(py[k]) /\ IsValue(idb[k]) /\ IsValue(local[k])
        /\ IsValue(mem[k])
    BY <1>a, <1>c DEF IsStore
  <1> HIDE DEF k
  <1>1. CASE ReadPython(r)
    <2>1. UNCHANGED cells /\ (Works \/ Fails) /\ run[r].io # "alone"
      BY <1>1 DEF ReadPython
    <2>2. \/ GotValue(r, py[k])
          \/ Stay(r, [run[r] EXCEPT !.io = "browser"])
          \/ Threw(r)
          \/ Stay(r, [run[r] EXCEPT !.io = "alone"])
      BY <1>1 DEF ReadPython, k
    <2>3. PICK c : Fits(c) /\ run' = [run EXCEPT ![r] = c] /\ Counters
      <3>1. CASE GotValue(r, py[k])
        BY <3>1, <1>a, <1>d, GotValueType
      <3>2. CASE Stay(r, [run[r] EXCEPT !.io = "browser"])
        BY <3>2, <1>a, <1>b, <2>1, StayFits, StayType
      <3>3. CASE Threw(r)
        BY <3>3, AfterThrowFits, GoType DEF Threw
      <3>4. CASE Stay(r, [run[r] EXCEPT !.io = "alone"])
        BY <3>4, <1>a, StayFits, StayType
      <3> QED
        BY <2>2, <3>1, <3>2, <3>3, <3>4
    <2>4. ~desktop => \A j \in Key : py'[j] = Nothing
      BY <2>1 DEF TypeInv, cells
    <2>5. IsStore(py') /\ IsStore(idb') /\ IsStore(local') /\ IsStore(mem')
      BY <1>c, <2>1 DEF cells
    <2> QED
      BY <2>1, <2>3, <2>4, <2>5, StorageType
  <1>2. CASE ReadBrowser(r)
    <2>1. PICK v \in {idb[k], local[k]} :
            /\ BrowserValue(k, v)
            /\ \/ run[r].io = "browser"
                  /\ Stay(r, [run[r] EXCEPT !.io = "migrate", !.val = v])
               \/ GotValue(r, FirstOf(v, mem[k]))
      BY <1>2 DEF ReadBrowser, k
    <2>2. UNCHANGED cells /\ (Works \/ Fails)
      BY <1>2, <2>1 DEF ReadBrowser, BrowserValue
    <2>3. IsValue(v) /\ IsValue(FirstOf(v, mem[k]))
      BY <1>d, <2>1 DEF FirstOf
    <2>4. PICK c : Fits(c) /\ run' = [run EXCEPT ![r] = c] /\ Counters
      <3>1. CASE run[r].io = "browser"
                 /\ Stay(r, [run[r] EXCEPT !.io = "migrate", !.val = v])
        <4>1. Fits([run[r] EXCEPT !.io = "migrate", !.val = v])
          BY <3>1, <1>a, <1>b, <2>3, StayFits
        <4> QED
          BY <3>1, <4>1, StayType
      <3>2. CASE GotValue(r, FirstOf(v, mem[k]))
        BY <3>2, <1>a, <2>3, GotValueType
      <3> QED
        BY <2>1, <3>1, <3>2
    <2>5. ~desktop => \A j \in Key : py'[j] = Nothing
      BY <2>2 DEF TypeInv, cells
    <2>6. IsStore(py') /\ IsStore(idb') /\ IsStore(local') /\ IsStore(mem')
      BY <1>c, <2>2 DEF cells
    <2> QED
      BY <2>2, <2>4, <2>5, <2>6, StorageType
  <1>3. CASE Migrate(r)
    <2>1. UNCHANGED <<idb, local, mem>> /\ (Works \/ Fails) /\ desktop
      BY <1>3, <1>b DEF Migrate
    <2>2. \/ py' = Put(py, k, run[r].val)
             /\ Stay(r, [run[r] EXCEPT !.io = "clear"])
          \/ UNCHANGED py /\ GotValue(r, run[r].val)
      BY <1>3 DEF Migrate, k
    <2>3. PICK c : Fits(c) /\ run' = [run EXCEPT ![r] = c] /\ Counters
      BY <1>a, <2>1, <2>2, StayFits, StayType, GotValueType
    <2>4. IsStore(py') /\ IsStore(idb') /\ IsStore(local') /\ IsStore(mem')
      BY <1>a, <1>c, <2>1, <2>2, PutType
    <2> QED
      BY <2>1, <2>3, <2>4, StorageType
  <1>4. CASE ClearMigrated(r)
    <2>1. UNCHANGED py /\ ClearBrowser(k) /\ GotValue(r, run[r].val) /\ desktop
      BY <1>4, <1>b DEF ClearMigrated, k
    <2>2. Works \/ Fails
      BY <2>1 DEF ClearBrowser
    <2>3. IsStore(py') /\ IsStore(idb') /\ IsStore(local') /\ IsStore(mem')
      BY <1>a, <1>c, <2>1, PutType, Values DEF ClearBrowser
    <2> QED
      BY <1>a, <2>1, <2>2, <2>3, GotValueType, StorageType
  <1> QED
    BY <1>1, <1>2, <1>3, <1>4

LEMMA WriteType ==
  ASSUME TypeInv, NEW r \in Routine,
         WritePython(r) \/ WriteMirror(r) \/ WriteBrowser(r)
  PROVE  TypeInv'
  <1> DEFINE k == Writes[run[r].at]
  <1>a. /\ run[r].at \in DOMAIN Writes /\ k \in Key
        /\ IsValue(run[r].val)
    BY Points DEF WritePython, WriteMirror, WriteBrowser, TypeInv, IsCall
  <1>b. run[r].io # "alone" => desktop
    BY <1>a, Points DEF TypeInv
  <1>c. IsStore(py) /\ IsStore(idb) /\ IsStore(local) /\ IsStore(mem)
    BY DEF TypeInv
  <1>d. Fits(AfterWrite(run[r])) /\ Fits(AfterThrow(run[r]))
    BY AfterWriteFits, AfterThrowFits DEF TypeInv
  <1>e. /\ Works \/ Fails
        /\ ~desktop => UNCHANGED py
    BY <1>b DEF WritePython, WriteMirror, WriteBrowser
  <1> HIDE DEF k
  <1>1. /\ py' = py \/ py' = Put(py, k, run[r].val)
        /\ idb' = idb \/ idb' = Put(idb, k, run[r].val)
        /\ local' = local \/ local' = Put(local, k, run[r].val)
             \/ local' = Put(local, k, Nothing)
        /\ mem' = mem \/ mem' = Put(mem, k, run[r].val)
             \/ mem' = Put(mem, k, Nothing)
    BY DEF WritePython, WriteMirror, WriteBrowser, k
  <1>2. IsStore(py') /\ IsStore(idb') /\ IsStore(local') /\ IsStore(mem')
    BY <1>1, <1>a, <1>c, PutType, Values
  <1>3. PICK c : Fits(c) /\ run' = [run EXCEPT ![r] = c] /\ Counters
    <2>1. CASE Wrote(r) \/ Threw(r)
      BY <2>1, <1>d, GoType DEF Wrote, Threw
    <2>2. CASE Stay(r, [run[r] EXCEPT !.io = "browser"]) /\ run[r].io = "py"
      <3>1. Fits([run[r] EXCEPT !.io = "browser"])
        BY <2>2, <1>a, <1>b, StayFits
      <3> QED
        BY <2>2, <3>1, StayType
    <2> QED
      BY <2>1, <2>2 DEF WritePython, WriteMirror, WriteBrowser
  <1>4. ~desktop => \A j \in Key : py'[j] = Nothing
    BY <1>e DEF TypeInv
  <1> QED
    BY <1>e, <1>2, <1>3, <1>4, StorageType

LEMMA DeleteType ==
  ASSUME TypeInv, NEW r \in Routine,
         Deleted(r) \/ \E k \in Key : DeletePython(r, k) \/ DeleteBrowser(r, k)
  PROVE  TypeInv'
  <1>a. IsStore(py) /\ IsStore(idb) /\ IsStore(local) /\ IsStore(mem)
    BY DEF TypeInv
  <1>1. ASSUME NEW k \in Key, DeletePython(r, k) \/ DeleteBrowser(r, k)
        PROVE  TypeInv'
    <2>1. /\ run[r].at \in {"delete", "forget"} /\ k \in DOMAIN run[r].io
          /\ run[r].io \in Marks
      BY <1>1 DEF DeletePython, DeleteBrowser, Deleting, TypeInv, IsCall
    <2>2. PICK io \in {"browser", "failed", "done"} :
            Stay(r, [run[r] EXCEPT !.io[k] = io])
      BY <1>1 DEF DeletePython, DeleteBrowser
    <2>3. Fits([run[r] EXCEPT !.io[k] = io])
      <3> DEFINE marks == [run[r].io EXCEPT ![k] = io]
      <3>1. marks \in Marks
        BY <2>1 DEF Marks, Steps
      <3>2. run[r] \in Calls /\ IsValue(run[r].val) /\ IsValue(run[r].prev)
        BY DEF TypeInv, IsCall
      <3> HIDE DEF marks
      <3>3. [run[r] EXCEPT !.io = marks] \in Calls
        BY <3>1, <3>2 DEF Calls
      <3>4. Fits([run[r] EXCEPT !.io = marks])
        BY <2>1, <3>1, <3>2, <3>3 DEF Fits, IsCall, Calls
      <3> QED
        BY <3>4 DEF marks
    <2>4. Works \/ Fails
      BY <1>1 DEF DeletePython, DeleteBrowser, ClearBrowser
    <2>5. /\ py' = py \/ py' = Put(py, k, Nothing)
          /\ idb' = idb \/ idb' = Put(idb, k, Nothing)
          /\ local' = local \/ local' = Put(local, k, Nothing)
          /\ mem' = mem \/ mem' = Put(mem, k, Nothing)
      BY <1>1 DEF DeletePython, DeleteBrowser, ClearBrowser
    <2>6. IsStore(py') /\ IsStore(idb') /\ IsStore(local') /\ IsStore(mem')
      BY <2>5, <1>a, PutType, Values
    <2>7. ~desktop => \A j \in Key : py'[j] = Nothing
      BY <2>5, <1>a DEF TypeInv, Put, IsStore
    <2> QED
      BY <2>2, <2>3, <2>4, <2>6, <2>7, StayType, StorageType
  <1>2. CASE Deleted(r)
    <2>1. PICK c \in {Await("primary", Nothing), Idle} : Go(r, c)
      BY <1>2 DEF Deleted
    <2>2. Fits(c)
      BY <2>1, AwaitFits, IdleFits, Points, Values DEF Places
    <2>3. /\ Works /\ UNCHANGED <<cells, floor, early, cleared, overlap, cut>>
          /\ gone' \in BOOLEAN
      BY <1>2 DEF Deleted
    <2>4. /\ run' = [run EXCEPT ![r] = c] /\ serial' \in Nat
          /\ UNCHANGED <<desktop, damage, faults>>
      BY <2>1, <2>3 DEF Go, TypeInv, Works
    <2>5. /\ run' \in [Routine -> Calls] /\ \A q \in Routine : IsCall(run'[q])
          /\ ~desktop' => \A q \in Routine :
               run'[q].at \notin {"idle", "delete", "forget"}
                 => run'[q].io = "alone"
      BY <2>2, <2>4, RunFits
    <2> QED
      BY <2>3, <2>4, <2>5 DEF TypeInv, cells
  <1> QED
    BY <1>1, <1>2

LEMMA StartType ==
  ASSUME TypeInv, NEW r \in Routine,
         \/ WriteSaveSlot(r) \/ ReadSaveSlot(r) \/ ListSaveSlots(r)
         \/ DeleteSaveSlot(r)
  PROVE  TypeInv'
  <1>1. PICK c \in {Await("previous", Nothing), Await("primary", Nothing),
                    Await("quick", Nothing), AwaitDelete("delete", Slot)} :
          Start(r, c)
    BY DEF WriteSaveSlot, ReadSaveSlot, ListSaveSlots, DeleteSaveSlot, Slot
  <1>2. Fits(c)
    BY <1>1, AwaitFits, AwaitDeleteCall, Points, Values DEF Places, Fits
  <1>3. /\ run' = [run EXCEPT ![r] = c]
        /\ UNCHANGED <<desktop, damage, faults, cells, serial, early, cut>>
        /\ overlap' \in BOOLEAN
    BY <1>1 DEF Start, Works
  <1>4. gone' \in BOOLEAN /\ floor' \in Nat \X Nat /\ cleared' \in BOOLEAN
    <2>1. <<0, 0>> \in Nat \X Nat
      OBVIOUS
    <2>2. floor' = floor \/ floor' = <<0, 0>>
      BY DEF WriteSaveSlot, ReadSaveSlot, ListSaveSlots, DeleteSaveSlot
    <2>3. gone' \in {gone, FALSE} /\ cleared' \in {cleared, TRUE}
      BY DEF WriteSaveSlot, ReadSaveSlot, ListSaveSlots, DeleteSaveSlot
    <2> QED
      BY <2>1, <2>2, <2>3 DEF TypeInv
  <1>5. /\ run' \in [Routine -> Calls] /\ \A q \in Routine : IsCall(run'[q])
        /\ ~desktop' => \A q \in Routine :
             run'[q].at \notin {"idle", "delete", "forget"}
               => run'[q].io = "alone"
    BY <1>2, <1>3, RunFits
  <1> QED
    BY <1>3, <1>4, <1>5 DEF TypeInv, cells

LEMMA OutsideType ==
  ASSUME TypeInv, ClosePage \/ DamageMain
  PROVE  TypeInv'
  <1>1. CASE ClosePage
    <2>1. \A r \in Routine : run'[r] = Idle
      BY <1>1 DEF ClosePage
    <2>2. run' \in [Routine -> Calls]
      BY <1>1, IdleCall DEF ClosePage, IsCall
    <2>3. cut' \in BOOLEAN
      BY <1>1 DEF ClosePage, TypeInv
    <2>4. IsStore(mem')
      BY <1>1, EmptyType DEF ClosePage
    <2> QED
      BY <1>1, <2>1, <2>2, <2>3, <2>4, IdleCall DEF ClosePage, Works, TypeInv
  <1>2. CASE DamageMain
    <2>1. "main" \in Key
      BY DEF Key
    <2>2. /\ IF desktop THEN py' = Put(py, "main", Broken) /\ UNCHANGED idb
             ELSE idb' = Put(idb, "main", Broken) /\ UNCHANGED py
          /\ UNCHANGED <<desktop, local, mem, run, serial, gone, early, cleared,
                         overlap, cut, faults>>
          /\ damage' = damage + 1 /\ floor' = <<floor[1], floor[1]>>
      BY <1>2 DEF DamageMain
    <2>3. IsStore(py) /\ IsStore(idb) /\ IsValue(Broken)
      BY Values DEF TypeInv
    <2>4. IsStore(py') /\ IsStore(idb') /\ (~desktop => UNCHANGED py)
      BY <2>1, <2>2, <2>3, PutType
    <2>5. floor' \in Nat \X Nat
      BY <2>2 DEF TypeInv
    <2> QED
      BY <2>2, <2>4, <2>5 DEF TypeInv
  <1> QED
    BY <1>1, <1>2

LEMMA StepType == TypeInv /\ [SlotNext]_slots => TypeInv'
  <1>1. TypeInv /\ UNCHANGED slots => TypeInv'
    BY DEF TypeInv, slots, cells, history
  <1> QED
    BY <1>1, ReadType, WriteType, DeleteType, StartType, OutsideType
    DEF SlotNext, Step

LEMMA InitType == SlotInit => TypeInv
  <1> SUFFICES ASSUME SlotInit PROVE TypeInv
    OBVIOUS
  <1>1. PICK k \in {"main", "legacy"}, v \in {Nothing, New(1), Old(1)},
             home \in {"py", "idb", "local"} :
          /\ home = "py" => desktop
          /\ py = IF home = "py" THEN Put(NoValues, k, v) ELSE NoValues
          /\ idb = IF home = "idb" THEN Put(NoValues, k, v) ELSE NoValues
          /\ local = IF home = "local" THEN Put(NoValues, k, v) ELSE NoValues
          /\ serial = v.n
          /\ floor = <<0, IF k = "main" THEN v.n ELSE 0>>
          /\ early = (k = "legacy")
    BY DEF SlotInit
  <1>2. IsValue(v) /\ k \in Key /\ v.n \in Nat
    BY Values DEF Key
  <1>3. IsStore(py) /\ IsStore(idb) /\ IsStore(local) /\ IsStore(mem)
    BY <1>1, <1>2, PutType, EmptyType DEF SlotInit
  <1>4. ~desktop => \A j \in Key : py[j] = Nothing
    BY <1>1, EmptyType
  <1>5. /\ run \in [Routine -> Calls]
        /\ \A r \in Routine : run[r] = Idle
    BY IdleCall DEF SlotInit, IsCall
  <1> QED
    BY <1>1, <1>2, <1>3, <1>4, <1>5, IdleCall DEF SlotInit, TypeInv

-----------------------------------------------------------------------------
(* What holds of a slot that is used one routine at a time *)

\* What a routine is about to do, given the records m and b of the slot, the
\* promise f and the number s of the last save: a save is written once the
\* backup has what may be lost (b.n = m.n), an upgrade or a repair brings
\* back no older save than the promised one.
Goal(c, m, b, f, s) ==
    /\ c.at = "check" => c.prev # Nothing /\ m \in {c.prev, Broken}
    /\ c.at = "backup" => /\ Valid(c.val) /\ m \in {c.val, Broken}
                          /\ b.n <= c.val.n /\ f <= c.val.n /\ c.val.n <= s
                          /\ c.io = "browser" => b = c.val
    /\ c.at \in {"save", "verify"} => c.val = New(s) /\ b.n < s /\ f <= b.n
    /\ c.at = "save" /\ c.io # "browser" => (Valid(m) => m.n = b.n)
    /\ c.at = "save" /\ c.io = "browser" => m \in {c.val, Broken}
    /\ c.at = "verify" => m \in {c.val, Broken}
    /\ c.at = "upgrade" => /\ Valid(c.val) /\ m # Nothing
                           /\ Valid(m) => m.n = c.val.n
                           /\ b.n <= c.val.n /\ f <= c.val.n /\ c.val.n <= s
    /\ c.at = "repair" => /\ Valid(b) /\ c.val = New(b.n)
                          /\ Valid(m) => m.n = b.n
    /\ c.at = "spare" => ~Valid(m)

\* Where a read of the record v is, p being what the desktop service has, w
\* what the browser has; and what it carries on while it migrates a record.
Read(c, main, p, w, b, f) ==
    /\ c.io \in IF desktop THEN {"py", "browser", "migrate", "clear"}
                           ELSE {"alone"}
    /\ c.io \in {"browser", "migrate"} => p = Nothing
    /\ c.io \in {"migrate", "clear"} => c.val # Nothing
    /\ c.io = "migrate" => c.val = w
    /\ c.io = "clear" => p = c.val \/ (main /\ p = Broken)
    /\ c.io \in {"migrate", "clear"} /\ main /\ Valid(c.val)
         => b.n <= c.val.n /\ f <= c.val.n
    /\ c.at \in {"check", "verify"} => /\ c.io \in {"py", "alone"}
                                       /\ desktop => p # Nothing
Reading(r) == run[r].at \in DOMAIN Reads =>
    LET k == Reads[run[r].at] IN
    /\ Read(run[r], k = "main", py[k], FirstOf(idb[k], local[k]),
            Stored("backup"), floor[2])
    /\ run[r].io \in {"migrate", "clear"} => run[r].val.n <= serial

Writing(r) == run[r].at \in DOMAIN Writes =>
    /\ run[r].io \in IF desktop THEN {"py", "browser"} ELSE {"alone"}
    /\ run[r].io = "browser" => py[Writes[run[r].at]] # Nothing

Erasing(r) == run[r].at = "delete" =>
    /\ floor = <<0, 0>>
    /\ run[r].io \in [Slot -> {"py", "browser", "done"}]
    /\ \A k \in Slot : /\ run[r].io[k] # "py" => py[k] = Nothing
                       /\ run[r].io[k] = "done" => idb[k] = Nothing
                                                   /\ local[k] = Nothing

Alone == \A q, r \in Routine : run[q] # Idle /\ run[r] # Idle => q = r
Erases == \E r \in Routine : run[r].at = "delete"
Promise ==
    /\ floor[1] <= floor[2] /\ floor[1] <= Stored("backup").n
    /\ floor[2] <= Recovered.n
    /\ Valid(Stored("main")) /\ ~Erases => Stored("backup").n <= Stored("main").n
Numbered == \A k \in Key :
    py[k].n <= serial /\ idb[k].n <= serial /\ local[k].n <= serial
Tidy ==
    /\ \A k \in Key : mem[k] = Nothing
    /\ py["legacy"] = Nothing /\ idb["legacy"] = Nothing
    /\ local["legacy"] = Nothing
Gone == gone =>
    /\ \A k \in Slot : py[k] = Nothing /\ idb[k] = Nothing /\ local[k] = Nothing
    /\ \A r \in Routine : run[r].at \in {"idle", "primary", "spare", "quick",
                                        "early", "delete"}
Place(r) ==
    /\ run[r].at \notin {"adopt", "forget"}
    /\ Goal(run[r], Stored("main"), Stored("backup"), floor[2], serial)
    /\ Reading(r) /\ Writing(r) /\ Erasing(r)

Body == /\ Alone /\ Promise /\ Numbered /\ Tidy /\ Gone
        /\ \A r \in Routine : Place(r)
SlotInv == Exclusive => Body

LEMMA SlotTypes ==
  ASSUME TypeInv
  PROVE  /\ \A k \in Key : IsValue(Stored(k))
         /\ "main" \in Key /\ "backup" \in Key /\ "legacy" \in Key
         /\ Stored("main").n \in Nat /\ Stored("backup").n \in Nat
         /\ Recovered.n \in Nat
         /\ floor[1] \in Nat /\ floor[2] \in Nat /\ serial \in Nat
         /\ Valid(Stored("main")) => Recovered.n = Stored("main").n
         /\ ~Valid(Stored("main")) => Recovered.n = Stored("backup").n
  <1>1. \A k \in Key : IsValue(Stored(k))
    BY Values DEF TypeInv, IsStore, Stored, FirstOf
  <1>2. "main" \in Key /\ "backup" \in Key /\ "legacy" \in Key
    BY DEF Key
  <1> QED
    BY <1>1, <1>2, Values DEF Recovered, TypeInv

\* A value that is no save is Nothing or Broken.
LEMMA NoSave ==
  ASSUME NEW v, IsValue(v)
  PROVE  /\ ~Valid(v) => v \in {Nothing, Broken} /\ v.n = 0
         /\ v \in {Nothing, Broken} => ~Valid(v)
         /\ (v.kind = "old" \/ v.kind = "new") <=> Valid(v)
         /\ Valid(Upgraded(v)) /\ Upgraded(v) = New(v.n) /\ Upgraded(v).n = v.n
  BY DEF IsValue, Record, Kinds, Valid, Nothing, Broken, Upgraded, New

\* What a routine goes on with after it has read v, where v is what the slot
\* has, or had before its record of "main" was damaged.
LEMMA ReadGoal ==
  ASSUME TypeInv, NEW c, IsCall(c), c.at \in DOMAIN Reads, NEW v, IsValue(v),
         NEW m, NEW b, m = Stored("main"), b = Stored("backup"),
         Goal(c, m, b, floor[2], serial),
         v.n <= serial, m.n <= serial, b.n <= serial,
         Valid(m) => b.n <= m.n, floor[2] <= Recovered.n,
         c.at \in {"check", "verify"} => v = m,
         Reads[c.at] = "main" =>
           v = m \/ (m = Broken /\ (Valid(v) => b.n <= v.n /\ floor[2] <= v.n)),
         Reads[c.at] = "backup" => v = b,
         Reads[c.at] = "legacy" => v = Nothing,
         NEW d, d = AfterRead(c, v),
         NEW s, s = IF d.at = "save" THEN serial + 1 ELSE serial
  PROVE  /\ Goal(d, m, b, floor[2], s)
         /\ d = Idle \/ d.io = IF desktop THEN "py" ELSE "alone"
         /\ d.at \notin {"verify", "adopt", "delete", "forget"}
         /\ d.at = "check" => c.at = "previous" /\ v # Nothing
         /\ c.at = "verify" => d = Idle
  <1>a. /\ IsValue(m) /\ IsValue(b) /\ m.n \in Nat /\ b.n \in Nat
        /\ v.n \in Nat /\ serial \in Nat /\ floor[2] \in Nat
        /\ Valid(m) => Recovered.n = m.n
        /\ ~Valid(m) => Recovered.n = b.n
    BY SlotTypes, Values
  <1>b. /\ {"check", "backup", "upgrade", "repair", "early", "primary", "save",
             "spare"} \subseteq Places \ {"idle", "delete", "forget"}
        /\ IsValue(Nothing) /\ IsValue(Upgraded(v)) /\ IsValue(c.prev)
        /\ IsValue(New(serial + 1)) /\ New(serial + 1).n = serial + 1
    BY <1>a, Points, Values DEF Places, IsCall, New
  <1>c. \A at \in {"check", "backup", "upgrade", "repair", "early", "primary",
                   "save", "spare"}, w \in {Nothing, Upgraded(v), c.prev,
                                            New(serial + 1)} :
          /\ Await(at, w).at = at /\ Await(at, w).val = w
          /\ Await(at, w).io = IF desktop THEN "py" ELSE "alone"
          /\ Await(at, w).prev = Nothing
    BY <1>b, AwaitCall
  <1>d. Idle.at = "idle"
    BY IdleCall
  <1>1. ASSUME ~Valid(m), d = ToSave
        PROVE  /\ Goal(d, m, b, floor[2], s) /\ d.at = "save"
               /\ d.io = IF desktop THEN "py" ELSE "alone"
    <2>1. d.at = "save" /\ d.val = New(serial + 1) /\ s = serial + 1
          /\ d.io = IF desktop THEN "py" ELSE "alone"
      BY <1>1, <1>c DEF ToSave
    <2>2. b.n < s /\ floor[2] <= b.n
      BY <1>a, <1>1, <2>1
    <2> QED
      BY <1>1, <2>1, <2>2 DEF Goal
  <1>2. CASE c.at = "previous"
    <2>1. v = m \/ m = Broken
      BY <1>2 DEF Reads
    <2>2. CASE v = Nothing
      <3>1. ~Valid(m)
        BY <1>a, <2>1, <2>2, NoSave
      <3>2. d = ToSave
        BY <1>2, <2>2 DEF AfterRead
      <3> QED
        BY <1>1, <1>2, <3>1, <3>2
    <2>3. CASE v # Nothing
      <3> DEFINE w == Await("check", Nothing)
      <3>1. w \in Calls /\ w.at = "check" /\ w.io = IF desktop THEN "py"
                                                    ELSE "alone"
        BY <1>b, <1>c, AwaitCall DEF IsCall
      <3>2. d = [w EXCEPT !.prev = v]
        BY <1>2, <2>3 DEF AfterRead
      <3> HIDE DEF w
      <3>3. d.at = "check" /\ d.prev = v /\ d.io = w.io
        BY <3>1, <3>2 DEF Calls
      <3> QED
        BY <1>2, <2>1, <2>3, <3>1, <3>3 DEF Goal
    <2> QED
      BY <2>2, <2>3
  <1>3. CASE c.at = "check"
    <2>1. v = m /\ c.prev # Nothing /\ m \in {c.prev, Broken}
      BY <1>3 DEF Goal
    <2>2. CASE v = Broken
      <3>1. ~Valid(m) /\ d = ToSave
        BY <1>3, <1>a, <2>1, <2>2, NoSave DEF AfterRead, Checked
      <3> QED
        BY <1>1, <1>3, <3>1
    <2>3. CASE v # Broken
      <3>1. d = Await("backup", c.prev) /\ Valid(m) /\ m = c.prev
        BY <1>3, <1>a, <2>1, <2>3, NoSave DEF AfterRead, Checked
      <3>2. /\ d.at = "backup" /\ d.val = c.prev
            /\ d.io = IF desktop THEN "py" ELSE "alone"
        BY <1>c, <3>1
      <3>3. b.n <= m.n /\ floor[2] <= m.n
        BY <1>a, <3>1
      <3> QED
        BY <1>3, <3>1, <3>2, <3>3 DEF Goal
    <2> QED
      BY <2>2, <2>3
  <1>4. CASE c.at = "verify"
    <2>1. d = Idle
      BY <1>4 DEF AfterRead
    <2> QED
      BY <1>4, <1>d, <2>1 DEF Goal
  <1>5. CASE c.at = "primary"
    <2>a. v = m \/ (m = Broken /\ (Valid(v) => b.n <= v.n /\ floor[2] <= v.n))
      BY <1>5 DEF Reads
    <2>1. CASE v.kind = "new"
      <3>1. d = Idle
        BY <1>5, <2>1 DEF AfterRead
      <3> QED
        BY <1>5, <1>d, <3>1 DEF Goal
    <2>2. CASE v.kind = "old"
      <3>1. d = Await("upgrade", Upgraded(v)) /\ Valid(v)
        BY <1>5, <2>2, NoSave DEF AfterRead
      <3>2. /\ d.at = "upgrade" /\ d.val = Upgraded(v)
            /\ d.io = IF desktop THEN "py" ELSE "alone"
        BY <1>c, <3>1
      <3>3. /\ Valid(d.val) /\ d.val.n = v.n
        BY <3>2, NoSave
      <3>4. m # Nothing /\ (Valid(m) => m.n = v.n)
        BY <1>a, <2>a, <3>1, NoSave, Values
      <3>5. b.n <= v.n /\ floor[2] <= v.n
        BY <1>a, <2>a, <3>1
      <3> QED
        BY <1>5, <3>2, <3>3, <3>4, <3>5 DEF Goal
    <2>3. CASE v.kind \notin {"new", "old"}
      <3>1. d = Await("spare", Nothing) /\ ~Valid(v)
        BY <1>5, <2>3, NoSave DEF AfterRead, ToSpare
      <3>2. d.at = "spare" /\ d.io = IF desktop THEN "py" ELSE "alone"
        BY <1>c, <3>1
      <3>3. ~Valid(m)
        BY <1>a, <2>a, <3>1, NoSave
      <3> QED
        BY <1>5, <3>2, <3>3 DEF Goal
    <2> QED
      BY <2>1, <2>2, <2>3
  <1>6. CASE c.at = "spare"
    <2>1. v = b /\ ~Valid(m)
      BY <1>6 DEF Reads, Goal
    <2>2. CASE Valid(v)
      <3>1. d = Await("repair", Upgraded(v))
        BY <1>6, <2>2 DEF AfterRead
      <3>2. /\ d.at = "repair" /\ d.val = New(b.n)
            /\ d.io = IF desktop THEN "py" ELSE "alone"
        BY <1>c, <2>1, <3>1, NoSave
      <3> QED
        BY <1>6, <2>1, <2>2, <3>2 DEF Goal
    <2>3. CASE ~Valid(v)
      <3>1. d = Idle
        BY <1>6, <2>3 DEF AfterRead
      <3> QED
        BY <1>6, <1>d, <3>1 DEF Goal
    <2> QED
      BY <2>2, <2>3
  <1>7. CASE c.at \in {"quick", "early"}
    <2>1. d \in {Await("early", Nothing), Await("primary", Nothing)}
      BY <1>7 DEF AfterRead, Reads
    <2>2. d.at \in {"early", "primary"} /\ d.io = IF desktop THEN "py"
                                                  ELSE "alone"
      BY <1>c, <2>1
    <2> QED
      BY <1>7, <2>2 DEF Goal
  <1> QED
    BY <1>2, <1>3, <1>4, <1>5, <1>6, <1>7, Points

\* What a step does to the value and the spare of the register.
SameSlot == Recovered.n' = Recovered.n /\ Stored("backup").n' = Stored("backup").n
Change ==
    \/ /\ damage' = damage /\ (Erases' <=> Erases)
       /\ \/ SameSlot
          \/ Recovered.n' >= Recovered.n /\ Stored("backup").n' = Recovered.n'
          \/ /\ Recovered.n = Stored("backup").n /\ Recovered.n' > Recovered.n
             /\ Stored("backup").n' = Stored("backup").n
    \/ /\ damage' = damage + 1 /\ (Erases' <=> Erases)
       /\ Recovered.n' = Stored("backup").n
       /\ Stored("backup").n' = Stored("backup").n
    \/ damage' = damage /\ Erases
    \/ damage' = damage /\ ~Erases /\ Erases' /\ SameSlot

SlotStays ==
    /\ Stored("main")' = Stored("main") /\ Stored("backup")' = Stored("backup")
    /\ UNCHANGED <<desktop, damage>>
Empties == \A k \in Slot : py[k] = Nothing /\ idb[k] = Nothing
                           /\ local[k] = Nothing

LEMMA SlotStaysSame ==
  ASSUME SlotStays
  PROVE  SameSlot /\ Recovered' = Recovered
  BY DEF SlotStays, SameSlot, Recovered

\* The other routines are idle while one is under way.
LEMMA OthersIdle ==
  ASSUME Body, NEW r \in Routine, run[r].at # "idle"
  PROVE  \A q \in Routine \ {r} : run[q] = Idle
  BY IdleCall DEF Body, Alone

\* So all that is to be shown of a step is shown of the routine it is of.
LEMMA OneActs ==
  ASSUME TypeInv, NEW r \in Routine, \A q \in Routine \ {r} : run[q] = Idle,
         NEW d, run' = [run EXCEPT ![r] = d]
  PROVE  /\ run'[r] = d /\ \A q \in Routine \ {r} : run'[q] = Idle
         /\ Alone'
         /\ Erases <=> run[r].at = "delete"
         /\ Erases' <=> d.at = "delete"
  BY IdleCall DEF TypeInv, Alone, Erases

LEMMA BodyAfter ==
  ASSUME NEW r \in Routine, \A q \in Routine \ {r} : run'[q] = Idle,
         Alone', Promise', Numbered', Tidy', Place(r)',
         gone' => Empties' /\ run'[r].at \in {"idle", "primary", "spare", "quick",
                                              "early", "delete"}
  PROVE  Body'
  <1>1. \A q \in Routine \ {r} : Place(q)'
    <2> SUFFICES ASSUME NEW q \in Routine \ {r}
                 PROVE  Place(q)'
      OBVIOUS
    <2>1. run'[q] = Idle /\ Idle.at = "idle"
      BY IdleCall
    <2> QED
      BY <2>1, Points DEF Place, Goal, Reading, Writing, Erasing
  <1>2. Gone'
    BY IdleCall DEF Gone, Empties
  <1> QED
    BY <1>1, <1>2 DEF Body

\* A read is over.
LEMMA GotSlot ==
  ASSUME TypeInv, Body, NEW r \in Routine, run[r].at \in DOMAIN Reads,
         NEW v, IsValue(v), GotValue(r, v), SlotStays, Numbered', Tidy',
         Empties => Empties',
         v.n <= serial,
         desktop /\ v # Nothing => py'[Reads[run[r].at]] # Nothing,
         run[r].at \in {"check", "verify"} => v = Stored("main"),
         Reads[run[r].at] = "main" =>
           \/ v = Stored("main")
           \/ /\ Stored("main") = Broken
              /\ Valid(v) => Stored("backup").n <= v.n /\ floor[2] <= v.n,
         Reads[run[r].at] = "backup" => v = Stored("backup"),
         Reads[run[r].at] = "legacy" => v = Nothing
  PROVE  Body' /\ Change
  <1> DEFINE c == run[r]
  <1> DEFINE d == AfterRead(c, v)
  <1> DEFINE s == IF d.at = "save" THEN serial + 1 ELSE serial
  <1>a. /\ IsCall(c) /\ Place(r) /\ c.at \notin {"delete", "idle"}
        /\ c.at \in DOMAIN Reads
    BY Points DEF TypeInv, Body
  <1>b. \A q \in Routine \ {r} : run[q] = Idle
    BY <1>a, OthersIdle
  <1>c. /\ run' = [run EXCEPT ![r] = d] /\ serial' = s
        /\ floor' = IF c.at = "verify" /\ Valid(v)
                    THEN <<floor[2], c.val.n>> ELSE floor
        /\ UNCHANGED gone
    BY DEF GotValue, Go
  <1>d. /\ Stored("main").n <= serial /\ Stored("backup").n <= serial
    <2>1. "main" \in Key /\ "backup" \in Key
      BY DEF Key
    <2>2. Nothing.n = 0 /\ serial \in Nat
      BY DEF Nothing, TypeInv
    <2> QED
      BY <2>1, <2>2 DEF Body, Numbered, Stored, FirstOf
  <1>e. /\ Valid(Stored("main")) => Stored("backup").n <= Stored("main").n
        /\ floor[2] <= Recovered.n /\ floor[1] <= floor[2]
        /\ floor[1] <= Stored("backup").n
    BY <1>a, <1>b, IdleCall DEF Body, Promise, Erases
  <1>1. /\ Goal(d, Stored("main"), Stored("backup"), floor[2], s)
        /\ d = Idle \/ d.io = IF desktop THEN "py" ELSE "alone"
        /\ d.at \notin {"verify", "adopt", "delete", "forget"}
        /\ d.at = "check" => c.at = "previous" /\ v # Nothing
        /\ c.at = "verify" => d = Idle
    BY <1>a, <1>d, <1>e, ReadGoal DEF Place
  <1>2. c.at \in {"primary", "spare", "quick", "early"} /\ v = Nothing
          => d.at \in {"idle", "spare", "early", "primary"}
    <2>1. /\ Await("early", Nothing).at = "early"
          /\ Await("primary", Nothing).at = "primary"
          /\ ToSpare.at = "spare" /\ Idle.at = "idle"
      BY IdleCall, AwaitCall, Values, Points DEF ToSpare, Places
    <2>2. Nothing.kind = "none" /\ ~Valid(Nothing)
      BY DEF Nothing, Valid
    <2> QED
      BY <2>1, <2>2 DEF AfterRead
  <1> HIDE DEF c, d, s
  <1>3. /\ run'[r] = d /\ \A q \in Routine \ {r} : run'[q] = Idle
        /\ Alone' /\ ~Erases /\ ~Erases'
    BY <1>a, <1>b, <1>c, <1>1, OneActs DEF c
  <1>4. Promise'
    <2>1. CASE c.at = "verify" /\ Valid(v)
      <3>1. /\ c.val = New(serial) /\ Stored("backup").n < serial
            /\ floor[2] <= Stored("backup").n /\ v = Stored("main")
            /\ Stored("main") \in {c.val, Broken}
        BY <1>a, <2>1 DEF Place, Goal, c
      <3>2. Stored("main") = c.val /\ c.val.n = serial
            /\ Recovered.n = serial
        BY <2>1, <3>1, SlotTypes, NoSave, Values DEF New
      <3>3. floor'[1] = floor[2] /\ floor'[2] = serial
        BY <1>c, <2>1, <3>2
      <3> QED
        BY <1>3, <1>e, <3>1, <3>2, <3>3, SlotStaysSame, SlotTypes
        DEF Promise, SlotStays
    <2>2. CASE ~(c.at = "verify" /\ Valid(v))
      BY <1>c, <1>3, <1>e, <2>2, SlotStaysSame DEF Promise, SlotStays
    <2> QED
      BY <2>1, <2>2
  <1>5. Place(r)'
    <2>1. Goal(d, Stored("main")', Stored("backup")', floor'[2], serial')
      <3>1. CASE c.at = "verify"
        BY <1>1, <3>1, IdleCall DEF Goal
      <3>2. CASE c.at # "verify"
        BY <1>1, <1>c, <3>2 DEF SlotStays
      <3> QED
        BY <3>1, <3>2
    <2>2. Reading(r)'
      <3> SUFFICES ASSUME d.at \in DOMAIN Reads
                   PROVE  Reading(r)'
        BY <1>3 DEF Reading
      <3>1. d.io = IF desktop THEN "py" ELSE "alone"
        BY <1>1, IdleCall, Points
      <3>2. d.at = "check" => (desktop => py'[Reads[d.at]] # Nothing)
        BY <1>1 DEF c, Reads
      <3> QED
        BY <1>1, <1>3, <3>1, <3>2 DEF Reading, Read, SlotStays
    <2>3. Writing(r)' /\ Erasing(r)'
      BY <1>1, <1>3, IdleCall, Points DEF Writing, Erasing, SlotStays
    <2> QED
      BY <1>1, <1>3, <2>1, <2>2, <2>3 DEF Place
  <1>6. gone' => Empties' /\ d.at \in {"idle", "primary", "spare", "quick",
                                       "early", "delete"}
    <2> SUFFICES ASSUME gone
                 PROVE  Empties' /\ d.at \in {"idle", "primary", "spare",
                                             "quick", "early", "delete"}
      BY <1>c
    <2>1. Empties /\ c.at \in {"primary", "spare", "quick", "early"}
      BY <1>a, Points DEF Body, Gone, Empties, c
    <2>2. Stored("main") = Nothing /\ Stored("backup") = Nothing
      BY <2>1 DEF Empties, Stored, FirstOf, Slot
    <2>3. v = Nothing
      BY <2>1, <2>2, Values DEF Reads, c
    <2> QED
      BY <1>2, <2>1, <2>3
  <1>7. Body'
    BY <1>3, <1>4, <1>5, <1>6, BodyAfter
  <1>8. Change
    BY <1>3, SlotStaysSame DEF Change, SlotStays
  <1> QED
    BY <1>7, <1>8

-----------------------------------------------------------------------------
(* The steps of a routine, one at a time and without a failure *)

LEMMA NoFailure == TypeInv /\ Exclusive /\ Exclusive' => ~Fails
  BY DEF Exclusive, Fails

\* Numbered and Tidy read nothing but the storage and the counter.
LEMMA StorageSame ==
  ASSUME TypeInv, Body, UNCHANGED cells, serial' \in {serial, serial + 1}
  PROVE  /\ Numbered' /\ Tidy' /\ (Empties => Empties')
         /\ UNCHANGED desktop => Stored("main")' = Stored("main")
                                 /\ Stored("backup")' = Stored("backup")
  <1>1. \A k \in Key : py[k].n \in Nat /\ idb[k].n \in Nat /\ local[k].n \in Nat
    BY Values DEF TypeInv, IsStore
  <1>2. Numbered'
    BY <1>1 DEF Body, Numbered, cells, TypeInv
  <1> QED
    BY <1>2 DEF Body, Tidy, Empties, cells, Stored, FirstOf

\* What a routine reads is numbered.
LEMMA KeyFacts ==
  ASSUME TypeInv, Body, NEW k \in Key
  PROVE  /\ IsValue(py[k]) /\ IsValue(idb[k]) /\ IsValue(local[k])
         /\ mem[k] = Nothing
         /\ py[k].n <= serial /\ idb[k].n <= serial /\ local[k].n <= serial
         /\ k = "legacy" => py[k] = Nothing /\ idb[k] = Nothing
                            /\ local[k] = Nothing
         /\ k \in Slot \/ k = "legacy"
         /\ Stored(k) = FirstOf(py[k], FirstOf(idb[k], local[k]))
  BY DEF TypeInv, IsStore, Body, Numbered, Tidy, Key, Slot, Stored, FirstOf

LEMMA SerialAfter ==
  ASSUME TypeInv, NEW r, NEW c, Go(r, c)
  PROVE  serial' \in {serial, serial + 1}
  BY DEF Go

\* A routine goes on with the operation it is in.
LEMMA StaySlot ==
  ASSUME TypeInv, Body, NEW r \in Routine,
         run[r].at \in DOMAIN Reads \cup DOMAIN Writes,
         NEW c, run' = [run EXCEPT ![r] = c], c.at = run[r].at,
         UNCHANGED serial, UNCHANGED history,
         SlotStays, Numbered', Tidy', Empties => Empties',
         Place(r)'
  PROVE  Body' /\ Change
  <1>a. run[r].at \notin {"idle", "delete", "forget"}
    BY Points
  <1>b. \A q \in Routine \ {r} : run[q] = Idle
    BY <1>a, OthersIdle
  <1>1. /\ run'[r] = c /\ \A q \in Routine \ {r} : run'[q] = Idle
        /\ Alone' /\ ~Erases /\ ~Erases'
    BY <1>a, <1>b, OneActs
  <1>2. Promise'
    BY <1>1, SlotStaysSame DEF Body, Promise, SlotStays, history
  <1>3. gone' => Empties' /\ run'[r].at \in {"idle", "primary", "spare",
                                             "quick", "early", "delete"}
    BY <1>1 DEF Body, Gone, Empties, history
  <1>4. Body'
    BY <1>1, <1>2, <1>3, BodyAfter
  <1> QED
    BY <1>1, <1>4, SlotStaysSame DEF Change, SlotStays

LEMMA ReadPythonSlot ==
  ASSUME TypeInv, Body, Exclusive, Exclusive', NEW r \in Routine, ReadPython(r)
  PROVE  Body' /\ Change
  <1> DEFINE k == Reads[run[r].at]
  <1>a. /\ run[r].at \in DOMAIN Reads /\ k \in Key /\ run[r].io = "py"
        /\ UNCHANGED cells /\ Place(r) /\ run[r] \in Calls
    BY Points DEF ReadPython, Body, TypeInv
  <1>b. desktop
    BY <1>a DEF Place, Reading, Read
  <1>c. /\ Works
        /\ \/ py[k] # Nothing /\ GotValue(r, py[k])
           \/ py[k] = Nothing /\ Stay(r, [run[r] EXCEPT !.io = "browser"])
    BY NoFailure DEF ReadPython
  <1>d. /\ IsValue(py[k]) /\ py[k].n <= serial
        /\ k = "legacy" => py[k] = Nothing
        /\ py[k] # Nothing => Stored(k) = py[k]
    BY <1>a, KeyFacts DEF FirstOf
  <1>e. run[r].at \in {"check", "verify"} => k = "main" /\ py[k] # Nothing
    BY <1>a, <1>b DEF Place, Reading, Read, Reads
  <1>f. UNCHANGED <<desktop, damage>>
    BY <1>c DEF Works
  <1>1. CASE py[k] # Nothing /\ GotValue(r, py[k])
    <2>1. serial' \in {serial, serial + 1}
      BY <1>1, SerialAfter DEF GotValue
    <2>2. SlotStays /\ Numbered' /\ Tidy' /\ (Empties => Empties')
      BY <1>a, <1>f, <2>1, StorageSame DEF SlotStays
    <2>3. py'[k] = py[k]
      BY <1>a DEF cells
    <2> QED
      BY <1>1, <1>a, <1>d, <1>e, <2>2, <2>3, GotSlot
  <1>2. CASE py[k] = Nothing /\ Stay(r, [run[r] EXCEPT !.io = "browser"])
    <2> DEFINE c == [run[r] EXCEPT !.io = "browser"]
    <2>1. c.at = run[r].at /\ c.io = "browser" /\ run' = [run EXCEPT ![r] = c]
      BY <1>2, <1>a DEF Calls, Stay
    <2> HIDE DEF c
    <2>2. UNCHANGED serial /\ UNCHANGED history
      BY <1>2 DEF Stay
    <2>3. SlotStays /\ Numbered' /\ Tidy' /\ (Empties => Empties')
      BY <1>a, <1>f, <2>2, StorageSame DEF SlotStays
    <2>4. Place(r)'
      <3>1. run'[r] = c /\ c.at \in DOMAIN Reads \ {"check", "verify"}
        BY <1>2, <1>a, <1>e, <2>1 DEF TypeInv
      <3>2. Goal(run'[r], Stored("main")', Stored("backup")', floor'[2], serial')
        <4>1. c.at = "spare" => ~Valid(Stored("main"))
          BY <1>a, <2>1 DEF Place, Goal
        <4> QED
          BY <3>1, <4>1, <2>3, Points DEF Goal, SlotStays
      <3>3. Reading(r)'
        BY <1>2, <1>a, <1>b, <1>f, <2>1, <3>1 DEF Reading, Read, cells
      <3>4. Writing(r)' /\ Erasing(r)'
        BY <3>1, Points DEF Writing, Erasing
      <3> QED
        BY <3>1, <3>2, <3>3, <3>4, Points DEF Place
    <2> QED
      BY <1>a, <2>1, <2>2, <2>3, <2>4, StaySlot
  <1> QED
    BY <1>c, <1>1, <1>2

LEMMA ReadBrowserSlot ==
  ASSUME TypeInv, Body, Exclusive, Exclusive', NEW r \in Routine, ReadBrowser(r)
  PROVE  Body' /\ Change
  <1> DEFINE k == Reads[run[r].at]
  <1> DEFINE v == FirstOf(idb[k], local[k])
  <1>a. /\ run[r].at \in DOMAIN Reads /\ k \in Key
        /\ run[r].io \in {"browser", "alone"}
        /\ UNCHANGED cells /\ Place(r) /\ run[r] \in Calls
    BY Points DEF ReadBrowser, Body, TypeInv
  <1>b. /\ run[r].io = "browser" => desktop /\ py[k] = Nothing
        /\ run[r].io = "alone" => ~desktop
    BY <1>a DEF Place, Reading, Read
  <1>c. /\ IsValue(v) /\ v.n <= serial /\ mem[k] = Nothing
        /\ k = "legacy" => v = Nothing
        /\ Stored(k) = v
    BY <1>a, <1>b, KeyFacts DEF FirstOf, Stored
  <1>d. /\ Works
        /\ \/ /\ v # Nothing /\ run[r].io = "browser"
              /\ Stay(r, [run[r] EXCEPT !.io = "migrate", !.val = v])
           \/ /\ v = Nothing \/ run[r].io = "alone"
              /\ GotValue(r, v)
    <2>1. PICK w \in {idb[k], local[k]} :
            /\ BrowserValue(k, w)
            /\ IF w # Nothing /\ run[r].io = "browser"
               THEN Stay(r, [run[r] EXCEPT !.io = "migrate", !.val = w])
               ELSE GotValue(r, FirstOf(w, mem[k]))
      BY DEF ReadBrowser
    <2>2. Works /\ w = v
      BY <2>1, NoFailure DEF BrowserValue
    <2>3. FirstOf(w, mem[k]) = v
      BY <1>c, <2>2 DEF FirstOf
    <2> HIDE DEF v, k
    <2> QED
      BY <1>a, <2>1, <2>2, <2>3
  <1>e. run[r].at \in {"check", "verify"} => k = "main" /\ run[r].io = "alone"
    BY <1>a DEF Place, Reading, Read, Reads
  <1>f. UNCHANGED <<desktop, damage>>
    BY <1>d DEF Works
  <1>1. CASE (v = Nothing \/ run[r].io = "alone") /\ GotValue(r, v)
    <2>1. serial' \in {serial, serial + 1}
      BY <1>1, SerialAfter DEF GotValue
    <2>2. SlotStays /\ Numbered' /\ Tidy' /\ (Empties => Empties')
      BY <1>a, <1>f, <2>1, StorageSame DEF SlotStays
    <2>3. desktop => v = Nothing
      BY <1>1, <1>b
    <2> HIDE DEF v
    <2> QED
      BY <1>1, <1>a, <1>c, <1>e, <2>2, <2>3, GotSlot
  <1>2. CASE /\ v # Nothing /\ run[r].io = "browser"
             /\ Stay(r, [run[r] EXCEPT !.io = "migrate", !.val = v])
    <2> DEFINE c == [run[r] EXCEPT !.io = "migrate", !.val = v]
    <2>1. /\ c.at = run[r].at /\ c.io = "migrate" /\ c.val = v
          /\ run' = [run EXCEPT ![r] = c]
      BY <1>2, <1>a DEF Calls, Stay
    <2>2. UNCHANGED serial /\ UNCHANGED history
      BY <1>2 DEF Stay
    <2>3. SlotStays /\ Numbered' /\ Tidy' /\ (Empties => Empties')
      BY <1>a, <1>f, <2>2, StorageSame DEF SlotStays
    <2>4. v = FirstOf(idb[k], local[k]) /\ k = Reads[c.at]
      BY <2>1
    <2> HIDE DEF c, v, k
    <2>5. Place(r)'
      <3>1. run'[r] = c /\ c.at \in DOMAIN Reads \ {"check", "verify"}
        BY <1>2, <1>a, <1>e, <2>1 DEF TypeInv
      <3>2. Goal(run'[r], Stored("main")', Stored("backup")', floor'[2], serial')
        <4>1. c.at = "spare" => ~Valid(Stored("main"))
          BY <1>a, <2>1 DEF Place, Goal
        <4> QED
          BY <3>1, <4>1, <2>3, Points DEF Goal, SlotStays
      <3>3. k = "main" /\ Valid(v) => Stored("backup").n <= v.n /\ floor[2] <= v.n
        <4>1. ~Erases
          BY <1>a, <3>1, <2>1, Points, OthersIdle, IdleCall DEF Erases
        <4> QED
          BY <1>c, <4>1, SlotTypes DEF Body, Promise
      <3>4. Reading(r)'
        <4>1. /\ UNCHANGED <<py, idb, local, desktop, serial, floor>>
              /\ Stored("backup")' = Stored("backup")
              /\ py[k] = Nothing /\ desktop
          BY <1>2, <1>a, <1>b, <1>f, <2>2, <2>3 DEF cells, history, SlotStays
        <4>2. v # Nothing /\ v.n <= serial
          BY <1>2, <1>c
        <4> QED
          BY <2>1, <2>4, <3>1, <3>3, <4>1, <4>2 DEF Reading, Read
      <3>5. Writing(r)' /\ Erasing(r)'
        BY <3>1, Points DEF Writing, Erasing
      <3> QED
        BY <3>1, <3>2, <3>4, <3>5, Points DEF Place
    <2> QED
      BY <1>a, <2>1, <2>2, <2>3, <2>5, StaySlot
  <1> QED
    BY <1>d, <1>1, <1>2

LEMMA MigrateSlot ==
  ASSUME TypeInv, Body, Exclusive, Exclusive', NEW r \in Routine, Migrate(r)
  PROVE  Body' /\ Change
  <1> DEFINE k == Reads[run[r].at]
  <1> DEFINE v == run[r].val
  <1> DEFINE c == [run[r] EXCEPT !.io = "clear"]
  <1>a. /\ run[r].at \in DOMAIN Reads /\ k \in Key /\ run[r].io = "migrate"
        /\ UNCHANGED <<idb, local, mem>> /\ Place(r) /\ run[r] \in Calls
    BY Points DEF Migrate, Body, TypeInv
  <1>b. /\ Works /\ py' = Put(py, k, v) /\ Stay(r, c)
    BY NoFailure DEF Migrate
  <1>c. /\ desktop /\ py[k] = Nothing /\ v # Nothing
        /\ v = FirstOf(idb[k], local[k]) /\ v.n <= serial
        /\ k = "main" /\ Valid(v) => Stored("backup").n <= v.n /\ floor[2] <= v.n
        /\ run[r].at \notin {"check", "verify"}
    BY <1>a DEF Place, Reading, Read
  <1>d. /\ c.at = run[r].at /\ c.io = "clear" /\ c.val = v
        /\ run' = [run EXCEPT ![r] = c]
        /\ UNCHANGED serial /\ UNCHANGED history /\ UNCHANGED <<desktop, damage>>
    BY <1>a, <1>b DEF Calls, Stay, Works
  <1>e. k \in Slot
    BY <1>a, <1>c, KeyFacts DEF FirstOf
  <1>f. k = Reads[c.at]
    BY <1>d
  <1>g. IsStore(py) /\ IsValue(v)
    BY DEF TypeInv, IsCall
  <1> HIDE DEF v, k, c
  <1>1. py'[k] = v /\ \A j \in Key \ {k} : py'[j] = py[j]
    BY <1>a, <1>b, <1>g, PutType
  <1>2. \A j \in Slot : Stored(j)' = Stored(j)
    <2> SUFFICES ASSUME NEW j \in Slot PROVE Stored(j)' = Stored(j)
      OBVIOUS
    <2>1. CASE j = k
      <3>1. Stored(j) = v
        BY <1>c, <2>1 DEF Stored, FirstOf
      <3>2. Stored(j)' = v
        BY <1>c, <1>d, <1>1, <2>1 DEF Stored, FirstOf
      <3> QED
        BY <3>1, <3>2
    <2>2. CASE j # k
      BY <1>a, <1>d, <1>1, <2>2 DEF Stored, FirstOf, Slot, Key
    <2> QED
      BY <2>1, <2>2
  <1>3. SlotStays
    BY <1>2, <1>d DEF SlotStays, Slot
  <1>4. Numbered'
    BY <1>a, <1>c, <1>d, <1>1 DEF Body, Numbered
  <1>5. Tidy'
    BY <1>a, <1>e, <1>1 DEF Body, Tidy, Slot, Key
  <1>6. ~Empties
    BY <1>c, <1>e DEF Empties, FirstOf
  <1>7. Place(r)'
    <2>1. run'[r] = c /\ c.at \in DOMAIN Reads \ {"check", "verify"}
      BY <1>a, <1>c, <1>d DEF TypeInv
    <2>2. Goal(run'[r], Stored("main")', Stored("backup")', floor'[2], serial')
      <3>1. c.at = "spare" => ~Valid(Stored("main"))
        BY <1>a, <1>d DEF Place, Goal
      <3> QED
        BY <2>1, <3>1, <1>3, Points DEF Goal, SlotStays
    <2>3. Reading(r)'
      <3>1. UNCHANGED floor /\ Stored("backup")' = Stored("backup")
        BY <1>d, <1>3 DEF history, SlotStays
      <3> QED
        BY <1>c, <1>d, <1>f, <1>1, <2>1, <3>1 DEF Reading, Read
    <2>4. Writing(r)' /\ Erasing(r)'
      BY <2>1, Points DEF Writing, Erasing
    <2> QED
      BY <2>1, <2>2, <2>3, <2>4, Points DEF Place
  <1> QED
    BY <1>a, <1>d, <1>3, <1>4, <1>5, <1>6, <1>7, StaySlot

LEMMA ClearMigratedSlot ==
  ASSUME TypeInv, Body, Exclusive, Exclusive', NEW r \in Routine,
         ClearMigrated(r)
  PROVE  Body' /\ Change
  <1> DEFINE k == Reads[run[r].at]
  <1> DEFINE v == run[r].val
  <1>a. /\ run[r].at \in DOMAIN Reads /\ k \in Key /\ run[r].io = "clear"
        /\ UNCHANGED py /\ Place(r) /\ GotValue(r, v)
        /\ IsValue(v) /\ ClearBrowser(k)
    BY Points DEF ClearMigrated, Body, TypeInv, IsCall
  <1>b. /\ desktop /\ v # Nothing /\ v.n <= serial
        /\ py[k] = v \/ (k = "main" /\ py[k] = Broken)
        /\ k = "main" /\ Valid(v) => Stored("backup").n <= v.n /\ floor[2] <= v.n
        /\ run[r].at \notin {"check", "verify"}
    BY <1>a DEF Place, Reading, Read
  <1>c. /\ Works /\ mem' = Put(mem, k, Nothing) /\ idb' = Put(idb, k, Nothing)
        /\ local' = Put(local, k, Nothing)
    BY <1>a, NoFailure DEF ClearBrowser
  <1>d. UNCHANGED <<desktop, damage>>
    BY <1>c DEF Works
  <1>e. IsStore(idb) /\ IsStore(local) /\ IsStore(mem) /\ serial \in Nat
    BY DEF TypeInv
  <1>f. py[k] # Nothing /\ k \in Slot /\ Stored(k) = py[k]
    BY <1>a, <1>b, KeyFacts, Values DEF FirstOf
  <1>g. serial' \in {serial, serial + 1}
    BY <1>a, SerialAfter DEF GotValue
  <1> HIDE DEF v, k
  <1>1. /\ \A j \in Key : idb'[j] \in {idb[j], Nothing}
                          /\ local'[j] \in {local[j], Nothing}
                          /\ mem'[j] \in {mem[j], Nothing}
        /\ \A j \in Key \ {k} : idb'[j] = idb[j] /\ local'[j] = local[j]
    <2>1. \A j \in Key : idb'[j] = IF j = k THEN Nothing ELSE idb[j]
      BY <1>a, <1>c, <1>e DEF IsStore, Put
    <2>2. \A j \in Key : local'[j] = IF j = k THEN Nothing ELSE local[j]
      BY <1>a, <1>c, <1>e DEF IsStore, Put
    <2>3. \A j \in Key : mem'[j] = IF j = k THEN Nothing ELSE mem[j]
      BY <1>a, <1>c, <1>e DEF IsStore, Put
    <2> QED
      BY <2>1, <2>2, <2>3
  <1>2. \A j \in Slot : Stored(j)' = Stored(j)
    <2> SUFFICES ASSUME NEW j \in Slot PROVE Stored(j)' = Stored(j)
      OBVIOUS
    <2>1. CASE j = k
      BY <1>a, <1>b, <1>d, <1>f, <2>1 DEF Stored, FirstOf
    <2>2. CASE j # k
      BY <1>a, <1>d, <1>1, <2>2 DEF Stored, FirstOf, Slot, Key
    <2> QED
      BY <2>1, <2>2
  <1>3. SlotStays
    BY <1>2, <1>d DEF SlotStays, Slot
  <1>4. Numbered'
    <2>1. \A j \in Key : py[j].n \in Nat /\ idb[j].n \in Nat /\ local[j].n \in Nat
      BY Values DEF TypeInv, IsStore
    <2>2. Nothing.n = 0
      BY DEF Nothing
    <2> QED
      BY <1>a, <1>e, <1>g, <1>1, <2>1, <2>2 DEF Body, Numbered
  <1>5. Tidy'
    BY <1>a, <1>1 DEF Body, Tidy, Key
  <1>6. ~Empties
    BY <1>f DEF Empties
  <1>7. /\ py'[k] # Nothing
        /\ k = "main" => \/ v = Stored("main")
                         \/ /\ Stored("main") = Broken
                            /\ Valid(v) => Stored("backup").n <= v.n
                                           /\ floor[2] <= v.n
        /\ k = "backup" => v = Stored("backup")
        /\ k = "legacy" => v = Nothing
    BY <1>a, <1>b, <1>f DEF Slot
  <1> QED
    BY <1>a, <1>b, <1>3, <1>4, <1>5, <1>6, <1>7, GotSlot DEF k, v

\* What a routine goes on with after it has written.
LEMMA AfterWriteGoal ==
  ASSUME TypeInv, NEW c, IsCall(c), c.at \in DOMAIN Writes \ {"adopt"},
         NEW m, NEW b, NEW f,
         c.at = "backup" => /\ Valid(c.val) /\ m \in {c.val, Broken}
                            /\ b = c.val /\ f <= c.val.n /\ c.val.n <= serial,
         c.at = "save" => /\ c.val = New(serial) /\ b.n < serial /\ f <= b.n
                          /\ m \in {c.val, Broken},
         NEW d, d = AfterWrite(c),
         NEW s, s = IF d.at = "save" THEN serial + 1 ELSE serial
  PROVE  /\ Goal(d, m, b, f, s)
         /\ d = Idle \/ d.io = IF desktop THEN "py" ELSE "alone"
         /\ d.at \in {"idle", "save", "verify"}
         /\ d.at = "verify" => c.at = "save"
         /\ d.at = "save" => c.at = "backup"
  <1>a. /\ {"save", "verify"} \subseteq Places \ {"idle", "delete", "forget"}
        /\ IsValue(c.val) /\ IsValue(New(serial + 1)) /\ serial \in Nat
        /\ c.val.n \in Nat
    BY Points, Values DEF Places, IsCall, TypeInv
  <1>b. /\ ToSave.at = "save" /\ ToSave.val = New(serial + 1)
        /\ ToSave.io = IF desktop THEN "py" ELSE "alone"
        /\ Await("verify", c.val).at = "verify"
        /\ Await("verify", c.val).val = c.val
        /\ Await("verify", c.val).io = IF desktop THEN "py" ELSE "alone"
    BY <1>a, AwaitCall DEF ToSave
  <1>1. CASE c.at = "backup"
    <2>1. d = ToSave
      BY <1>1 DEF AfterWrite
    <2>2. s = serial + 1
      BY <2>1, <1>b
    <2>3. ~Valid(Broken)
      BY DEF Valid, Broken
    <2> QED
      BY <1>1, <1>a, <1>b, <2>1, <2>2, <2>3 DEF Goal
  <1>2. CASE c.at = "save"
    <2>1. d = Await("verify", c.val)
      BY <1>2 DEF AfterWrite
    <2>2. s = serial
      BY <2>1, <1>b
    <2> QED
      BY <1>2, <1>a, <1>b, <2>1, <2>2 DEF Goal
  <1>3. CASE c.at \in {"upgrade", "repair"}
    <2>1. d = Idle
      BY <1>3 DEF AfterWrite
    <2> QED
      BY <1>3, <2>1, IdleCall DEF Goal
  <1> QED
    BY <1>1, <1>2, <1>3, Points

\* The records once a routine has written, and what that does to the register.
LEMMA WrittenSlot ==
  ASSUME TypeInv, Body, NEW r \in Routine, NEW c, c = run[r],
         c.at \in DOMAIN Writes, c.io # "browser",
         NEW m, NEW b, NEW x, NEW y,
         m = IF c.at = "backup" THEN Stored("main") ELSE c.val,
         b = IF c.at = "backup" THEN c.val ELSE Stored("backup"),
         x = IF Valid(m) THEN m.n ELSE b.n, y = Stored("backup").n
  PROVE  /\ c.at # "adopt" /\ IsValue(c.val) /\ Valid(c.val) /\ c.val.n <= serial
         /\ floor[1] <= b.n /\ floor[2] <= x /\ (Valid(m) => b.n <= m.n)
         /\ \/ x = Recovered.n /\ b.n = y
            \/ x >= Recovered.n /\ b.n = x
            \/ Recovered.n = y /\ x > Recovered.n /\ b.n = y
         /\ c.at = "backup" => /\ Valid(c.val) /\ m \in {c.val, Broken}
                               /\ b = c.val /\ floor[2] <= c.val.n
                               /\ c.val.n <= serial
         /\ c.at = "save" => /\ c.val = New(serial) /\ b.n < serial
                             /\ floor[2] <= b.n /\ m \in {c.val, Broken}
         /\ c.at = "upgrade" => /\ Valid(c.val) /\ m = c.val
                                /\ b.n <= c.val.n /\ floor[2] <= c.val.n
                                /\ c.val.n <= serial
         /\ c.at = "repair" => /\ Valid(b) /\ c.val = New(b.n) /\ m = c.val
  <1> DEFINE o == Stored("main")
  <1> DEFINE p == Stored("backup")
  <1>a. /\ Goal(c, o, p, floor[2], serial) /\ c.at # "adopt"
        /\ IsValue(c.val) /\ c.val.n \in Nat
    BY Values DEF Body, Place, TypeInv, IsCall
  <1>b. /\ IsValue(o) /\ IsValue(p) /\ o.n \in Nat /\ p.n \in Nat
        /\ floor[1] \in Nat /\ floor[2] \in Nat /\ serial \in Nat
        /\ Recovered.n = IF Valid(o) THEN o.n ELSE p.n
    BY SlotTypes
  <1>c. /\ c.at \notin {"idle", "delete", "forget"}
        /\ c.at \in {"backup", "save", "upgrade", "repair"}
    BY <1>a, Points
  <1>d. ~Erases
    BY <1>c, OthersIdle, IdleCall DEF Erases
  <1>e. /\ floor[1] <= floor[2] /\ floor[1] <= p.n /\ floor[2] <= Recovered.n
        /\ Valid(o) => p.n <= o.n
    BY <1>d DEF Body, Promise
  <1>f. p.n <= serial
    <2>1. "backup" \in Key
      BY DEF Key
    <2> QED
      BY <2>1, KeyFacts, Values, <1>b DEF FirstOf, Nothing
  <1>g. /\ ~Valid(Broken) /\ ~Valid(Nothing)
        /\ \A n : Valid(New(n)) /\ New(n).n = n
    BY DEF Valid, Broken, Nothing, New
  <1> HIDE DEF o, p
  <1>1. CASE c.at = "backup"
    <2>1. m = o /\ b = c.val
      BY <1>1 DEF o
    <2>2. /\ Valid(c.val) /\ o \in {c.val, Broken} /\ p.n <= c.val.n
          /\ floor[2] <= c.val.n /\ c.val.n <= serial
      BY <1>1, <1>a DEF Goal
    <2>3. x = c.val.n /\ Recovered.n <= c.val.n
      BY <1>b, <1>g, <2>1, <2>2
    <2> QED
      BY <1>1, <1>a, <1>b, <1>e, <2>1, <2>2, <2>3
  <1>2. CASE c.at = "save"
    <2>1. m = c.val /\ b = p
      BY <1>2 DEF p
    <2>2. /\ c.val = New(serial) /\ p.n < serial /\ floor[2] <= p.n
          /\ Valid(o) => o.n = p.n
      BY <1>2, <1>a DEF Goal
    <2>3. Valid(m) /\ m.n = serial /\ x = serial /\ Recovered.n = p.n
      BY <1>b, <1>g, <2>1, <2>2
    <2> QED
      BY <1>2, <1>a, <1>b, <1>e, <2>1, <2>2, <2>3 DEF p
  <1>3. CASE c.at = "upgrade"
    <2>1. m = c.val /\ b = p
      BY <1>3 DEF p
    <2>2. /\ Valid(c.val) /\ (Valid(o) => o.n = c.val.n) /\ p.n <= c.val.n
          /\ floor[2] <= c.val.n /\ c.val.n <= serial
      BY <1>3, <1>a DEF Goal
    <2>3. x = c.val.n
      BY <2>1, <2>2
    <2> QED
      BY <1>3, <1>a, <1>b, <1>e, <2>1, <2>2, <2>3 DEF p
  <1>4. CASE c.at = "repair"
    <2>1. m = c.val /\ b = p
      BY <1>4 DEF p
    <2>2. Valid(p) /\ c.val = New(p.n) /\ (Valid(o) => o.n = p.n)
      BY <1>4, <1>a DEF Goal
    <2>3. Valid(m) /\ m.n = p.n /\ x = p.n /\ Recovered.n = p.n
      BY <1>b, <1>g, <2>1, <2>2
    <2> QED
      BY <1>4, <1>a, <1>b, <1>e, <1>f, <2>1, <2>2, <2>3 DEF p
  <1> QED
    BY <1>c, <1>1, <1>2, <1>3, <1>4

\* A store has what was put into it.
LEMMA PutValue ==
  ASSUME NEW store, IsStore(store), NEW k \in Key, NEW v
  PROVE  /\ Put(store, k, v)[k] = v
         /\ \A j \in Key \ {k} : Put(store, k, v)[j] = store[j]
         /\ \A j \in Key : Put(store, k, v)[j] = IF j = k THEN v ELSE store[j]
  BY DEF IsStore, Put

\* The routine that writes goes on; m and b are the records then.
LEMMA WriteSlot ==
  ASSUME TypeInv, Body, NEW r \in Routine, NEW c, c = run[r],
         c.at \in DOMAIN Writes, c.io # "browser",
         NEW m, NEW b,
         m = IF c.at = "backup" THEN Stored("main") ELSE c.val,
         b = IF c.at = "backup" THEN c.val ELSE Stored("backup"),
         Stored("main")' = m, Stored("backup")' = b,
         UNCHANGED <<desktop, damage, history>>,
         Numbered', Tidy', NEW d, run' = [run EXCEPT ![r] = d],
         d.at \notin {"delete"}, Place(r)'
  PROVE  Body' /\ Change
  <1> DEFINE x == IF Valid(m) THEN m.n ELSE b.n
  <1> DEFINE y == Stored("backup").n
  <1>1. /\ floor[1] <= b.n /\ floor[2] <= x /\ (Valid(m) => b.n <= m.n)
        /\ \/ x = Recovered.n /\ b.n = y
           \/ x >= Recovered.n /\ b.n = x
           \/ Recovered.n = y /\ x > Recovered.n /\ b.n = y
    BY WrittenSlot
  <1>2. Recovered'.n = x
    BY DEF Recovered
  <1>a. c.at \notin {"idle", "delete", "forget"}
    BY Points
  <1>b. \A q \in Routine \ {r} : run[q] = Idle
    BY <1>a, OthersIdle
  <1>3. /\ run'[r] = d /\ \A q \in Routine \ {r} : run'[q] = Idle
        /\ Alone' /\ ~Erases /\ ~Erases'
    BY <1>a, <1>b, OneActs
  <1> HIDE DEF x
  <1>4. Promise'
    <2>1. floor' = floor
      BY DEF history
    <2>2. floor[1] <= floor[2]
      BY DEF Body, Promise
    <2> QED
      BY <1>1, <1>2, <2>1, <2>2 DEF Promise
  <1>5. ~gone'
    BY <1>a, Points DEF Body, Gone, history
  <1>6. Body'
    BY <1>3, <1>4, <1>5, BodyAfter
  <1>7. Change
    BY <1>1, <1>2, <1>3 DEF Change, SameSlot
  <1> QED
    BY <1>6, <1>7

LEMMA WritePythonSlot ==
  ASSUME TypeInv, Body, Exclusive, Exclusive', NEW r \in Routine, WritePython(r)
  PROVE  Body' /\ Change
  <1> DEFINE k == Writes[run[r].at]
  <1> DEFINE v == run[r].val
  <1> DEFINE c == run[r]
  <1> DEFINE d == [run[r] EXCEPT !.io = "browser"]
  <1> DEFINE m == IF c.at = "backup" THEN Stored("main") ELSE v
  <1> DEFINE b == IF c.at = "backup" THEN v ELSE Stored("backup")
  <1>a. /\ c.at \in DOMAIN Writes /\ k \in Key /\ c.io = "py"
        /\ UNCHANGED <<idb, local, mem>> /\ Place(r) /\ c \in Calls
        /\ IsStore(py) /\ k \in Slot /\ serial \in Nat
    BY Points DEF WritePython, Body, TypeInv
  <1>b. /\ Works /\ py' = Put(py, k, v) /\ Stay(r, d)
    BY NoFailure DEF WritePython
  <1>c. /\ desktop /\ c.at \in {"backup", "save", "upgrade", "repair"}
    BY <1>a, Points DEF Place, Writing
  <1>d. /\ d.at = c.at /\ d.io = "browser" /\ d.val = v
        /\ run' = [run EXCEPT ![r] = d]
        /\ UNCHANGED serial /\ UNCHANGED history /\ UNCHANGED <<desktop, damage>>
    BY <1>a, <1>b DEF Calls, Stay, Works
  <1>e. /\ IsValue(v) /\ Valid(v) /\ v.n <= serial
        /\ c.at = "backup" => /\ Valid(v) /\ m \in {v, Broken}
                              /\ b = v /\ floor[2] <= v.n /\ v.n <= serial
        /\ c.at = "save" => /\ v = New(serial) /\ b.n < serial
                            /\ floor[2] <= b.n /\ m \in {v, Broken}
        /\ c.at = "upgrade" => /\ Valid(v) /\ m = v
                               /\ b.n <= v.n /\ floor[2] <= v.n /\ v.n <= serial
        /\ c.at = "repair" => Valid(b) /\ v = New(b.n) /\ m = v
    <2> HIDE DEF m, b, v, c
    <2>1. c.io # "browser"
      BY <1>a
    <2> QED
      BY <1>a, <2>1, WrittenSlot DEF m, b, v, c
  <1>f. k = IF c.at = "backup" THEN "backup" ELSE "main"
    BY <1>c DEF Writes
  <1>g. Writes[d.at] = k /\ run'[r] = d
    BY <1>d DEF TypeInv
  <1> HIDE DEF v, k, d, m, b
  <1>h. v # Nothing
    BY <1>e, NoSave
  <1>1. \A j \in Key : py'[j] = IF j = k THEN v ELSE py[j]
    BY <1>a, <1>b, PutValue
  <1>2. Stored("main")' = m /\ Stored("backup")' = b
    BY <1>a, <1>c, <1>d, <1>f, <1>h, <1>1, SlotTypes
    DEF Stored, FirstOf, m, b
  <1>3. Numbered'
    BY <1>a, <1>d, <1>e, <1>1 DEF Body, Numbered
  <1>4. Tidy'
    BY <1>a, <1>1 DEF Body, Tidy, Slot, Key
  <1>5. Place(r)'
    <2>1. Goal(d, m, b, floor[2], serial)
      <3>1. v.n \in Nat /\ floor[2] \in Nat /\ ~Valid(Broken)
        BY <1>e, Values, SlotTypes DEF Valid, Broken
      <3>2. \A n \in Nat : New(n).n = n
        BY DEF New
      <3>3. b.n \in Nat
        BY <1>e, SlotTypes, Values DEF b
      <3>4. CASE c.at = "backup"
        BY <1>d, <1>e, <3>1, <3>4 DEF Goal, b
      <3>5. CASE c.at = "save"
        BY <1>d, <1>e, <3>5 DEF Goal
      <3>6. CASE c.at = "upgrade"
        BY <1>d, <1>e, <1>h, <3>1, <3>6 DEF Goal
      <3>7. CASE c.at = "repair"
        BY <1>d, <1>e, <3>2, <3>3, <3>7 DEF Goal
      <3> QED
        BY <1>c, <3>4, <3>5, <3>6, <3>7
    <2>2. Goal(run'[r], Stored("main")', Stored("backup")', floor'[2], serial')
      BY <1>d, <1>g, <1>2, <2>1 DEF history
    <2>3. Writing(r)'
      BY <1>a, <1>c, <1>d, <1>g, <1>h, <1>1 DEF Writing
    <2>4. run'[r].at \in {"backup", "save", "upgrade", "repair"}
      BY <1>c, <1>d, <1>g
    <2>5. Reading(r)' /\ Erasing(r)'
      BY <2>4, Points DEF Reading, Erasing
    <2> QED
      BY <2>2, <2>3, <2>4, <2>5 DEF Place
  <1>6. d.at # "delete" /\ c.io # "browser"
    BY <1>a, <1>c, <1>d
  <1>7. /\ m = IF c.at = "backup" THEN Stored("main") ELSE c.val
        /\ b = IF c.at = "backup" THEN c.val ELSE Stored("backup")
    BY DEF m, b, v
  <1> HIDE DEF c
  <1> QED
    BY <1>a, <1>d, <1>2, <1>3, <1>4, <1>5, <1>6, <1>7, WriteSlot DEF c

LEMMA WriteBrowserSlot ==
  ASSUME TypeInv, Body, Exclusive, Exclusive', NEW r \in Routine, WriteBrowser(r)
  PROVE  Body' /\ Change
  <1> DEFINE k == Writes[run[r].at]
  <1> DEFINE v == run[r].val
  <1> DEFINE c == run[r]
  <1> DEFINE d == AfterWrite(run[r])
  <1> DEFINE m == IF c.at = "backup" THEN Stored("main") ELSE v
  <1> DEFINE b == IF c.at = "backup" THEN v ELSE Stored("backup")
  <1> DEFINE s == IF d.at = "save" THEN serial + 1 ELSE serial
  <1>a. /\ c.at \in DOMAIN Writes /\ k \in Key /\ c.io = "alone"
        /\ UNCHANGED py /\ Place(r) /\ IsCall(c)
        /\ IsStore(idb) /\ IsStore(local) /\ IsStore(mem) /\ IsStore(py)
        /\ k \in Slot /\ serial \in Nat
    BY Points DEF WriteBrowser, Body, TypeInv
  <1>b. /\ Works /\ Go(r, d) /\ UNCHANGED history
        /\ idb' = Put(idb, k, v) /\ local' = Put(local, k, Nothing)
        /\ mem' = Put(mem, k, Nothing)
    BY NoFailure DEF WriteBrowser, Wrote
  <1>c. /\ ~desktop /\ c.at \in {"backup", "save", "upgrade", "repair"}
    BY <1>a, Points DEF Place, Writing
  <1>d. /\ run' = [run EXCEPT ![r] = d] /\ serial' = s
        /\ UNCHANGED <<desktop, damage>>
    BY <1>b DEF Go, Works
  <1>e. /\ IsValue(v) /\ Valid(v) /\ v.n <= serial
        /\ c.at = "backup" => /\ Valid(v) /\ m \in {v, Broken}
                              /\ b = v /\ floor[2] <= v.n /\ v.n <= serial
        /\ c.at = "save" => /\ v = New(serial) /\ b.n < serial
                            /\ floor[2] <= b.n /\ m \in {v, Broken}
    <2> HIDE DEF m, b, v, c
    <2>1. c.io # "browser"
      BY <1>a
    <2> QED
      BY <1>a, <2>1, WrittenSlot DEF m, b, v, c
  <1>f. k = IF c.at = "backup" THEN "backup" ELSE "main"
    BY <1>c DEF Writes
  <1>g. run'[r] = d
    BY <1>d DEF TypeInv
  <1>h. v # Nothing
    BY <1>e, NoSave
  <1>i. /\ Goal(d, m, b, floor[2], s)
        /\ d = Idle \/ d.io = IF desktop THEN "py" ELSE "alone"
        /\ d.at \in {"idle", "save", "verify"}
    <2> HIDE DEF m, b, c
    <2>1. c.at \in DOMAIN Writes \ {"adopt"} /\ d = AfterWrite(c)
      BY <1>a, <1>c DEF c
    <2>2. /\ c.at = "backup" => /\ Valid(c.val) /\ m \in {c.val, Broken}
                               /\ b = c.val /\ floor[2] <= c.val.n
                               /\ c.val.n <= serial
          /\ c.at = "save" => /\ c.val = New(serial) /\ b.n < serial
                              /\ floor[2] <= b.n /\ m \in {c.val, Broken}
      BY <1>e DEF c
    <2>3. s = IF d.at = "save" THEN serial + 1 ELSE serial
      OBVIOUS
    <2> HIDE DEF v, d, s
    <2> QED
      BY <1>a, <2>1, <2>2, <2>3, AfterWriteGoal
  <1> HIDE DEF v, k, d, m, b
  <1>1. \A j \in Key : /\ idb'[j] = IF j = k THEN v ELSE idb[j]
                       /\ local'[j] = IF j = k THEN Nothing ELSE local[j]
                       /\ mem'[j] = IF j = k THEN Nothing ELSE mem[j]
    BY <1>a, <1>b, PutValue
  <1>2. Stored("main")' = m /\ Stored("backup")' = b
    BY <1>a, <1>c, <1>d, <1>f, <1>h, <1>1, SlotTypes
    DEF Stored, FirstOf, m, b
  <1>3. Numbered'
    <2>1. serial <= s /\ s \in Nat /\ Nothing.n = 0
      BY <1>a DEF Nothing
    <2>2. \A j \in Key : py[j].n \in Nat /\ idb[j].n \in Nat /\ local[j].n \in Nat
      BY Values DEF TypeInv, IsStore
    <2>3. v.n \in Nat
      BY <1>e, Values
    <2> HIDE DEF s
    <2> QED
      BY <1>a, <1>d, <1>e, <1>1, <2>1, <2>2, <2>3 DEF Body, Numbered
  <1>4. Tidy'
    BY <1>a, <1>1 DEF Body, Tidy, Slot, Key
  <1>5. Place(r)'
    <2>1. Goal(run'[r], Stored("main")', Stored("backup")', floor'[2], serial')
      BY <1>b, <1>d, <1>g, <1>i, <1>2 DEF history
    <2>2. Writing(r)' /\ Erasing(r)'
      BY <1>c, <1>d, <1>g, <1>i, IdleCall, Points DEF Writing, Erasing
    <2>3. Reading(r)'
      BY <1>c, <1>d, <1>g, <1>i, IdleCall, Points DEF Reading, Read
    <2> QED
      BY <1>g, <1>i, <2>1, <2>2, <2>3 DEF Place
  <1>6. d.at # "delete" /\ c.io # "browser"
    BY <1>a, <1>i
  <1>7. /\ m = IF c.at = "backup" THEN Stored("main") ELSE c.val
        /\ b = IF c.at = "backup" THEN c.val ELSE Stored("backup")
    BY DEF m, b, v
  <1> HIDE DEF c
  <1> QED
    BY <1>a, <1>b, <1>d, <1>2, <1>3, <1>4, <1>5, <1>6, <1>7, WriteSlot DEF c

LEMMA WriteMirrorSlot ==
  ASSUME TypeInv, Body, Exclusive, Exclusive', NEW r \in Routine, WriteMirror(r)
  PROVE  Body' /\ Change
  <1> DEFINE k == Writes[run[r].at]
  <1> DEFINE v == run[r].val
  <1> DEFINE c == run[r]
  <1> DEFINE d == AfterWrite(run[r])
  <1> DEFINE m == Stored("main")
  <1> DEFINE b == Stored("backup")
  <1> DEFINE s == IF d.at = "save" THEN serial + 1 ELSE serial
  <1>a. /\ c.at \in DOMAIN Writes /\ k \in Key /\ c.io = "browser"
        /\ UNCHANGED <<py, local>> /\ Place(r) /\ IsCall(c)
        /\ IsStore(idb) /\ IsStore(local) /\ IsStore(mem) /\ IsStore(py)
        /\ k \in Slot /\ serial \in Nat /\ IsValue(v) /\ v.n \in Nat
    BY Points, Values DEF WriteMirror, Body, TypeInv, IsCall
  <1>b. /\ Works /\ Go(r, d) /\ UNCHANGED history
        /\ idb' = Put(idb, k, v) /\ mem' = Put(mem, k, Nothing)
    BY NoFailure DEF WriteMirror, Wrote
  <1>c. /\ desktop /\ c.at \in {"backup", "save", "upgrade", "repair"}
        /\ py[k] # Nothing
    BY <1>a, Points DEF Place, Writing
  <1>d. /\ run' = [run EXCEPT ![r] = d] /\ serial' = s
        /\ UNCHANGED <<desktop, damage>>
    BY <1>b DEF Go, Works
  <1>e. /\ c.at = "backup" => /\ Valid(c.val) /\ m \in {c.val, Broken}
                              /\ b = c.val /\ floor[2] <= c.val.n
                              /\ c.val.n <= serial
        /\ c.at = "save" => /\ c.val = New(serial) /\ b.n < serial
                            /\ floor[2] <= b.n /\ m \in {c.val, Broken}
    BY <1>a DEF Place, Goal
  <1>f. v.n <= serial
    <2>1. b.n \in Nat /\ b.n <= serial
      <3>1. "backup" \in Key
        BY DEF Key
      <3> QED
        BY <3>1, KeyFacts, SlotTypes, <1>a DEF FirstOf, Nothing
    <2>2. \A n \in Nat : New(n).n = n
      BY DEF New
    <2> QED
      BY <1>a, <1>c, <2>1, <2>2 DEF Place, Goal
  <1>g. run'[r] = d
    BY <1>d DEF TypeInv
  <1>i. /\ Goal(d, m, b, floor[2], s)
        /\ d = Idle \/ d.io = IF desktop THEN "py" ELSE "alone"
        /\ d.at \in {"idle", "save", "verify"}
        /\ d.at = "verify" => c.at = "save"
        /\ d.at = "save" => c.at = "backup"
    <2> HIDE DEF m, b, c
    <2>1. c.at \in DOMAIN Writes \ {"adopt"} /\ d = AfterWrite(c)
      BY <1>a, <1>c DEF c
    <2>2. s = IF d.at = "save" THEN serial + 1 ELSE serial
      OBVIOUS
    <2>3. /\ c.at = "backup" => /\ Valid(c.val) /\ m \in {c.val, Broken}
                               /\ b = c.val /\ floor[2] <= c.val.n
                               /\ c.val.n <= serial
          /\ c.at = "save" => /\ c.val = New(serial) /\ b.n < serial
                              /\ floor[2] <= b.n /\ m \in {c.val, Broken}
      BY <1>e
    <2>4. IsCall(c)
      BY <1>a
    <2> HIDE DEF v, d, s, k
    <2> QED
      BY <2>1, <2>2, <2>3, <2>4, AfterWriteGoal
  <1>j. k = IF c.at = "backup" THEN "backup" ELSE "main"
    BY <1>c DEF Writes
  <1> HIDE DEF v, k, d, m, b
  <1>1. \A j \in Key : /\ idb'[j] = IF j = k THEN v ELSE idb[j]
                       /\ mem'[j] = IF j = k THEN Nothing ELSE mem[j]
    BY <1>a, <1>b, PutValue
  <1>2. Stored("main")' = m /\ Stored("backup")' = b
    BY <1>a, <1>c, <1>d, <1>1, SlotTypes DEF Stored, FirstOf, m, b
  <1>3. Numbered'
    <2>1. serial <= s /\ s \in Nat
      BY <1>a
    <2>2. \A j \in Key : py[j].n \in Nat /\ idb[j].n \in Nat /\ local[j].n \in Nat
      BY Values DEF TypeInv, IsStore
    <2> HIDE DEF s
    <2> QED
      BY <1>a, <1>d, <1>f, <1>1, <2>1, <2>2 DEF Body, Numbered
  <1>4. Tidy'
    BY <1>a, <1>1 DEF Body, Tidy, Slot, Key
  <1>5. Place(r)'
    <2>1. Goal(run'[r], Stored("main")', Stored("backup")', floor'[2], serial')
      BY <1>b, <1>d, <1>g, <1>i, <1>2 DEF history
    <2>2. Writing(r)' /\ Erasing(r)'
      BY <1>c, <1>d, <1>g, <1>i, IdleCall, Points DEF Writing, Erasing
    <2>3. d.at = "verify" => Reads[d.at] = k
      BY <1>c, <1>i, <1>j DEF Reads
    <2>4. Reading(r)'
      BY <1>a, <1>c, <1>d, <1>g, <1>i, <2>3, IdleCall, Points DEF Reading, Read
    <2> QED
      BY <1>g, <1>i, <2>1, <2>2, <2>4 DEF Place
  <1>b1. \A q \in Routine \ {r} : run[q] = Idle
    BY <1>a, <1>c, OthersIdle
  <1>6. /\ \A q \in Routine \ {r} : run'[q] = Idle
        /\ Alone' /\ ~Erases /\ ~Erases'
    BY <1>b1, <1>c, <1>d, <1>i, OneActs
  <1>7. Promise' /\ SameSlot
    BY <1>2, <1>b, <1>6 DEF Body, Promise, Recovered, SameSlot, history, m, b
  <1>8. ~gone'
    BY <1>b, <1>c DEF Body, Gone, history
  <1>9. Body'
    BY <1>3, <1>4, <1>5, <1>6, <1>7, <1>8, BodyAfter
  <1> QED
    BY <1>d, <1>6, <1>7, <1>9 DEF Change

\* A deletion is under way.
LEMMA DeletingSlot ==
  ASSUME TypeInv, Body, NEW r \in Routine, run[r].at \in {"delete", "forget"}
  PROVE  /\ run[r].at = "delete" /\ Erases
         /\ \A q \in Routine \ {r} : run[q] = Idle
         /\ floor = <<0, 0>> /\ DOMAIN run[r].io = Slot
         /\ run[r].io \in [Slot -> {"py", "browser", "done"}]
         /\ \A k \in Slot : /\ run[r].io[k] # "py" => py[k] = Nothing
                            /\ run[r].io[k] = "done" => idb[k] = Nothing
                                                        /\ local[k] = Nothing
  <1>1. run[r].at = "delete"
    BY DEF Body, Place
  <1> QED
    BY <1>1, OthersIdle DEF Body, Place, Erasing, Erases

\* One of its keys goes a step on; nothing new is stored.
LEMMA DeleteKeySlot ==
  ASSUME TypeInv, Body, Exclusive, Exclusive', NEW r \in Routine, NEW k \in Key,
         DeletePython(r, k) \/ DeleteBrowser(r, k)
  PROVE  Body' /\ Change
  <1>a. /\ run[r].at \in {"delete", "forget"} /\ k \in DOMAIN run[r].io
        /\ run[r] \in Calls
        /\ IsStore(py) /\ IsStore(idb) /\ IsStore(local) /\ IsStore(mem)
        /\ serial \in Nat
    BY DEF DeletePython, DeleteBrowser, Deleting, TypeInv
  <1>b. /\ run[r].at = "delete" /\ Erases /\ k \in Slot
        /\ \A q \in Routine \ {r} : run[q] = Idle
        /\ floor = <<0, 0>> /\ run[r].io \in [Slot -> {"py", "browser", "done"}]
        /\ \A j \in Slot : /\ run[r].io[j] # "py" => py[j] = Nothing
                           /\ run[r].io[j] = "done" => idb[j] = Nothing
                                                       /\ local[j] = Nothing
    BY <1>a, DeletingSlot
  <1>1. PICK io \in {"browser", "done"} :
          /\ Works /\ Stay(r, [run[r] EXCEPT !.io[k] = io])
          /\ \/ /\ io = "browser" /\ py' = Put(py, k, Nothing)
                /\ UNCHANGED <<idb, local, mem>>
             \/ /\ io = "done" /\ UNCHANGED py /\ run[r].io[k] = "browser"
                /\ idb' = Put(idb, k, Nothing) /\ local' = Put(local, k, Nothing)
                /\ mem' = Put(mem, k, Nothing)
    BY NoFailure DEF DeletePython, DeleteBrowser, ClearBrowser, Deleting
  <1>2. /\ \A j \in Key : /\ py'[j] \in {py[j], Nothing}
                          /\ idb'[j] \in {idb[j], Nothing}
                          /\ local'[j] \in {local[j], Nothing}
                          /\ mem'[j] \in {mem[j], Nothing}
    <2>1. CASE io = "browser"
      BY <1>a, <1>1, <2>1, PutValue
    <2>2. CASE io = "done"
      <3>1. \A j \in Key : idb'[j] = IF j = k THEN Nothing ELSE idb[j]
        BY <1>a, <1>1, <2>2, PutValue
      <3>2. \A j \in Key : local'[j] = IF j = k THEN Nothing ELSE local[j]
        BY <1>a, <1>1, <2>2, PutValue
      <3>3. \A j \in Key : mem'[j] = IF j = k THEN Nothing ELSE mem[j]
        BY <1>a, <1>1, <2>2, PutValue
      <3> QED
        BY <3>1, <3>2, <3>3, <1>1, <2>2
    <2> QED
      BY <2>1, <2>2
  <1>3. /\ io = "browser" => py'[k] = Nothing
        /\ io = "done" => py[k] = Nothing /\ idb'[k] = Nothing
                          /\ local'[k] = Nothing
    <2>1. k \in Key
      OBVIOUS
    <2> QED
      BY <1>a, <1>b, <1>1, <2>1, PutValue
  <1> DEFINE marks == [run[r].io EXCEPT ![k] = io]
  <1> DEFINE d == [run[r] EXCEPT !.io = marks]
  <1>4. marks \in [Slot -> {"py", "browser", "done"}]
        /\ \A j \in Slot : marks[j] = IF j = k THEN io ELSE run[r].io[j]
    BY <1>b
  <1>5. run' = [run EXCEPT ![r] = d]
    BY <1>1 DEF Stay
  <1> HIDE DEF marks
  <1>6. d.at = "delete" /\ d.io = marks
    BY <1>a, <1>b DEF Calls
  <1> HIDE DEF d
  <1>7. /\ UNCHANGED serial /\ UNCHANGED history /\ UNCHANGED <<desktop, damage>>
    BY <1>1 DEF Stay, Works
  <1>8. /\ run'[r] = d /\ \A q \in Routine \ {r} : run'[q] = Idle
        /\ Alone' /\ Erases'
    BY <1>b, <1>5, <1>6, OneActs
  <1>9. Numbered' /\ Tidy'
    <2>1. Nothing.n = 0
      BY DEF Nothing
    <2>2. \A j \in Key : /\ py'[j].n <= serial' /\ idb'[j].n <= serial'
                         /\ local'[j].n <= serial'
      BY <1>a, <1>2, <1>7, <2>1 DEF Body, Numbered
    <2> QED
      BY <1>2, <2>2 DEF Body, Numbered, Tidy, Key
  <1>10. Promise'
    <2>1. IsStore(py') /\ IsStore(idb') /\ IsStore(local')
      BY <1>a, <1>1, PutType, Values, SMTT(30)
    <2>2. /\ IsValue(Stored("main")') /\ IsValue(Stored("backup")')
      BY <2>1, Values DEF Stored, FirstOf, IsStore, Key
    <2>3. Stored("main")'.n \in Nat /\ Stored("backup")'.n \in Nat
          /\ Recovered'.n \in Nat
      BY <2>2, Values DEF Recovered
    <2>4. floor' = <<0, 0>>
      BY <1>b, <1>7 DEF history
    <2> QED
      BY <1>8, <2>3, <2>4 DEF Promise
  <1>11. Place(r)'
    <2>1. \A j \in Slot : /\ marks[j] # "py" => py'[j] = Nothing
                          /\ marks[j] = "done" => idb'[j] = Nothing
                                                  /\ local'[j] = Nothing
      <3> SUFFICES ASSUME NEW j \in Slot
                   PROVE  /\ marks[j] # "py" => py'[j] = Nothing
                          /\ marks[j] = "done" => idb'[j] = Nothing
                                                  /\ local'[j] = Nothing
        OBVIOUS
      <3>1. j \in Key
        BY DEF Slot, Key
      <3>2. CASE j = k
        BY <1>2, <1>3, <1>4, <3>1, <3>2
      <3>3. CASE j # k
        BY <1>b, <1>2, <1>4, <3>1, <3>3
      <3> QED
        BY <3>2, <3>3
    <2>2. Erasing(r)'
      BY <1>b, <1>4, <1>6, <1>7, <1>8, <2>1 DEF Erasing, history
    <2>3. Goal(run'[r], Stored("main")', Stored("backup")', floor'[2], serial')
      BY <1>6, <1>8 DEF Goal
    <2>4. Reading(r)' /\ Writing(r)'
      BY <1>6, <1>8, Points DEF Reading, Writing
    <2> QED
      BY <1>6, <1>8, <2>2, <2>3, <2>4 DEF Place
  <1>12. gone' => Empties' /\ run'[r].at = "delete"
    <2>1. gone => Empties
      BY DEF Body, Gone, Empties
    <2> QED
      BY <1>2, <1>6, <1>7, <1>8, <2>1 DEF Empties, history, Slot, Key
  <1>13. Body'
    BY <1>8, <1>9, <1>10, <1>11, <1>12, BodyAfter
  <1> QED
    BY <1>b, <1>7, <1>13 DEF Change

LEMMA DeletedSlot ==
  ASSUME TypeInv, Body, Exclusive, Exclusive', NEW r \in Routine, Deleted(r)
  PROVE  Body' /\ Change
  <1>a. /\ run[r].at \in {"delete", "forget"}
        /\ \A k \in DOMAIN run[r].io : run[r].io[k] \in {"done", "failed"}
        /\ Works /\ UNCHANGED <<cells, floor, early, cleared, overlap, cut>>
    BY DEF Deleted
  <1>b. /\ run[r].at = "delete" /\ Erases /\ DOMAIN run[r].io = Slot
        /\ \A q \in Routine \ {r} : run[q] = Idle
        /\ floor = <<0, 0>> /\ run[r].io \in [Slot -> {"py", "browser", "done"}]
        /\ \A j \in Slot : /\ run[r].io[j] # "py" => py[j] = Nothing
                           /\ run[r].io[j] = "done" => idb[j] = Nothing
                                                       /\ local[j] = Nothing
    BY <1>a, DeletingSlot
  <1>1. \A k \in Slot : run[r].io[k] = "done"
    BY <1>a, <1>b
  <1>2. Empties
    BY <1>b, <1>1 DEF Empties
  <1>3. Go(r, Idle)
    BY <1>b, <1>1 DEF Deleted
  <1>4. /\ run' = [run EXCEPT ![r] = Idle] /\ UNCHANGED serial
        /\ UNCHANGED <<desktop, damage>>
    BY <1>3, <1>a, IdleCall DEF Go, Works
  <1>5. /\ run'[r] = Idle /\ \A q \in Routine \ {r} : run'[q] = Idle
        /\ Alone' /\ ~Erases'
    BY <1>b, <1>4, IdleCall, OneActs
  <1>6. Numbered' /\ Tidy' /\ Empties'
    BY <1>2, <1>a, <1>4, StorageSame
  <1>7. Stored("main")' = Nothing /\ Stored("backup")' = Nothing
    BY <1>6 DEF Empties, Stored, FirstOf, Slot
  <1>8. Promise'
    <2>1. ~Valid(Nothing) /\ Nothing.n = 0
      BY DEF Valid, Nothing
    <2> QED
      BY <1>a, <1>b, <1>7, <2>1 DEF Promise, Recovered
  <1>9. Place(r)'
    BY <1>5, IdleCall, Points DEF Place, Goal, Reading, Writing, Erasing
  <1>10. Body'
    BY <1>5, <1>6, <1>8, <1>9, IdleCall, BodyAfter
  <1> QED
    BY <1>b, <1>4, <1>10 DEF Change

LEMMA StartSlot ==
  ASSUME TypeInv, Body, Exclusive, Exclusive', NEW r \in Routine,
         \/ WriteSaveSlot(r) \/ ReadSaveSlot(r) \/ ListSaveSlots(r)
         \/ DeleteSaveSlot(r)
  PROVE  Body' /\ Change
  <1>1. PICK c \in {Await("previous", Nothing), Await("primary", Nothing),
                    Await("quick", Nothing), AwaitDelete("delete", Slot)} :
          /\ Start(r, c)
          /\ c = Await("previous", Nothing) => gone' = FALSE /\ UNCHANGED floor
          /\ c \in {Await("primary", Nothing), Await("quick", Nothing)}
               => UNCHANGED <<gone, floor>>
          /\ c = AwaitDelete("delete", Slot) => UNCHANGED gone /\ floor' = <<0, 0>>
    <2>1. /\ Await("previous", Nothing).at = "previous"
          /\ Await("primary", Nothing).at = "primary"
          /\ Await("quick", Nothing).at = "quick"
          /\ AwaitDelete("delete", Slot).at = "delete"
      BY AwaitCall, AwaitDeleteCall, Points, Values DEF Places
    <2>2. CASE WriteSaveSlot(r)
      BY <2>1, <2>2 DEF WriteSaveSlot
    <2>3. CASE ReadSaveSlot(r)
      BY <2>1, <2>3 DEF ReadSaveSlot
    <2>4. CASE ListSaveSlots(r)
      BY <2>1, <2>4 DEF ListSaveSlots
    <2>5. CASE DeleteSaveSlot(r)
      BY <2>1, <2>5 DEF DeleteSaveSlot, Slot
    <2> QED
      BY <2>2, <2>3, <2>4, <2>5
  <1>2. /\ c.at \in {"previous", "primary", "quick", "delete"}
        /\ c.at # "delete" => /\ c.io = IF desktop THEN "py" ELSE "alone"
                              /\ UNCHANGED floor
        /\ c.at = "previous" => gone' = FALSE
        /\ c.at # "previous" => UNCHANGED gone
        /\ c.at = "delete" =>
             /\ c.io = [k \in Slot |-> IF desktop THEN "py" ELSE "browser"]
             /\ floor' = <<0, 0>>
    <2>1. \A at \in {"previous", "primary", "quick"} :
            /\ Await(at, Nothing).at = at
            /\ Await(at, Nothing).io = IF desktop THEN "py" ELSE "alone"
      BY AwaitCall, Points, Values DEF Places
    <2>2. /\ AwaitDelete("delete", Slot).at = "delete"
          /\ AwaitDelete("delete", Slot).io
               = [k \in Slot |-> IF desktop THEN "py" ELSE "browser"]
      BY AwaitDeleteCall
    <2> QED
      BY <1>1, <2>1, <2>2
  <1>3. /\ \A q \in Routine : run[q] = Idle
        /\ run' = [run EXCEPT ![r] = c]
        /\ UNCHANGED cells /\ UNCHANGED serial /\ UNCHANGED <<desktop, damage>>
    BY <1>1 DEF Start, Works, Exclusive
  <1>4. /\ run'[r] = c /\ \A q \in Routine \ {r} : run'[q] = Idle
        /\ Alone' /\ ~Erases /\ (Erases' <=> c.at = "delete")
    BY <1>3, IdleCall, OneActs DEF Erases
  <1>5. Numbered' /\ Tidy' /\ (Empties => Empties') /\ SlotStays
    BY <1>3, StorageSame DEF SlotStays
  <1>6. Promise'
    <2>1. CASE c.at = "delete"
      BY <1>2, <1>4, <1>5, <2>1, SlotStaysSame, SlotTypes DEF Promise, SlotStays
    <2>2. CASE c.at # "delete"
      BY <1>2, <1>4, <1>5, <2>2, SlotStaysSame DEF Body, Promise, SlotStays
    <2> QED
      BY <2>1, <2>2
  <1>7. Place(r)'
    <2>1. Goal(run'[r], Stored("main")', Stored("backup")', floor'[2], serial')
      BY <1>2, <1>4 DEF Goal
    <2>2. Reading(r)'
      BY <1>2, <1>3, <1>4, Points DEF Reading, Read
    <2>3. Writing(r)'
      BY <1>2, <1>4, Points DEF Writing
    <2>4. Erasing(r)'
      <3> SUFFICES ASSUME c.at = "delete"
                   PROVE  Erasing(r)'
        BY <1>4 DEF Erasing
      <3>1. c.io \in [Slot -> {"py", "browser", "done"}]
            /\ \A k \in Slot : c.io[k] = IF desktop THEN "py" ELSE "browser"
        BY <1>2
      <3>2. \A k \in Slot : c.io[k] # "py" => py'[k] = Nothing
        BY <1>3, <3>1 DEF TypeInv, cells, Slot, Key
      <3> QED
        BY <1>2, <1>4, <3>1, <3>2 DEF Erasing
    <2> QED
      BY <1>2, <1>4, <2>1, <2>2, <2>3, <2>4 DEF Place
  <1>8. gone' => Empties' /\ run'[r].at \in {"idle", "primary", "spare",
                                             "quick", "early", "delete"}
    <2>1. gone => Empties
      BY DEF Body, Gone, Empties
    <2> QED
      BY <1>2, <1>4, <1>5, <2>1
  <1>9. Body'
    BY <1>4, <1>5, <1>6, <1>7, <1>8, BodyAfter
  <1> QED
    BY <1>3, <1>4, <1>5, <1>9, SlotStaysSame DEF Change

LEMMA ClosePageSlot ==
  ASSUME TypeInv, Body, Exclusive, Exclusive', ClosePage
  PROVE  Body' /\ Change
  <1>1. /\ \A r \in Routine : run'[r] = Idle /\ run[r].at # "delete"
        /\ UNCHANGED <<py, idb, local, serial, floor, gone>>
        /\ UNCHANGED <<desktop, damage>> /\ mem' = NoValues
    BY DEF ClosePage, Works, Exclusive
  <1>2. Alone' /\ ~Erases /\ ~Erases'
    BY <1>1, IdleCall DEF Alone, Erases
  <1>3. Numbered' /\ Tidy' /\ (Empties => Empties') /\ SlotStays
    BY <1>1, EmptyType
    DEF Body, Numbered, Tidy, Empties, SlotStays, Stored, FirstOf
  <1>4. Promise'
    BY <1>1, <1>2, <1>3, SlotStaysSame DEF Body, Promise, SlotStays
  <1>5. \A r \in Routine : Place(r)'
    <2> SUFFICES ASSUME NEW r \in Routine PROVE Place(r)'
      OBVIOUS
    <2> QED
      BY <1>1, IdleCall, Points DEF Place, Goal, Reading, Writing, Erasing
  <1>6. Gone'
    BY <1>1, <1>3, IdleCall DEF Body, Gone, Empties
  <1>7. Body'
    BY <1>2, <1>3, <1>4, <1>5, <1>6 DEF Body
  <1> QED
    BY <1>1, <1>2, <1>3, <1>7, SlotStaysSame DEF Change

LEMMA DamageSlot ==
  ASSUME TypeInv, Body, Exclusive, Exclusive', DamageMain
  PROVE  Body' /\ Change
  <1> DEFINE m == Stored("main")
  <1> DEFINE b == Stored("backup")
  <1>a. /\ damage' = damage + 1 /\ floor' = <<floor[1], floor[1]>>
        /\ UNCHANGED <<desktop, local, mem, run, serial, gone>>
        /\ IF desktop THEN Valid(py["main"]) /\ UNCHANGED idb
                           /\ py' = Put(py, "main", Broken)
           ELSE Valid(idb["main"]) /\ UNCHANGED py
                /\ idb' = Put(idb, "main", Broken)
    BY DEF DamageMain
  <1>b. /\ IsStore(py) /\ IsStore(idb) /\ "main" \in Key /\ "main" \in Slot
        /\ Broken # Nothing /\ ~Valid(Broken) /\ ~Valid(Nothing) /\ Broken.n = 0
        /\ "backup" \in Key /\ "backup" \in Slot /\ "legacy" \in Key
    BY Values DEF TypeInv, Key, Slot, Valid, Broken, Nothing
  <1>c. \A j \in Key :
          /\ py'[j] = IF desktop /\ j = "main" THEN Broken ELSE py[j]
          /\ idb'[j] = IF ~desktop /\ j = "main" THEN Broken ELSE idb[j]
    <2>1. CASE desktop
      BY <1>a, <1>b, <2>1, PutValue
    <2>2. CASE ~desktop
      BY <1>a, <1>b, <2>2, PutValue
    <2> QED
      BY <2>1, <2>2
  <1>1. Stored("main")' = Broken /\ Stored("backup")' = b /\ Valid(m)
    BY <1>a, <1>b, <1>c DEF Stored, FirstOf
  <1>2. ~gone
    BY <1>a, <1>b DEF Body, Gone
  <1>3. Recovered'.n = b.n
    BY <1>1, <1>b DEF Recovered
  <1>4. /\ b.n \in Nat /\ floor[1] \in Nat /\ floor[2] \in Nat
        /\ floor[1] <= floor[2] /\ floor[1] <= b.n
        /\ floor'[1] = floor[1] /\ floor'[2] = floor[1]
    BY <1>a, SlotTypes DEF Body, Promise
  <1>5. Promise'
    BY <1>1, <1>3, <1>4, <1>b DEF Promise
  <1>6. Alone' /\ (Erases' <=> Erases)
    BY <1>a DEF Body, Alone, Erases
  <1>7. Numbered' /\ Tidy'
    <2>1. serial \in Nat
      BY DEF TypeInv
    <2> QED
      BY <1>a, <1>b, <1>c, <2>1 DEF Body, Numbered, Tidy
  <1>8. \A r \in Routine : Place(r)'
    <2> SUFFICES ASSUME NEW r \in Routine PROVE Place(r)'
      OBVIOUS
    <2> DEFINE c == run[r]
    <2>a. /\ Place(r) /\ run'[r] = c /\ IsCall(c) /\ c.val.n \in Nat
          /\ serial' = serial
      BY <1>a, Values DEF Body, TypeInv, IsCall
    <2>1. Goal(c, m, b, floor[2], serial)
      BY <2>a DEF Place
    <2> HIDE DEF c, m, b
    <2>2. Goal(c, Broken, b, floor[1], serial)
      BY <1>1, <1>4, <1>b, <2>a, <2>1 DEF Goal
    <2>3. Goal(run'[r], Stored("main")', Stored("backup")', floor'[2], serial')
      BY <1>1, <1>4, <2>a, <2>2
    <2>4. Reading(r)'
      <3> SUFFICES ASSUME c.at \in DOMAIN Reads
                   PROVE  Reading(r)'
        BY <2>a DEF Reading
      <3> DEFINE k == Reads[c.at]
      <3> DEFINE p == py[k]
      <3> DEFINE w == FirstOf(idb[k], local[k])
      <3>1. /\ Read(c, k = "main", p, w, b, floor[2])
            /\ c.io \in {"migrate", "clear"} => c.val.n <= serial
        BY <2>a DEF Place, Reading, c, b
      <3>2. k \in Key
        BY Points
      <3>3. k # "main" => py'[k] = p /\ FirstOf(idb'[k], local'[k]) = w
        BY <1>a, <1>c, <3>2
      <3>4. k = "main" /\ desktop => /\ py'[k] = Broken /\ Valid(p)
                                     /\ FirstOf(idb'[k], local'[k]) = w
        BY <1>a, <1>b, <1>c, <3>2
      <3>5. k = "main" /\ ~desktop => py'[k] = p
        BY <1>a, <1>c, <3>2
      <3> HIDE DEF k, p, w
      <3>6. /\ UNCHANGED desktop /\ Stored("backup")' = b
            /\ floor'[2] <= floor[2]
        BY <1>a, <1>1, <1>4
      <3>7. Reads[run'[r].at] = k /\ run'[r] = c /\ serial' = serial
        BY <2>a DEF k
      <3>8. c.val.n \in Nat /\ floor[1] <= floor[2]
        BY <1>4, <2>a
      <3>9. CASE k # "main"
        BY <3>1, <3>3, <3>6, <3>7, <3>9 DEF Reading, Read
      <3>10. CASE k = "main" /\ desktop
        <4>1. p # Nothing
          BY <1>b, <3>4, <3>10
        <4> QED
          BY <1>4, <1>b, <2>a, <3>1, <3>4, <3>6, <3>7, <3>10, <4>1
          DEF Reading, Read
      <3>11. CASE k = "main" /\ ~desktop
        BY <3>1, <3>5, <3>6, <3>7, <3>11 DEF Reading, Read
      <3> QED
        BY <3>9, <3>10, <3>11
    <2>5. Writing(r)'
      BY <1>a, <1>b, <1>c, <2>a, Points DEF Place, Writing, c
    <2>6. Erasing(r)'
      <3> SUFFICES ASSUME c.at = "delete"
                   PROVE  Erasing(r)'
        BY <2>a DEF Erasing
      <3>1. /\ floor = <<0, 0>> /\ c.io \in [Slot -> {"py", "browser", "done"}]
            /\ \A k \in Slot : /\ c.io[k] # "py" => py[k] = Nothing
                               /\ c.io[k] = "done" => idb[k] = Nothing
                                                      /\ local[k] = Nothing
        BY <2>a DEF Place, Erasing, c
      <3>2. floor' = <<0, 0>>
        BY <1>a, <3>1
      <3>3. \A k \in Slot : k \in Key
        BY DEF Slot, Key
      <3>4. \A k \in Slot : /\ c.io[k] # "py" => py'[k] = Nothing
                            /\ c.io[k] = "done" => idb'[k] = Nothing
                                                   /\ local'[k] = Nothing
        <4> SUFFICES ASSUME NEW k \in Slot
                     PROVE  /\ c.io[k] # "py" => py'[k] = Nothing
                            /\ c.io[k] = "done" => idb'[k] = Nothing
                                                   /\ local'[k] = Nothing
          OBVIOUS
        <4>1. CASE desktop
          BY <1>a, <1>b, <1>c, <3>1, <3>3, <4>1
        <4>2. CASE ~desktop
          BY <1>a, <1>b, <1>c, <3>1, <3>3, <4>2
        <4> QED
          BY <4>1, <4>2
      <3> QED
        BY <2>a, <3>1, <3>2, <3>4 DEF Erasing
    <2> QED
      BY <2>a, <2>3, <2>4, <2>5, <2>6 DEF Place, c
  <1>9. Gone'
    BY <1>a, <1>2 DEF Gone
  <1>10. Body'
    BY <1>5, <1>6, <1>7, <1>8, <1>9 DEF Body
  <1>11. Change
    BY <1>a, <1>1, <1>3, <1>6 DEF Change
  <1> QED
    BY <1>10, <1>11

-----------------------------------------------------------------------------
(* The invariant, the promises and the register *)

\* A slot that is no longer used one routine at a time never is again.
LEMMA ExclusiveBefore ==
  ASSUME TypeInv, [SlotNext]_slots, Exclusive'
  PROVE  Exclusive
  <1>1. CASE UNCHANGED slots
    BY <1>1 DEF slots, history, Exclusive
  <1>2. ASSUME NEW r \in Routine, Step(r)
        PROVE  Exclusive
    <2>1. faults' = 0 => faults = 0
      <3>1. Works \/ Fails
        BY <1>2
        DEF Step, ReadPython, ReadBrowser, BrowserValue, Migrate, ClearMigrated,
            ClearBrowser, WritePython, WriteMirror, WriteBrowser, DeletePython,
            DeleteBrowser, Deleted, WriteSaveSlot, ReadSaveSlot, ListSaveSlots,
            DeleteSaveSlot, Start
      <3> QED
        BY <3>1 DEF Works, Fails, TypeInv
    <2>2. UNCHANGED <<early, cut>> /\ (overlap => overlap')
      <3>1. CASE \/ ReadPython(r) \/ ReadBrowser(r) \/ Migrate(r)
                 \/ ClearMigrated(r)
        BY <3>1
        DEF ReadPython, ReadBrowser, Migrate, ClearMigrated, GotValue, Threw,
            Stay, history
      <3>2. CASE WritePython(r) \/ WriteMirror(r) \/ WriteBrowser(r)
        BY <3>2
        DEF WritePython, WriteMirror, WriteBrowser, Wrote, Threw, Stay, history
      <3>3. CASE \/ Deleted(r)
                 \/ \E k \in Key : DeletePython(r, k) \/ DeleteBrowser(r, k)
        BY <3>3 DEF Deleted, DeletePython, DeleteBrowser, Stay, history
      <3>4. CASE \/ WriteSaveSlot(r) \/ ReadSaveSlot(r) \/ ListSaveSlots(r)
                 \/ DeleteSaveSlot(r)
        BY <3>4
        DEF WriteSaveSlot, ReadSaveSlot, ListSaveSlots, DeleteSaveSlot, Start
      <3> QED
        BY <1>2, <3>1, <3>2, <3>3, <3>4 DEF Step
    <2> QED
      BY <2>1, <2>2 DEF Exclusive
  <1>3. CASE ClosePage \/ DamageMain
    <2>1. /\ UNCHANGED <<overlap, early, faults>> /\ (cut => cut')
      <3>1. CASE ClosePage
        BY <3>1 DEF ClosePage, Works
      <3>2. CASE DamageMain
        BY <3>2 DEF DamageMain
      <3> QED
        BY <1>3, <3>1, <3>2
    <2> QED
      BY <2>1 DEF Exclusive
  <1> QED
    BY <1>1, <1>2, <1>3 DEF SlotNext

\* A step of the slot is one of the register.
LEMMA ExclusiveStep ==
  ASSUME TypeInv, Body, Exclusive, Exclusive', SlotNext
  PROVE  Body' /\ Change
  <1>1. ASSUME NEW r \in Routine, Step(r)
        PROVE  Body' /\ Change
    BY <1>1, ReadPythonSlot, ReadBrowserSlot, MigrateSlot, ClearMigratedSlot,
       WritePythonSlot, WriteMirrorSlot, WriteBrowserSlot, DeleteKeySlot,
       DeletedSlot, StartSlot
    DEF Step
  <1> QED
    BY <1>1, ClosePageSlot, DamageSlot DEF SlotNext

LEMMA StepSlot == TypeInv /\ SlotInv /\ [SlotNext]_slots => SlotInv'
  <1> SUFFICES ASSUME TypeInv, SlotInv, [SlotNext]_slots, Exclusive'
               PROVE  Body'
    BY DEF SlotInv
  <1>1. Exclusive /\ Body
    BY ExclusiveBefore DEF SlotInv
  <1>2. CASE UNCHANGED slots
    <2>1. UNCHANGED <<desktop, py, idb, local, mem, run, serial, floor, gone>>
      BY <1>2 DEF slots, cells, history
    <2>2. Stored("main")' = Stored("main") /\ Stored("backup")' = Stored("backup")
      BY <2>1 DEF Stored
    <2>3. /\ Alone' /\ Numbered' /\ Tidy' /\ Gone'
      BY <1>1, <2>1 DEF Body, Alone, Numbered, Tidy, Gone
    <2>4. Promise'
      BY <1>1, <2>1, <2>2 DEF Body, Promise, Erases, Recovered
    <2>5. \A r \in Routine : Place(r)'
      BY <1>1, <2>1, <2>2 DEF Body, Place, Reading, Read, Writing, Erasing
    <2> QED
      BY <2>3, <2>4, <2>5 DEF Body
  <1> QED
    BY <1>1, <1>2, ExclusiveStep

\* The records of a slot at the start of the game.
LEMMA InitSlot ==
  ASSUME SlotInit
  PROVE  /\ Stored("backup") = Nothing
         /\ Exclusive => Body
  <1>1. PICK k \in {"main", "legacy"}, v \in {Nothing, New(1), Old(1)},
             home \in {"py", "idb", "local"} :
          /\ home = "py" => desktop
          /\ py = IF home = "py" THEN Put(NoValues, k, v) ELSE NoValues
          /\ idb = IF home = "idb" THEN Put(NoValues, k, v) ELSE NoValues
          /\ local = IF home = "local" THEN Put(NoValues, k, v) ELSE NoValues
          /\ serial = v.n
          /\ floor = <<0, IF k = "main" THEN v.n ELSE 0>>
          /\ early = (k = "legacy")
    BY DEF SlotInit
  <1>2. /\ \A r \in Routine : run[r] = Idle
        /\ mem = NoValues /\ gone = FALSE /\ desktop \in BOOLEAN
    BY DEF SlotInit
  <1>3. /\ v.n \in {0, 1} /\ (Valid(v) => v.n = 1) /\ (~Valid(v) => v.n = 0)
        /\ Nothing.n = 0 /\ ~Valid(Nothing)
    BY DEF Nothing, New, Old, Valid
  <1>4. \A j \in Key : /\ NoValues[j] = Nothing
                       /\ Put(NoValues, k, v)[j] = IF j = k THEN v ELSE Nothing
    BY DEF NoValues, Put, Key
  <1>5. "main" \in Key /\ "backup" \in Key /\ "legacy" \in Key
    BY DEF Key
  <1>6. \A j \in Key :
          /\ py[j] = IF home = "py" /\ j = k THEN v ELSE Nothing
          /\ idb[j] = IF home = "idb" /\ j = k THEN v ELSE Nothing
          /\ local[j] = IF home = "local" /\ j = k THEN v ELSE Nothing
    BY <1>1, <1>4
  <1>7. Stored("backup") = Nothing
    BY <1>5, <1>6 DEF Stored, FirstOf
  <1>8. ASSUME Exclusive
        PROVE  Body
    <2>1. k = "main"
      BY <1>1, <1>8 DEF Exclusive
    <2>2. Stored("main") = v
      BY <1>1, <1>5, <1>6, <2>1 DEF Stored, FirstOf
    <2>3. Alone /\ ~Erases
      BY <1>2, IdleCall DEF Alone, Erases
    <2>4. Promise
      <3>1. floor[1] = 0 /\ floor[2] = v.n
        BY <1>1, <2>1
      <3>2. Recovered.n = v.n
        BY <1>3, <1>7, <2>2 DEF Recovered
      <3> QED
        BY <1>3, <1>7, <2>2, <3>1, <3>2 DEF Promise
    <2>5. Numbered
      BY <1>1, <1>3, <1>6 DEF Numbered
    <2>6. Tidy
      BY <1>2, <1>4, <1>5, <1>6, <2>1 DEF Tidy
    <2>7. \A r \in Routine : Place(r)
      BY <1>2, IdleCall, Points DEF Place, Goal, Reading, Writing, Erasing
    <2> QED
      BY <1>2, <2>3, <2>4, <2>5, <2>6, <2>7 DEF Body, Gone
  <1> QED
    BY <1>7, <1>8

\* The invariant all that follows rests on.
LEMMA SlotInvariant == SlotSpec => [](TypeInv /\ SlotInv)
  <1>1. SlotInit => TypeInv /\ SlotInv
    BY InitType, InitSlot DEF SlotInv
  <1>2. TypeInv /\ SlotInv /\ [SlotNext]_slots => (TypeInv /\ SlotInv)'
    BY StepType, StepSlot
  <1> QED
    BY <1>1, <1>2, PTL DEF SlotSpec

\* Every record, call and counter has the shape the code gives it; without the
\* desktop service nothing is stored there and no routine awaits it.
THEOREM TypeCorrect == SlotSpec => []TypeInv
  BY SlotInvariant, PTL

\* Whenever the page is closed, the next load finds the last acknowledged save
\* or a newer one (writeSaveSlot, readSlotWithRecovery, readLargeValue).
THEOREM AckedFound == SlotSpec => []AckedIsFound
  <1>1. SlotInv => AckedIsFound
    BY DEF SlotInv, Body, Promise, AckedIsFound
  <1> QED
    BY <1>1, SlotInvariant, PTL

\* A deletion that was reported done stays done until the next save
\* (deleteSaveSlot, deleteLargeValue).
THEOREM DeletedGone == SlotSpec => []DeletedIsGone
  <1>1. SlotInv => DeletedIsGone
    BY DEF SlotInv, Body, Gone, DeletedIsGone, Stored, FirstOf, Slot
  <1> QED
    BY <1>1, SlotInvariant, PTL

\* The slot of core/saveGames.ts on the storage of core/storage.ts implements
\* the register: the newest save and the one before it, no step of a routine,
\* a migration or a damaged record that the register does not allow.
THEOREM SlotImplementsRegister == SlotSpec => SlotIsRegister
  <1>1. SlotInit => Register!Init
    <2> SUFFICES ASSUME SlotInit PROVE Register!Init
      OBVIOUS
    <2>1. Stored("backup").n = 0
      BY InitSlot DEF Nothing
    <2>2. Recovered.n \in Nat
      BY InitType, SlotTypes
    <2>3. (\E r \in Routine : run[r].at = "delete") = FALSE
      BY IdleCall DEF SlotInit
    <2>4. damage = 0
      BY DEF SlotInit
    <2>5. Exclusive \in BOOLEAN
      BY DEF Exclusive
    <2> QED
      BY <2>1, <2>2, <2>3, <2>4, <2>5 DEF Register!Init
  <1>2. TypeInv /\ SlotInv /\ [SlotNext]_slots => [Register!Next]_(Register!vars)
    <2> SUFFICES ASSUME TypeInv, SlotInv, [SlotNext]_slots
                 PROVE  [Register!Next]_(Register!vars)
      OBVIOUS
    <2>1. CASE UNCHANGED slots
      BY <2>1
      DEF slots, cells, history, Register!vars, Recovered, Stored, Exclusive
    <2>2. CASE ~(Exclusive /\ Exclusive')
      BY <2>2 DEF Register!Next
    <2>3. CASE SlotNext /\ Exclusive /\ Exclusive'
      <3>1. Change
        BY <2>3, ExclusiveStep DEF SlotInv
      <3>2. Exclusive' = Exclusive
        BY <2>3
      <3> DEFINE e == \E r \in Routine : run[r].at = "delete"
      <3>3. CASE damage' = damage /\ (Erases' <=> Erases)
        <4>1. e' = e
          BY <3>3 DEF Erases
        <4>2. CASE SameSlot
          BY <3>2, <3>3, <4>1, <4>2 DEF SameSlot, Register!vars
        <4>3. CASE Recovered.n' >= Recovered.n
                   /\ Stored("backup").n' = Recovered.n'
          BY <2>3, <3>2, <3>3, <4>1, <4>3 DEF Register!Next, Register!Keep
        <4>4. CASE /\ Recovered.n = Stored("backup").n
                   /\ Recovered.n' > Recovered.n
                   /\ Stored("backup").n' = Stored("backup").n
          BY <2>3, <3>2, <3>3, <4>1, <4>4 DEF Register!Next, Register!Save
        <4>5. CASE Erases
          BY <2>3, <3>2, <3>3, <4>1, <4>5
          DEF Register!Next, Register!Drop, Erases
        <4>6. damage \in Nat
          BY DEF TypeInv
        <4> QED
          BY <3>1, <3>3, <4>2, <4>3, <4>4, <4>5, <4>6 DEF Change
      <3>4. CASE /\ damage' = damage + 1 /\ (Erases' <=> Erases)
                 /\ Recovered.n' = Stored("backup").n
                 /\ Stored("backup").n' = Stored("backup").n
        <4>1. e' = e
          BY <3>4 DEF Erases
        <4> QED
          BY <2>3, <3>2, <3>4, <4>1 DEF Register!Next, Register!Damage
      <3>5. CASE damage' = damage /\ Erases
        <4>1. e = TRUE /\ e' \in {TRUE, FALSE}
          BY <3>5 DEF Erases
        <4> QED
          BY <2>3, <3>2, <3>5, <4>1 DEF Register!Next, Register!Drop
      <3>6. CASE damage' = damage /\ ~Erases /\ Erases' /\ SameSlot
        <4>1. e = FALSE /\ e' = TRUE
          BY <3>6 DEF Erases
        <4> QED
          BY <3>2, <3>6, <4>1
          DEF SameSlot, Register!Next, Register!Delete, Register!slot
      <3> QED
        BY <3>1, <3>3, <3>4, <3>5, <3>6 DEF Change
    <2> QED
      BY <2>1, <2>2, <2>3
  <1> QED
    BY <1>1, <1>2, SlotInvariant, PTL DEF SlotSpec, SlotIsRegister, Register!Spec

=============================================================================
