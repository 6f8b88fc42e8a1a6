------------------------------ MODULE SaveSlots ------------------------------
(***************************************************************************)
(* One slot of the save games of a project (core/saveGames.ts) on the      *)
(* storage under it (core/storage.ts, and the runtime values of the        *)
(* desktop service in backend/project_store.py).                           *)
(*                                                                         *)
(* A slot is two keys, "main" and "backup"; the quick slot adopts the save *)
(* an early release left under a third, "legacy".  A key lives in up to    *)
(* four places: the desktop service (py), IndexedDB (idb), localStorage    *)
(* (local) and a map of the page (mem).  A routine of saveGames.ts awaits   *)
(* one storage operation after another; run[r] is the operation routine r  *)
(* awaits, and each step of it that other code can come between is an      *)
(* action.  The page may be closed at any of them.                         *)
(***************************************************************************)
EXTENDS Naturals, FiniteSets

CONSTANTS
    Routine,    \* calls that can be under way at once
    MaxSaves,   \* save games, the one the slot starts with included
    MaxTrouble  \* failing storage operations, damaged records, overlapping
                \* routines and deletions cut off, together

Key == {"main", "backup", "legacy"}

\* A stored record: a save game by its number, in the format of this engine
\* or an older one, or one that decodeSaveData or loadSaveGameWithReport
\* refuses (damaged, of another project, of a newer format).
Nothing == [kind |-> "none", n |-> 0]
Broken == [kind |-> "broken", n |-> 0]
New(n) == [kind |-> "new", n |-> n]
Old(n) == [kind |-> "old", n |-> n]
Valid(v) == v.kind \in {"new", "old"}
Upgraded(v) == New(v.n)

VARIABLES
    desktop,    \* window.__SLIDE_DESKTOP__
    py, idb, local, mem,
    run,        \* what each routine awaits
    serial,     \* save games made
    floor,      \* history: the last two acknowledged saves still promised
    gone,       \* history: a deletion was acknowledged, nothing saved since
    early,      \* history: an early release left a save
    cleared,    \* history: a deletion has been started
    overlap,    \* history: two routines were under way at once
    cut,        \* history: a deletion was cut off by the end of the page
    damage,     \* records damaged so far
    faults      \* storage operations that failed so far

cells == <<py, idb, local, mem>>
history == <<floor, gone, early, cleared, overlap, cut>>
slots == <<desktop, cells, run, serial, history, damage, faults>>

\* The first of the steps an operation takes: with the desktop service the
\* browser's storage comes second.
Idle == [at |-> "idle", io |-> "py", val |-> Nothing, prev |-> Nothing]
Await(at, val) ==
    [Idle EXCEPT !.at = at, !.val = val, !.io = IF desktop THEN "py" ELSE "alone"]
AwaitDelete(at, keys) ==
    [Idle EXCEPT !.at = at,
                 !.io = [k \in keys |-> IF desktop THEN "py" ELSE "browser"]]

\* The storage operation a routine awaits at each of its points.
Reads == [previous |-> "main", check |-> "main", verify |-> "main",
          primary |-> "main", spare |-> "backup",
          quick |-> "main", early |-> "legacy"]
Writes == [backup |-> "backup", save |-> "main", upgrade |-> "main",
           repair |-> "main", adopt |-> "main"]

Put(store, k, v) == [store EXCEPT ![k] = v]
NoValues == [k \in Key |-> Nothing]
FirstOf(v, w) == IF v = Nothing THEN w ELSE v

\* What a load in a new page would read, were every operation to succeed.
Stored(k) ==
    FirstOf(IF desktop THEN py[k] ELSE Nothing, FirstOf(idb[k], local[k]))
Recovered == IF Valid(Stored("main")) THEN Stored("main") ELSE Stored("backup")
Exclusive == ~overlap /\ ~cut /\ faults = 0 /\ ~early

-----------------------------------------------------------------------------
(* What a routine does with the value v it has read, with a finished write, *)
(* and with an operation that throws.                                       *)

\* writeSaveSlot: from here on the new save game exists.
ToSave == Await("save", New(serial + 1))

\* readSlotWithRecovery: the record is no save, or no valid one.
ToSpare == Await("spare", Nothing)

\* Only a save that can be loaded is kept as the backup.
KeepNothing(c, v) == ToSave
Checked(c, v) == IF v = Broken THEN ToSave ELSE Await("backup", c.prev)

AfterRead(c, v) ==
    CASE c.at = "previous" ->
            IF v = Nothing THEN ToSave
            ELSE [Await("check", Nothing) EXCEPT !.prev = v]
      [] c.at = "check" -> Checked(c, v)
      [] c.at = "verify" -> Idle
      [] c.at = "primary" ->
            IF v.kind = "new" THEN Idle
            ELSE IF v.kind = "old" THEN Await("upgrade", Upgraded(v))
            ELSE ToSpare
      [] c.at = "spare" ->
            IF Valid(v) THEN Await("repair", Upgraded(v)) ELSE Idle
      [] c.at = "quick" ->
            Await(IF v = Nothing THEN "early" ELSE "primary", Nothing)
      [] c.at = "early" ->
            IF v = Nothing THEN Await("primary", Nothing)
            ELSE IF Valid(v) THEN Await("adopt", Upgraded(v))
            ELSE Idle

AfterWrite(c) ==
    CASE c.at = "backup" -> ToSave
      [] c.at = "save" -> Await("verify", c.val)
      [] c.at = "adopt" -> AwaitDelete("forget", {"legacy"})
      [] OTHER -> Idle

AfterThrow(c) ==
    CASE c.at \in {"check", "backup"} -> ToSave
      [] c.at \in {"primary", "upgrade"} -> ToSpare
      [] OTHER -> Idle

Go(r, next) ==
    /\ run' = [run EXCEPT ![r] = next]
    /\ serial' = IF next.at = "save" THEN serial + 1 ELSE serial

\* A read ends with v; a save that reads back a valid record is acknowledged.
GotValue(r, v) ==
    /\ Go(r, AfterRead(run[r], v))
    /\ floor' = IF run[r].at = "verify" /\ Valid(v)
                THEN <<floor[2], run[r].val.n>> ELSE floor
    /\ UNCHANGED <<gone, early, cleared, overlap, cut>>

Wrote(r) == Go(r, AfterWrite(run[r])) /\ UNCHANGED history
Threw(r) == Go(r, AfterThrow(run[r])) /\ UNCHANGED history
Stay(r, c) == run' = [run EXCEPT ![r] = c] /\ UNCHANGED <<serial, history>>

Works == UNCHANGED <<desktop, damage, faults>>
Flag(b) == IF b THEN 1 ELSE 0
Trouble == damage + faults + Flag(overlap) + Flag(cut)
Fails ==
    /\ Trouble < MaxTrouble /\ faults' = faults + 1
    /\ UNCHANGED <<desktop, damage>>

-----------------------------------------------------------------------------
(* readLargeValue, writeLargeValue, deleteLargeValue *)

\* The desktop service answers, raises, or is not ready within two seconds.
ReadPython(r) == LET k == Reads[run[r].at] IN
    /\ run[r].at \in DOMAIN Reads /\ run[r].io = "py"
    /\ \/ Works /\ py[k] # Nothing /\ GotValue(r, py[k])
       \/ Works /\ py[k] = Nothing /\ Stay(r, [run[r] EXCEPT !.io = "browser"])
       \/ Fails /\ Threw(r)
       \/ Fails /\ Stay(r, [run[r] EXCEPT !.io = "alone"])
    /\ UNCHANGED cells

\* A failing IndexedDB is skipped.
BrowserValue(k, v) ==
    \/ Works /\ v = FirstOf(idb[k], local[k])
    \/ Fails /\ v = local[k]

ReadBrowser(r) == LET k == Reads[run[r].at] IN
    /\ run[r].at \in DOMAIN Reads /\ run[r].io \in {"browser", "alone"}
    /\ \E v \in {idb[k], local[k]} :
        /\ BrowserValue(k, v)
        /\ IF v # Nothing /\ run[r].io = "browser"
           THEN Stay(r, [run[r] EXCEPT !.io = "migrate", !.val = v])
           ELSE GotValue(r, FirstOf(v, mem[k]))
    /\ UNCHANGED cells

\* A value of the browser moves to the desktop service.
MigrateUnawaited(r) == LET k == Reads[run[r].at] IN
    /\ run[r].at \in DOMAIN Reads /\ run[r].io = "migrate"
    /\ Works /\ Stay(r, [run[r] EXCEPT !.io = "clear"])
    /\ UNCHANGED cells

Migrate(r) == LET k == Reads[run[r].at] IN
    /\ run[r].at \in DOMAIN Reads /\ run[r].io = "migrate"
    /\ \/ /\ Works
          /\ py' = Put(py, k, run[r].val)
          /\ Stay(r, [run[r] EXCEPT !.io = "clear"])
       \/ Fails /\ GotValue(r, run[r].val) /\ UNCHANGED py
    /\ UNCHANGED <<idb, local, mem>>

\* deleteBrowserValue
ClearDatabase(k) ==
    /\ mem' = Put(mem, k, Nothing)
    /\ \/ Works /\ idb' = Put(idb, k, Nothing) /\ UNCHANGED local
       \/ Fails /\ local' = Put(local, k, Nothing) /\ UNCHANGED idb

ClearBrowser(k) ==
    /\ mem' = Put(mem, k, Nothing)
    /\ local' = Put(local, k, Nothing)
    /\ \/ Works /\ idb' = Put(idb, k, Nothing)
       \/ Fails /\ UNCHANGED idb

ClearMigrated(r) == LET k == Reads[run[r].at] IN
    /\ run[r].at \in DOMAIN Reads /\ run[r].io = "clear"
    /\ ClearBrowser(k)
    /\ GotValue(r, run[r].val)
    /\ UNCHANGED py

WritePython(r) == LET k == Writes[run[r].at] IN
    /\ run[r].at \in DOMAIN Writes /\ run[r].io = "py"
    /\ \/ /\ Works
          /\ py' = Put(py, k, run[r].val)
          /\ Stay(r, [run[r] EXCEPT !.io = "browser"])
       \/ Fails /\ Threw(r) /\ UNCHANGED py
    /\ UNCHANGED <<idb, local, mem>>

\* The mirror in the browser, best effort.
WriteMirror(r) == LET k == Writes[run[r].at] IN
    /\ run[r].at \in DOMAIN Writes /\ run[r].io = "browser"
    /\ \/ Works /\ idb' = Put(idb, k, run[r].val)
       \/ Fails /\ UNCHANGED idb
    /\ mem' = Put(mem, k, Nothing)
    /\ Wrote(r)
    /\ UNCHANGED <<py, local>>

\* Without the desktop: IndexedDB, or localStorage, or the page's memory.
WriteBrowser(r) == LET k == Writes[run[r].at]  v == run[r].val IN
    /\ run[r].at \in DOMAIN Writes /\ run[r].io = "alone"
    /\ \/ /\ Works /\ Wrote(r)
          /\ idb' = Put(idb, k, v)
          /\ local' = Put(local, k, Nothing)
          /\ mem' = Put(mem, k, Nothing)
       \/ /\ Fails /\ Wrote(r)
          /\ local' = Put(local, k, v)
          /\ UNCHANGED <<idb, mem>>
       \/ /\ Fails /\ Threw(r)
          /\ mem' = Put(mem, k, v)
          /\ UNCHANGED <<idb, local>>
    /\ UNCHANGED py

\* Deletions of several keys run side by side; the first that throws makes
\* the routine fail, the others go on.
Deleting(r, k, io) ==
    /\ run[r].at \in {"delete", "forget"}
    /\ k \in DOMAIN run[r].io
    /\ run[r].io[k] = io

DeletePython(r, k) ==
    /\ Deleting(r, k, "py")
    /\ \/ /\ Works
          /\ py' = Put(py, k, Nothing)
          /\ Stay(r, [run[r] EXCEPT !.io[k] = "browser"])
       \/ /\ Fails /\ UNCHANGED py
          /\ \E io \in {"browser", "failed"} : Stay(r, [run[r] EXCEPT !.io[k] = io])
    /\ UNCHANGED <<idb, local, mem>>

DeleteBrowser(r, k) ==
    /\ Deleting(r, k, "browser")
    /\ ClearBrowser(k)
    /\ Stay(r, [run[r] EXCEPT !.io[k] = "done"])
    /\ UNCHANGED py

Deleted(r) ==
    /\ run[r].at \in {"delete", "forget"}
    /\ \A k \in DOMAIN run[r].io : run[r].io[k] \in {"done", "failed"}
    /\ LET done == \A k \in DOMAIN run[r].io : run[r].io[k] = "done" IN
        /\ Go(r, IF done /\ run[r].at = "forget" THEN Await("primary", Nothing)
                 ELSE Idle)
        /\ gone' = (gone \/ (done /\ run[r].at = "delete"))
    /\ Works
    /\ UNCHANGED <<cells, floor, early, cleared, overlap, cut>>

-----------------------------------------------------------------------------
(* The calls of the game and its dialogs, and what happens to the storage *)

Start(r, call) ==
    /\ run[r] = Idle
    /\ run' = [run EXCEPT ![r] = call]
    /\ overlap' = (overlap \/ \E q \in Routine : run[q] # Idle)
    /\ overlap' => overlap \/ Trouble < MaxTrouble
    /\ Works
    /\ UNCHANGED <<cells, serial, early, cut>>

ToBeNumbered == {q \in Routine : run[q].at \in {"previous", "check", "backup"}}

WriteSaveSlot(r) ==
    /\ serial + Cardinality(ToBeNumbered) < MaxSaves
    /\ Start(r, Await("previous", Nothing))
    /\ gone' = FALSE
    /\ UNCHANGED <<floor, cleared>>

ReadSaveSlot(r) ==
    Start(r, Await("primary", Nothing)) /\ UNCHANGED <<floor, gone, cleared>>

ListSaveSlots(r) ==
    Start(r, Await("quick", Nothing)) /\ UNCHANGED <<floor, gone, cleared>>

DeleteSaveSlot(r) ==
    /\ Start(r, AwaitDelete("delete", {"main", "backup"}))
    /\ floor' = <<0, 0>>
    /\ cleared' = TRUE
    /\ UNCHANGED gone

\* The page is closed: what it awaited is never continued.
ClosePage ==
    /\ run' = [r \in Routine |-> Idle]
    /\ mem' = NoValues
    /\ cut' = (cut \/ \E r \in Routine : run[r].at = "delete")
    /\ Works
    /\ UNCHANGED <<py, idb, local, serial, floor, gone, early, cleared, overlap>>

\* Something outside the program damages the record of "main".
DamageMain == LET store == IF desktop THEN py ELSE idb IN
    /\ Trouble < MaxTrouble /\ damage' = damage + 1
    /\ Valid(store["main"])
    /\ IF desktop THEN py' = Put(py, "main", Broken) /\ UNCHANGED idb
       ELSE idb' = Put(idb, "main", Broken) /\ UNCHANGED py
    /\ floor' = <<floor[1], floor[1]>>
    /\ UNCHANGED <<desktop, local, mem, run, serial, gone, early, cleared>>
    /\ UNCHANGED <<overlap, cut, faults>>

\* A slot that is empty or holds the save of an earlier session, in the
\* desktop service or still in the browser.
SlotInit ==
    /\ desktop \in BOOLEAN
    /\ \E k \in {"main", "legacy"}, v \in {Nothing, New(1), Old(1)},
          home \in {"py", "idb", "local"} :
        /\ k = "legacy" => v.kind = "old"
        /\ v = Nothing => home = "local"
        /\ home = "py" => desktop
        /\ py = IF home = "py" THEN Put(NoValues, k, v) ELSE NoValues
        /\ idb = IF home = "idb" THEN Put(NoValues, k, v) ELSE NoValues
        /\ local = IF home = "local" THEN Put(NoValues, k, v) ELSE NoValues
        /\ serial = v.n
        /\ floor = <<0, IF k = "main" THEN v.n ELSE 0>>
        /\ early = (k = "legacy")
    /\ mem = NoValues
    /\ run = [r \in Routine |-> Idle]
    /\ gone = FALSE /\ cleared = FALSE
    /\ overlap = FALSE /\ cut = FALSE
    /\ damage = 0 /\ faults = 0

Step(r) ==
    \/ ReadPython(r) \/ ReadBrowser(r) \/ Migrate(r) \/ ClearMigrated(r)
    \/ WritePython(r) \/ WriteMirror(r) \/ WriteBrowser(r)
    \/ (\E k \in Key : DeletePython(r, k) \/ DeleteBrowser(r, k))
    \/ Deleted(r)
    \/ WriteSaveSlot(r) \/ ReadSaveSlot(r) \/ ListSaveSlots(r)
    \/ DeleteSaveSlot(r)

SlotNext == (\E r \in Routine : Step(r)) \/ ClosePage \/ DamageMain

SlotSpec == SlotInit /\ [][SlotNext]_slots

-----------------------------------------------------------------------------
Value == [kind : {"none", "broken"}, n : {0}]
            \cup [kind : {"new", "old"}, n : 1..MaxSaves]
Cells == [Key -> Value]

SlotTypeOK ==
    /\ py \in Cells /\ idb \in Cells /\ local \in Cells /\ mem \in Cells
    /\ serial \in 0..MaxSaves
    /\ \A r \in Routine : run[r].val \in Value /\ run[r].prev \in Value
    /\ desktop \/ py = NoValues
    /\ floor \in (0..serial) \X (0..serial)
    /\ mem # NoValues => faults > 0

\* Whenever the page is closed, in or between the awaits of a save, a load
\* with its repair, a migration of the format or of the storage: the next
\* load finds the last acknowledged save or a newer one; with its record
\* damaged since, the one acknowledged before (writeSaveSlot, backup before
\* main).  A game that uses the slot one routine at a time, no failure.
AckedIsFound == Exclusive => Recovered.n >= floor[2]

\* A slot whose deletion was reported done stays empty until the next save:
\* no mirror and no backup brings the save back (deleteSaveSlot).
DeletedIsGone ==
    Exclusive /\ gone => Stored("main") = Nothing /\ Stored("backup") = Nothing

\* The slot implements the register of SlotRegister.
Register == INSTANCE SlotRegister WITH
    value <- Recovered.n,
    spare <- Stored("backup").n,
    deleting <- \E r \in Routine : run[r].at = "delete",
    exclusive <- Exclusive
SlotIsRegister == Register!Spec
=============================================================================
