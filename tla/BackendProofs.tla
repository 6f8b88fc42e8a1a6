--------------------------- MODULE BackendProofs ---------------------------
(***************************************************************************)
(* Proofs about what the backend writes: the files of a project, the       *)
(* models' health with the calls that keep it, and the crash reports with  *)
(* their collector; CommandHistoryProofs has those about the history.      *)
(***************************************************************************)
EXTENDS ProjectStore, Services, CommandHistoryProofs

-----------------------------------------------------------------------------
(***************************************************************************)
(* What ProjectStore promises at every point where a save can stop, proved *)
(* for any set of fragments and any number of saves.                       *)
(*                                                                         *)
(* The properties follow from one inductive invariant, IInv: versions name *)
(* payloads, the save under way is not older than the manifest, the steps  *)
(* it has behind it have written all of its payload, and what is committed *)
(* stays so until the next save begins.                                    *)
(***************************************************************************)
\* A version names one of the payloads handed to save().
VersionInv ==
    /\ IsFiniteSet(asked)
    /\ \A p \in asked : p.ver <= Cardinality(asked)
    /\ \A p, q \in asked : p.ver = q.ver => p = q

\* A save under way writes a payload that was handed to it, and never an
\* older one than the manifest; the recovery snapshot is one of them, too.
SaveInv ==
    /\ step # "idle" => saving \in asked /\ saving.ver >= manifest.ver
    /\ recovery # NoPayload => recovery \in asked

\* What the steps of the save have behind them.
StepInv ==
    /\ step \in {"scripts", "recovery", "manifest", "stale"} =>
          chapters = [ver |-> saving.ver, frags |-> saving.frags]
    /\ step = "scripts" =>
          \A f \in saving.frags : f \notin todo => script[f] = saving.ver
    /\ step \in {"recovery", "manifest", "stale"} =>
          /\ rest = saving.ver
          /\ \A f \in saving.frags : script[f] = saving.ver
    /\ step \in {"manifest", "stale"} => recovery = saving
    /\ step = "stale" =>
          /\ manifest = [ver |-> saving.ver, active |-> saving.active]
          /\ todo = Stale(saving)

\* All files hold payload p.
Holds(p) ==
    /\ manifest = [ver |-> p.ver, active |-> p.active]
    /\ chapters = [ver |-> p.ver, frags |-> p.frags]
    /\ rest = p.ver
    /\ \A f \in p.frags : script[f] = p.ver

\* Until the next save begins, the files hold the payload that was committed.
DiskInv ==
    /\ step \in {"chapters", "scripts", "recovery", "manifest"} => disk = "torn"
    /\ step = "stale" => disk = "committed"
    /\ disk # "torn" /\ manifest.ver # Missing =>
          \E p \in asked : Holds(p)

\* No file is older than the manifest.
FilesInv ==
    /\ chapters.ver >= manifest.ver /\ rest >= manifest.ver
    /\ \A p \in asked : p.ver = manifest.ver =>
          \A f \in p.frags : script[f] >= manifest.ver

IInv == /\ TypeOK /\ VersionInv /\ SaveInv /\ StepInv /\ DiskInv /\ FilesInv
        /\ StartupNeverRaises /\ FinishedIsClean

-----------------------------------------------------------------------------
(* Lemmas *)

\* The version of the manifest is a number, 0 when there is none.
LEMMA ManifestVersion ==
    ASSUME TypeOK
    PROVE  manifest.ver \in 0..MaxVersion
BY VersionAssumption DEF TypeOK, Missing, Version

\* The manifest is not newer than the number of payloads.
LEMMA ManifestBound ==
    ASSUME TypeOK, VersionInv, StartupNeverRaises
    PROVE  manifest.ver <= Cardinality(asked)
<1>1. Cardinality(asked) \in Nat
  BY FS_CardinalityType DEF VersionInv
<1>2. CASE manifest.ver = Missing
  BY <1>1, <1>2 DEF Missing
<1>3. CASE manifest.ver # Missing
  <2>1. recovery \in asked /\ recovery.ver >= manifest.ver
    BY <1>3 DEF StartupNeverRaises
  <2>2. recovery.ver <= Cardinality(asked) /\ recovery.ver \in Nat
    BY <2>1, VersionAssumption DEF VersionInv, TypeOK, Payload, Version
  <2> QED BY <1>1, <2>1, <2>2, ManifestVersion, VersionAssumption
<1> QED BY <1>2, <1>3

\* A payload with the next free version may be handed to save().
LEMMA NewPayload ==
    ASSUME VersionInv, asked \subseteq Payload,
           NEW p \in Payload, p.ver = Cardinality(asked) + 1,
           asked' = asked \cup {p}
    PROVE  VersionInv'
<1>1. Cardinality(asked) \in Nat
  BY FS_CardinalityType DEF VersionInv
<1>2. \A q \in asked : q.ver \in Nat /\ q.ver <= Cardinality(asked)
  BY VersionAssumption DEF VersionInv, Payload, Version
<1>3. p \notin asked
  BY <1>1, <1>2
<1>4. IsFiniteSet(asked') /\ Cardinality(asked') = Cardinality(asked) + 1
  BY <1>3, FS_AddElement DEF VersionInv
<1>5. \A q \in asked' : q.ver <= Cardinality(asked')
  BY <1>1, <1>2, <1>4
<1>6. \A q, r \in asked' : q.ver = r.ver => q = r
  BY <1>1, <1>2 DEF VersionInv
<1> QED BY <1>4, <1>5, <1>6 DEF VersionInv

\* A payload that was handed to save() before changes nothing in asked.
LEMMA OldPayload ==
    ASSUME VersionInv, NEW p \in asked, asked' = asked \cup {p}
    PROVE  VersionInv' /\ asked' = asked
BY DEF VersionInv

\* What every step keeps when the files and the payloads stay as they are.
LEMMA QuietFiles ==
    ASSUME IInv, UNCHANGED <<files, asked, disk>>
    PROVE  /\ VersionInv' /\ FilesInv' /\ StartupNeverRaises' /\ FinishedIsClean'
           /\ (recovery # NoPayload => recovery \in asked)'
           /\ (disk # "torn" /\ manifest.ver # Missing => \E p \in asked : Holds(p))'
BY DEF IInv, files, VersionInv, FilesInv, StartupNeverRaises, FinishedIsClean,
       SaveInv, DiskInv, Holds

-----------------------------------------------------------------------------
(* The initial states, and the steps one by one *)

LEMMA InitIInv == Init => IInv
<1> SUFFICES ASSUME Init PROVE IInv
  OBVIOUS
<1>1. TypeOK
  BY VersionAssumption DEF Init, TypeOK, FileVersion, Missing, Steps, NoPayload
<1>2. VersionInv
  BY FS_EmptySet DEF Init, VersionInv
<1>3. SaveInv /\ StepInv /\ DiskInv
  BY DEF Init, SaveInv, StepInv, DiskInv, Missing
<1>4. FilesInv /\ StartupNeverRaises /\ FinishedIsClean
  BY DEF Init, FilesInv, StartupNeverRaises, FinishedIsClean, Missing
<1> QED BY <1>1, <1>2, <1>3, <1>4 DEF IInv

LEMMA StutterIInv == IInv /\ UNCHANGED vars => IInv'
BY DEF IInv, vars, files, TypeOK, VersionInv, SaveInv, StepInv, DiskInv, FilesInv,
       StartupNeverRaises, FinishedIsClean, Holds, Stale

LEMMA WriteChaptersIInv == IInv /\ WriteChapters => IInv'
<1> SUFFICES ASSUME IInv, WriteChapters PROVE IInv'
  OBVIOUS
<1> USE DEF IInv, WriteChapters
<1>1. saving \in Payload /\ saving.ver \in Version /\ saving.frags \subseteq Fragment
  BY DEF SaveInv, TypeOK, Payload
<1>2. TypeOK'
  BY <1>1, VersionAssumption DEF TypeOK, FileVersion, Version, Steps
<1>3. VersionInv' /\ SaveInv' /\ StartupNeverRaises'
  BY DEF VersionInv, SaveInv, StartupNeverRaises
<1>4. StepInv'
  BY DEF StepInv
<1>5. DiskInv' /\ FinishedIsClean'
  BY DEF DiskInv, FinishedIsClean
<1>6. FilesInv'
  BY DEF FilesInv, SaveInv
<1> QED BY <1>2, <1>3, <1>4, <1>5, <1>6

LEMMA WriteScriptIInv ==
    ASSUME IInv, NEW f \in Fragment, WriteScript(f)
    PROVE  IInv'
<1> USE DEF IInv, WriteScript
<1>1. saving \in Payload /\ saving.ver \in Version
  BY DEF SaveInv, TypeOK, Payload
<1>2. script' \in [Fragment -> FileVersion] /\ script'[f] = saving.ver
      /\ \A g \in Fragment : g # f => script'[g] = script[g]
  BY <1>1, VersionAssumption DEF TypeOK, FileVersion, Version
<1>3. TypeOK'
  BY <1>2 DEF TypeOK
<1>4. VersionInv' /\ SaveInv' /\ StartupNeverRaises'
  BY DEF VersionInv, SaveInv, StartupNeverRaises
<1>5. StepInv'
  BY <1>1, <1>2 DEF StepInv, Payload
<1>6. DiskInv' /\ FinishedIsClean'
  BY DEF DiskInv, FinishedIsClean
<1>7. FilesInv'
  <2>1. \A p \in asked : p.frags \subseteq Fragment
    BY DEF TypeOK, Payload
  <2> QED BY <1>2, <2>1 DEF FilesInv, SaveInv
<1> QED BY <1>3, <1>4, <1>5, <1>6, <1>7

LEMMA WriteRestIInv == IInv /\ WriteRest => IInv'
<1> SUFFICES ASSUME IInv, WriteRest PROVE IInv'
  OBVIOUS
<1> USE DEF IInv, WriteRest
<1>1. saving \in Payload /\ saving.ver \in Version
  BY DEF SaveInv, TypeOK, Payload
<1>2. TypeOK'
  BY <1>1, VersionAssumption DEF TypeOK, FileVersion, Version, Steps
<1>3. VersionInv' /\ SaveInv' /\ StartupNeverRaises'
  BY DEF VersionInv, SaveInv, StartupNeverRaises
<1>4. StepInv'
  BY DEF StepInv
<1>5. DiskInv' /\ FinishedIsClean'
  BY DEF DiskInv, FinishedIsClean
<1>6. FilesInv'
  BY DEF FilesInv, SaveInv
<1> QED BY <1>2, <1>3, <1>4, <1>5, <1>6

LEMMA WriteRecoveryIInv == IInv /\ WriteRecovery => IInv'
<1> SUFFICES ASSUME IInv, WriteRecovery PROVE IInv'
  OBVIOUS
<1> USE DEF IInv, WriteRecovery
<1>1. saving \in Payload
  BY DEF SaveInv, TypeOK
<1>2. TypeOK'
  BY <1>1 DEF TypeOK, Steps
<1>3. VersionInv' /\ SaveInv' /\ StartupNeverRaises'
  BY DEF VersionInv, SaveInv, StartupNeverRaises
<1>4. StepInv'
  BY DEF StepInv
<1>5. DiskInv' /\ FinishedIsClean' /\ FilesInv'
  BY DEF DiskInv, FinishedIsClean, FilesInv
<1> QED BY <1>2, <1>3, <1>4, <1>5

\* The commit: every file holds the payload that is being saved.
LEMMA WriteManifestIInv == IInv /\ WriteManifest => IInv'
<1> SUFFICES ASSUME IInv, WriteManifest PROVE IInv'
  OBVIOUS
<1> USE DEF IInv, WriteManifest
<1>1. /\ saving \in asked /\ saving \in Payload
      /\ saving.ver \in Version /\ saving.active \in Fragment
  BY DEF SaveInv, TypeOK, Payload
<1>2. Holds(saving)'
  BY DEF StepInv, Holds
<1>3. Stale(saving) \subseteq Fragment
  BY DEF Stale
<1>4. TypeOK'
  BY <1>1, <1>3 DEF TypeOK, Steps
<1>5. VersionInv'
  BY DEF VersionInv
<1>6. SaveInv' /\ StartupNeverRaises'
  BY <1>1, VersionAssumption DEF SaveInv, StartupNeverRaises, StepInv, Version
<1>7. StepInv'
  BY DEF StepInv, Stale
<1>8. DiskInv' /\ FinishedIsClean'
  BY <1>1, <1>2 DEF DiskInv, FinishedIsClean
<1>9. FilesInv'
  <2>1. chapters'.ver = saving.ver /\ rest' = saving.ver /\ manifest'.ver = saving.ver
    BY DEF StepInv
  <2>2. \A p \in asked : p.ver = saving.ver => p = saving
    BY <1>1 DEF VersionInv
  <2>3. saving.ver >= saving.ver
    BY <1>1, VersionAssumption DEF Version
  <2> QED BY <2>1, <2>2, <2>3 DEF FilesInv, StepInv
<1> QED BY <1>4, <1>5, <1>6, <1>7, <1>8, <1>9

\* A stale shard is one the committed payload does not name.
LEMMA RemoveStaleIInv ==
    ASSUME IInv, NEW f \in Fragment, RemoveStale(f)
    PROVE  IInv'
<1> USE DEF IInv, RemoveStale
<1>1. /\ saving \in asked /\ saving.frags \subseteq Fragment
      /\ f \notin saving.frags
  BY DEF SaveInv, TypeOK, Payload, StepInv, Stale
<1>2. script' \in [Fragment -> FileVersion] /\ script'[f] = Missing
      /\ \A g \in Fragment : g # f => script'[g] = script[g]
  BY VersionAssumption DEF TypeOK, FileVersion, Missing
<1>3. TypeOK'
  BY <1>2 DEF TypeOK
<1>4. VersionInv' /\ SaveInv' /\ StartupNeverRaises'
  BY DEF VersionInv, SaveInv, StartupNeverRaises
<1>5. StepInv'
  <2>1. \A g \in saving.frags : script'[g] = saving.ver
    BY <1>1, <1>2 DEF StepInv
  <2>2. Stale(saving)' = todo'
    BY <1>1, <1>2 DEF StepInv, Stale
  <2> QED BY <2>1, <2>2 DEF StepInv
<1>6. Holds(saving)'
  BY <1>1, <1>2 DEF StepInv, Holds
<1>7. DiskInv' /\ FinishedIsClean'
  BY <1>1, <1>6 DEF DiskInv, FinishedIsClean
<1>8. FilesInv'
  <2>1. \A p \in asked : p.ver = manifest.ver => p = saving
    BY <1>1 DEF VersionInv, StepInv
  <2> QED BY <1>1, <1>2, <2>1 DEF FilesInv
<1> QED BY <1>3, <1>4, <1>5, <1>7, <1>8

LEMMA EndSaveIInv == IInv /\ EndSave => IInv'
<1> SUFFICES ASSUME IInv, EndSave PROVE IInv'
  OBVIOUS
<1> USE DEF IInv, EndSave, files
<1>1. saving \in asked /\ Holds(saving)
  BY DEF SaveInv, StepInv, Holds
<1>2. TypeOK'
  BY DEF TypeOK, Steps
<1>3. VersionInv' /\ StartupNeverRaises' /\ FilesInv'
  BY DEF VersionInv, StartupNeverRaises, FilesInv
<1>4. SaveInv' /\ StepInv'
  BY DEF SaveInv, StepInv
<1>5. DiskInv'
  BY <1>1 DEF DiskInv, Holds
<1>6. FinishedIsClean'
  <2>1. \A g \in Fragment : g \notin saving.frags => script[g] = Missing
    BY DEF StepInv, Stale
  <2>2. \A g \in saving.frags : script[g] # Missing
    BY <1>1, VersionAssumption DEF Holds, TypeOK, Payload, Version, Missing
  <2> QED BY <1>1, <2>1, <2>2 DEF FinishedIsClean, Holds
<1> QED BY <1>2, <1>3, <1>4, <1>5, <1>6

\* A save that stops half-way: what it was doing is forgotten.
LEMMA StopIInv == IInv /\ (SaveRaises \/ Crash) => IInv'
<1> SUFFICES ASSUME IInv, SaveRaises \/ Crash PROVE IInv'
  OBVIOUS
<1>1. /\ UNCHANGED <<files, asked, disk>> /\ step' = "idle"
      /\ saving' = NoPayload /\ todo' = {} /\ app' \in {app, "down"}
  BY DEF SaveRaises, Crash
<1>2. TypeOK'
  BY <1>1 DEF IInv, TypeOK, files, Steps
<1>3. SaveInv' /\ StepInv' /\ DiskInv'
  BY <1>1, QuietFiles DEF SaveInv, StepInv, DiskInv
<1> QED BY <1>1, <1>2, <1>3, QuietFiles DEF IInv

\* The first step of a save, whoever calls it.
LEMMA BeginSaveIInv ==
    ASSUME IInv, NEW p \in Payload, BeginSave(p), UNCHANGED <<files, todo>>,
           app' \in {"down", "up", "editing"},
           p.ver >= manifest.ver, VersionInv',
           \A q \in asked' : q.ver = manifest.ver => q \in asked
    PROVE  IInv'
<1> USE DEF IInv, BeginSave, files
<1>1. TypeOK'
  BY DEF TypeOK, Steps
<1>2. SaveInv' /\ StepInv'
  BY DEF SaveInv, StepInv
<1>3. DiskInv' /\ FinishedIsClean' /\ StartupNeverRaises'
  BY DEF DiskInv, FinishedIsClean, StartupNeverRaises
<1>4. FilesInv'
  BY DEF FilesInv
<1> QED BY <1>1, <1>2, <1>3, <1>4

LEMMA SaveProjectIInv == IInv /\ SaveProject => IInv'
<1> SUFFICES ASSUME IInv, SaveProject PROVE IInv'
  OBVIOUS
<1>1. PICK p \in Payload : p.ver = Cardinality(asked) + 1 /\ BeginSave(p)
  BY DEF SaveProject
<1>2. VersionInv'
  BY <1>1, NewPayload DEF IInv, TypeOK, BeginSave
<1>3. /\ manifest.ver \in 0..MaxVersion /\ manifest.ver <= Cardinality(asked)
      /\ Cardinality(asked) \in Nat
  BY ManifestVersion, ManifestBound, FS_CardinalityType DEF IInv, VersionInv
<1>4. p.ver >= manifest.ver /\ p.ver # manifest.ver
  BY <1>1, <1>3, VersionAssumption
<1>5. \A q \in asked' : q.ver = manifest.ver => q \in asked
  BY <1>1, <1>4 DEF BeginSave
<1>6. UNCHANGED <<files, todo>> /\ app' \in {"down", "up", "editing"}
  BY DEF SaveProject, IInv, TypeOK
<1> QED BY <1>1, <1>2, <1>4, <1>5, <1>6, BeginSaveIInv

LEMMA LoadIInv ==
    ASSUME IInv, step = "idle", app' = "editing",
           UNCHANGED <<files, step, saving, todo, asked, disk>>
    PROVE  IInv'
<1>1. TypeOK'
  BY DEF IInv, TypeOK, files
<1>2. SaveInv' /\ StepInv' /\ DiskInv'
  BY QuietFiles DEF SaveInv, StepInv, DiskInv
<1> QED BY <1>1, <1>2, QuietFiles DEF IInv

LEMMA StartupIInv == IInv /\ Startup => IInv'
<1> SUFFICES ASSUME IInv, Startup PROVE IInv'
  OBVIOUS
<1>1. UNCHANGED <<files, todo>> /\ step = "idle"
  BY DEF Startup
<1>2. ASSUME manifest.ver = Missing, app' = "up",
             NEW p \in (IF asked = {} THEN {q \in Payload : q.ver = 1}
                                      ELSE {q \in asked : q.ver = 1}),
             BeginSave(p)
      PROVE  IInv'
  <2>1. p \in Payload /\ p.ver = 1
    BY <1>2 DEF IInv, TypeOK
  <2>2. VersionInv'
    <3>1. CASE asked = {}
      BY <1>2, <2>1, <3>1, FS_EmptySet, NewPayload DEF IInv, TypeOK, BeginSave
    <3>2. CASE asked # {}
      BY <1>2, <3>2, OldPayload DEF IInv, BeginSave
    <3> QED BY <3>1, <3>2
  <2>3. p.ver >= manifest.ver /\ \A q \in asked' : q.ver = manifest.ver => q \in asked
    BY <1>2, <2>1 DEF BeginSave, Missing
  <2> QED BY <1>1, <1>2, <2>1, <2>2, <2>3, BeginSaveIInv
<1>3. ASSUME app' = "editing", UNCHANGED <<step, saving, asked, disk>>
      PROVE  IInv'
  BY <1>1, <1>3, LoadIInv
<1>4. ASSUME manifest.ver # Missing, recovery # NoPayload, BeginSave(recovery), app' = "up"
      PROVE  IInv'
  <2>1. recovery \in asked /\ recovery \in Payload /\ recovery.ver >= manifest.ver
    BY <1>4 DEF IInv, StartupNeverRaises, TypeOK
  <2>2. VersionInv' /\ asked' = asked
    BY <1>4, <2>1, OldPayload DEF IInv, BeginSave
  <2> QED BY <1>1, <1>4, <2>1, <2>2, BeginSaveIInv
<1> QED BY <1>2, <1>3, <1>4 DEF Startup

LEMMA NextIInv == IInv /\ [Next]_vars => IInv'
<1> SUFFICES ASSUME IInv, [Next]_vars PROVE IInv'
  OBVIOUS
<1>1. CASE SaveStep
  BY <1>1, WriteChaptersIInv, WriteRestIInv, WriteRecoveryIInv, WriteManifestIInv,
     EndSaveIInv, WriteScriptIInv, RemoveStaleIInv DEF SaveStep
<1>2. CASE SaveRaises \/ Crash
  BY <1>2, StopIInv
<1>3. CASE SaveProject
  BY <1>3, SaveProjectIInv
<1>4. CASE Startup
  BY <1>4, StartupIInv
<1>5. CASE OpenProject
  BY <1>5, LoadIInv DEF OpenProject
<1>6. CASE UNCHANGED vars
  BY <1>6, StutterIInv
<1> QED BY <1>1, <1>2, <1>3, <1>4, <1>5, <1>6 DEF Next

LEMMA StoreInvariant == Spec => []IInv
BY InitIInv, NextIInv, PTL DEF Spec

-----------------------------------------------------------------------------
(* The theorems *)

\* Every file has a version that was saved, every payload is one save() accepts.
THEOREM TypeCorrect == Spec => []TypeOK
<1>1. IInv => TypeOK
  BY DEF IInv
<1> QED BY <1>1, StoreInvariant, PTL

\* Wherever a save stops, the next start has a manifest with a recovery
\* snapshot as new as it (load(recover=True) in project_store.py succeeds).
THEOREM StartupSucceeds == Spec => []StartupNeverRaises
<1>1. IInv => StartupNeverRaises
  BY DEF IInv
<1> QED BY <1>1, StoreInvariant, PTL

\* From the manifest's write on, a load returns the payload of that save.
THEOREM CommitIsDurable == Spec => []CommittedIsLoaded
<1>1. IInv => CommittedIsLoaded
  <2> SUFFICES ASSUME IInv, disk # "torn", manifest.ver # Missing
               PROVE  Readable /\ \E p \in asked : /\ p.ver = manifest.ver
                                                  /\ ReadBack = Whole(p)
    BY DEF CommittedIsLoaded
  <2>1. PICK p \in asked : Holds(p)
    BY DEF IInv, DiskInv
  <2>2. p.ver \in Version /\ p.active \in p.frags
    BY DEF IInv, TypeOK, Payload
  <2>3. Readable
    BY <2>1, <2>2, VersionAssumption DEF Readable, Holds, Version, Missing
  <2>4. ReadBack = Whole(p)
    BY <2>1 DEF ReadBack, Whole, Holds
  <2>5. p.ver = manifest.ver
    BY <2>1 DEF Holds
  <2> QED BY <2>3, <2>4, <2>5
<1> QED BY <1>1, StoreInvariant, PTL

\* A finished save leaves exactly the shards of its fragments.
THEOREM FinishedSaveIsClean == Spec => []FinishedIsClean
<1>1. IInv => FinishedIsClean
  BY DEF IInv
<1> QED BY <1>1, StoreInvariant, PTL

\* No interrupted save takes a file back behind the committed manifest.
THEOREM NeverRollsBack == Spec => []NoRollback
<1>1. IInv => NoRollback
  BY DEF IInv, FilesInv, NoRollback
<1> QED BY <1>1, StoreInvariant, PTL

-----------------------------------------------------------------------------
(***************************************************************************)
(* Proofs about AiFailover: a cancelled request is never left waiting on   *)
(* its response, and the circuit breaker of a model follows its results as *)
(* long as no record overtakes another.                                    *)
(*                                                                         *)
(* Two invariants of their own: what the run has registered with its       *)
(* cancellation (CallInv), and what an entry of the health cache says of   *)
(* the last results of its model (HealthInv).                              *)
(***************************************************************************)
USE ModelsAssumption

-----------------------------------------------------------------------------
(* The state *)

Points == {"idle", "next", "connect", "opening", "register", "reading",
           "answered", "record", "write", "sleep", "probe"}

\* A circuit is open from the second failure on, for a cooldown at most.
Deadlines == 0 .. (MaxClock + MaxCooldown)
Entries == {e \in [failures : Nat, open : BOOLEAN, until : Deadlines, checked : Int] :
                e.open = (e.failures >= Threshold)}
Calls == [at : Points, endpoint : Nat, model : Nat, tries : Nat, ok : BOOLEAN,
          prev : Entries]
Outcomes == {<<>>} \cup {<<x>> : x \in BOOLEAN}
                   \cup {<<x, y>> : x \in BOOLEAN, y \in BOOLEAN}

\* A call is of a model that is configured, at an endpoint that was.
IsCall(c) ==
    /\ c \in Calls
    /\ c.at # "idle" => c.model \in Model /\ c.endpoint \in 1 .. endpoint

TypeInv ==
    /\ clock \in 0 .. MaxClock /\ endpoint \in 1 .. Endpoints
    /\ cache.of \in 1 .. endpoint /\ cache.models \in [Model -> Entries]
    /\ proc \in [Proc -> Calls] /\ \A p \in Proc : IsCall(proc[p])
    /\ wire \in {"none", "open", "aborted"} /\ aborter \in BOOLEAN
    /\ cancel \in {"no", "set", "done"}
    /\ results \in [Model -> Outcomes] /\ raced \in BOOLEAN

LEMMA NoEntryIs == NoEntry \in Entries
  <1> DEFINE e == NoEntry
  <1>1. 0 \in Deadlines /\ -1 \in Int /\ 0 \in Nat
    BY ModelsAssumption DEF Deadlines, MaxCooldown
  <1>2. e \in [failures : Nat, open : BOOLEAN, until : Deadlines, checked : Int]
    BY <1>1 DEF NoEntry
  <1>3. e.open = FALSE /\ e.failures = 0
    BY DEF NoEntry
  <1> HIDE DEF e
  <1>4. (e.failures >= Threshold) = FALSE
    BY <1>3 DEF Threshold
  <1>5. e.open = (e.failures >= Threshold)
    BY <1>3, <1>4, Zenon
  <1> QED
    BY <1>2, <1>5 DEF Entries, e

LEMMA IdleCall == IsCall(NoCall) /\ NoCall.at = "idle"
  <1>1. NoEntry \in Entries
    BY NoEntryIs
  <1> QED
    BY <1>1 DEF IsCall, Calls, NoCall, Points

\* A power of two counts the subsets of a set.
LEMMA Cooled ==
  ASSUME NEW n \in Nat, n >= Threshold
  PROVE  Cooldown(n) \in 0 .. MaxCooldown
  <1> DEFINE k == n - Threshold
  <1>1. k \in Nat
    BY DEF Threshold
  <1> HIDE DEF k
  <1> DEFINE w == 2 ^ k  z == Cardinality(1 .. k)
  <1>2. IsFiniteSet(1 .. k) /\ z = k
    BY <1>1, FS_Interval
  <1>3. IsFiniteSet(SUBSET (1 .. k)) /\ Cardinality(SUBSET (1 .. k)) = 2 ^ z
    BY <1>2, FS_SUBSET
  <1>4. w \in Nat
    BY <1>2, <1>3, FS_CardinalityType
  <1> HIDE DEF w
  <1>5. (IF w < MaxCooldown THEN w ELSE MaxCooldown) \in 0 .. MaxCooldown
    BY <1>4 DEF MaxCooldown
  <1> QED BY <1>5 DEF Cooldown, w, k

LEMMA EntryTypes ==
  ASSUME TypeInv
  PROVE  /\ NoEntry \in Entries
         /\ \A e, m : m \in Model => Entry(e, m) \in Entries
         /\ \A prev \in Entries : /\ AfterSuccess(prev) \in Entries
                                  /\ AfterFailure(prev) \in Entries
  <1>1. NoEntry \in Entries
    BY NoEntryIs
  <1>2. \A e, m : m \in Model => Entry(e, m) \in Entries
    BY <1>1 DEF Entry, TypeInv
  <1>a. clock \in Nat /\ clock <= MaxClock /\ MaxClock \in Nat /\ MaxCooldown \in Nat
    BY ModelsAssumption DEF TypeInv, MaxCooldown
  <1>3. ASSUME NEW prev \in Entries
        PROVE  AfterSuccess(prev) \in Entries
    <2> DEFINE e == AfterSuccess(prev)
    <2>1. 0 \in Deadlines /\ clock \in Int
      BY <1>a DEF Deadlines
    <2>2. e \in [failures : Nat, open : BOOLEAN, until : Deadlines, checked : Int]
      BY <2>1 DEF AfterSuccess, Entries
    <2>3. e.open = FALSE /\ e.failures = 0
      BY DEF AfterSuccess, Entries
    <2> HIDE DEF e
    <2>5. (e.failures >= Threshold) = FALSE
      BY <2>3 DEF Threshold
    <2>4. e.open = (e.failures >= Threshold)
      BY <2>3, <2>5, Zenon
    <2> QED
      BY <2>2, <2>4 DEF Entries, e
  <1>4. ASSUME NEW prev \in Entries
        PROVE  AfterFailure(prev) \in Entries
    <2> DEFINE n == prev.failures + 1
               u == IF n >= Threshold THEN clock + Cooldown(n) ELSE 0
               o == n >= Threshold
    <2>1. n \in Nat /\ o \in BOOLEAN
      BY DEF Entries
    <2>2. u \in Deadlines
      <3>1. CASE n >= Threshold
        <4> DEFINE c == Cooldown(n)
        <4>1. c \in 0 .. MaxCooldown
          BY <2>1, <3>1, Cooled
        <4>2. u = clock + c
          BY <3>1
        <4> HIDE DEF c, u
        <4>3. u \in 0 .. (MaxClock + MaxCooldown)
          BY <1>a, <4>1, <4>2
        <4> QED
          BY <4>3 DEF Deadlines
      <3>2. CASE ~(n >= Threshold)
        <4>1. u = 0
          BY <3>2
        <4> QED
          BY <1>a, <4>1 DEF Deadlines
      <3> QED
        BY <3>1, <3>2
    <2>3. AfterFailure(prev) = [failures |-> n, open |-> o, until |-> u, checked |-> clock]
      BY DEF AfterFailure
    <2>4. o = (n >= Threshold)
      OBVIOUS
    <2> HIDE DEF n, u, o
    <2> QED
      BY <1>a, <2>1, <2>2, <2>3, <2>4 DEF Entries
  <1> QED
    BY <1>1, <1>2, <1>3, <1>4

LEMMA Fields ==
  ASSUME TypeInv, NEW p \in Proc
  PROVE  proc[p] \in Calls /\ proc[p].tries \in Nat /\ proc[p].tries + 1 \in Nat
  BY DEF TypeInv, Calls

\* A field that a step sets leaves the model and the endpoint of a call.
Alters(q, r, at, tries, ok, prev) ==
    \/ r = [q EXCEPT !.at = at]
    \/ r = [q EXCEPT !.at = at, !.tries = tries]
    \/ r = [q EXCEPT !.at = at, !.ok = ok]
    \/ r = [q EXCEPT !.at = at, !.prev = prev]

LEMMA FieldSet ==
  ASSUME NEW q \in Calls, NEW at \in Points, NEW tries \in Nat,
         NEW ok \in BOOLEAN, NEW prev \in Entries, NEW r,
         Alters(q, r, at, tries, ok, prev)
  PROVE  r \in Calls /\ r.at = at /\ r.model = q.model /\ r.endpoint = q.endpoint
  <1>1. CASE r = [q EXCEPT !.at = at]
    BY <1>1 DEF Calls
  <1>2. CASE r = [q EXCEPT !.at = at, !.tries = tries]
    BY <1>2 DEF Calls
  <1>3. CASE r = [q EXCEPT !.at = at, !.ok = ok]
    BY <1>3 DEF Calls
  <1>4. CASE r = [q EXCEPT !.at = at, !.prev = prev]
    BY <1>4 DEF Calls
  <1> QED
    BY <1>1, <1>2, <1>3, <1>4 DEF Alters

\* What a step may make of a call.
LEMMA CallMoves ==
  ASSUME TypeInv, NEW p \in Proc, proc[p].at # "idle",
         NEW at \in Points, NEW tries \in Nat, NEW ok \in BOOLEAN,
         NEW prev \in Entries
  PROVE  /\ IsCall([proc[p] EXCEPT !.at = at])
         /\ [proc[p] EXCEPT !.at = at].at = at
         /\ IsCall([proc[p] EXCEPT !.at = at, !.tries = tries])
         /\ [proc[p] EXCEPT !.at = at, !.tries = tries].at = at
         /\ IsCall([proc[p] EXCEPT !.at = at, !.ok = ok])
         /\ [proc[p] EXCEPT !.at = at, !.ok = ok].at = at
         /\ IsCall([proc[p] EXCEPT !.at = at, !.prev = prev])
         /\ [proc[p] EXCEPT !.at = at, !.prev = prev].at = at
         /\ [proc[p] EXCEPT !.at = at, !.prev = prev].prev = prev
  <1>1. /\ proc[p] \in Calls /\ proc[p].model \in Model
        /\ proc[p].endpoint \in 1 .. endpoint
    BY DEF TypeInv, IsCall
  <1>2. ASSUME NEW r, \/ r = [proc[p] EXCEPT !.at = at]
                      \/ r = [proc[p] EXCEPT !.at = at, !.tries = tries]
                      \/ r = [proc[p] EXCEPT !.at = at, !.ok = ok]
                      \/ r = [proc[p] EXCEPT !.at = at, !.prev = prev]
        PROVE  IsCall(r) /\ r.at = at
    <2>2. Alters(proc[p], r, at, tries, ok, prev)
      BY <1>2 DEF Alters
    <2>1. r \in Calls /\ r.at = at /\ r.model = proc[p].model
          /\ r.endpoint = proc[p].endpoint
      BY <1>1, <2>2, FieldSet
    <2> QED
      BY <1>1, <2>1 DEF IsCall
  <1>3. [proc[p] EXCEPT !.at = at, !.prev = prev].prev = prev
    BY <1>1 DEF Calls
  <1> QED
    BY <1>2, <1>3

\* A step of p gives it a call, and leaves the other alone.
LEMMA SetCall ==
  ASSUME TypeInv, NEW p \in Proc, NEW c, IsCall(c), Set(p, c)
  PROVE  /\ proc' \in [Proc -> Calls] /\ \A q \in Proc : IsCall(proc'[q])
         /\ proc'[p] = c /\ \A q \in Proc \ {p} : proc'[q] = proc[q]
  BY DEF TypeInv, Set, IsCall

LEMMA AdvanceCall ==
  ASSUME TypeInv, NEW p \in Proc, proc[p].at # "idle",
         Advance(p)
  PROVE  \E c : IsCall(c) /\ Set(p, c) /\ c.at \in {"idle", "next"}
  <1>1. CASE proc[p].model = Models
    BY <1>1, IdleCall DEF Advance, End
  <1>2. CASE proc[p].model # Models
    <2> DEFINE tries == IF p = "run" THEN 0 ELSE proc[p].tries
    <2> DEFINE m == proc[p].model + 1
    <2> DEFINE c == [proc[p] EXCEPT !.at = "next", !.model = m,
                        !.ok = FALSE, !.prev = NoEntry, !.tries = tries]
    <2>1. /\ proc[p] \in Calls /\ proc[p].model \in Model /\ NoEntry \in Entries
          /\ proc[p].endpoint \in 1 .. endpoint /\ tries \in Nat
      BY EntryTypes DEF TypeInv, IsCall, Calls
    <2>2. Set(p, c)
      BY <1>2 DEF Advance
    <2>3. m \in Model /\ m \in Nat
      BY <1>2, <2>1 DEF Model
    <2> HIDE DEF tries, m
    <2>5. c \in Calls /\ c.at = "next" /\ c.model = m /\ c.endpoint = proc[p].endpoint
      BY <2>1, <2>3 DEF Calls, Points
    <2> HIDE DEF c
    <2>4. IsCall(c) /\ c.at = "next"
      BY <2>1, <2>3, <2>5 DEF IsCall
    <2> QED
      BY <2>2, <2>4
  <1> QED
    BY <1>1, <1>2

\* Every step gives one call of the run or the pass a new form, or none.
Goes(p) == \E c : IsCall(c) /\ Set(p, c)

LEMMA Going ==
  ASSUME TypeInv, NEW p \in Proc
  PROVE  /\ End(p) => Goes(p)
         /\ proc[p].at # "idle" => (Advance(p) => Goes(p))
         /\ \A at \in Points : proc[p].at # "idle" => (To(p, at) => Goes(p))
         /\ \A at \in Points, ok \in BOOLEAN : proc[p].at # "idle" =>
              (Set(p, [proc[p] EXCEPT !.at = at, !.ok = ok]) => Goes(p))
         /\ \A at \in Points, tries \in Nat : proc[p].at # "idle" =>
              (Set(p, [proc[p] EXCEPT !.at = at, !.tries = tries]) => Goes(p))
         /\ \A at \in Points, prev \in Entries : proc[p].at # "idle" =>
              (Set(p, [proc[p] EXCEPT !.at = at, !.prev = prev]) => Goes(p))
  <1>1. End(p) => Goes(p)
    BY IdleCall DEF End, Goes
  <1>2. proc[p].at # "idle" => (Advance(p) => Goes(p))
    BY AdvanceCall DEF Goes
  <1>3. ASSUME NEW at \in Points, proc[p].at # "idle"
        PROVE  /\ To(p, at) => Goes(p)
               /\ \A ok \in BOOLEAN :
                    Set(p, [proc[p] EXCEPT !.at = at, !.ok = ok]) => Goes(p)
               /\ \A tries \in Nat :
                    Set(p, [proc[p] EXCEPT !.at = at, !.tries = tries]) => Goes(p)
               /\ \A prev \in Entries :
                    Set(p, [proc[p] EXCEPT !.at = at, !.prev = prev]) => Goes(p)
    <2>1. 0 \in Nat /\ TRUE \in BOOLEAN /\ NoEntry \in Entries
      BY EntryTypes
    <2>2. To(p, at) => Goes(p)
      BY <1>3, <2>1, CallMoves DEF To, Goes
    <2>3. ASSUME NEW ok \in BOOLEAN,
                 Set(p, [proc[p] EXCEPT !.at = at, !.ok = ok])
          PROVE  Goes(p)
      <3>1. IsCall([proc[p] EXCEPT !.at = at, !.ok = ok])
        BY <1>3, <2>1, <2>3, CallMoves
      <3> QED
        BY <2>3, <3>1 DEF Goes
    <2>4. ASSUME NEW tries \in Nat,
                 Set(p, [proc[p] EXCEPT !.at = at, !.tries = tries])
          PROVE  Goes(p)
      <3>1. IsCall([proc[p] EXCEPT !.at = at, !.tries = tries])
        BY <1>3, <2>1, <2>4, CallMoves
      <3> QED
        BY <2>4, <3>1 DEF Goes
    <2>5. ASSUME NEW prev \in Entries,
                 Set(p, [proc[p] EXCEPT !.at = at, !.prev = prev])
          PROVE  Goes(p)
      <3>1. IsCall([proc[p] EXCEPT !.at = at, !.prev = prev])
        BY <1>3, <2>1, <2>5, CallMoves
      <3> QED
        BY <2>5, <3>1 DEF Goes
    <2> QED
      BY <2>2, <2>3, <2>4, <2>5
  <1> QED
    BY <1>1, <1>2, <1>3

LEMMA RunGoes ==
  ASSUME TypeInv,
         \/ RunNext \/ Connect \/ Opened \/ Register \/ ReadCancelled
         \/ ReadAnswer \/ Answered \/ ReadInvalid \/ ReadLost \/ Sleep
  PROVE  Goes("run")
  <1>a. "run" \in Proc
    BY DEF Proc
  <1>b. /\ {"connect", "opening", "register", "reading", "answered", "record",
            "sleep"} \subseteq Points
        /\ proc["run"].at # "idle" /\ proc["run"].tries + 1 \in Nat /\ 0 \in Nat
    BY <1>a, Fields
    DEF Points, RunNext, Connect, Opened, Register, ReadCancelled, ReadAnswer,
        Answered, ReadInvalid, ReadLost, Sleep, Is
  <1>c. /\ End("run") => Goes("run")
        /\ Advance("run") => Goes("run")
        /\ \A at \in Points : To("run", at) => Goes("run")
    BY <1>a, <1>b, Going
  <1>d. /\ \A at \in Points, ok \in BOOLEAN :
             Set("run", [proc["run"] EXCEPT !.at = at, !.ok = ok]) => Goes("run")
        /\ \A at \in Points, tries \in Nat :
             Set("run", [proc["run"] EXCEPT !.at = at, !.tries = tries])
               => Goes("run")
    BY <1>a, <1>b, Going
  <1>e. TryFailed => Goes("run")
    BY <1>b, <1>c DEF TryFailed
  <1>1. CASE RunNext
    BY <1>1, <1>b, <1>c DEF RunNext
  <1>2. CASE Connect
    BY <1>2, <1>b, <1>c, <1>d DEF Connect
  <1>3. CASE Opened
    BY <1>3, <1>b, <1>c, <1>e DEF Opened
  <1>4. CASE Register
    BY <1>4, <1>b, <1>c DEF Register
  <1>5. CASE ReadCancelled \/ ReadInvalid \/ ReadAnswer
    BY <1>5, <1>b, <1>c DEF ReadCancelled, ReadInvalid, ReadAnswer
  <1>6. CASE Answered
    BY <1>6, <1>b, <1>c, <1>d DEF Answered
  <1>7. CASE ReadLost \/ Sleep
    BY <1>7, <1>b, <1>c, <1>e DEF ReadLost, Sleep
  <1> QED
    BY <1>1, <1>2, <1>3, <1>4, <1>5, <1>6, <1>7

LEMMA RecordGoes ==
  ASSUME TypeInv, NEW p \in Proc,
         RecordReads(p) \/ RecordWrites(p) \/ RecordRaises(p)
  PROVE  Goes(p)
  <1>a. proc[p].at # "idle" /\ "write" \in Points
    BY DEF RecordReads, RecordWrites, RecordRaises, Is, Points
  <1>1. CASE RecordReads(p)
    <2>1. Entry(proc[p].endpoint, proc[p].model) \in Entries
      BY <1>a, EntryTypes DEF TypeInv, IsCall
    <2> QED
      BY <1>1, <1>a, <2>1, Going DEF RecordReads
  <1>2. CASE RecordWrites(p)
    BY <1>2, <1>a, Going DEF RecordWrites
  <1>3. CASE RecordRaises(p)
    BY <1>3, <1>a, Going DEF RecordRaises
  <1> QED
    BY <1>1, <1>2, <1>3

LEMMA BeginCall ==
  ASSUME TypeInv
  PROVE  IsCall([NoCall EXCEPT !.at = "next", !.endpoint = endpoint, !.model = 1])
  <1>1. /\ NoEntry \in Entries /\ endpoint \in 1 .. endpoint /\ endpoint \in Nat
        /\ 1 \in Model /\ 1 \in Nat /\ "next" \in Points /\ NoCall \in Calls
    BY EntryTypes, IdleCall
    DEF TypeInv, Model, Points, IsCall
  <1> DEFINE c == [NoCall EXCEPT !.at = "next", !.endpoint = endpoint, !.model = 1]
  <1>2. c \in Calls /\ c.model = 1 /\ c.endpoint = endpoint
    BY <1>1 DEF Calls
  <1> QED
    BY <1>1, <1>2 DEF IsCall

LEMMA PassGoes ==
  ASSUME TypeInv, PassNext \/ Probed
  PROVE  Goes("pass")
  <1>a. "pass" \in Proc
    BY DEF Proc
  <1>b. /\ {"probe", "record"} \subseteq Points /\ proc["pass"].at # "idle"
        /\ proc["pass"].tries + 1 \in Nat
    BY <1>a, Fields DEF Points, PassNext, Probed, Is
  <1>1. CASE PassNext
    BY <1>1, <1>a, <1>b, Going DEF PassNext
  <1>2. CASE Probed
    BY <1>2, <1>a, <1>b, Going DEF Probed
  <1> QED
    BY <1>1, <1>2

LEMMA NextGoes ==
  ASSUME TypeInv, CallsNext
  PROVE  UNCHANGED proc \/ \E p \in Proc : Goes(p)
  <1>a. "run" \in Proc /\ "pass" \in Proc
    BY DEF Proc
  <1>1. CASE StartRun \/ StartPass
    BY <1>1, <1>a, BeginCall DEF StartRun, StartPass, Begin, Goes
  <1>2. CASE ReadDelta \/ CancelSet \/ CancelAborts \/ SaveSettings \/ Tick
    BY <1>2 DEF ReadDelta, CancelSet, CancelAborts, SaveSettings, Tick
  <1> QED
    BY <1>a, <1>1, <1>2, RunGoes, RecordGoes, PassGoes DEF CallsNext

LEMMA AppendOne ==
  ASSUME NEW S, NEW x \in S, NEW y \in S
  PROVE  Append(<<x>>, y) = <<x, y>>
  <1> DEFINE s == Append(<<x>>, y)
  <1> DEFINE t == <<x, y>>
  <1>1. <<x>> \in Seq(S) /\ Len(<<x>>) = 1 /\ <<x>>[1] = x
    OBVIOUS
  <1>2. t \in Seq(S) /\ Len(t) = 2 /\ t[1] = x /\ t[2] = y
    OBVIOUS
  <1>3. s \in Seq(S) /\ Len(s) = 2 /\ s[1] = x /\ s[2] = y
    BY <1>1
  <1> HIDE DEF s, t
  <1>4. \A i \in 1..Len(s) : s[i] = t[i]
    BY <1>2, <1>3
  <1>5. s = t
    BY <1>2, <1>3, <1>4, SeqEqual
  <1> QED
    BY <1>5 DEF s, t

\* A record writes an entry, and the results that go with it.
LEMMA WriteType ==
  ASSUME TypeInv, NEW p \in Proc, RecordWrites(p)
  PROVE  /\ cache'.of \in 1 .. endpoint /\ cache'.models \in [Model -> Entries]
         /\ results' \in [Model -> Outcomes] /\ raced' \in BOOLEAN
  <1> DEFINE c == proc[p]
  <1> DEFINE standing == IF cache.of = c.endpoint THEN cache.models
                     ELSE [x \in Model |-> NoEntry]
  <1> DEFINE known == IF cache.of = c.endpoint THEN results
                      ELSE [x \in Model |-> <<>>]
  <1> DEFINE entry == IF c.ok THEN AfterSuccess(c.prev) ELSE AfterFailure(c.prev)
  <1>1. /\ c \in Calls /\ c.model \in Model /\ c.endpoint \in 1 .. endpoint
        /\ c.ok \in BOOLEAN /\ c.prev \in Entries
    BY DEF RecordWrites, Is, TypeInv, IsCall, Calls
  <1>2. entry \in Entries
    BY <1>1, EntryTypes
  <1>3. standing \in [Model -> Entries] /\ known \in [Model -> Outcomes]
    BY EntryTypes DEF TypeInv, Outcomes
  <1>4. /\ cache' = [of |-> c.endpoint,
                     models |-> [standing EXCEPT ![c.model] = entry]]
        /\ raced' = (raced \/ c.prev # standing[c.model])
        /\ results' = IF raced' THEN [x \in Model |-> <<>>]
                      ELSE [known EXCEPT ![c.model] =
                        Append(IF @ = <<>> THEN @ ELSE <<@[Len(@)]>>, c.ok)]
    BY DEF RecordWrites
  <1>5. \A o \in Outcomes, ok \in BOOLEAN :
          Append(IF o = <<>> THEN o ELSE <<o[Len(o)]>>, ok) \in Outcomes
    <2> SUFFICES ASSUME NEW o \in Outcomes, NEW ok \in BOOLEAN
                 PROVE  Append(IF o = <<>> THEN o ELSE <<o[Len(o)]>>, ok)
                          \in Outcomes
      OBVIOUS
    <2>1. CASE o = <<>>
      <3>1. Append(o, ok) = <<ok>>
        BY <2>1
      <3> QED
        BY <2>1, <3>1 DEF Outcomes
    <2>2. ASSUME NEW x \in BOOLEAN, o = <<x>> \/ \E y \in BOOLEAN : o = <<y, x>>
          PROVE  Append(IF o = <<>> THEN o ELSE <<o[Len(o)]>>, ok) \in Outcomes
      <3>1. o # <<>> /\ o[Len(o)] = x
        BY <2>2
      <3>2. Append(<<x>>, ok) = <<x, ok>>
        BY AppendOne
      <3> QED
        BY <3>1, <3>2 DEF Outcomes
    <2>3. \/ o = <<>>
          \/ \E x \in BOOLEAN : o = <<x>> \/ \E y \in BOOLEAN : o = <<y, x>>
      BY DEF Outcomes
    <2> QED
      BY <2>1, <2>2, <2>3
  <1>6. Append(IF known[c.model] = <<>> THEN known[c.model]
               ELSE <<known[c.model][Len(known[c.model])]>>, c.ok) \in Outcomes
    BY <1>1, <1>3, <1>5
  <1> HIDE DEF c, standing, known, entry
  <1>7. cache'.of \in 1 .. endpoint /\ cache'.models \in [Model -> Entries]
    BY <1>1, <1>2, <1>3, <1>4
  <1>8. raced' \in BOOLEAN
    BY <1>4 DEF TypeInv
  <1>9. results' \in [Model -> Outcomes]
    <2>1. [x \in Model |-> <<>>] \in [Model -> Outcomes]
      BY DEF Outcomes
    <2> QED
      BY <1>3, <1>4, <1>6, <2>1
  <1> QED
    BY <1>7, <1>8, <1>9

\* Only the second half of a record changes the cache.
LEMMA HealthKept ==
  ASSUME TypeInv, [CallsNext]_calls, ~\E p \in Proc : RecordWrites(p)
  PROVE  clock' \in 0 .. MaxClock /\ endpoint' \in endpoint .. Endpoints /\ UNCHANGED health
  <1>0. clock \in 0 .. MaxClock /\ endpoint \in endpoint .. Endpoints
    BY DEF TypeInv
  <1>1. CASE \/ RunNext \/ Connect \/ Opened \/ Register \/ ReadCancelled
             \/ ReadAnswer \/ Answered \/ ReadInvalid \/ ReadLost \/ Sleep
    BY <1>0, <1>1
    DEF RunNext, Connect, Opened, Register, ReadCancelled,
        ReadAnswer, Answered, ReadInvalid, ReadLost, Sleep
  <1>2. CASE \/ ReadDelta \/ CancelSet \/ CancelAborts \/ PassNext
             \/ Probed \/ StartRun \/ StartPass
    BY <1>0, <1>2
    DEF ReadDelta, CancelSet, CancelAborts, PassNext, Probed,
        StartRun, StartPass, Begin
  <1>5. CASE SaveSettings \/ Tick
    BY <1>5, ModelsAssumption DEF TypeInv, SaveSettings, Tick
  <1>3. CASE UNCHANGED calls
    BY <1>0, <1>3 DEF calls
  <1>4. CASE \E p \in Proc : RecordReads(p) \/ RecordRaises(p)
    BY <1>0, <1>4 DEF RecordReads, RecordRaises
  <1> QED
    BY <1>1, <1>2, <1>3, <1>4, <1>5 DEF CallsNext

LEMMA StepType ==
  ASSUME TypeInv, [CallsNext]_calls
  PROVE  TypeInv'
  <1>0. \A c : IsCall(c) /\ endpoint' \in endpoint .. Endpoints =>
            c \in Calls /\ (c.at # "idle" => c.model \in Model /\ c.endpoint \in 1 .. endpoint')
    BY DEF IsCall, TypeInv
  <1>1. proc' \in [Proc -> Calls] /\ \A p \in Proc : IsCall(proc'[p])
    <2>1. UNCHANGED proc \/ \E p \in Proc : Goes(p)
      BY NextGoes DEF calls
    <2>2. CASE UNCHANGED proc
      BY <2>2 DEF TypeInv
    <2>3. CASE \E p \in Proc : Goes(p)
      BY <2>3, SetCall DEF Goes
    <2> QED
      BY <2>1, <2>2, <2>3
  <1>2. CASE \E p \in Proc : RecordWrites(p)
    <2>1. PICK p \in Proc : RecordWrites(p)
      BY <1>2
    <2>2. UNCHANGED <<clock, endpoint, channel, cancel>>
      BY <2>1 DEF RecordWrites
    <2> QED
      BY <1>1, <2>1, <2>2, WriteType DEF TypeInv, channel, IsCall
  <1>3. CASE ~\E p \in Proc : RecordWrites(p)
    <2>1. clock' \in 0 .. MaxClock /\ endpoint' \in endpoint .. Endpoints /\ UNCHANGED health
      BY <1>3, HealthKept
    <2>3. \A p \in Proc : IsCall(proc[p])'
      BY <1>0, <1>1, <2>1 DEF IsCall
    <2>4. endpoint' \in 1 .. Endpoints /\ cache'.of \in 1 .. endpoint'
      BY <2>1 DEF TypeInv, health
    <2>2. /\ wire' \in {wire, "none", "open", "aborted"}
          /\ aborter' = aborter \/ aborter' \in BOOLEAN
          /\ cancel' \in {cancel, "no", "set", "done"}
      <3>1. CASE \/ RunNext \/ Connect \/ Opened \/ Register \/ ReadCancelled
                 \/ ReadAnswer \/ Answered \/ ReadInvalid \/ ReadLost \/ Sleep
        BY <3>1
        DEF channel, RunNext, Connect, Opened, Register, Hangup, ReadCancelled,
            ReadAnswer, Answered, ReadInvalid, ReadLost, Sleep
      <3>2. CASE \/ ReadDelta \/ CancelSet \/ CancelAborts \/ PassNext
                 \/ Probed \/ StartRun \/ StartPass \/ SaveSettings \/ Tick
        BY <3>2
        DEF channel, ReadDelta, CancelSet, CancelAborts, PassNext, Probed,
            StartRun, StartPass, SaveSettings, Tick
      <3>3. CASE UNCHANGED calls
        BY <3>3 DEF calls, channel
      <3>4. CASE \E p \in Proc : RecordReads(p) \/ RecordRaises(p)
        BY <3>4 DEF RecordReads, RecordRaises, channel
      <3> QED
        BY <1>3, <3>1, <3>2, <3>3, <3>4 DEF CallsNext
    <2> QED
      BY <1>1, <2>1, <2>2, <2>3, <2>4 DEF TypeInv, health
  <1> QED
    BY <1>2, <1>3

LEMMA InitType ==
  ASSUME CallsInit
  PROVE  TypeInv
  <1>1. NoEntry \in Entries
    BY NoEntryIs
  <1> QED
    <2>1. proc \in [Proc -> Calls] /\ \A p \in Proc : IsCall(proc[p])
      BY IdleCall DEF CallsInit, IsCall
    <2>2. cache.of \in 1 .. endpoint /\ cache.models \in [Model -> Entries]
      BY <1>1 DEF CallsInit
    <2>4. clock \in 0 .. MaxClock /\ endpoint \in 1 .. Endpoints
      BY ModelsAssumption DEF CallsInit
    <2>3. results \in [Model -> Outcomes]
      BY DEF CallsInit, Outcomes
    <2> QED
      BY <2>1, <2>2, <2>3, <2>4 DEF CallsInit, TypeInv

-----------------------------------------------------------------------------
(* What the run has registered with its cancellation: the response it      *)
(* holds from the answer to urlopen until it hangs up *)

CallInv ==
    /\ Is("run", "reading") /\ wire # "aborted" => aborter
    /\ aborter => Is("run", "reading") /\ wire = "open" /\ cancel # "done"
    /\ Is("run", "register") => wire = "open"
    /\ wire # "none" => Is("run", "register") \/ Is("run", "reading")

\* A step of the pass, or of a record, leaves the response of the run alone.
LEMMA StepCall ==
  ASSUME TypeInv, CallInv, [CallsNext]_calls
  PROVE  CallInv'
  <1>a. "run" \in Proc /\ "pass" \in Proc /\ "run" # "pass"
        /\ proc["run"] \in Calls
    BY DEF Proc, TypeInv
  <1>b. \A at : To("run", at) => proc'["run"].at = at
    BY <1>a DEF To, Set, TypeInv, Calls
  <1>c. End("run") => proc'["run"].at = "idle"
    BY <1>a, IdleCall DEF End, Set, TypeInv
  <1>d. ASSUME NEW c, Set("pass", c)
        PROVE  proc'["run"] = proc["run"]
    BY <1>a, <1>d DEF Set, TypeInv
  <1>1. CASE UNCHANGED <<proc, channel, cancel>>
    BY <1>1 DEF CallInv, Is, channel
  <1>2. ASSUME NEW p \in Proc,
               RecordReads(p) \/ RecordWrites(p) \/ RecordRaises(p)
        PROVE  CallInv'
    <2>1. UNCHANGED <<channel, cancel>> /\ proc[p].at \in {"record", "write"}
      BY <1>2 DEF RecordReads, RecordWrites, RecordRaises, Is
    <2>2. PICK c : IsCall(c) /\ Set(p, c) /\ c.at \notin {"register", "reading"}
      <3>1. CASE RecordReads(p)
        <4>1. Entry(proc[p].endpoint, proc[p].model) \in Entries
          BY <2>1, EntryTypes DEF TypeInv, IsCall
        <4>2. "write" \in Points /\ 0 \in Nat /\ TRUE \in BOOLEAN
          BY DEF Points
        <4> DEFINE c == [proc[p] EXCEPT !.at = "write",
                            !.prev = Entry(proc[p].endpoint, proc[p].model)]
        <4>a. ASSUME NEW prev \in Entries
              PROVE  /\ IsCall([proc[p] EXCEPT !.at = "write", !.prev = prev])
                     /\ [proc[p] EXCEPT !.at = "write", !.prev = prev].at = "write"
          <5>1. proc[p].at # "idle"
            BY <2>1
          <5>2. /\ proc[p] \in Calls /\ proc[p].model \in Model
                /\ proc[p].endpoint \in 1 .. endpoint
            BY <5>1 DEF TypeInv, IsCall
          <5> DEFINE w == "write"  r == [proc[p] EXCEPT !.at = w, !.prev = prev]
          <5> DEFINE tries == proc[p].tries  ok == proc[p].ok
          <5>3. Alters(proc[p], r, w, tries, ok, prev)
            BY DEF Alters
          <5>7. tries \in Nat /\ ok \in BOOLEAN
            BY <5>2 DEF Calls
          <5>4. w \in Points
            BY <4>2
          <5> HIDE DEF w, r, tries, ok
          <5>5. r \in Calls /\ r.at = w /\ r.model = proc[p].model
                /\ r.endpoint = proc[p].endpoint
            BY <4>a, <5>2, <5>3, <5>4, <5>7, FieldSet
          <5>6. IsCall(r) /\ r.at = w
            BY <5>2, <5>5 DEF IsCall
          <5> QED
            BY <5>6 DEF w, r
        <4>3. IsCall(c) /\ c.at = "write"
          BY <4>1, <4>a
        <4>4. Set(p, c)
          BY <3>1 DEF RecordReads
        <4> QED
          BY <4>3, <4>4
      <3>2. CASE RecordWrites(p)
        BY <2>1, <3>2, AdvanceCall, IdleCall DEF RecordWrites, End
      <3>3. CASE RecordRaises(p)
        BY <3>3, IdleCall DEF RecordRaises, End
      <3> QED
        BY <1>2, <3>1, <3>2, <3>3
    <2>3. CASE p = "run"
      <3>1. proc'["run"] = c /\ ~aborter /\ wire = "none"
        BY <2>1, <2>2, <2>3, SetCall DEF CallInv, Is
      <3> QED
        BY <2>1, <2>2, <3>1 DEF CallInv, Is, channel
    <2>4. CASE p # "run"
      <3>1. proc'["run"] = proc["run"]
        BY <1>a, <2>2, <2>4, SetCall
      <3> QED
        BY <2>1, <3>1 DEF CallInv, Is, channel
    <2> QED
      BY <2>3, <2>4
  <1>3. CASE RunNext
    <2>1. Is("run", "next") /\ UNCHANGED <<wire, aborter, cancel>>
      BY <1>3 DEF RunNext
    <2>2. proc'["run"].at \notin {"register", "reading"}
      <3>1. proc["run"].at # "idle" /\ (Advance("run") => proc'["run"].at \notin {"register", "reading"})
        BY <1>a, <2>1, AdvanceCall, SetCall DEF Is
      <3> QED
        BY <1>3, <1>b, <1>c, <3>1 DEF RunNext
    <2> QED
      BY <2>1, <2>2 DEF CallInv, Is
  <1>4. CASE Connect
    <2>1. Is("run", "connect") /\ UNCHANGED <<wire, aborter, cancel>>
      BY <1>4 DEF Connect, channel
    <2>2. proc'["run"].at \notin {"register", "reading"}
      <3>1. CASE Cancelled
        BY <1>4, <1>c, <3>1 DEF Connect
      <3>2. CASE ~Cancelled
        BY <1>4, <1>a, <3>2, ZenonT(60) DEF Connect, Set, TypeInv, Calls
      <3> QED
        BY <3>1, <3>2
    <2> QED
      BY <2>1, <2>2 DEF CallInv, Is
  <1>5. CASE Opened
    <2>1. Is("run", "opening") /\ UNCHANGED <<aborter, cancel>>
      BY <1>5 DEF Opened
    <2>2. \/ proc'["run"].at = "register" /\ wire' = "open"
          \/ proc'["run"].at \notin {"register", "reading"} /\ UNCHANGED wire
      BY <1>5, <1>b, <1>c DEF Opened, TryFailed
    <2> QED
      BY <2>1, <2>2 DEF CallInv, Is
  <1>6. CASE Register
    <2>1. /\ Is("run", "register") /\ UNCHANGED cancel
          /\ aborter' = ~Cancelled
          /\ wire' = IF Cancelled THEN "aborted" ELSE wire
          /\ proc'["run"].at = "reading"
      BY <1>6, <1>b DEF Register
    <2> QED
      BY <2>1 DEF CallInv, Is, Cancelled
  <1>7. CASE ReadCancelled \/ ReadAnswer \/ ReadInvalid \/ ReadLost
    <2>1. aborter' = FALSE /\ wire' = "none"
      BY <1>7 DEF ReadCancelled, ReadAnswer, ReadInvalid, ReadLost, Hangup
    <2>2. proc'["run"].at \notin {"register", "reading"}
      BY <1>7, <1>b, <1>c
      DEF ReadCancelled, ReadAnswer, ReadInvalid, ReadLost, TryFailed
    <2> QED
      BY <2>1, <2>2 DEF CallInv, Is
  <1>8. CASE ReadDelta
    BY <1>8 DEF ReadDelta, CallInv, Is
  <1>9. CASE Answered
    <2>1. Is("run", "answered") /\ UNCHANGED <<wire, aborter, cancel>>
      BY <1>9 DEF Answered
    <2>2. proc'["run"].at \notin {"register", "reading"}
      <3>1. CASE End("run")
        BY <1>c, <3>1
      <3>2. CASE Set("run", [proc["run"] EXCEPT !.at = "connect", !.tries = 0])
        <4>1. proc'["run"].at = "connect"
          BY <1>a, <3>2 DEF Set, TypeInv, Calls
        <4> QED
          BY <4>1
      <3>3. CASE Set("run", [proc["run"] EXCEPT !.at = "record", !.ok = TRUE])
        <4>1. proc'["run"].at = "record"
          BY <1>a, <3>3 DEF Set, TypeInv, Calls
        <4> QED
          BY <4>1
      <3> QED
        BY <1>9, <3>1, <3>2, <3>3 DEF Answered
    <2> QED
      BY <2>1, <2>2 DEF CallInv, Is
  <1>10. CASE Sleep
    <2>1. Is("run", "sleep") /\ UNCHANGED <<wire, aborter, cancel>>
      BY <1>10 DEF Sleep, channel
    <2>2. proc'["run"].at \notin {"register", "reading"}
      BY <1>10, <1>b, <1>c DEF Sleep
    <2> QED
      BY <2>1, <2>2 DEF CallInv, Is
  <1>11. CASE CancelSet
    BY <1>11 DEF CancelSet, CallInv, Is, channel
  <1>12. CASE CancelAborts
    BY <1>12 DEF CancelAborts, CallInv, Is, TypeInv
  <1>13. CASE PassNext \/ Probed
    <2>1. UNCHANGED <<channel, cancel>>
      BY <1>13 DEF PassNext, Probed
    <2>2. proc'["run"] = proc["run"]
      BY <1>13, <1>a, PassGoes, SetCall DEF Goes
    <2> QED
      BY <2>1, <2>2 DEF CallInv, Is, channel
  <1>14. CASE StartRun
    <2>1. proc["run"] = NoCall /\ UNCHANGED channel
      BY <1>14 DEF StartRun, Begin
    <2>2. proc'["run"].at = "next"
      <3>1. [NoCall EXCEPT !.at = "next", !.endpoint = endpoint, !.model = 1].at
              = "next"
        BY DEF NoCall
      <3> QED
        BY <1>14, <1>a, <3>1 DEF StartRun, Begin, Set, TypeInv
    <2> QED
      BY <2>1, <2>2, IdleCall DEF CallInv, Is, channel
  <1>15. CASE StartPass
    <2>1. UNCHANGED <<channel, cancel>>
      BY <1>15 DEF StartPass
    <2>2. proc'["run"] = proc["run"]
      BY <1>15, <1>d DEF StartPass, Begin
    <2> QED
      BY <2>1, <2>2 DEF CallInv, Is, channel
  <1>16. CASE SaveSettings \/ Tick \/ UNCHANGED calls
    BY <1>1, <1>16 DEF SaveSettings, Tick, calls
  <1> QED
    BY <1>2, <1>3, <1>4, <1>5, <1>6, <1>7, <1>8, <1>9, <1>10, <1>11, <1>12,
       <1>13, <1>14, <1>15, <1>16 DEF CallsNext

-----------------------------------------------------------------------------
(* What an entry says of the last results of its model *)

Follows(e, r) ==
    /\ e.open <=> e.failures >= Threshold
    /\ e.open <=> r = <<FALSE, FALSE>>
    /\ e.failures = 0 <=> (r = <<>> \/ r[Len(r)])

HealthInv == ~raced => \A m \in Model : Follows(cache.models[m], results[m])

\* The result that is kept beside a new one is the last one.
Later(r, ok) == Append(IF r = <<>> THEN r ELSE <<r[Len(r)]>>, ok)

LEMMA LaterIs ==
  ASSUME NEW r \in Outcomes, NEW ok \in BOOLEAN
  PROVE  /\ Later(r, ok) # <<>> /\ Later(r, ok)[Len(Later(r, ok))] = ok
         /\ (Later(r, ok) = <<FALSE, FALSE>>)
              <=> ~(r = <<>> \/ r[Len(r)]) /\ ~ok
  <1>1. CASE r = <<>>
    <2>1. Later(r, ok) = <<ok>>
      BY <1>1 DEF Later
    <2>2. <<ok>> # <<FALSE, FALSE>> /\ <<ok>> # <<>> /\ <<ok>>[Len(<<ok>>)] = ok
      <3>1. Len(<<ok>>) = 1 /\ Len(<<FALSE, FALSE>>) = 2
        OBVIOUS
      <3> QED
        BY <3>1
    <2> QED
      BY <1>1, <2>1, <2>2
  <1>2. CASE r # <<>>
    <2> DEFINE x == r[Len(r)]
    <2>1. x \in BOOLEAN
      BY <1>2 DEF Outcomes
    <2>2. Later(r, ok) = <<x, ok>>
      <3>1. Later(r, ok) = Append(<<x>>, ok)
        BY <1>2 DEF Later
      <3> HIDE DEF x
      <3> QED
        BY <2>1, <3>1, AppendOne
    <2> HIDE DEF x
    <2>3. <<x, ok>> # <<>> /\ <<x, ok>>[Len(<<x, ok>>)] = ok
      OBVIOUS
    <2>4. <<x, ok>> = <<FALSE, FALSE>> <=> ~x /\ ~ok
      BY <2>1
    <2> QED
      BY <1>2, <2>2, <2>3, <2>4 DEF x
  <1> QED
    BY <1>1, <1>2

\* A record that was built on the entry it replaces keeps them in step.
LEMMA RecordFollows ==
  ASSUME TypeInv, NEW prev \in Entries, NEW r \in Outcomes, Follows(prev, r)
  PROVE  /\ Follows(AfterSuccess(prev), Later(r, TRUE))
         /\ Follows(AfterFailure(prev), Later(r, FALSE))
  <1>1. Follows(AfterSuccess(prev), Later(r, TRUE))
    <2>1. AfterSuccess(prev).open = FALSE /\ AfterSuccess(prev).failures = 0
      BY DEF AfterSuccess, Entries
    <2>2. /\ Later(r, TRUE)[Len(Later(r, TRUE))] = TRUE
          /\ Later(r, TRUE) # <<FALSE, FALSE>>
      BY LaterIs
    <2> DEFINE e == AfterSuccess(prev)
    <2> DEFINE l == Later(r, TRUE)
    <2> HIDE DEF e, l
    <2>3. (e.open <=> e.failures >= Threshold) /\ (e.open <=> l = <<FALSE, FALSE>>)
      <3>1. ~e.open /\ l # <<FALSE, FALSE>>
        BY <2>1, <2>2 DEF e, l
      <3>2. ~(e.failures >= Threshold)
        BY <2>1 DEF Threshold, e
      <3> QED
        BY <3>1, <3>2
    <2>4. e.failures = 0 /\ l[Len(l)]
      BY <2>1, <2>2 DEF e, l
    <2>5. Follows(e, l)
      BY <2>3, <2>4 DEF Follows
    <2> QED
      BY <2>5 DEF e, l
  <1>2. Follows(AfterFailure(prev), Later(r, FALSE))
    <2> DEFINE n == prev.failures + 1
    <2>1. prev.failures \in Nat
      BY DEF Entries
    <2>2. AfterFailure(prev).open = (n >= 2) /\ AfterFailure(prev).failures = n
      BY DEF AfterFailure, Threshold
    <2>3. /\ Later(r, FALSE) # <<>> /\ Later(r, FALSE)[Len(Later(r, FALSE))] = FALSE
          /\ (Later(r, FALSE) = <<FALSE, FALSE>>) <=> ~(r = <<>> \/ r[Len(r)])
      BY LaterIs
    <2>4. n >= 2 <=> ~(r = <<>> \/ r[Len(r)])
      BY <2>1 DEF Follows
    <2>5. n # 0
      BY <2>1
    <2> QED
      BY <2>2, <2>3, <2>4, <2>5 DEF Follows, Threshold
  <1> QED
    BY <1>1, <1>2

LEMMA StepHealth ==
  ASSUME TypeInv, HealthInv, [CallsNext]_calls
  PROVE  HealthInv'
  <1>1. CASE \E p \in Proc : RecordWrites(p)
    <2> SUFFICES ASSUME ~raced' PROVE \A m \in Model : Follows(cache'.models[m], results'[m])
      BY DEF HealthInv
    <2>1. PICK p \in Proc : RecordWrites(p)
      BY <1>1
    <2> DEFINE c == proc[p]
    <2> DEFINE standing == IF cache.of = c.endpoint THEN cache.models
                       ELSE [x \in Model |-> NoEntry]
    <2> DEFINE known == IF cache.of = c.endpoint THEN results
                        ELSE [x \in Model |-> <<>>]
    <2> DEFINE entry == IF c.ok THEN AfterSuccess(c.prev)
                        ELSE AfterFailure(c.prev)
    <2>2. c \in Calls /\ c.model \in Model /\ c.ok \in BOOLEAN /\ c.prev \in Entries
      BY <2>1 DEF RecordWrites, Is, TypeInv, IsCall, Calls
    <2>3. standing \in [Model -> Entries] /\ known \in [Model -> Outcomes]
      BY EntryTypes DEF TypeInv, Outcomes
    <2>4. /\ cache'.models = [standing EXCEPT ![c.model] = entry]
          /\ raced' = (raced \/ c.prev # standing[c.model])
          /\ results' = [known EXCEPT ![c.model] =
                          Append(IF @ = <<>> THEN @ ELSE <<@[Len(@)]>>, c.ok)]
      BY <2>1 DEF RecordWrites
    <2>5. \A m \in Model : Follows(standing[m], known[m])
      <3>1. CASE cache.of = c.endpoint
        BY <2>4, <3>1 DEF HealthInv
      <3>2. CASE cache.of # c.endpoint
        <4>1. Follows(NoEntry, <<>>)
          <5>1. NoEntry.open = FALSE /\ NoEntry.failures = 0
            BY DEF NoEntry
          <5>2. <<>> # <<FALSE, FALSE>>
            OBVIOUS
          <5>3. ~(NoEntry.failures >= Threshold)
            BY <5>1 DEF Threshold
          <5> QED
            BY <5>1, <5>2, <5>3 DEF Follows
        <4> QED
          BY <3>2, <4>1
      <3> QED
        BY <3>1, <3>2
    <2>6. c.prev = standing[c.model]
      BY <2>4
    <2>7. Follows(entry, Later(known[c.model], c.ok))
      <3>1. /\ Follows(AfterSuccess(c.prev), Later(known[c.model], TRUE))
            /\ Follows(AfterFailure(c.prev), Later(known[c.model], FALSE))
        <4>1. Follows(c.prev, known[c.model]) /\ known[c.model] \in Outcomes
          BY <2>2, <2>3, <2>5, <2>6
        <4> HIDE DEF c, standing, known
        <4> QED
          BY <2>2, <4>1, RecordFollows
      <3> HIDE DEF known
      <3>2. CASE c.ok
        <4>1. c.ok = TRUE
          BY <2>2, <3>2
        <4> QED
          BY <3>1, <4>1
      <3>3. CASE ~c.ok
        <4>1. c.ok = FALSE
          BY <2>2, <3>3
        <4> QED
          BY <3>1, <4>1
      <3> QED
        BY <3>2, <3>3
    <2>8. results' = [known EXCEPT ![c.model] = Later(known[c.model], c.ok)]
      BY <2>4 DEF Later
    <2> HIDE DEF c, standing, known, entry
    <2> QED
      BY <2>2, <2>3, <2>4, <2>5, <2>7, <2>8
  <1>2. CASE ~\E p \in Proc : RecordWrites(p)
    BY <1>2, HealthKept DEF HealthInv, health
  <1> QED
    BY <1>1, <1>2

\* The run that waits for its next candidate moves in RunNext alone.
LEMMA RunMoves ==
  ASSUME TypeInv, CallsNext, Is("run", "next"),
         proc'["run"] # proc["run"]
  PROVE  RunNext
  <1>a. "run" \in Proc /\ "pass" \in Proc /\ "run" # "pass" /\ proc["run"] # NoCall
    BY IdleCall DEF Proc, Is
  <1>1. ASSUME NEW p \in Proc,
               RecordReads(p) \/ RecordWrites(p) \/ RecordRaises(p)
        PROVE  FALSE
    <2>1. p # "run"
      BY <1>1 DEF RecordReads, RecordWrites, RecordRaises, Is
    <2>2. PICK c : IsCall(c) /\ Set(p, c)
      BY <1>1, RecordGoes DEF Goes
    <2>3. proc'["run"] = proc["run"]
      BY <1>a, <2>1, <2>2, SetCall
    <2> QED
      BY <2>3
  <1>2. ~(PassNext \/ Probed)
    <2> SUFFICES ASSUME PassNext \/ Probed PROVE FALSE
      OBVIOUS
    <2>1. PICK c : IsCall(c) /\ Set("pass", c)
      BY PassGoes DEF Goes
    <2>2. proc'["run"] = proc["run"]
      BY <1>a, <2>1, SetCall
    <2> QED
      BY <2>2
  <1>3. ~StartPass
    <2> SUFFICES ASSUME StartPass PROVE FALSE
      OBVIOUS
    <2>1. PICK c : IsCall(c) /\ Set("pass", c)
      BY BeginCall DEF StartPass, Begin
    <2>2. proc'["run"] = proc["run"]
      BY <1>a, <2>1, SetCall
    <2> QED
      BY <2>2
  <1>4. /\ ~Connect /\ ~Opened /\ ~Register /\ ~ReadCancelled /\ ~ReadAnswer
        /\ ~Answered /\ ~ReadInvalid /\ ~ReadLost /\ ~Sleep /\ ~StartRun
    BY <1>a
    DEF Is, Connect, Opened, Register, ReadCancelled, ReadAnswer, Answered,
        ReadInvalid, ReadLost, Sleep, StartRun, Begin
  <1>5. ~(ReadDelta \/ CancelSet \/ CancelAborts \/ SaveSettings \/ Tick)
    BY DEF ReadDelta, CancelSet, CancelAborts, SaveSettings, Tick
  <1> QED
    BY <1>1, <1>2, <1>3, <1>4, <1>5 DEF CallsNext

\* An open entry is one of this endpoint, and has two failures to show.
LEMMA SkipStep ==
  ASSUME TypeInv, HealthInv, [CallsNext]_calls
  PROVE  (/\ Is("run", "next") /\ ~Cancelled /\ ~raced
          /\ proc'["run"] # proc["run"] /\ proc'["run"].at # "connect")
           => /\ cache.of = proc["run"].endpoint
              /\ results[proc["run"].model] = <<FALSE, FALSE>>
  <1> SUFFICES ASSUME Is("run", "next"), ~Cancelled, ~raced,
                      proc'["run"] # proc["run"], proc'["run"].at # "connect"
               PROVE  /\ cache.of = proc["run"].endpoint
                      /\ results[proc["run"].model] = <<FALSE, FALSE>>
    OBVIOUS
  <1> DEFINE c == proc["run"]
  <1>1. RunNext
    BY RunMoves DEF calls
  <1>2. "run" \in Proc /\ c \in Calls /\ c.model \in Model
    BY DEF Proc, TypeInv, IsCall, Is
  <1>3. ~To("run", "connect")
    BY <1>2 DEF To, Set, TypeInv, Calls
  <1>4. CircuitState(Entry(c.endpoint, c.model)) = "open"
    BY <1>1, <1>3 DEF RunNext
  <1>5. Entry(c.endpoint, c.model).open
    BY <1>4 DEF CircuitState
  <1>6. cache.of = c.endpoint /\ cache.models[c.model].open
    BY <1>5 DEF Entry, NoEntry
  <1> QED
    BY <1>2, <1>6 DEF HealthInv, Follows

-----------------------------------------------------------------------------
(* Theorems *)

LEMMA CallsInvariant ==
  CallsSpec => [](TypeInv /\ CallInv /\ HealthInv)
  <1>1. CallsInit => TypeInv /\ CallInv /\ HealthInv
    <2> SUFFICES ASSUME CallsInit PROVE TypeInv /\ CallInv /\ HealthInv
      OBVIOUS
    <2>1. CallInv
      BY IdleCall DEF CallsInit, CallInv, Is, Proc
    <2>2. HealthInv
      <3>1. NoEntry.open = FALSE /\ NoEntry.failures = 0
        BY DEF NoEntry
      <3>2. Follows(NoEntry, <<>>)
        <4>1. <<>> # <<FALSE, FALSE>>
          OBVIOUS
        <4>2. ~(NoEntry.failures >= Threshold)
          BY <3>1 DEF Threshold
        <4> QED
          BY <3>1, <4>1, <4>2 DEF Follows
      <3> QED
        BY <3>2 DEF CallsInit, HealthInv
    <2> QED
      BY <2>1, <2>2, InitType
  <1>2. TypeInv /\ CallInv /\ HealthInv /\ [CallsNext]_calls
          => (TypeInv /\ CallInv /\ HealthInv)'
    BY StepType, StepCall, StepHealth
  <1> QED
    BY <1>1, <1>2, PTL DEF CallsSpec

\* Every value of the calls has its type: an entry is open from the second
\* failure on and for a cooldown at most, the cache is of an endpoint that was
\* set, and a response is held, and registered, only by the run that reads it.
THEOREM CallTypes ==
  CallsSpec => []CallsTypeOK
  <1>1. TypeInv /\ CallInv => CallsTypeOK
    <2> SUFFICES ASSUME TypeInv, CallInv PROVE CallsTypeOK
      OBVIOUS
    <2>1. ASSUME NEW m \in Model
          PROVE  /\ cache.models[m].open = (cache.models[m].failures >= Threshold)
                 /\ cache.models[m].until \in 0 .. (MaxClock + MaxCooldown)
                 /\ Len(results[m]) <= 2
      <3>1. cache.models[m] \in Entries /\ results[m] \in Outcomes
        BY DEF TypeInv
      <3>2. Len(results[m]) <= 2
        <4> DEFINE n == Len(results[m])
        <4>1. CASE results[m] = <<>>
          <5>1. n = 0
            BY <4>1
          <5> HIDE DEF n
          <5>2. n <= 2
            BY <5>1
          <5> QED
            BY <5>2 DEF n
        <4>2. ASSUME NEW x \in BOOLEAN, results[m] = <<x>>
              PROVE  n <= 2
          <5>1. n = 1
            BY <4>2
          <5> HIDE DEF n
          <5> QED
            BY <5>1
        <4>3. ASSUME NEW x \in BOOLEAN, NEW y \in BOOLEAN, results[m] = <<x, y>>
              PROVE  n <= 2
          <5>1. n = 2
            BY <4>3
          <5> HIDE DEF n
          <5> QED
            BY <5>1
        <4>4. \/ results[m] = <<>> \/ \E x \in BOOLEAN : results[m] = <<x>>
              \/ \E x \in BOOLEAN, y \in BOOLEAN : results[m] = <<x, y>>
          BY <3>1 DEF Outcomes
        <4> QED
          BY <4>1, <4>2, <4>3, <4>4
      <3> QED
        BY <3>1, <3>2 DEF Entries, Deadlines
    <2>2. /\ clock \in 0..MaxClock /\ endpoint \in 1..Endpoints
          /\ cache.of \in 1..endpoint
      BY DEF TypeInv
    <2>3. /\ wire # "none" => proc["run"].at \in {"register", "reading"}
          /\ aborter => wire = "open" /\ ~(cancel = "done")
      BY DEF CallInv, Is
    <2> QED
      BY <2>1, <2>2, <2>3 DEF CallsTypeOK
  <1> QED
    BY <1>1, CallsInvariant, PTL

\* Once a cancellation is over, the run it is for does not wait on an open
\* response: whichever of register() and cancel() came first, one of them has
\* aborted it.
THEOREM CancelledRunsWake ==
  CallsSpec => []CancelUnblocks
  <1>1. TypeInv /\ CallInv => CancelUnblocks
    BY DEF CallInv, CancelUnblocks, Is
  <1> QED
    BY <1>1, CallsInvariant, PTL

\* While no record is built on an entry another one replaces, a circuit is
\* open exactly after two failures in a row.
THEOREM CircuitsFollowResults ==
  CallsSpec => []BreakerFollowsResults
  <1>1. HealthInv => BreakerFollowsResults
    BY DEF HealthInv, BreakerFollowsResults, Follows
  <1> QED
    BY <1>1, CallsInvariant, PTL

\* A run passes a model by only for two failures in a row at its own endpoint.
THEOREM SkipsHaveReason ==
  CallsSpec => SkippedIsBroken
  <1>1. TypeInv /\ HealthInv /\ [CallsNext]_calls =>
          [(/\ Is("run", "next") /\ ~Cancelled /\ ~raced
            /\ proc'["run"] # proc["run"] /\ proc'["run"].at # "connect")
             => /\ cache.of = proc["run"].endpoint
                /\ results[proc["run"].model] = <<FALSE, FALSE>>]_calls
    BY SkipStep
  <1> QED
    BY <1>1, CallsInvariant, PTL DEF CallsSpec, SkippedIsBroken

HIDE ModelsAssumption

-----------------------------------------------------------------------------
(***************************************************************************)
(* Proofs about CrashPipeline: its types, that the rows of the collector   *)
(* always have what backs them, and that a report filed as sent is stored. *)
(*                                                                         *)
(* The argument is about one day and one fingerprint at a time: requests   *)
(* do not outlive a day, so that a sweep, which only takes rows and        *)
(* objects of earlier days, never meets what a request is storing; and a   *)
(* reservation is kept by one request until it is marked or removed.       *)
(***************************************************************************)
USE ReportAssumption

-----------------------------------------------------------------------------
(* The inductive invariant *)

Named == Report \cup {NoReport}
RequestPlaces == {"none", "limit", "reserve", "lookup", "put", "mark", "clean"}
Storing == {"put", "mark", "clean"}

Types ==
    /\ place \in [Report -> {"none", "pending", "sent", "deleted"}]
    /\ print \in [Report -> Fingerprint]
    /\ client \in [Submitter -> [at : {"idle", "waiting", "record"}, of : Named]]
    /\ req \in [Submitter -> [at : RequestPlaces, of : Named, key : Named \X Nat]]
    /\ rows \in [Fingerprint ->
                   {NoRow} \cup [id : Report, stored : BOOLEAN, day : Nat]]
    /\ objects \subseteq Report \X Nat
    /\ day \in Nat \ {0}
    /\ sweep \in [at : {"none", "rows", "objects"}, keys : SUBSET (Report \X Nat),
                  before : Nat]
    /\ swept \subseteq Fingerprint
    /\ unclear \in BOOLEAN
    /\ troubles \in Nat

\* The report of an editor that waits or records, of a request and of a row has
\* been queued: its fingerprint does not change any more.
Queued(r) == r \in Report /\ place[r] # "none"

ClientInv ==
    \A s \in Submitter :
        /\ client[s].at # "idle" => Queued(client[s].of)
        /\ client[s].at = "waiting" =>
             req[s].at # "none" /\ req[s].of = client[s].of

\* A request is of today.
RequestInv ==
    \A s \in Submitter :
        req[s].at # "none" => Queued(req[s].of) /\ req[s].key = <<req[s].of, day>>

RowInv ==
    \A f \in Fingerprint :
        rows[f] # NoRow =>
            Queued(rows[f].id) /\ print[rows[f].id] = f /\ rows[f].day \in 1..day

ObjectInv == \A k \in objects : k[2] \in 1..day

\* A sweep is of earlier days, and takes the rows before it takes the objects.
SweepInv ==
    /\ sweep.before <= day
    /\ \A k \in sweep.keys : k[2] < sweep.before
    /\ sweep.at = "objects" =>
         \A f \in Fingerprint : rows[f] # NoRow => rows[f].day >= sweep.before

\* The row of a report that is being stored is of today, and its body is there
\* before it is marked.
StoreInv ==
    \A s \in Submitter :
        /\ req[s].at \in Storing =>
             \A f \in Fingerprint : rows[f].id = req[s].of => rows[f].day = day
        /\ req[s].at = "mark" => req[s].key \in objects

\* Unless an answer of the database was lost: a reservation is kept by its
\* request alone,
KeepInv ==
    ~unclear =>
        \A s \in Submitter : req[s].at \in Storing =>
            /\ rows[CrashOf(s)] = [id |-> req[s].of, stored |-> FALSE, day |-> day]
            /\ \A t \in Submitter : req[t].at \in Storing /\ CrashOf(t) = CrashOf(s)
                 => s = t

\* and what an editor was told to be stored stays stored until a sweep.
Found(r) == print[r] \in swept \/ rows[print[r]].stored
FoundInv ==
    ~unclear =>
        /\ \A s \in Submitter : client[s].at = "record" => Found(client[s].of)
        /\ \A r \in Report : place[r] = "sent" => Found(r)

PipeInv ==
    /\ Types /\ ClientInv /\ RequestInv /\ RowInv /\ ObjectInv /\ SweepInv
    /\ StoreInv /\ KeepInv /\ FoundInv /\ RowsAreBacked

-----------------------------------------------------------------------------
(* Types, and what the steps of a request do *)

LEMMA SentinelTypes ==
    /\ IdleClient \in [at : {"idle", "waiting", "record"}, of : Named]
    /\ NoRequest \in [at : RequestPlaces, of : Named, key : Named \X Nat]
    /\ NoSweep \in [at : {"none", "rows", "objects"}, keys : SUBSET (Report \X Nat),
                    before : Nat]
  BY DEF IdleClient, NoRequest, NoSweep, Named, RequestPlaces

\* A request that goes on.
LEMMA ToEffect ==
    ASSUME Types, NEW s \in Submitter, NEW at \in RequestPlaces, Move(s, at)
    PROVE  /\ req' \in [Submitter -> [at : RequestPlaces, of : Named,
                                      key : Named \X Nat]]
           /\ client' = client
           /\ req'[s].at = at /\ req'[s].of = req[s].of /\ req'[s].key = req[s].key
           /\ \A t \in Submitter \ {s} : req'[t] = req[t]
<1>1. \A q \in [at : RequestPlaces, of : Named, key : Named \X Nat] :
        [q EXCEPT !.at = at] \in [at : RequestPlaces, of : Named, key : Named \X Nat]
  OBVIOUS
<1> QED BY <1>1 DEF Move, Types

\* A request that is answered: the editor records a success it waited for.
LEMMA AnswerEffect ==
    ASSUME Types, NEW s \in Submitter, NEW ok, Answer(s, ok)
    PROVE  /\ req' \in [Submitter -> [at : RequestPlaces, of : Named,
                                      key : Named \X Nat]]
           /\ client' \in [Submitter -> [at : {"idle", "waiting", "record"}, of : Named]]
           /\ req'[s].at = "none"
           /\ \A t \in Submitter \ {s} : req'[t] = req[t] /\ client'[t] = client[t]
           /\ \/ client'[s].at = "idle"
              \/ /\ ok /\ client[s].at = "waiting"
                 /\ client'[s].at = "record" /\ client'[s].of = client[s].of
<1>1. req' = [req EXCEPT ![s] = NoRequest]
  BY DEF Answer
<1>2. NoRequest.at = "none" /\ IdleClient.at = "idle"
  BY DEF NoRequest, IdleClient
<1>3. /\ req' \in [Submitter -> [at : RequestPlaces, of : Named, key : Named \X Nat]]
      /\ req'[s].at = "none"
      /\ \A t \in Submitter \ {s} : req'[t] = req[t]
  BY <1>1, <1>2, SentinelTypes DEF Types
<1>4. CASE ok /\ client[s].at = "waiting"
  <2>1. client' = [client EXCEPT ![s] = [client[s] EXCEPT !.at = "record"]]
    BY <1>4 DEF Answer
  <2>2. [client[s] EXCEPT !.at = "record"]
          \in [at : {"idle", "waiting", "record"}, of : Named]
    BY DEF Types
  <2> QED BY <1>3, <1>4, <2>1, <2>2 DEF Types
<1>5. CASE ~(ok /\ client[s].at = "waiting")
  <2>1. client' = [client EXCEPT ![s] = IdleClient]
    BY <1>5 DEF Answer
  <2> QED BY <1>2, <1>3, <2>1, SentinelTypes DEF Types
<1> QED BY <1>4, <1>5

\* The changes of the table.
Table == [Fingerprint -> {NoRow} \cup [id : Report, stored : BOOLEAN, day : Nat]]

LEMMA RowFields ==
    ASSUME Types, NEW f \in Fingerprint
    PROVE  /\ rows[f] = NoRow <=> rows[f].id = NoReport
           /\ rows[f] # NoRow => rows[f] \in [id : Report, stored : BOOLEAN, day : Nat]
           /\ ~NoRow.stored
  BY DEF Types, NoRow, NoReport

LEMMA InsertedType ==
    ASSUME Types, RequestInv, NEW s \in Submitter,
           req[s].at # "none"
    PROVE  /\ CrashOf(s) \in Fingerprint /\ req[s].of \in Report
           /\ req[s].key = <<req[s].of, day>>
           /\ Inserted(s) \in Table
           /\ Inserted(s)[CrashOf(s)] = [id |-> req[s].of, stored |-> FALSE, day |-> day]
           /\ \A f \in Fingerprint \ {CrashOf(s)} : Inserted(s)[f] = rows[f]
<1>1. req[s].of \in Report /\ req[s].key = <<req[s].of, day>>
  BY DEF RequestInv, Queued
<1>2. CrashOf(s) \in Fingerprint
  BY <1>1 DEF CrashOf, Types
<1>3. req[s].key[2] = day
  BY <1>1
<1>4. Inserted(s) = [rows EXCEPT ![CrashOf(s)] =
                        [id |-> req[s].of, stored |-> FALSE, day |-> day]]
  BY <1>3 DEF Inserted
<1>5. [id |-> req[s].of, stored |-> FALSE, day |-> day]
         \in [id : Report, stored : BOOLEAN, day : Nat]
  BY <1>1 DEF Types
<1> QED BY <1>1, <1>2, <1>4, <1>5 DEF Types, Table

LEMMA MarkedType ==
    ASSUME Types, NEW r \in Report
    PROVE  /\ Marked(r) \in Table
           /\ \A f \in Fingerprint :
                /\ rows[f].id = r =>
                     Marked(r)[f] = [id |-> rows[f].id, stored |-> TRUE, day |-> rows[f].day]
                /\ rows[f].id # r => Marked(r)[f] = rows[f]
<1>1. ASSUME NEW f \in Fingerprint, rows[f].id = r
      PROVE  /\ Marked(r)[f] = [id |-> r, stored |-> TRUE, day |-> rows[f].day]
             /\ [id |-> r, stored |-> TRUE, day |-> rows[f].day]
                  \in [id : Report, stored : BOOLEAN, day : Nat]
  <2>1. rows[f] \in [id : Report, stored : BOOLEAN, day : Nat]
    BY <1>1, RowFields
  <2> QED BY <1>1, <2>1 DEF Marked
<1>2. \A f \in Fingerprint : rows[f].id # r => Marked(r)[f] = rows[f]
  BY DEF Marked
<1> QED BY <1>1, <1>2 DEF Types, Table, Marked

LEMMA WithoutType ==
    ASSUME Types, NEW r
    PROVE  /\ RowsWithout(r) \in Table
           /\ \A f \in Fingerprint :
                RowsWithout(r)[f] = IF rows[f].id = r THEN NoRow ELSE rows[f]
  BY DEF Types, Table, RowsWithout

LEMMA TroublesType ==
    ASSUME Types, Works \/ Fails \/ \E s \in Submitter : CallFails(s)
    PROVE  troubles' \in Nat /\ troubles <= troubles'
  BY DEF Types, Works, Fails, CallFails

LEMMA TypesStep ==
    ASSUME Types, ClientInv, RequestInv, [ReportsNext]_reports
    PROVE  Types'
<1> USE DEF editor, table
<1>1. ASSUME NEW r \in Report, NEW f \in Fingerprint, QueueReport(r, f) PROVE Types'
  BY <1>1 DEF QueueReport, Types
<1>2. ASSUME NEW r \in Report, DeleteReport(r) PROVE Types'
  BY <1>2 DEF DeleteReport, Types
<1>3. ASSUME NEW s \in Submitter, NEW r \in Report, Submit(s, r) PROVE Types'
  <2>1. [at |-> "waiting", of |-> r] \in [at : {"idle", "waiting", "record"}, of : Named]
    BY DEF Named
  <2>2. [at |-> "limit", of |-> r, key |-> <<r, day>>]
          \in [at : RequestPlaces, of : Named, key : Named \X Nat]
    BY DEF Named, RequestPlaces, Types
  <2>3. req' \in [Submitter -> [at : RequestPlaces, of : Named, key : Named \X Nat]]
    BY <1>3, <2>2 DEF Submit, Types
  <2>4. client' \in [Submitter -> [at : {"idle", "waiting", "record"}, of : Named]]
    BY <1>3, <2>1 DEF Submit, Types
  <2> QED BY <1>3, <2>3, <2>4 DEF Submit, Types
<1>4. ASSUME NEW s \in Submitter, GivesUp(s) PROVE Types'
  BY <1>4, SentinelTypes DEF GivesUp, Types
<1>5. ASSUME NEW s \in Submitter, MoveToSent(s) PROVE Types'
  BY <1>5, SentinelTypes DEF MoveToSent, Types
<1>6. ASSUME NEW s \in Submitter, CheckLimit(s) PROVE Types'
  <2>1. troubles' \in Nat
    BY <1>6, TroublesType DEF CheckLimit
  <2>2. Answer(s, FALSE) \/ Move(s, "reserve")
    BY <1>6 DEF CheckLimit
  <2> QED BY <1>6, <2>1, <2>2, ToEffect, AnswerEffect DEF CheckLimit, At, Types, RequestPlaces
<1>7. ASSUME NEW s \in Submitter, Reserve(s) PROVE Types'
  <2>1. troubles' \in Nat
    BY <1>7, TroublesType DEF Reserve
  <2>2. Answer(s, FALSE) \/ Move(s, "put") \/ Move(s, "lookup")
    BY <1>7 DEF Reserve
  <2>3. rows' = rows \/ rows' = Inserted(s)
    BY <1>7 DEF Reserve
  <2>4. rows' \in Table
    <3>1. req[s].at # "none"
      BY <1>7 DEF Reserve, At
    <3>2. Inserted(s) \in Table
      BY <3>1, InsertedType
    <3> QED BY <2>3, <3>2 DEF Types, Table
  <2>5. unclear' \in BOOLEAN
    BY <1>7 DEF Reserve, Types
  <2> QED BY <1>7, <2>1, <2>2, <2>4, <2>5, ToEffect, AnswerEffect
          DEF Reserve, At, Types, Table, RequestPlaces
<1>8. ASSUME NEW s \in Submitter, Lookup(s) PROVE Types'
  <2>1. troubles' \in Nat
    BY <1>8, TroublesType DEF Lookup
  <2>2. \E ok : Answer(s, ok)
    BY <1>8 DEF Lookup
  <2> QED BY <1>8, <2>1, <2>2, AnswerEffect DEF Lookup, At, Types
<1>9. ASSUME NEW s \in Submitter, PutObject(s) PROVE Types'
  <2>1. troubles' \in Nat
    BY <1>9, TroublesType DEF PutObject
  <2>2. Move(s, "mark") \/ Move(s, "clean")
    BY <1>9 DEF PutObject
  <2>3. req[s].key \in Report \X Nat
    <3>1. req[s].at # "none"
      BY <1>9 DEF PutObject, At
    <3>2. req[s].of \in Report /\ req[s].key = <<req[s].of, day>>
      BY <3>1, InsertedType
    <3> QED BY <3>2 DEF Types
  <2>4. objects' \subseteq Report \X Nat
    BY <1>9, <2>3 DEF PutObject, Types
  <2> QED BY <1>9, <2>1, <2>2, <2>4, ToEffect DEF PutObject, At, Types, RequestPlaces
<1>10. ASSUME NEW s \in Submitter, MarkStored(s) PROVE Types'
  <2>1. troubles' \in Nat
    BY <1>10, TroublesType DEF MarkStored
  <2>2. Answer(s, TRUE) \/ Move(s, "clean")
    BY <1>10 DEF MarkStored
  <2>3. req[s].of \in Report
    BY <1>10, InsertedType DEF MarkStored, At
  <2>4. rows' \in Table
    <3>1. Marked(req[s].of) \in Table
      BY <2>3, MarkedType
    <3> QED BY <1>10, <3>1 DEF Types, Table, MarkStored
  <2>5. unclear' \in BOOLEAN
    BY <1>10 DEF MarkStored, Types
  <2> QED BY <1>10, <2>1, <2>2, <2>4, <2>5, ToEffect, AnswerEffect
          DEF MarkStored, At, Types, Table, RequestPlaces
<1>11. ASSUME NEW s \in Submitter, CleanReservation(s) PROVE Types'
  <2>1. troubles' \in Nat
    BY <1>11, TroublesType DEF CleanReservation, Clean
  <2>2. rows' \in Table
    BY <1>11, WithoutType DEF Types, Table, CleanReservation, Clean
  <2> QED BY <1>11, <2>1, <2>2, AnswerEffect DEF CleanReservation, Clean, At, Types, Table
<1>12. CASE CollectorStops
  BY <1>12, SentinelTypes, TroublesType DEF CollectorStops, Types
<1>13. CASE SweepSelect
  <2>1. {KeyOf(f) : f \in Expired(day)} \subseteq Report \X Nat
    BY DEF KeyOf, Expired, Types
  <2> QED BY <1>13, <2>1 DEF SweepSelect, Types
<1>14. CASE SweepRows
  <2>1. troubles' \in Nat
    BY <1>14, TroublesType DEF SweepRows
  <2>2. rows' \in Table
    BY <1>14 DEF SweepRows, Types, Table
  <2>3. swept' \subseteq Fingerprint
    BY <1>14 DEF SweepRows, Types, Expired
  <2> QED BY <1>14, <2>1, <2>2, <2>3, SentinelTypes DEF SweepRows, Types, Table
<1>15. CASE SweepObjects
  <2>1. troubles' \in Nat
    BY <1>15, TroublesType DEF SweepObjects
  <2> QED BY <1>15, <2>1, SentinelTypes DEF SweepObjects, Types
<1>16. CASE NextDay
  BY <1>16 DEF NextDay, Types
<1>17. CASE UNCHANGED reports
  BY <1>17 DEF reports, Types
<1> QED BY <1>1, <1>2, <1>3, <1>4, <1>5, <1>6, <1>7, <1>8, <1>9, <1>10, <1>11, <1>12,
        <1>13, <1>14, <1>15, <1>16, <1>17 DEF ReportsNext

-----------------------------------------------------------------------------
(* Requests and those who wait for them *)

\* The steps of createReport.
Handles(s) ==
    \/ CheckLimit(s) \/ Reserve(s) \/ Lookup(s)
    \/ PutObject(s) \/ MarkStored(s) \/ CleanReservation(s)

LEMMA HandlesEffect ==
    ASSUME Types, NEW s \in Submitter, Handles(s)
    PROVE  /\ UNCHANGED <<editor, day, sweep, swept>>
           /\ \/ \E ok : Answer(s, ok)
              \/ \E at \in RequestPlaces \ {"none"} : Move(s, at)
           /\ req[s].at # "none"
  BY DEF Handles, CheckLimit, Reserve, Lookup, PutObject, MarkStored, CleanReservation,
     Clean, At, RequestPlaces, table

\* What one step does to a request: it ends it, moves it on, or sends it.
LEMMA RequestSteps ==
    ASSUME Types, [ReportsNext]_reports, NEW t \in Submitter
    PROVE  \/ \E r \in Report : Submit(t, r)
           \/ /\ \/ req'[t].at = "none"
                 \/ /\ req[t].at # "none"
                    /\ req'[t].of = req[t].of /\ req'[t].key = req[t].key
              /\ \/ client'[t].at = "idle"
                 \/ client[t].at # "idle" /\ client'[t].of = client[t].of
              /\ client'[t].at = "waiting" =>
                    client[t] = client'[t] /\ (req'[t].at # "none" \/ req'[t] = req[t])
<1>0. NoRequest.at = "none" /\ IdleClient.at = "idle"
  BY DEF NoRequest, IdleClient
<1>1. ASSUME NEW s \in Submitter, Handles(s)
      PROVE  /\ \/ req'[t].at = "none"
                \/ /\ req[t].at # "none"
                   /\ req'[t].of = req[t].of /\ req'[t].key = req[t].key
             /\ \/ client'[t].at = "idle"
                \/ client[t].at # "idle" /\ client'[t].of = client[t].of
             /\ client'[t].at = "waiting" =>
                   client[t] = client'[t] /\ (req'[t].at # "none" \/ req'[t] = req[t])
  <2>1. ASSUME NEW ok, Answer(s, ok)
        PROVE  /\ t # s => req'[t] = req[t] /\ client'[t] = client[t]
               /\ t = s => /\ req'[t].at = "none"
                           /\ \/ client'[t].at = "idle"
                              \/ /\ client[t].at # "idle" /\ client'[t].of = client[t].of
                                 /\ client'[t].at = "record"
    BY <2>1, AnswerEffect
  <2>2. ASSUME NEW at \in RequestPlaces \ {"none"}, Move(s, at)
        PROVE  /\ t # s => req'[t] = req[t] /\ client'[t] = client[t]
               /\ t = s => /\ req'[t].at # "none" /\ client'[t] = client[t]
                           /\ req'[t].of = req[t].of /\ req'[t].key = req[t].key
    BY <2>2, ToEffect
  <2> QED BY <1>1, <2>1, <2>2, HandlesEffect DEF Types
<1>2. ASSUME NEW s \in Submitter, NEW r \in Report, Submit(s, r), s # t
      PROVE  req'[t] = req[t] /\ client'[t] = client[t]
  BY <1>2 DEF Submit, Types
<1>3. ASSUME NEW s \in Submitter, GivesUp(s) \/ MoveToSent(s)
      PROVE  /\ req'[t] = req[t]
             /\ client'[t] = client[t] \/ client'[t].at = "idle"
  BY <1>0, <1>3 DEF GivesUp, MoveToSent, Types
<1>4. CASE CollectorStops
  BY <1>0, <1>4 DEF CollectorStops, Types
<1>5. CASE UNCHANGED <<req, client>>
  BY <1>5 DEF Types
<1> QED BY <1>1, <1>2, <1>3, <1>4, <1>5 DEF Types, ReportsNext, reports, QueueReport, DeleteReport,
           SweepSelect, SweepRows, SweepObjects, NextDay, Handles

\* A report that was queued keeps its fingerprint.
LEMMA QueuedStays ==
    ASSUME Types, [ReportsNext]_reports, NEW r, Queued(r)
    PROVE  Queued(r)' /\ print'[r] = print[r]
<1>1. ASSUME NEW q \in Report, NEW f \in Fingerprint, QueueReport(q, f)
      PROVE  Queued(r)' /\ print'[r] = print[r]
  BY <1>1 DEF QueueReport, Queued, Types
<1>2. ASSUME NEW q \in Report, DeleteReport(q)
      PROVE  Queued(r)' /\ print'[r] = print[r]
  BY <1>2 DEF DeleteReport, Queued, Types
<1>3. ASSUME NEW s \in Submitter, MoveToSent(s)
      PROVE  Queued(r)' /\ print'[r] = print[r]
  BY <1>3 DEF MoveToSent, Queued, Types
<1>4. CASE UNCHANGED <<place, print>>
  BY <1>4 DEF Queued
<1> QED BY <1>1, <1>2, <1>3, <1>4, HandlesEffect DEF ReportsNext, reports, editor, Submit, GivesUp,
           CollectorStops, SweepSelect, SweepRows, SweepObjects, NextDay, Handles

LEMMA ClientRequestStep ==
    ASSUME Types, ClientInv, RequestInv, [ReportsNext]_reports
    PROVE  ClientInv' /\ RequestInv'
<1> SUFFICES ASSUME NEW t \in Submitter
             PROVE  /\ client'[t].at # "idle" => Queued(client[t].of)'
                    /\ client'[t].at = "waiting" =>
                         req'[t].at # "none" /\ req'[t].of = client'[t].of
                    /\ req'[t].at # "none" =>
                         Queued(req[t].of)' /\ req'[t].key = <<req'[t].of, day'>>
  BY DEF ClientInv, RequestInv
<1>1. ASSUME NEW r \in Report, Submit(t, r)
      PROVE  /\ client'[t].at # "idle" => Queued(client[t].of)'
             /\ client'[t].at = "waiting" =>
                  req'[t].at # "none" /\ req'[t].of = client'[t].of
             /\ req'[t].at # "none" =>
                  Queued(req[t].of)' /\ req'[t].key = <<req'[t].of, day'>>
  BY <1>1 DEF Submit, Types, Queued, editor
<1>2. req[t].at # "none" => day' = day
  BY HandlesEffect DEF ReportsNext, reports, QueueReport, DeleteReport, Submit, GivesUp,
     MoveToSent, Handles, CollectorStops, SweepSelect, SweepRows, SweepObjects, NextDay,
     NoRequest
<1>3. ASSUME NEW r, Queued(r) PROVE Queued(r)'
  BY <1>3, QueuedStays
<1>4. CASE ~ \E r \in Report : Submit(t, r)
  <2>1. client'[t].at # "idle" => Queued(client[t].of)'
    <3>1. client'[t].at # "idle" => Queued(client[t].of) /\ client'[t].of = client[t].of
      BY <1>4, RequestSteps DEF ClientInv
    <3> QED BY <3>1, <1>3 DEF Queued
  <2>2. req'[t].at # "none" =>
          Queued(req[t].of)' /\ req'[t].key = <<req'[t].of, day'>>
    <3>1. req'[t].at # "none" =>
            /\ Queued(req[t].of) /\ req'[t].of = req[t].of
            /\ req'[t].key = <<req[t].of, day>> /\ day' = day
      BY <1>2, <1>4, RequestSteps DEF RequestInv
    <3> QED BY <3>1, <1>3 DEF Queued
  <2>3. client'[t].at = "waiting" => req'[t].at # "none" /\ req'[t].of = client'[t].of
    BY <1>4, RequestSteps DEF ClientInv, Types
  <2> QED BY <2>1, <2>2, <2>3
<1> QED BY <1>1, <1>4

-----------------------------------------------------------------------------
(* The rows *)

NewRow(s) == [id |-> req[s].of, stored |-> FALSE, day |-> day]
MarkedRow(f) == [id |-> rows[f].id, stored |-> TRUE, day |-> rows[f].day]

\* What one step does to a row: it is inserted, marked, removed by its request, or
\* swept.
LEMMA RowSteps ==
    ASSUME Types, RequestInv, [ReportsNext]_reports, NEW f \in Fingerprint
    PROVE  \/ rows'[f] = rows[f]
           \/ \E s \in Submitter :
                /\ Reserve(s) /\ f = CrashOf(s) /\ rows[f] = NoRow
                /\ rows'[f] = NewRow(s)
           \/ \E s \in Submitter :
                MarkStored(s) /\ rows[f].id = req[s].of /\ rows'[f] = MarkedRow(f)
           \/ \E s \in Submitter :
                CleanReservation(s) /\ rows[f].id = req[s].of /\ rows'[f] = NoRow
           \/ SweepRows /\ f \in Expired(sweep.before) /\ rows'[f] = NoRow /\ f \in swept'
<1>1. CASE UNCHANGED rows
  BY <1>1
<1>2. ASSUME NEW s \in Submitter, Reserve(s)
      PROVE  rows'[f] = rows[f] \/
             (f = CrashOf(s) /\ rows[f] = NoRow /\ rows'[f] = NewRow(s))
  <2>1. req[s].at # "none"
    BY <1>2 DEF Reserve, At
  <2>2. rows' = rows \/ (rows' = Inserted(s) /\ rows[CrashOf(s)] = NoRow)
    BY <1>2 DEF Reserve
  <2> QED BY <2>1, <2>2, InsertedType DEF NewRow
<1>3. ASSUME NEW s \in Submitter, MarkStored(s)
      PROVE  rows'[f] = rows[f] \/ (rows[f].id = req[s].of /\ rows'[f] = MarkedRow(f))
  <2>1. req[s].at # "none"
    BY <1>3 DEF MarkStored, At
  <2>2. req[s].of \in Report
    BY <2>1, InsertedType
  <2>3. rows' = rows \/ rows' = Marked(req[s].of)
    BY <1>3 DEF MarkStored
  <2> QED BY <2>2, <2>3, MarkedType DEF MarkedRow
<1>4. ASSUME NEW s \in Submitter, CleanReservation(s)
      PROVE  rows'[f] = rows[f] \/ (rows[f].id = req[s].of /\ rows'[f] = NoRow)
  BY <1>4, WithoutType DEF CleanReservation, Clean
<1>5. CASE SweepRows
  BY <1>5 DEF SweepRows, table
<1> QED BY <1>1, <1>2, <1>3, <1>4, <1>5 DEF ReportsNext, reports, table, QueueReport, DeleteReport,
        Submit, GivesUp, MoveToSent, CheckLimit, Lookup, PutObject, CollectorStops,
        SweepSelect, SweepObjects, NextDay

\* Days pass only when no request is under way.
LEMMA DaySteps ==
    ASSUME Types, [ReportsNext]_reports
    PROVE  /\ day' \in Nat /\ day <= day'
           /\ \A s \in Submitter : req[s].at # "none" => day' = day
<1>1. CASE NextDay
  BY <1>1 DEF NextDay, Types, NoRequest
<1>2. CASE day' = day
  BY <1>2 DEF Types
<1> QED BY <1>1, <1>2, HandlesEffect DEF ReportsNext, reports, QueueReport, DeleteReport, Submit,
        GivesUp, MoveToSent, Handles, CollectorStops, SweepSelect, SweepRows, SweepObjects

LEMMA RowStep ==
    ASSUME Types, RequestInv, RowInv, [ReportsNext]_reports
    PROVE  RowInv'
<1> SUFFICES ASSUME NEW f \in Fingerprint, rows'[f] # NoRow
             PROVE  /\ Queued(rows[f].id)' /\ print'[rows'[f].id] = f
                    /\ rows'[f].day \in 1..day'
  BY DEF RowInv
<1>1. day \in Nat \ {0} /\ day' \in Nat /\ day <= day'
  BY DaySteps DEF Types
<1>2. ASSUME rows'[f].id = rows[f].id, rows'[f].day = rows[f].day, rows[f] # NoRow
      PROVE  /\ Queued(rows[f].id)' /\ print'[rows'[f].id] = f
             /\ rows'[f].day \in 1..day'
  <2>1. Queued(rows[f].id) /\ print[rows[f].id] = f /\ rows[f].day \in 1..day
    BY <1>2 DEF RowInv
  <2>2. place'[rows[f].id] # "none" /\ print'[rows[f].id] = f
    BY <2>1, QueuedStays DEF Queued
  <2> QED BY <1>1, <1>2, <2>1, <2>2 DEF Queued
<1>3. ASSUME NEW s \in Submitter, Reserve(s), f = CrashOf(s), rows'[f] = NewRow(s)
      PROVE  /\ Queued(rows[f].id)' /\ print'[rows'[f].id] = f
             /\ rows'[f].day \in 1..day'
  <2>1. Queued(req[s].of)
    BY <1>3 DEF Reserve, At, RequestInv
  <2>2. Queued(req[s].of) /\ place'[req[s].of] # "none"
          /\ print'[req[s].of] = print[req[s].of]
    BY <2>1, QueuedStays DEF Queued
  <2> QED BY <1>1, <1>3, <2>2 DEF Queued, NewRow, CrashOf
<1>4. ASSUME NEW s \in Submitter, MarkStored(s), rows[f].id = req[s].of,
             rows'[f] = MarkedRow(f)
      PROVE  rows[f] # NoRow
  <2>1. req[s].of \in Report
    BY <1>4 DEF MarkStored, At, RequestInv, Queued
  <2> QED BY <1>4, <2>1, RowFields
<1>5. \A s \in Submitter : MarkedRow(f).id = rows[f].id /\ MarkedRow(f).day = rows[f].day
  BY DEF MarkedRow
<1> QED BY <1>2, <1>3, <1>4, <1>5, RowSteps

\* What one step does to the objects and to the sweep.
LEMMA ObjectSteps ==
    ASSUME [ReportsNext]_reports
    PROVE  \/ UNCHANGED objects
           \/ \E s \in Submitter : PutObject(s) /\ objects' = objects \cup {req[s].key}
           \/ SweepObjects /\ \A k \in objects : k \in objects' \/ k \in sweep.keys
  BY DEF ReportsNext, reports, QueueReport, DeleteReport, Submit, GivesUp, MoveToSent, CheckLimit,
     Reserve, Lookup, PutObject, MarkStored, CleanReservation, Clean, CollectorStops,
     SweepSelect, SweepRows, SweepObjects, NextDay

LEMMA SweepSteps ==
    ASSUME Types, [ReportsNext]_reports
    PROVE  \/ UNCHANGED sweep
           \/ sweep' = NoSweep
           \/ SweepSelect
           \/ SweepRows /\ sweep' = [sweep EXCEPT !.at = "objects"]
  BY HandlesEffect DEF ReportsNext, reports, QueueReport, DeleteReport, Submit, GivesUp, MoveToSent,
     Handles, CollectorStops, SweepSelect, SweepRows, SweepObjects, NextDay

LEMMA ObjectStep ==
    ASSUME Types, RequestInv, ObjectInv, [ReportsNext]_reports
    PROVE  ObjectInv'
<1>1. day \in Nat \ {0} /\ day' \in Nat /\ day <= day'
  BY DaySteps DEF Types
<1>2. ASSUME NEW s \in Submitter, PutObject(s)
      PROVE  req[s].key[2] \in 1..day
  BY <1>1, <1>2 DEF PutObject, At, RequestInv
<1>3. \A k \in objects' : k[2] \in 1..day
  BY <1>2, ObjectSteps DEF ObjectInv, SweepObjects
<1> QED BY <1>1, <1>3 DEF ObjectInv

LEMMA SweepStep ==
    ASSUME Types, RequestInv, RowInv, SweepInv, [ReportsNext]_reports
    PROVE  SweepInv'
<1>1. day \in Nat \ {0} /\ day' \in Nat /\ day <= day' /\ sweep.before \in Nat
  BY DaySteps DEF Types
<1>2. CASE UNCHANGED sweep
  <2>1. ASSUME sweep.at = "objects", NEW f \in Fingerprint, rows'[f] # NoRow
        PROVE  rows'[f].day >= sweep.before
    <3>1. CASE rows[f] # NoRow /\ rows'[f].day = rows[f].day
      BY <2>1, <3>1 DEF SweepInv
    <3>2. ASSUME NEW s \in Submitter, rows'[f] = NewRow(s)
          PROVE  rows'[f].day >= sweep.before
      BY <1>1, <3>2 DEF NewRow, SweepInv
    <3>3. ASSUME NEW s \in Submitter, MarkStored(s), rows[f].id = req[s].of,
                 rows'[f] = MarkedRow(f)
          PROVE  rows[f] # NoRow /\ rows'[f].day = rows[f].day
      <4>1. req[s].of \in Report
        BY <3>3 DEF MarkStored, At, RequestInv, Queued
      <4> QED BY <3>3, <4>1, RowFields DEF MarkedRow
    <3> QED BY <2>1, <3>1, <3>2, <3>3, RowSteps
  <2> QED BY <1>1, <1>2, <2>1 DEF SweepInv
<1>3. CASE sweep' = NoSweep
  BY <1>1, <1>3 DEF SweepInv, NoSweep
<1>4. CASE SweepSelect
  <2>1. \A f \in Expired(day) : KeyOf(f)[2] < day
    BY DEF Expired, KeyOf
  <2> QED BY <1>1, <1>4, <2>1 DEF SweepSelect, SweepInv
<1>5. CASE SweepRows /\ sweep' = [sweep EXCEPT !.at = "objects"]
  <2>1. sweep'.before = sweep.before /\ sweep'.keys = sweep.keys
    BY <1>5 DEF Types
  <2>2. rows' = [f \in Fingerprint |->
                   IF f \in Expired(sweep.before) THEN NoRow ELSE rows[f]]
    <3>1. sweep' # NoSweep
      BY <1>5 DEF NoSweep, Types
    <3> QED BY <1>5, <3>1 DEF SweepRows
  <2>3. ASSUME NEW f \in Fingerprint, rows'[f] # NoRow
        PROVE  rows'[f].day >= sweep.before
    <3>1. rows'[f] = rows[f] /\ f \notin Expired(sweep.before)
      BY <2>2, <2>3
    <3>2. rows[f].day \in Nat
      BY <2>3, <3>1, RowFields
    <3> QED BY <1>1, <2>3, <3>1, <3>2 DEF Expired
  <2> QED BY <1>1, <2>1, <2>3 DEF SweepInv
<1> QED BY <1>2, <1>3, <1>4, <1>5, SweepSteps

-----------------------------------------------------------------------------
(* Requests that store a report *)

ReservedRow(s) ==
    /\ Reserve(s) /\ rows[CrashOf(s)] = NoRow /\ rows' = Inserted(s)
    /\ Move(s, "put") /\ UNCHANGED <<unclear, objects>>

\* How a request comes to store a report, and to mark it.
LEMMA StoringSteps ==
    ASSUME Types, [ReportsNext]_reports, NEW s \in Submitter, req'[s].at \in Storing
    PROVE  /\ req[s].at # "none"
           /\ req'[s].of = req[s].of /\ req'[s].key = req[s].key
           /\ req[s].at \in Storing \/ ReservedRow(s)
           /\ req'[s].at = "mark" =>
                req[s].at = "mark" \/ (PutObject(s) /\ objects' = objects \cup {req[s].key})
<1>1. ASSUME NEW r \in Report, Submit(s, r) PROVE FALSE
  BY <1>1 DEF Submit, Types, Storing
<1>2. /\ req[s].at # "none"
      /\ req'[s].of = req[s].of /\ req'[s].key = req[s].key
  BY <1>1, RequestSteps DEF Storing
<1>3. CASE req'[s].at = req[s].at
  BY <1>2, <1>3
<1>4. ASSUME NEW t \in Submitter, Handles(t), t # s PROVE req'[s].at = req[s].at
  BY <1>4, HandlesEffect, AnswerEffect, ToEffect
<1>5. CASE Handles(s)
  <2>1. ~ \E ok : Answer(s, ok)
    BY AnswerEffect DEF Storing
  <2>2. CASE CheckLimit(s) \/ Lookup(s) \/ CleanReservation(s)
    BY <2>1, <2>2, ToEffect DEF CheckLimit, Lookup, CleanReservation, Clean, Storing,
       RequestPlaces
  <2>3. CASE Reserve(s)
    <3>1. ~Move(s, "lookup")
      BY ToEffect DEF Storing, RequestPlaces
    <3>2. ReservedRow(s)
      BY <2>1, <2>3, <3>1 DEF Reserve, ReservedRow
    <3>3. req'[s].at = "put"
      BY <3>2, ToEffect DEF ReservedRow, RequestPlaces
    <3> QED BY <1>2, <3>2, <3>3
  <2>4. CASE PutObject(s)
    <3>1. Move(s, "clean") => req'[s].at = "clean"
      BY ToEffect DEF RequestPlaces
    <3> QED BY <1>2, <2>4, <3>1 DEF PutObject, At, Storing
  <2>5. CASE MarkStored(s)
    BY <1>2, <2>5 DEF MarkStored, At, Storing
  <2> QED BY <1>5, <2>2, <2>3, <2>4, <2>5 DEF Handles
<1>6. CASE CollectorStops
  BY <1>6 DEF CollectorStops, NoRequest, Storing
<1>7. ASSUME NEW t \in Submitter, NEW r \in Report, Submit(t, r), t # s
      PROVE  req'[s].at = req[s].at
  BY <1>7 DEF Submit, Types
<1> QED BY <1>1, <1>3, <1>4, <1>5, <1>6, <1>7 DEF ReportsNext, reports, QueueReport, DeleteReport,
        GivesUp, MoveToSent, SweepSelect, SweepRows, SweepObjects, NextDay, Handles

\* How it stops to store it.
LEMMA StoringEnds ==
    ASSUME Types, [ReportsNext]_reports, NEW s \in Submitter, req[s].at \in Storing
    PROVE  \/ req'[s].at \in Storing /\ req'[s].of = req[s].of
           \/ MarkStored(s) /\ rows' = Marked(req[s].of)
           \/ CleanReservation(s) /\ rows' = RowsWithout(req[s].of)
           \/ troubles' > 0
<1>1. CASE req'[s] = req[s]
  BY <1>1
<1>2. ASSUME NEW t \in Submitter, Handles(t), t # s PROVE req'[s] = req[s]
  BY <1>2, HandlesEffect, AnswerEffect, ToEffect
<1>3. CASE Fails
  BY <1>3 DEF Fails, Types
<1>4. CASE Handles(s)
  <2>1. ASSUME NEW at \in Storing, Move(s, at)
        PROVE  req'[s].at \in Storing /\ req'[s].of = req[s].of
    BY <2>1, ToEffect DEF Storing, RequestPlaces
  <2>2. PutObject(s) \/ MarkStored(s) \/ CleanReservation(s)
    BY <1>4 DEF Handles, CheckLimit, Reserve, Lookup, At, Storing
  <2>3. CASE PutObject(s)
    BY <2>1, <2>3 DEF PutObject, Storing
  <2>4. CASE MarkStored(s)
    BY <2>1, <2>4 DEF MarkStored, Storing
  <2>5. CASE CleanReservation(s)
    BY <1>3, <2>5 DEF CleanReservation, Clean
  <2> QED BY <2>2, <2>3, <2>4, <2>5
<1>5. ASSUME NEW t \in Submitter, NEW r \in Report, Submit(t, r)
      PROVE  req'[s] = req[s]
  BY <1>5 DEF Submit, Types, Storing, NoRequest
<1> QED BY <1>1, <1>2, <1>3, <1>4, <1>5 DEF ReportsNext, reports, QueueReport, DeleteReport,
        GivesUp, MoveToSent, CollectorStops, SweepSelect, SweepRows, SweepObjects,
        NextDay, Handles

\* The row a request is about is the only one with its report.
LEMMA RowOfCrash ==
    ASSUME Types, RequestInv, RowInv, NEW s \in Submitter,
           req[s].at # "none", NEW f \in Fingerprint, rows[f].id = req[s].of
    PROVE  f = CrashOf(s) /\ rows[f] # NoRow
<1>1. req[s].of \in Report
  BY DEF RequestInv, Queued
<1>2. rows[f] # NoRow
  BY <1>1, RowFields
<1> QED BY <1>2 DEF RowInv, CrashOf

LEMMA StoreStep ==
    ASSUME Types, RequestInv, RowInv, SweepInv, StoreInv, [ReportsNext]_reports
    PROVE  StoreInv'
<1> SUFFICES ASSUME NEW s \in Submitter, req'[s].at \in Storing
             PROVE  /\ \A f \in Fingerprint : rows'[f].id = req'[s].of => rows'[f].day = day'
                    /\ req'[s].at = "mark" => req'[s].key \in objects'
  BY DEF StoreInv, Storing
<1>1. /\ req[s].at # "none" /\ req'[s].of = req[s].of /\ req'[s].key = req[s].key
      /\ req[s].of \in Report /\ req[s].key = <<req[s].of, day>>
      /\ day' = day
  BY StoringSteps, DaySteps DEF RequestInv, Queued
<1>2. ASSUME NEW f \in Fingerprint, rows'[f].id = req[s].of
      PROVE  rows'[f].day = day
  <2>1. ASSUME rows[f].id = req[s].of, rows'[f].day = rows[f].day
        PROVE  rows'[f].day = day
    <3>1. CASE req[s].at \in Storing
      BY <2>1, <3>1 DEF StoreInv
    <3>2. CASE ReservedRow(s)
      BY <1>1, <2>1, <3>2, RowOfCrash DEF ReservedRow
    <3> QED BY <3>1, <3>2, StoringSteps
  <2>2. ASSUME NEW t \in Submitter, rows'[f] = NewRow(t) PROVE rows'[f].day = day
    BY <2>2 DEF NewRow
  <2>3. rows'[f] # NoRow
    BY <1>1, <1>2 DEF NoRow, NoReport
  <2>4. MarkedRow(f).id = rows[f].id /\ MarkedRow(f).day = rows[f].day
    BY DEF MarkedRow
  <2> QED BY <1>2, <2>1, <2>2, <2>3, <2>4, RowSteps
<1>3. ASSUME req'[s].at = "mark"
      PROVE  req[s].key \in objects'
  <2>1. CASE req[s].at = "mark"
    <3>1. req[s].key \in objects
      BY <2>1 DEF StoreInv
    <3>2. req[s].key \notin sweep.keys
      BY <1>1 DEF SweepInv, Types
    <3> QED BY <3>1, <3>2, ObjectSteps
  <2>2. CASE objects' = objects \cup {req[s].key}
    BY <2>2
  <2> QED BY <1>3, <2>1, <2>2, StoringSteps
<1> QED BY <1>1, <1>2, <1>3

LEMMA UnclearSteps ==
    ASSUME Types, [ReportsNext]_reports, ~unclear'
    PROVE  ~unclear
<1>1. CASE UNCHANGED unclear
  BY <1>1
<1>2. ASSUME unclear' = TRUE PROVE FALSE
  BY <1>2
<1> QED BY <1>1, <1>2 DEF ReportsNext, reports, QueueReport, DeleteReport, Submit, GivesUp,
        MoveToSent, CheckLimit, Reserve, Lookup, PutObject, MarkStored,
        CleanReservation, Clean, CollectorStops, SweepSelect, SweepRows, SweepObjects,
        NextDay

\* A request that goes on storing is not the one that marks or removes its row.
LEMMA StoringGoesOn ==
    ASSUME Types, NEW s \in Submitter, req'[s].at \in Storing, ~unclear'
    PROVE  /\ MarkStored(s) => UNCHANGED rows
           /\ ~CleanReservation(s)
<1>1. ~ \E ok : Answer(s, ok)
  BY AnswerEffect DEF Storing
<1> QED BY <1>1 DEF MarkStored, CleanReservation, Clean

LEMMA KeepStep ==
    ASSUME Types, RequestInv, RowInv, SweepInv, StoreInv, KeepInv,
           [ReportsNext]_reports
    PROVE  KeepInv'
<1> SUFFICES ASSUME ~unclear', NEW s \in Submitter, req'[s].at \in Storing
             PROVE  /\ rows'[CrashOf(s)'] = [id |-> req'[s].of, stored |-> FALSE, day |-> day']
                    /\ \A t \in Submitter :
                         req'[t].at \in Storing /\ CrashOf(t)' = CrashOf(s)' => s = t
  BY DEF KeepInv
<1>1. ~unclear
  BY UnclearSteps
<1>2. ASSUME NEW t \in Submitter, req'[t].at \in Storing
      PROVE  /\ req[t].at # "none" /\ req'[t].of = req[t].of
             /\ CrashOf(t)' = CrashOf(t) /\ CrashOf(t) \in Fingerprint
             /\ req[t].at \in Storing \/ ReservedRow(t)
  <2>1. req[t].at # "none" /\ req'[t].of = req[t].of /\ Queued(req[t].of)
    BY <1>2, StoringSteps DEF RequestInv
  <2>2. print'[req[t].of] = print[req[t].of] /\ print[req[t].of] \in Fingerprint
    BY <2>1, QueuedStays DEF Queued, Types
  <2> QED BY <1>2, <2>1, <2>2, StoringSteps DEF CrashOf
<1>3. rows'[CrashOf(s)] = NewRow(s)
  <2> DEFINE f == CrashOf(s)
  <2>1. CASE ReservedRow(s)
    BY <1>2, <2>1, InsertedType DEF ReservedRow, NewRow
  <2>2. CASE req[s].at \in Storing
    <3>1. rows[f] = NewRow(s) /\ rows[f].id = req[s].of /\ rows[f].day = day
            /\ ~rows[f].stored /\ rows[f] # NoRow
      <4>1. rows[f] = NewRow(s)
        BY <1>1, <2>2 DEF KeepInv, NewRow
      <4>2. req[s].of \in Report
        BY <1>2 DEF RequestInv, Queued
      <4>3. rows[f].id = req[s].of /\ rows[f].day = day /\ ~rows[f].stored
        BY <4>1 DEF NewRow
      <4> QED BY <4>1, <4>2, <4>3 DEF NoRow, NoReport
    <3>2. ASSUME NEW t \in Submitter, req[t].at \in Storing, rows[f].id = req[t].of
          PROVE  s = t
      <4>1. CrashOf(t) = f
        BY <1>2, <3>2, RowOfCrash DEF Storing
      <4> QED BY <1>1, <2>2, <3>2, <4>1 DEF KeepInv
    <3>3. ASSUME NEW t \in Submitter, MarkStored(t), rows[f].id = req[t].of,
                 rows'[f] = MarkedRow(f)
          PROVE  rows'[f] = rows[f]
      <4>1. req[t].at \in Storing
        BY <3>3 DEF MarkStored, At, Storing
      <4> QED BY <3>2, <3>3, <4>1, StoringGoesOn
    <3>4. ASSUME NEW t \in Submitter, CleanReservation(t), rows[f].id = req[t].of
          PROVE  FALSE
      <4>1. req[t].at \in Storing
        BY <3>4 DEF CleanReservation, Clean, At, Storing
      <4> QED BY <3>2, <3>4, <4>1, StoringGoesOn
    <3>5. f \notin Expired(sweep.before)
      BY <3>1 DEF Expired, SweepInv, Types
    <3> HIDE DEF f
    <3>6. f \in Fingerprint
      BY <1>2 DEF f
    <3> QED BY <3>1, <3>3, <3>4, <3>5, <3>6, RowSteps DEF f
  <2> QED BY <1>2, <2>1, <2>2
<1>4. ASSUME NEW t \in Submitter, req'[t].at \in Storing, CrashOf(t) = CrashOf(s)
      PROVE  s = t
  <2>1. ASSUME NEW a \in Submitter, NEW b \in Submitter, ReservedRow(a),
               req'[b].at \in Storing, CrashOf(a) = CrashOf(b)
        PROVE  a = b
    <3>1. CASE req[b].at \in Storing
      <4>1. rows[CrashOf(b)] = NewRow(b) /\ req[b].of \in Report
        BY <1>1, <3>1, <1>2, <2>1 DEF KeepInv, NewRow, RequestInv, Queued
      <4>2. rows[CrashOf(b)] # NoRow
        BY <4>1 DEF NewRow, NoRow, NoReport
      <4> QED BY <2>1, <4>2 DEF ReservedRow
    <3>2. CASE ReservedRow(b)
      <4>1. a # b => req'[b] = req[b]
        BY <2>1, ToEffect DEF ReservedRow, RequestPlaces
      <4> QED BY <2>1, <3>2, <4>1 DEF ReservedRow, Reserve, At, Storing
    <3> QED BY <1>2, <2>1, <3>1, <3>2
  <2>2. CASE req[s].at \in Storing /\ req[t].at \in Storing
    BY <1>1, <1>4, <2>2 DEF KeepInv
  <2> QED BY <1>2, <1>4, <2>1, <2>2
<1>5. day' = day
  BY <1>2, DaySteps
<1>6. rows'[CrashOf(s)'] = [id |-> req'[s].of, stored |-> FALSE, day |-> day']
  BY <1>2, <1>3, <1>5 DEF NewRow
<1>7. \A t \in Submitter : req'[t].at \in Storing /\ CrashOf(t)' = CrashOf(s)' => s = t
  BY <1>2, <1>4
<1> QED BY <1>6, <1>7

-----------------------------------------------------------------------------
(* What was answered is found *)

LEMMA FoundStays ==
    ASSUME Types, RequestInv, RowInv, KeepInv, [ReportsNext]_reports,
           ~unclear', NEW r, Queued(r), Found(r)
    PROVE  print'[r] \in swept' \/ rows'[print'[r]].stored
<1> DEFINE f == print[r]
<1>1. print'[r] = f /\ f \in Fingerprint
  BY QueuedStays DEF Queued, Types
<1>2. swept \subseteq swept'
  BY HandlesEffect DEF ReportsNext, reports, table, QueueReport, DeleteReport, Submit, GivesUp,
     MoveToSent, Handles, CollectorStops, SweepSelect, SweepRows, SweepObjects, NextDay
<1>3. CASE f \in swept
  BY <1>1, <1>2, <1>3
<1>4. CASE rows[f].stored
  <2>1. rows[f] # NoRow
    BY <1>4 DEF NoRow
  <2>2. ASSUME NEW s \in Submitter, CleanReservation(s), rows[f].id = req[s].of
        PROVE  FALSE
    <3>1. req[s].at \in Storing
      BY <2>2 DEF CleanReservation, Clean, At, Storing
    <3>2. f = CrashOf(s)
      BY <1>1, <2>2, <3>1, RowOfCrash DEF Storing
    <3>3. ~unclear
      BY UnclearSteps
    <3>4. rows[f] = [id |-> req[s].of, stored |-> FALSE, day |-> day]
      BY <3>1, <3>2, <3>3 DEF KeepInv
    <3>5. ~rows[f].stored
      BY <3>4
    <3> QED BY <1>4, <3>5
  <2>3. MarkedRow(f).stored
    BY DEF MarkedRow
  <2> HIDE DEF f
  <2> QED BY <1>1, <1>4, <2>1, <2>2, <2>3, RowSteps
<1> QED BY <1>3, <1>4 DEF Found

\* An editor is told of a success when the row is stored.
LEMMA SuccessIsFound ==
    ASSUME Types, ClientInv, RequestInv, RowInv, KeepInv,
           [ReportsNext]_reports, ~unclear', NEW s \in Submitter,
           client'[s].at = "record", client[s].at # "record"
    PROVE  Queued(client'[s].of) /\ print'[client'[s].of] = print[client'[s].of]
             /\ rows'[print[client'[s].of]].stored
<1>1. ASSUME NEW r \in Report, NEW t \in Submitter, Submit(t, r) PROVE FALSE
  BY <1>1 DEF Submit, Types
<1>2. PICK t \in Submitter : Handles(t)
  <2>1. ASSUME UNCHANGED client PROVE FALSE
    BY <2>1
  <2>2. ASSUME NEW q \in Submitter, GivesUp(q) \/ MoveToSent(q) PROVE FALSE
    BY <2>2 DEF GivesUp, MoveToSent, Types, IdleClient
  <2>3. ASSUME CollectorStops PROVE FALSE
    BY <2>3 DEF CollectorStops, Types, IdleClient
  <2>4. /\ \A r \in Report, f \in Fingerprint : QueueReport(r, f) => UNCHANGED client
        /\ \A r \in Report : DeleteReport(r) => UNCHANGED client
        /\ SweepSelect \/ SweepRows \/ SweepObjects \/ NextDay => UNCHANGED client
        /\ UNCHANGED reports => UNCHANGED client
    BY DEF QueueReport, DeleteReport, SweepSelect, SweepRows, SweepObjects, NextDay, reports
  <2> QED
    BY <1>1, <2>1, <2>2, <2>3, <2>4 DEF ReportsNext, Handles
<1>3. s = t
  BY <1>2, HandlesEffect, AnswerEffect, ToEffect
<1>4. PICK ok : Answer(s, ok)
  BY <1>2, <1>3, HandlesEffect, ToEffect
<1>5. ok /\ client[s].at = "waiting" /\ client'[s].of = client[s].of
  BY <1>4, AnswerEffect
<1>6. /\ req[s].at # "none" /\ Queued(req[s].of) /\ client'[s].of = req[s].of
      /\ CrashOf(s) \in Fingerprint
  BY <1>5, HandlesEffect, <1>2, <1>3 DEF ClientInv, RequestInv, CrashOf, Queued, Types
<1>7. ASSUME NEW no, Answer(s, no), ~no PROVE FALSE
  BY <1>7, AnswerEffect
<1>8. ~ \E at \in RequestPlaces \ {"none"} : Move(s, at)
  BY ToEffect
<1>9. Lookup(s) \/ MarkStored(s)
  BY <1>2, <1>3, <1>7, <1>8 DEF Handles, CheckLimit, Reserve, PutObject,
     CleanReservation, Clean, RequestPlaces
<1>10. rows'[CrashOf(s)].stored
  <2>1. CASE Lookup(s)
    <3>1. rows' = rows
      BY <2>1 DEF Lookup, table
    <3>2. Answer(s, rows[CrashOf(s)].stored)
      BY <1>7, <2>1 DEF Lookup
    <3>3. CASE ~rows[CrashOf(s)].stored
      BY <1>7, <3>2, <3>3
    <3> QED BY <3>1, <3>3
  <2>2. CASE MarkStored(s)
    <3>1. rows' = Marked(req[s].of) /\ req[s].at = "mark"
      BY <1>8, <2>2 DEF MarkStored, At, RequestPlaces
    <3>2. ~unclear
      BY UnclearSteps
    <3>3. rows[CrashOf(s)] = [id |-> req[s].of, stored |-> FALSE, day |-> day]
      BY <3>1, <3>2 DEF KeepInv, Storing
    <3>4. rows[CrashOf(s)].id = req[s].of
      BY <3>3
    <3>5. req[s].of \in Report
      BY <1>6 DEF Queued
    <3>6. Marked(req[s].of)[CrashOf(s)].stored
      <4> DEFINE f == CrashOf(s)
      <4>1. Marked(req[s].of)[f] = [id |-> rows[f].id, stored |-> TRUE, day |-> rows[f].day]
        BY <1>6, <3>4, <3>5, MarkedType
      <4> QED BY <4>1
    <3> QED BY <3>1, <3>6
  <2> QED BY <1>9, <2>1, <2>2
<1> QED BY <1>6, <1>10, QueuedStays DEF CrashOf

LEMMA FoundStep ==
    ASSUME Types, ClientInv, RequestInv, RowInv, KeepInv, FoundInv,
           [ReportsNext]_reports
    PROVE  FoundInv'
<1> SUFFICES ASSUME ~unclear'
             PROVE  /\ \A s \in Submitter : client'[s].at = "record" => Found(client[s].of)'
                    /\ \A r \in Report : place'[r] = "sent" => Found(r)'
  BY DEF FoundInv
<1>1. ~unclear
  BY UnclearSteps
<1>2. ASSUME NEW s \in Submitter, client'[s].at = "record" PROVE Found(client[s].of)'
  <2>1. CASE client[s].at = "record"
    <3>1. Queued(client[s].of) /\ Found(client[s].of)
      BY <1>1, <2>1 DEF ClientInv, FoundInv
    <3>2. client'[s].of = client[s].of
      BY <1>2, <2>1, RequestSteps DEF Submit, Types, IdleClient
    <3> QED BY <3>1, <3>2, FoundStays DEF Found
  <2>2. CASE client[s].at # "record"
    BY <1>2, <2>2, SuccessIsFound DEF Found
  <2> QED BY <2>1, <2>2
<1>3. ASSUME NEW r \in Report, place'[r] = "sent" PROVE Found(r)'
  <2>1. Queued(r) /\ Found(r)
    <3>1. CASE place[r] = "sent"
      BY <1>1, <3>1 DEF FoundInv, Queued
    <3>2. ASSUME NEW s \in Submitter, MoveToSent(s), r = client[s].of
          PROVE  Queued(r) /\ Found(r)
      BY <1>1, <3>2 DEF MoveToSent, FoundInv, ClientInv
    <3>3. ASSUME NEW s \in Submitter, MoveToSent(s), r # client[s].of
          PROVE  place[r] = "sent"
      BY <1>3, <3>3 DEF MoveToSent, Types
    <3>4. ASSUME NEW q \in Report, DeleteReport(q) PROVE place[r] = "sent"
      BY <1>3, <3>4 DEF DeleteReport, Types
    <3>5. ASSUME NEW q \in Report, NEW f \in Fingerprint, QueueReport(q, f)
          PROVE  place[r] = "sent"
      BY <1>3, <3>5 DEF QueueReport, Types
    <3> QED BY <1>3, <3>1, <3>2, <3>3, <3>4, <3>5, HandlesEffect DEF ReportsNext, reports, editor,
          Submit, GivesUp, CollectorStops, SweepSelect, SweepRows, SweepObjects, NextDay,
          Handles
  <2> QED BY <2>1, FoundStays DEF Found
<1> QED BY <1>2, <1>3

-----------------------------------------------------------------------------
(* Rows are backed *)

LEMMA StoredHasObject ==
    ASSUME Types, RequestInv, RowInv, SweepInv, StoreInv,
           RowsAreBacked, [ReportsNext]_reports, NEW f \in Fingerprint, rows'[f].stored
    PROVE  <<rows'[f].id, rows'[f].day>> \in objects'
<1>1. CASE rows'[f] = rows[f]
  <2>1. KeyOf(f) \in objects
    BY <1>1 DEF RowsAreBacked
  <2>2. ASSUME SweepObjects PROVE KeyOf(f) \notin sweep.keys
    <3>1. rows[f] # NoRow /\ sweep.at = "objects"
      BY <1>1, <2>2 DEF NoRow, SweepObjects
    <3>2. rows[f].day >= sweep.before
      BY <3>1 DEF SweepInv
    <3>3. rows[f].day \in Nat /\ sweep.before \in Nat
      BY <3>1, RowFields DEF Types
    <3>4. ASSUME KeyOf(f) \in sweep.keys PROVE FALSE
      <4>1. KeyOf(f)[2] < sweep.before
        BY <3>4 DEF SweepInv
      <4> QED BY <3>2, <3>3, <4>1 DEF KeyOf
    <3> QED BY <3>4
  <2> QED BY <1>1, <2>1, <2>2, ObjectSteps DEF KeyOf
<1>2. ASSUME NEW s \in Submitter, rows'[f] = NewRow(s) PROVE FALSE
  BY <1>2 DEF NewRow
<1>3. ASSUME NEW s \in Submitter, MarkStored(s), rows[f].id = req[s].of,
             rows'[f] = MarkedRow(f)
      PROVE  <<rows'[f].id, rows'[f].day>> \in objects'
  <2>1. req[s].at = "mark" /\ objects' = objects
    BY <1>3 DEF MarkStored, At
  <2>2. rows[f].day = day /\ req[s].key \in objects
    BY <1>3, <2>1 DEF StoreInv, Storing
  <2>3. req[s].key = <<req[s].of, day>>
    BY <2>1 DEF RequestInv
  <2>4. rows'[f].id = rows[f].id /\ rows'[f].day = rows[f].day
    BY <1>3 DEF MarkedRow
  <2> QED BY <1>3, <2>1, <2>2, <2>3, <2>4
<1> QED BY <1>1, <1>2, <1>3, RowSteps DEF NoRow

LEMMA ReservationHasRequest ==
    ASSUME Types, RequestInv, RowInv, StoreInv, RowsAreBacked,
           [ReportsNext]_reports, NEW f \in Fingerprint,
           troubles' = 0, ~unclear', rows'[f] # NoRow, ~rows'[f].stored
    PROVE  \E s \in Submitter : req'[s].of = rows'[f].id /\ req'[s].at \in Storing
<1>1. troubles = 0 /\ ~unclear
  <2>1. CASE troubles' = troubles
    BY <2>1, UnclearSteps
  <2>2. CASE Fails
    BY <2>2 DEF Fails, Types
  <2> QED BY <2>1, <2>2 DEF ReportsNext, reports, QueueReport, DeleteReport, Submit, GivesUp,
        MoveToSent, CheckLimit, Reserve, Lookup, PutObject, MarkStored,
        CleanReservation, Clean, CollectorStops, SweepSelect, SweepRows, SweepObjects,
        NextDay, Works, CallFails
<1>2. CASE rows'[f] = rows[f]
  <2>1. PICK s \in Submitter : req[s].of = rows[f].id /\ req[s].at \in Storing
    BY <1>1, <1>2 DEF RowsAreBacked, Storing
  <2>2. req[s].of \in Report
    BY <2>1 DEF RequestInv, Queued, Storing
  <2>3. ASSUME rows' = Marked(req[s].of) PROVE FALSE
    <3>1. Marked(req[s].of)[f] = [id |-> rows[f].id, stored |-> TRUE, day |-> rows[f].day]
      BY <2>1, <2>2, MarkedType
    <3> QED BY <2>3, <3>1
  <2>4. ASSUME rows' = RowsWithout(req[s].of) PROVE FALSE
    BY <2>1, <2>4, WithoutType
  <2> QED BY <1>2, <2>1, <2>3, <2>4, StoringEnds
<1>3. ASSUME NEW s \in Submitter, Reserve(s), f = CrashOf(s), rows[f] = NoRow,
             rows'[f] = NewRow(s)
      PROVE  req'[s].of = rows'[f].id /\ req'[s].at \in Storing
  <2>1. rows' # rows
    BY <1>3
  <2>2. Move(s, "put")
    BY <2>1, <1>3 DEF Reserve
  <2>3. req'[s].at = "put" /\ req'[s].of = req[s].of
    BY <2>2, ToEffect DEF RequestPlaces
  <2> QED BY <1>3, <2>3 DEF NewRow, Storing
<1>4. MarkedRow(f).stored
  BY DEF MarkedRow
<1> QED BY <1>2, <1>3, <1>4, RowSteps

LEMMA BackedStep ==
    ASSUME Types, RequestInv, RowInv, SweepInv, StoreInv,
           RowsAreBacked, [ReportsNext]_reports
    PROVE  RowsAreBacked'
<1>1. ASSUME NEW f \in Fingerprint, rows'[f].stored PROVE KeyOf(f)' \in objects'
  BY <1>1, StoredHasObject DEF KeyOf
<1>2. ASSUME NEW f \in Fingerprint, troubles' = 0, ~unclear', rows'[f] # NoRow,
             ~rows'[f].stored
      PROVE  \E s \in Submitter :
                req'[s].of = rows'[f].id /\ req'[s].at \in {"put", "mark", "clean"}
  BY <1>2, ReservationHasRequest DEF Storing
<1> QED BY <1>1, <1>2 DEF RowsAreBacked

-----------------------------------------------------------------------------
(* The theorems *)

LEMMA PipeInvInit ==
    ASSUME ReportsInit
    PROVE  PipeInv
<1>1. Types
  <2>1. print \in [Report -> Fingerprint]
    <3>1. (CHOOSE f \in Fingerprint : TRUE) \in Fingerprint
      OBVIOUS
    <3> QED BY <3>1 DEF ReportsInit
  <2>2. /\ place \in [Report -> {"none", "pending", "sent", "deleted"}]
        /\ client \in [Submitter -> [at : {"idle", "waiting", "record"}, of : Named]]
        /\ req \in [Submitter -> [at : RequestPlaces, of : Named, key : Named \X Nat]]
    BY SentinelTypes DEF ReportsInit
  <2>3. rows \in [Fingerprint -> {NoRow} \cup [id : Report, stored : BOOLEAN, day : Nat]]
    BY DEF ReportsInit
  <2>4. objects \subseteq Report \X Nat /\ swept \subseteq Fingerprint
    BY DEF ReportsInit
  <2>5. sweep \in [at : {"none", "rows", "objects"}, keys : SUBSET (Report \X Nat),
                   before : Nat]
    BY SentinelTypes DEF ReportsInit
  <2>6. day \in Nat \ {0} /\ troubles \in Nat /\ unclear \in BOOLEAN
    <3>1. day = 1 /\ unclear = FALSE /\ troubles = 0
      BY DEF ReportsInit
    <3>2. unclear \in BOOLEAN
      BY <3>1, Zenon
    <3>3. day \in Nat \ {0} /\ troubles \in Nat
      BY <3>1, SMT
    <3> QED BY <3>2, <3>3
  <2> QED BY <2>1, <2>2, <2>3, <2>4, <2>5, <2>6 DEF Types
<1>2. /\ \A s \in Submitter : client[s].at = "idle" /\ req[s].at = "none"
      /\ \A f \in Fingerprint : rows[f] = NoRow /\ ~rows[f].stored
      /\ \A r \in Report : place[r] = "none"
  BY DEF ReportsInit, IdleClient, NoRequest, NoRow
<1>3. ClientInv /\ RequestInv /\ RowInv /\ StoreInv /\ KeepInv /\ FoundInv
        /\ RowsAreBacked
  BY <1>2 DEF ClientInv, RequestInv, RowInv, StoreInv, KeepInv, FoundInv, RowsAreBacked,
     Storing
<1>4. ObjectInv /\ SweepInv
  BY DEF ReportsInit, ObjectInv, SweepInv, NoSweep
<1> QED BY <1>1, <1>3, <1>4 DEF PipeInv

LEMMA PipeInvStep ==
    ASSUME PipeInv, [ReportsNext]_reports
    PROVE  PipeInv'
<1> USE DEF PipeInv
<1>1. Types' /\ ClientInv' /\ RequestInv'
  BY TypesStep, ClientRequestStep
<1>2. RowInv' /\ ObjectInv' /\ SweepInv'
  BY RowStep, ObjectStep, SweepStep
<1>3. StoreInv' /\ KeepInv'
  BY StoreStep, KeepStep
<1>4. FoundInv' /\ RowsAreBacked'
  BY FoundStep, BackedStep
<1> QED BY <1>1, <1>2, <1>3, <1>4

LEMMA PipeInvCorrect ==
    ReportsSpec => []PipeInv
<1>1. ReportsInit => PipeInv
  BY PipeInvInit
<1>2. PipeInv /\ [ReportsNext]_reports => PipeInv'
  BY PipeInvStep
<1> QED BY <1>1, <1>2, PTL DEF ReportsSpec

\* Reports, requests, rows and objects fit together: a request is of the report its
\* editor waits for, and a row of a report with its fingerprint.
THEOREM PipelineTypes ==
    ReportsSpec => []ReportsTypeOK
<1>1. ASSUME PipeInv PROVE ReportsTypeOK
  <2>1. \A f \in Fingerprint :
          rows[f] = NoRow \/ (print[rows[f].id] = f /\ rows[f].day \in 1..day)
    BY <1>1 DEF PipeInv, RowInv
  <2>2. objects \subseteq Report \X (1..day)
    BY <1>1 DEF PipeInv, Types, ObjectInv
  <2>3. \A s \in Submitter :
          /\ client[s].at \in {"idle", "waiting", "record"}
          /\ req[s].at \in {"none", "limit", "reserve", "lookup", "put", "mark", "clean"}
          /\ client[s].at = "waiting" => req[s].of = client[s].of
    BY <1>1 DEF PipeInv, Types, ClientInv, RequestPlaces
  <2> QED BY <1>1, <2>1, <2>2, <2>3 DEF PipeInv, Types, ReportsTypeOK
<1> QED BY <1>1, PipeInvCorrect, PTL

\* A stored row has its object whatever sweep is under way; a reservation left behind
\* takes a failure.
THEOREM RowsHaveBacking ==
    ReportsSpec => []RowsAreBacked
<1>1. PipeInv => RowsAreBacked
  BY DEF PipeInv
<1> QED BY <1>1, PipeInvCorrect, PTL

\* A report filed as sent is in the collector until a sweep removes it.
THEOREM SentReportsAreStored ==
    ReportsSpec => []SentIsStored
<1>1. ASSUME PipeInv PROVE SentIsStored
  <2>1. ASSUME ~unclear, NEW r \in Report, place[r] = "sent", print[r] \notin swept
        PROVE  rows[print[r]].stored /\ KeyOf(print[r]) \in objects
    <3>1. rows[print[r]].stored /\ print[r] \in Fingerprint
      BY <1>1, <2>1 DEF PipeInv, FoundInv, Found, Types
    <3> QED BY <1>1, <3>1 DEF PipeInv, RowsAreBacked
  <2> QED BY <2>1 DEF SentIsStored
<1> QED BY <1>1, PipeInvCorrect, PTL

-----------------------------------------------------------------------------
(***************************************************************************)
(* The services together                                                   *)
(***************************************************************************)

\* The calls, the reports and the history keep their types side by side.
THEOREM ServicesTypes ==
    CallsSpec /\ ReportsSpec /\ HistorySpec => []ServicesTypeOK
<1>1. CallsTypeOK /\ ReportsTypeOK /\ HistoryTypeOK => ServicesTypeOK
  BY DEF ServicesTypeOK
<1> QED BY <1>1, CallTypes, PipelineTypes, HistoryTypes, PTL
=============================================================================
