---------------------------- MODULE ProjectStore ----------------------------
(***************************************************************************)
(* Saving and loading a project directory: backend/project_store.py, class *)
(* ProjectStore, methods __init__, save, load, open, _load_v3,             *)
(* _load_recovery, _write_json_atomic and _remove_stale_json.              *)
(*                                                                         *)
(* A save writes many files, each one atomically (temporary file, fsync,   *)
(* os.replace), in the order                                               *)
(*    chapter shards, script shards, the other shards, recovery.json,      *)
(*    project.slide.json (the manifest), then it unlinks stale shards.     *)
(* The process may die between any two of them, and any of them may raise  *)
(* OSError, which ends the save and leaves the process running.            *)
(*                                                                         *)
(* Contents are reduced to the version of the save that wrote them, plus   *)
(* the two things load() checks across files: the fragments the chapters   *)
(* list, each of which needs a script file, and the manifest's active      *)
(* fragment, which must be one of them.                                    *)
(***************************************************************************)
EXTENDS Naturals, FiniteSets

CONSTANTS
    Fragment,    \* fragment identifiers
    MaxVersion   \* bound on the number of payloads handed to save()

ASSUME FragmentAssumption == Fragment # {}
ASSUME VersionAssumption == MaxVersion \in Nat \ {0}

Version == 1..MaxVersion
\* A payload that passes _validate.
Payload == {p \in [ver : Version, frags : SUBSET Fragment, active : Fragment] :
                p.active \in p.frags}
\* No file.
Missing == 0
NoPayload == [ver |-> Missing]

Steps == {"idle", "chapters", "scripts", "recovery", "manifest",
          "stale"}

VARIABLES
    manifest,   \* project.slide.json: [ver, active]
    chapters,   \* chapters/*.json: [ver, frags]
    script,     \* scripts/<fragment>.json: the version of each
    rest,       \* timelines, characters, scenes, assets, locales, settings, ...
    recovery,   \* .slide/recovery.json: a whole payload
    step,       \* where save() is; "idle" outside of it
    saving,     \* its payload
    todo,       \* the fragments whose script (or stale script) is still to do
    app,        \* "down", "up" (no project loaded), "editing"
    loaded,     \* history: what the last load returned, file by file
    asked,      \* history: the payloads handed to save()
    disk        \* history: "torn" while a save has begun and not committed,
                \* then "committed", then "finished"

files == <<manifest, chapters, script, rest, recovery>>
vars == <<files, step, saving, todo, app, loaded, asked, disk>>

-----------------------------------------------------------------------------
(* What load() makes of the files *)

\* _load_v3 and _validate succeed: no file is missing, the active fragment
\* is one the chapters list.
Readable ==
    /\ manifest.ver # Missing /\ chapters.ver # Missing /\ rest # Missing
    /\ manifest.active \in chapters.frags
    /\ \A f \in chapters.frags : script[f] # Missing

ReadBack == [manifest |-> manifest.ver, chapters |-> chapters.ver,
             script |-> [f \in chapters.frags |-> script[f]], rest |-> rest]

\* What a load returns when all the files come from payload p.
Whole(p) == [manifest |-> p.ver, chapters |-> p.ver,
             script |-> [f \in p.frags |-> p.ver], rest |-> p.ver]
NotLoaded == [manifest |-> Missing]

Init ==
    /\ manifest = [ver |-> Missing]
    /\ chapters = [ver |-> Missing, frags |-> {}]
    /\ script = [f \in Fragment |-> Missing]
    /\ rest = Missing
    /\ recovery = NoPayload
    /\ step = "idle"
    /\ saving = NoPayload
    /\ todo = {}
    /\ app = "down"
    /\ loaded = NotLoaded
    /\ asked = {}
    /\ disk = "finished"

-----------------------------------------------------------------------------
(* save(), one action per file written *)

\* The payload is fixed before the first write (deepcopy, _validate).
BeginSave(p) ==
    /\ step = "idle"
    /\ step' = "chapters"
    /\ saving' = p
    /\ asked' = asked \cup {p}
    /\ disk' = "torn"

WriteChapters ==
    /\ step = "chapters"
    /\ chapters' = [ver |-> saving.ver, frags |-> saving.frags]
    /\ step' = "scripts"
    /\ todo' = saving.frags
    /\ UNCHANGED <<manifest, script, rest, recovery, saving, app, loaded,
                   asked, disk>>

WriteScript(f) ==
    /\ step = "scripts" /\ f \in todo
    /\ script' = [script EXCEPT ![f] = saving.ver]
    /\ todo' = todo \ {f}
    /\ UNCHANGED <<manifest, chapters, rest, recovery, step, saving, app,
                   loaded, asked, disk>>

\* mutant: the recovery snapshot is left out
WriteRestNoRecovery ==
    /\ step = "scripts" /\ todo = {}
    /\ rest' = saving.ver
    /\ step' = "manifest"
    /\ UNCHANGED <<manifest, chapters, script, recovery, saving, todo, app,
                   loaded, asked, disk>>
WriteRest ==
    /\ step = "scripts" /\ todo = {}
    /\ rest' = saving.ver
    /\ step' = "recovery"
    /\ UNCHANGED <<manifest, chapters, script, recovery, saving, todo, app,
                   loaded, asked, disk>>

\* mutant: the snapshot is only made once
WriteRecoveryOnce ==
    /\ step = "recovery"
    /\ recovery' = IF recovery = NoPayload THEN saving ELSE recovery
    /\ step' = "manifest"
    /\ UNCHANGED <<manifest, chapters, script, rest, saving, todo, app, loaded,
                   asked, disk>>
\* mutant: the snapshot gets the manifest and not the payload
WriteRecoveryManifest ==
    /\ step = "recovery"
    /\ recovery' = [ver |-> saving.ver, active |-> saving.active]
    /\ step' = "manifest"
    /\ UNCHANGED <<manifest, chapters, script, rest, saving, todo, app, loaded,
                   asked, disk>>
WriteRecovery ==
    /\ step = "recovery"
    /\ recovery' = saving
    /\ step' = "manifest"
    /\ UNCHANGED <<manifest, chapters, script, rest, saving, todo, app, loaded,
                   asked, disk>>

\* Script files of this folder that the payload does not name.  Mutant: only
\* the active fragment is expected.
StaleButActive(p) == {f \in Fragment : script[f] # Missing /\ f # p.active}
Stale(p) == {f \in Fragment : script[f] # Missing /\ f \notin p.frags}

WriteManifest ==
    /\ step = "manifest"
    /\ manifest' = [ver |-> saving.ver, active |-> saving.active]
    /\ disk' = "committed"
    /\ step' = "stale"
    /\ todo' = Stale(saving)
    /\ UNCHANGED <<chapters, script, rest, recovery, saving, app, loaded,
                   asked>>

RemoveStale(f) ==
    /\ step = "stale" /\ f \in todo
    /\ script' = [script EXCEPT ![f] = Missing]
    /\ todo' = todo \ {f}
    /\ UNCHANGED <<manifest, chapters, rest, recovery, step, saving, app,
                   loaded, asked, disk>>

\* save() returns.  A save that load() or __init__ made is followed by what
\* they return: the payload itself, or (after __init__) a load of the files.
EndSave ==
    /\ step = "stale" /\ todo = {}
    /\ step' = "idle"
    /\ disk' = "finished"
    /\ saving' = NoPayload
    /\ loaded' = IF app = "up" THEN Whole(saving) ELSE loaded
    /\ app' = "editing"
    /\ UNCHANGED <<files, todo, asked>>

\* A write raises; the caller sees the exception and the process goes on.
SaveRaises ==
    /\ step # "idle"
    /\ step' = "idle"
    /\ saving' = NoPayload
    /\ todo' = {}
    /\ UNCHANGED <<files, app, loaded, asked, disk>>

-----------------------------------------------------------------------------
(* The callers of save and load *)

\* The editor saves a project it holds.
SaveProject ==
    /\ app = "editing"
    /\ \E p \in Payload :
        /\ p.ver = Cardinality(asked) + 1
        /\ BeginSave(p)
    /\ UNCHANGED <<files, todo, app, loaded>>

\* __init__ and load(recover=True), at start-up and when the first load failed.
Startup ==
    /\ app \in {"down", "up"} /\ step = "idle"
    /\ \/ \* __init__: no manifest, save(default_project())
          /\ manifest.ver = Missing
          /\ \E p \in (IF asked = {} THEN {q \in Payload : q.ver = 1}
                                     ELSE {q \in asked : q.ver = 1}) :
                BeginSave(p)
          /\ app' = "up"
          /\ loaded' = NotLoaded
       \/ \* load(): the files are fine
          /\ manifest.ver # Missing /\ Readable
          /\ app' = "editing"
          /\ loaded' = ReadBack
          /\ UNCHANGED <<step, saving, asked, disk>>
       \/ \* load(): they are not, save(recovered)
          /\ manifest.ver # Missing /\ ~Readable
          /\ recovery # NoPayload
          /\ BeginSave(recovery)
          /\ app' = "up"
          /\ loaded' = NotLoaded
    /\ UNCHANGED <<files, todo>>

\* open(): load(recover=False), from the dialog or the list of projects.  It
\* refuses files that cannot be read and leaves the editor where it was.
OpenProject ==
    /\ app \in {"up", "editing"} /\ step = "idle"
    /\ Readable
    /\ app' = "editing"
    /\ loaded' = ReadBack
    /\ UNCHANGED <<files, step, saving, todo, asked, disk>>

\* The process dies.
Crash ==
    /\ app # "down"
    /\ app' = "down"
    /\ step' = "idle"
    /\ saving' = NoPayload
    /\ todo' = {}
    /\ loaded' = NotLoaded
    /\ UNCHANGED <<files, asked, disk>>

SaveStep ==
    \/ WriteChapters \/ WriteRest \/ WriteRecovery \/ WriteManifest \/ EndSave
    \/ \E f \in Fragment : WriteScript(f) \/ RemoveStale(f)

Next == SaveStep \/ SaveRaises \/ SaveProject \/ Startup \/ OpenProject \/ Crash

Spec == Init /\ [][Next]_vars

-----------------------------------------------------------------------------
(* Properties *)

FileVersion == 0..MaxVersion

TypeOK ==
    /\ manifest = [ver |-> Missing]
       \/ manifest \in [ver : Version, active : Fragment]
    /\ chapters \in [ver : FileVersion, frags : SUBSET Fragment]
    /\ script \in [Fragment -> FileVersion]
    /\ rest \in FileVersion
    /\ recovery \in Payload \cup {NoPayload}
    /\ step \in Steps
    /\ saving \in Payload \cup {NoPayload}
    /\ todo \subseteq Fragment
    /\ app \in {"down", "up", "editing"}
    /\ asked \subseteq Payload
    /\ disk \in {"torn", "committed", "finished"}

\* A save that got as far as the manifest is what the next load returns, all
\* of it, whether stale shards were removed, a removal failed or the process
\* died after the commit.
CommittedIsLoaded ==
    disk # "torn" /\ manifest.ver # Missing =>
        Readable /\ \E p \in asked : p.ver = manifest.ver /\ ReadBack = Whole(p)

\* A finished save leaves no shard of a deleted fragment behind, also one that
\* an interrupted save wrote.
FinishedIsClean ==
    disk = "finished" /\ manifest.ver # Missing =>
        \A f \in Fragment : script[f] # Missing <=> f \in chapters.frags

\* The start-up load never gives up: wherever the last save stopped, there is
\* a manifest with a recovery snapshot that is at least as new and complete,
\* or no manifest and the default project is saved again.
StartupNeverRaises ==
    manifest.ver # Missing =>
        recovery \in asked /\ recovery.ver >= manifest.ver

\* An interrupted save, even a second one during the recovery from the first,
\* never takes a part of the last committed project back to an older state.
NoRollback ==
    Readable =>
        /\ chapters.ver >= manifest.ver /\ rest >= manifest.ver
        /\ \A p \in asked : p.ver = manifest.ver =>
              \A f \in p.frags \cap chapters.frags : script[f] >= manifest.ver

\* "manifest is the only commit point ... on a failure half-way the old
\* manifest stays valid, and the recovery snapshot holds this whole payload":
\* a load returns one payload, the old one or the new one.  The code returns
\* a mixture: the shards of the interrupted save under the old manifest.
LoadIsWhole ==
    loaded # NotLoaded => \E p \in asked : loaded = Whole(p)

=============================================================================
