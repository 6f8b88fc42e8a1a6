----------------------------- MODULE EditorSave -----------------------------
(***************************************************************************)
(* How edits reach the disk: the autosave, project switch, "save as", build *)
(* and applyAgentPlan routines of frontend/src/App.tsx, the revision       *)
(* counters of hooks/useCommandHistory.ts, the session of frontend/src/    *)
(* api.ts and the save, open and apply_ai_patch handlers of backend/api.py *)
(* with the identity check of ProjectStore.save.                           *)
(*                                                                         *)
(* The page is single-threaded, but its routines await RPCs, and a routine *)
(* works with the project and the dirty flag of the render it was started  *)
(* in (a React closure).  An RPC is an HTTP request that a thread pool     *)
(* hands to the GUI thread: requests in flight run one at a time in any    *)
(* order.  withTimeout gives up waiting for one; it still runs.            *)
(***************************************************************************)
EXTENDS Naturals, FiniteSets

CONSTANTS
    Path,      \* project folders
    First,     \* the folder of the project that is open at the start
    None,      \* no timer
    Switcher,  \* project switches that may overlap: one from the menu, and
               \* one per project the desktop shell asks to open
    MaxEdit,   \* bound on the number of edits
    MaxToken,  \* bound on the rotations of the project session
    MaxSum,    \* bound on edits and rotations together
    MaxBusy    \* bound on the routines under way, abandoned requests included

ASSUME PathAssumption == First \in Path /\ None \notin Path
ASSUME SwitcherAssumption ==
    Switcher \cap {"auto", "late", "build", "saveAs", "plan", "gone"} = {}
ASSUME BoundAssumption == /\ MaxEdit \in Nat \ {0}
                          /\ MaxToken \in Nat \ {0}
                          /\ MaxSum \in Nat \ {0}
                          /\ MaxBusy \in Nat \ {0}

\* What a project holds: its meta.id, and the number of its last edit.  A
\* project gets the name of the folder it was created in as its id.
Content == [id : Path, n : 0..MaxEdit]
ASSUME NoneAssumption == None \notin Content
Empty == [id |-> None, n |-> 0]
Session == [path : Path, token : 0..MaxToken]
Render == [value : Content, dirty : BOOLEAN]

\* The routines that await the running autosave and save before they go on: the
\* switches, and applyAgentPlan.
Preparer == Switcher \cup {"plan"}

\* Who waits for a request ("late": an autosave that is no longer in
\* pendingSaveRef; "gone": withTimeout gave up), and who awaits an autosave.
Callers == {"auto", "late", "build", "saveAs", "gone"} \cup Preparer
Kinds == {"save", "open", "saveAs", "build", "patch"}
Call == [by : Callers, kind : Kinds,
         content : Content, session : Session, status : {"sent", "ok"},
         awaited : SUBSET Preparer]

SwitchPlaces == {"idle", "simulate", "await", "saving", "saved",
                 "opening", "restore", "patching"}
BuildPlaces == {"idle", "preflight", "saving", "building"}

\* The project that is open at the start; the routines when they do not run.
FirstProject == [id |-> First, n |-> 0]
NoSwitch == [pc |-> "idle", target |-> First,
             seen |-> [value |-> FirstProject, dirty |-> FALSE]]
NoSession == [path |-> First, token |-> 0]
NoBuild == [pc |-> "idle", content |-> FirstProject]

VARIABLES
    value,      \* valueRef: the project in the editor
    edits,      \* edits so far
    dirty,      \* revision # savedRevision
    rendered,   \* value and dirty of the last render: what closures see
    timer,      \* the content the autosave timer will save, or None
    switching,  \* projectSwitchingRef
    sw,         \* each switch, and applyAgentPlan: place, closure, target
    build,      \* runBuild: place, closure
    session,    \* currentProjectSession
    calls,      \* requests in flight (two equal ones are one)
    store,      \* the store's project folder
    token,      \* _project_session_token
    disk,       \* the committed project of each folder
    excused     \* history: since the last edit a save failed (and the user
                \* was told), a switch gave up, or applyAgentPlan cleared the
                \* timer of an edit its closure does not know

page == <<value, edits, dirty, rendered, timer, switching, sw, build, session>>
backend == <<store, token, disk>>
vars == <<page, calls, backend, excused>>

Init ==
    /\ value = FirstProject
    /\ edits = 0
    /\ dirty = FALSE
    /\ rendered = [value |-> value, dirty |-> FALSE]
    /\ timer = None
    /\ switching = FALSE
    /\ sw = [s \in Preparer |-> NoSwitch]
    /\ build = NoBuild
    /\ session = [path |-> First, token |-> 0]
    /\ calls = {}
    /\ store = First
    /\ token = 0
    /\ disk \in {d \in [Path -> Content \cup {Empty}] :
                   /\ d[First] = value
                   /\ \A p \in Path : d[p] \in {Empty, [id |-> p, n |-> 0]}}
    /\ excused = FALSE

\* A switch, a plan, a build, a "save as" and a request nobody waits for count
\* against MaxBusy; autosaves are bounded by the edits.
MayStart ==
    Cardinality({s \in Preparer : sw[s].pc # "idle"})
      + (IF build.pc = "idle" THEN 0 ELSE 1)
      + Cardinality({c \in calls : c.by \in {"saveAs", "gone"}}) < MaxBusy

-----------------------------------------------------------------------------
(* Edits, renders and the autosave timer *)

\* The next number of a content.
MayEdit == edits < MaxEdit /\ edits + token < MaxSum
Count == edits' = edits + 1

\* commit, replace, undo, redo: publish and bumpRevision.
Edit ==
    /\ MayEdit /\ Count
    /\ value' = [value EXCEPT !.n = edits + 1]
    /\ dirty' = TRUE
    /\ excused' = FALSE
    /\ UNCHANGED <<rendered, timer, switching, sw, build, session, calls,
                   backend>>

\* The dependencies [dirty, markSaved, project] of the autosave effect.
\* Mutant: the project is missing.
DirtyChanged == rendered.dirty # dirty
AutosaveDepsChanged == rendered # [value |-> value, dirty |-> dirty]

\* A render and the autosave effect: the clean-up clears the timer; it is set
\* again unless a switch is under way (the autoSave setting is on).
RenderPage ==
    /\ rendered # [value |-> value, dirty |-> dirty]
    /\ rendered' = [value |-> value, dirty |-> dirty]
    /\ timer' = IF ~AutosaveDepsChanged THEN timer
                ELSE IF dirty /\ ~switching THEN value ELSE None
    /\ UNCHANGED <<value, edits, dirty, switching, sw, build, session, calls,
                   backend, excused>>

\* save_project sends the session; the others name a folder at most (token 0).
Request(by, kind, content, sess) ==
    [by |-> by, kind |-> kind, content |-> content, session |-> sess,
     status |-> "sent", awaited |-> {}]

\* The timer's callback: pendingSaveRef now holds this request.
TimerFires ==
    /\ timer # None
    /\ timer' = None
    /\ calls' = {IF c.by = "auto" THEN [c EXCEPT !.by = "late"] ELSE c :
                   c \in calls}
                \cup {Request("auto", "save", timer, session)}
    /\ UNCHANGED <<value, edits, dirty, rendered, switching, sw, build,
                   session, backend, excused>>

-----------------------------------------------------------------------------
(* What prepareProjectSwitch and applyAgentPlan have in common               *)

\* They clear the timer, and await the request in pendingSaveRef.
AwaitPending(s) ==
    /\ timer' = None
    /\ calls' = {IF c.by = "auto" THEN [c EXCEPT !.awaited = @ \cup {s}] ELSE c :
                   c \in calls}

\* A routine goes on from here.  A switch no longer needs its closure.
SwitchTo(s, place) ==
    sw' = [sw EXCEPT ![s] = [pc |-> place, target |-> sw[s].target,
              seen |-> IF s \in Switcher THEN NoSwitch.seen ELSE sw[s].seen]]

\* await pendingSaveRef.current, then the save if the closure is dirty.
SaveFirst(s) ==
    /\ sw[s].pc = "await"
    /\ \A c \in calls : s \notin c.awaited
    /\ \/ /\ sw[s].seen.dirty
          /\ SwitchTo(s, "saving")
          /\ calls' = calls \cup {Request(s, "save", sw[s].seen.value, session)}
       \/ /\ ~sw[s].seen.dirty
          /\ SwitchTo(s, "saved")
          /\ UNCHANGED calls
    /\ UNCHANGED <<value, edits, dirty, rendered, timer, switching, build,
                   session, backend, excused>>

-----------------------------------------------------------------------------
(* Switching to another project: prepareProjectSwitch, the RPC, and         *)
(* restoreProjectAndHistory.  Nothing keeps two switches apart.             *)

SwitchBegin(s, target) ==
    /\ sw[s].pc = "idle"
    /\ MayStart
    /\ switching' = TRUE
    /\ sw' = [sw EXCEPT ![s] = [pc |-> "await", seen |-> rendered,
                                target |-> target]]
    /\ AwaitPending(s)
    /\ UNCHANGED <<value, edits, dirty, rendered, build, session, backend,
                   excused>>

\* flushCommandHistory, then the request that opens or creates a project.
SwitchOpen(s) ==
    /\ sw[s].pc = "saved"
    /\ calls' = calls \cup {Request(s, "open", FirstProject,
                                    [path |-> sw[s].target, token |-> 0])}
    /\ SwitchTo(s, "opening")
    /\ UNCHANGED <<value, edits, dirty, rendered, timer, switching, build,
                   session, backend, excused>>

\* The finally clause, after the switch, an exception or a cancelled dialog:
\* it clears the flag even when another switch is under way.  Mutant: it is
\* missing.  applyAgentPlan has no flag to clear.
StaySwitching(s) == UNCHANGED <<sw, switching>>
LeaveSwitch(s) ==
    /\ sw' = [sw EXCEPT ![s] = NoSwitch]
    /\ switching' = (switching /\ s \notin Switcher)

\* flushCommandHistory raises.
SwitchFails(s) ==
    /\ sw[s].pc = "saved"
    /\ LeaveSwitch(s)
    /\ excused' = TRUE
    /\ UNCHANGED <<value, edits, dirty, rendered, timer, build, session, calls,
                   backend>>

\* The history of the new project is loaded (its errors are caught), and
\* resetProject replaces the project and both revision counters.
SwitchRestore(s) ==
    /\ sw[s].pc = "restore"
    /\ value' = sw[s].seen.value
    /\ dirty' = FALSE
    /\ LeaveSwitch(s)
    /\ UNCHANGED <<edits, rendered, timer, build, session, calls, backend,
                   excused>>

-----------------------------------------------------------------------------
(* Applying a plan of the Agent: applySelectedOperations, applyAgentPlan *)

\* The handler has the closure of its click, and simulates the story first.
\* The task is one of those listed from the folder that is open.
PlanBegin ==
    /\ sw["plan"].pc = "idle"
    /\ MayStart
    /\ sw' = [sw EXCEPT !["plan"] = [pc |-> "simulate", seen |-> rendered,
                                     target |-> store]]
    /\ UNCHANGED <<value, edits, dirty, rendered, timer, switching, build,
                   session, calls, backend, excused>>

\* applyAgentPlan begins: the timer may have an edit made during the simulation.
PlanPrepare ==
    /\ sw["plan"].pc = "simulate"
    /\ sw' = [sw EXCEPT !["plan"].pc = "await"]
    /\ AwaitPending("plan")
    /\ excused' = (excused \/ (timer # None /\ ~sw["plan"].seen.dirty))
    /\ UNCHANGED <<value, edits, dirty, rendered, switching, build, session,
                   backend>>

\* applyAiPatch, with the project of the closure.
PlanPatch ==
    /\ sw["plan"].pc = "saved"
    /\ calls' = calls \cup {Request("plan", "patch", sw["plan"].seen.value,
                                    [path |-> sw["plan"].target, token |-> 0])}
    /\ SwitchTo("plan", "patching")
    /\ UNCHANGED <<value, edits, dirty, rendered, timer, switching, build,
                   session, backend, excused>>

-----------------------------------------------------------------------------
(* Build and "save as" *)

\* runBuild starts with the project of the last render, and saves it after
\* the preflight, which walks all paths of the story.
BuildStart ==
    /\ build.pc = "idle"
    /\ MayStart
    /\ build' = [pc |-> "preflight", content |-> rendered.value]
    /\ UNCHANGED <<value, edits, dirty, rendered, timer, switching, sw, session,
                   calls, backend, excused>>

BuildSave ==
    /\ build.pc = "preflight"
    /\ build' = [build EXCEPT !.pc = "saving"]
    /\ calls' = calls \cup {Request("build", "save", build.content, session)}
    /\ UNCHANGED <<value, edits, dirty, rendered, timer, switching, sw, session,
                   backend, excused>>

BuildBlocked ==
    /\ build.pc = "preflight"
    /\ build' = NoBuild
    /\ UNCHANGED <<value, edits, dirty, rendered, timer, switching, sw, session,
                   calls, backend, excused>>

SaveAs(target) ==
    /\ MayStart
    /\ calls' = calls \cup {Request("saveAs", "saveAs", rendered.value,
                                    [path |-> target, token |-> 0])}
    /\ UNCHANGED <<page, backend, excused>>

-----------------------------------------------------------------------------
(* The handlers in the backend, on the GUI thread *)

\* The reply is on its way, if somebody still waits for it.
Answer(c, content, sess) ==
    calls' = (calls \ {c}) \cup
        IF c.by = "gone" THEN {}
        ELSE {[c EXCEPT !.status = "ok", !.content = content, !.session = sess]}

\* save_project and ProjectStore.save: session path and token, then the id of
\* the project on disk.  Mutant: the disk is not looked at.
AcceptsSession(c) == c.session = [path |-> store, token |-> token]
Accepts(c) ==
    /\ c.session = [path |-> store, token |-> token]
    /\ disk[store] # Empty => disk[store].id = c.content.id

RunSave(c) ==
    /\ c.kind = "save"
    /\ Accepts(c)
    /\ disk' = [disk EXCEPT ![store] = c.content]
    /\ Answer(c, c.content, NoSession)
    /\ UNCHANGED <<page, store, token, excused>>

MayRotate == token < MaxToken /\ edits + token < MaxSum
NewSession(path) == [path |-> path, token |-> token + 1]

\* open and create_configured: the project in the folder, or a new one.
RunOpen(c) ==
    LET path == c.session.path
        opened == IF disk[path] # Empty THEN disk[path]
                  ELSE [id |-> path, n |-> 0]
    IN  /\ c.kind = "open"
        /\ MayRotate
        /\ disk' = [disk EXCEPT ![path] = opened]
        /\ store' = path
        /\ token' = token + 1
        /\ Answer(c, opened, NewSession(path))
        /\ UNCHANGED <<page, excused>>

\* save_as: no check of what the folder holds.
RunSaveAs(c) ==
    /\ c.kind = "saveAs"
    /\ MayRotate
    /\ disk' = [disk EXCEPT ![c.session.path] = c.content]
    /\ store' = c.session.path
    /\ token' = token + 1
    /\ Answer(c, c.content, NewSession(c.session.path))
    /\ UNCHANGED <<page, excused>>

\* build_web, build_windows and export_renpy save the project they were sent
\* without the session and identity checks, and then build it.
RunBuild(c) ==
    /\ c.kind = "build"
    /\ disk' = [disk EXCEPT ![store] = c.content]
    /\ Answer(c, c.content, NoSession)
    /\ UNCHANGED <<page, store, token, excused>>

\* apply_ai_patch: the task must be one of the open folder.  A plan that is
\* accepted (AgentPatch has the check) gives a new content of the project that
\* was sent, which is saved without the session and identity checks.
RunPatch(c) ==
    LET patched == [c.content EXCEPT !.n = edits + 1]
    IN  /\ c.kind = "patch" /\ c.session.path = store
        /\ MayEdit /\ Count
        /\ disk' = [disk EXCEPT ![store] = patched]
        /\ Answer(c, patched, NoSession)
        /\ UNCHANGED <<value, dirty, rendered, timer, switching, sw, build,
                       session, store, token, excused>>

\* Nobody waits for the request any more and the handler raises.
RunFailsUnseen(c) ==
    /\ c.by = "gone"
    /\ calls' = calls \ {c}
    /\ UNCHANGED <<page, backend, excused>>

Execute(c) ==
    /\ c.status = "sent"
    /\ \/ RunSave(c) \/ RunOpen(c) \/ RunSaveAs(c) \/ RunBuild(c)
       \/ RunPatch(c) \/ RunFailsUnseen(c)

-----------------------------------------------------------------------------
(* Replies and time-outs, in the page *)

\* markSaved: the current revision counts as saved, whatever was written.
MarkSaved == dirty' = FALSE

\* What the caller does when its request failed.  A refused plan is no failed
\* save.
CallerFails(c) ==
    /\ excused' = (excused \/ c.kind # "patch")
    /\ IF c.by \in Preparer THEN LeaveSwitch(c.by) ELSE UNCHANGED <<sw, switching>>
    /\ build' = IF c.by = "build" THEN NoBuild ELSE build
    /\ UNCHANGED <<value, edits, dirty, rendered, timer, session, backend>>

\* Sessions that acceptProjectSession and saveProjectAs take from a reply.
SessionOf(c) == c.session

\* A build goes on with the project it has saved.
SaveReply(c) ==
    /\ c.kind = "save"
    /\ MarkSaved
    /\ IF c.by \in Preparer THEN SwitchTo(c.by, "saved") ELSE UNCHANGED sw
    /\ IF c.by = "build"
       THEN /\ build' = [build EXCEPT !.pc = "building"]
            /\ calls' = (calls \ {c}) \cup
                 {Request("build", "build", build.content, NoSession)}
       ELSE /\ calls' = calls \ {c}
            /\ UNCHANGED build
    /\ UNCHANGED <<session, value, switching>>

OpenReply(c) ==
    /\ c.kind = "open"
    /\ session' = SessionOf(c)
    /\ sw' = [sw EXCEPT ![c.by].pc = "restore", ![c.by].seen.value = c.content]
    /\ calls' = calls \ {c}
    /\ UNCHANGED <<value, dirty, switching, build>>

SaveAsReply(c) ==
    /\ c.kind = "saveAs"
    /\ session' = SessionOf(c)
    /\ calls' = calls \ {c}
    /\ UNCHANGED <<value, dirty, switching, sw, build>>

BuildReply(c) ==
    /\ c.kind = "build"
    /\ build' = NoBuild
    /\ calls' = calls \ {c}
    /\ UNCHANGED <<value, dirty, switching, sw, session>>

\* commitSaved: the patched project replaces the one in the editor, whatever
\* that has become, and counts as saved.
PatchReply(c) ==
    /\ c.kind = "patch"
    /\ value' = c.content
    /\ MarkSaved
    /\ LeaveSwitch("plan")
    /\ calls' = calls \ {c}
    /\ UNCHANGED <<session, build>>

Deliver(c) ==
    /\ c.status = "ok"
    /\ \/ SaveReply(c) \/ OpenReply(c) \/ SaveAsReply(c) \/ BuildReply(c)
       \/ PatchReply(c)
    /\ UNCHANGED <<edits, rendered, timer, backend, excused>>

\* The handler raises, refuses the plan or its dialog is cancelled (nothing has
\* changed), or withTimeout gives up: a request that was sent still runs, a
\* late reply is dropped.
Fail(c) ==
    /\ c.by # "gone"
    /\ \/ calls' = calls \ {c}
       \/ /\ c.status = "sent"
          /\ \A d \in calls : d.by # "gone"
          /\ calls' = (calls \ {c})
                               \cup {[c EXCEPT !.by = "gone", !.awaited = {}]}
    /\ CallerFails(c)

-----------------------------------------------------------------------------

SwitchStep(s) ==
    \/ \E p \in Path : SwitchBegin(s, p)
    \/ SwitchOpen(s) \/ SwitchFails(s) \/ SwitchRestore(s)

Next ==
    \/ Edit \/ RenderPage \/ TimerFires
    \/ \E s \in Preparer : SaveFirst(s)
    \/ \E s \in Switcher : SwitchStep(s)
    \/ PlanBegin \/ PlanPrepare \/ PlanPatch
    \/ \E p \in Path : SaveAs(p)
    \/ BuildStart \/ BuildSave \/ BuildBlocked
    \/ \E c \in calls : Execute(c) \/ Deliver(c) \/ Fail(c)

Spec == Init /\ [][Next]_vars

-----------------------------------------------------------------------------
(* Properties *)

TypeOK ==
    /\ value \in Content
    /\ edits \in 0..MaxEdit
    /\ dirty \in BOOLEAN /\ switching \in BOOLEAN /\ excused \in BOOLEAN
    /\ rendered \in Render
    /\ timer \in Content \cup {None}
    /\ sw \in [Preparer -> [pc : SwitchPlaces, seen : Render, target : Path]]
    /\ build \in [pc : BuildPlaces, content : Content]
    /\ session \in Session
    /\ calls \subseteq Call
    /\ store \in Path
    /\ token \in 0..MaxToken
    /\ disk \in [Path -> Content \cup {Empty}]

\* The project in a folder is replaced by another one.
Replaced(p) == disk[p] # Empty /\ disk'[p].id # disk[p].id

\* save_project never overwrites another project: whatever closures, delayed
\* requests, time-outs and overlapping switches come together, the project in
\* a folder is replaced only by the handlers that do not look at it: "save as",
\* the builds, and apply_ai_patch, which still wants a task of that folder.
NoCrossWrite ==
    [][\A p \in Path : Replaced(p) =>
          \E c \in calls \ calls' :
             /\ c.kind \in {"saveAs", "build", "patch"}
             /\ disk'[p].id = c.content.id
             /\ c.kind \in {"saveAs", "patch"} => c.session.path = p]_vars

\* "refusing to overwrite another project": only the folder the user picks
\* for a copy may change its project.  The build handlers save without the
\* check: when a switch runs between the save and the build of runBuild, the
\* project that was built replaces the one that was opened.
RefusesToOverwrite ==
    [][\A p \in Path : Replaced(p) =>
          \E c \in calls \ calls' : c.kind = "saveAs" /\ c.session.path = p]_vars

\* An edit the page knows to be unsaved is on its way to the disk: the timer
\* or a running autosave carries exactly that content, or applyAgentPlan is
\* about to save.  Excepted are edits since which a save failed (which the user
\* was told) or a switch was given up, and, a fault of the code, edits whose
\* timer applyAgentPlan cleared although its closure is from before them: when
\* the plan is then refused, nothing saves them until the next edit.
DirtyIsHandled ==
    dirty /\ rendered = [value |-> value, dirty |-> dirty]
          /\ ~switching /\ ~excused =>
        \/ timer = value
        \/ \E c \in calls : c.by = "auto" /\ c.content = value
        \/ sw["plan"].pc \in {"await", "saving"} /\ sw["plan"].seen.dirty

\* A switch never hangs, which would stop the autosave for good: while
\* projectSwitchingRef is set a switch is under way, and where a switch (or a
\* plan being applied) waits there is one request of its own in flight, which a
\* reply, an error or withTimeout ends.  No request of an earlier one is left to
\* do that.
SwitchIsAwaited ==
    /\ switching => \E s \in Switcher : sw[s].pc # "idle"
    /\ \A s \in Preparer :
          Cardinality({c \in calls : c.by = s})
            = (IF sw[s].pc \in {"saving", "opening", "patching"} THEN 1 ELSE 0)


=============================================================================
