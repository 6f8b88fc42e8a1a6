--------------------------- MODULE DesktopProofs ---------------------------
(***************************************************************************)
(* Proofs about the routines that save the project and about the updates;  *)
(* SaveSlotsProofs has those about the save slots of a game.               *)
(***************************************************************************)
EXTENDS EditorSave, UpdateService, ListsProofs

-----------------------------------------------------------------------------
(***************************************************************************)
(* Proofs about EditorSave: its types, that a save never replaces another  *)
(* project, that a switch always waits for exactly one request of its own, *)
(* and that an edit the page knows to be unsaved is on its way to the disk.*)
(***************************************************************************)
USE PathAssumption, SwitcherAssumption, BoundAssumption

-----------------------------------------------------------------------------
(* The inductive invariants *)

\* Which routine sends which request.  A request nobody waits for has no
\* answer.
WellAddressed(c) ==
    /\ c.by \in {"auto", "late"} => c.kind = "save"
    /\ c.by = "build" => c.kind \in {"save", "build"}
    /\ c.by = "saveAs" => c.kind = "saveAs"
    /\ c.by \in Switcher => c.kind \in {"save", "open"}
    /\ c.by = "plan" => c.kind \in {"save", "patch"}
    /\ c.by = "gone" => c.status = "sent"

CallsInv == \A c \in calls : WellAddressed(c)

\* The request a switch or a plan waits for at each of its places.
Awaited(s) == IF sw[s].pc = "saving" THEN {"save"}
              ELSE IF sw[s].pc = "opening" THEN {"open"}
              ELSE IF sw[s].pc = "patching" THEN {"patch"} ELSE {}

\* It has one request in flight where it waits for one, and none elsewhere.
OwnInv(s) ==
    /\ \A c \in calls : c.by = s => c.kind \in Awaited(s)
    /\ Awaited(s) # {} => \E c \in calls : c.by = s
    /\ \A c, d \in calls : c.by = s /\ d.by = s => c = d

SwitchInv ==
    /\ switching => \E s \in Switcher : sw[s].pc # "idle"
    /\ \A s \in Preparer : OwnInv(s)

\* Every content that the page, a request or a folder holds.
Held == {value, rendered.value, build.content}
          \cup {sw[s].seen.value : s \in Preparer}
          \cup {c.content : c \in calls}
          \cup {disk[p] : p \in Path}

\* None is from after the last edit, and the timer has the content of the render
\* that set it.
EditsInv ==
    /\ \A x \in Held : x.n <= edits
    /\ timer # None => timer = rendered.value

SaveInv == TypeOK /\ CallsInv /\ SwitchInv /\ EditsInv /\ DirtyIsHandled

-----------------------------------------------------------------------------
(* Types *)

LEMMA ContentTypes ==
    /\ FirstProject \in Content
    /\ Empty # FirstProject
    /\ \A p \in Path : [id |-> p, n |-> 0] \in Content
    /\ Empty \notin Content
    /\ 0 \in 0..MaxToken /\ 0 \in 0..MaxEdit
    /\ NoSession \in Session
    /\ NoSwitch \in [pc : SwitchPlaces, seen : Render, target : Path]
    /\ NoBuild \in [pc : BuildPlaces, content : Content]
  BY DEF FirstProject, Content, Empty, NoSession, Session, NoSwitch, NoBuild,
         Render, SwitchPlaces, BuildPlaces

\* What the page asks for is a request.
LEMMA RequestType ==
    ASSUME NEW by \in Callers, NEW kind \in Kinds,
           NEW content \in Content, NEW sess \in Session
    PROVE  Request(by, kind, content, sess) \in Call
  BY DEF Request, Call

\* An answer removes the request, and adds it again as answered, if somebody
\* waits for it.
LEMMA AnswerType ==
    ASSUME calls \subseteq Call, NEW c \in calls, NEW content \in Content,
           NEW sess \in Session, Answer(c, content, sess)
    PROVE  calls' \subseteq Call
<1>1. [c EXCEPT !.status = "ok", !.content = content, !.session = sess] \in Call
  BY DEF Call
<1> QED BY <1>1 DEF Answer

LEMMA LeaveSwitchType ==
    ASSUME TypeOK, NEW s, LeaveSwitch(s)
    PROVE  /\ sw' \in [Preparer -> [pc : SwitchPlaces, seen : Render, target : Path]]
           /\ switching' \in BOOLEAN
  BY ContentTypes DEF TypeOK, LeaveSwitch

LEMMA SwitchToType ==
    ASSUME TypeOK, NEW s \in Preparer, NEW place \in SwitchPlaces, SwitchTo(s, place)
    PROVE  sw' \in [Preparer -> [pc : SwitchPlaces, seen : Render, target : Path]]
<1>1. /\ NoSwitch.seen \in Render
      /\ sw[s] \in [pc : SwitchPlaces, seen : Render, target : Path]
  BY ContentTypes DEF TypeOK
<1>2. [pc |-> place, target |-> sw[s].target,
       seen |-> IF s \in Switcher THEN NoSwitch.seen ELSE sw[s].seen]
        \in [pc : SwitchPlaces, seen : Render, target : Path]
  BY <1>1
<1> QED BY <1>2 DEF TypeOK, SwitchTo

\* The requests after those that run now are awaited.
LEMMA AwaitPendingType ==
    ASSUME TypeOK, NEW s \in Preparer, AwaitPending(s)
    PROVE  calls' \subseteq Call /\ timer' = None
<1>1. \A c \in calls : [c EXCEPT !.awaited = @ \cup {s}] \in Call
  BY DEF TypeOK, Call
<1> QED BY <1>1 DEF AwaitPending, TypeOK

LEMMA TypeStep == TypeOK /\ [Next]_vars => TypeOK'
<1> SUFFICES ASSUME TypeOK, [Next]_vars PROVE TypeOK'
  OBVIOUS
<1> USE ContentTypes DEF page, backend
<1>1. CASE Edit
  <2>1. edits + 1 \in 0..MaxEdit
    BY <1>1 DEF TypeOK, Edit, MayEdit
  <2>2. [value EXCEPT !.n = edits + 1] \in Content
    BY <2>1 DEF TypeOK, Content
  <2> QED BY <1>1, <2>1, <2>2 DEF TypeOK, Edit, Count
<1>2. CASE RenderPage
  BY <1>2 DEF TypeOK, RenderPage, Render
<1>3. CASE TimerFires
  <2>1. \A c \in calls : [c EXCEPT !.by = "late"] \in Call
    <3>1. "late" \in Callers
      BY DEF Callers
    <3> QED BY <3>1 DEF TypeOK, Call
  <2>2. Request("auto", "save", timer, session) \in Call
    BY <1>3, RequestType DEF Kinds, TimerFires, TypeOK, Callers
  <2> QED BY <1>3, <2>1, <2>2 DEF TimerFires, TypeOK
<1>4. ASSUME NEW s \in Switcher, SwitchStep(s)
      PROVE  TypeOK'
  <2>0. s \in Preparer
    BY DEF Preparer
  <2>1. ASSUME NEW p \in Path, SwitchBegin(s, p)
        PROVE  TypeOK'
    <3>1. calls' \subseteq Call /\ timer' = None
      BY <2>0, <2>1, AwaitPendingType DEF SwitchBegin
    <3>2. [pc |-> "await", seen |-> rendered, target |-> p]
            \in [pc : SwitchPlaces, seen : Render, target : Path]
      BY DEF TypeOK, SwitchPlaces
    <3> QED BY <2>1, <3>1, <3>2 DEF SwitchBegin, TypeOK
  <2>3. CASE SwitchOpen(s)
    <3>1. [path |-> sw[s].target, token |-> 0] \in Session
      BY <2>0 DEF TypeOK, Session
    <3>2. Request(s, "open", FirstProject, [path |-> sw[s].target, token |-> 0])
            \in Call
      BY <2>0, <3>1, RequestType DEF Kinds, Callers
    <3>3. sw' \in [Preparer -> [pc : SwitchPlaces, seen : Render, target : Path]]
      BY <2>0, <2>3, SwitchToType DEF SwitchOpen, SwitchPlaces
    <3>4. calls' \subseteq Call
      BY <2>3, <3>2 DEF SwitchOpen, TypeOK
    <3> QED BY <2>3, <3>3, <3>4 DEF SwitchOpen, TypeOK
  <2>4. CASE SwitchFails(s)
    BY <2>4, LeaveSwitchType DEF SwitchFails, TypeOK
  <2>5. CASE SwitchRestore(s)
    <3>1. sw[s].seen.value \in Content
      BY <2>0 DEF TypeOK, Render
    <3> QED BY <2>5, <3>1, LeaveSwitchType DEF SwitchRestore, TypeOK
  <2> QED BY <1>4, <2>1, <2>3, <2>4, <2>5 DEF SwitchStep
<1>13. ASSUME NEW s \in Preparer, SaveFirst(s)
       PROVE  TypeOK'
  <2>1. Request(s, "save", sw[s].seen.value, session) \in Call
    BY RequestType DEF Kinds, TypeOK, Callers, Render
  <2>2. sw' \in [Preparer -> [pc : SwitchPlaces, seen : Render, target : Path]]
    BY <1>13, SwitchToType DEF SaveFirst, SwitchPlaces
  <2>3. calls' \subseteq Call
    BY <1>13, <2>1 DEF SaveFirst, TypeOK
  <2> QED BY <1>13, <2>2, <2>3 DEF SaveFirst, TypeOK
<1>14. CASE PlanBegin
  <2>1. [pc |-> "simulate", seen |-> rendered, target |-> store]
          \in [pc : SwitchPlaces, seen : Render, target : Path]
    BY DEF TypeOK, SwitchPlaces
  <2> QED BY <1>14, <2>1 DEF PlanBegin, TypeOK
<1>15. CASE PlanPrepare
  <2>0. "plan" \in Preparer
    BY DEF Preparer
  <2>1. calls' \subseteq Call /\ timer' = None
    BY <1>15, <2>0, AwaitPendingType DEF PlanPrepare
  <2>2. \A x \in [pc : SwitchPlaces, seen : Render, target : Path] :
          [x EXCEPT !.pc = "await"] \in [pc : SwitchPlaces, seen : Render, target : Path]
    BY DEF SwitchPlaces
  <2>3. sw' \in [Preparer -> [pc : SwitchPlaces, seen : Render, target : Path]]
    BY <1>15, <2>2 DEF PlanPrepare, TypeOK
  <2>4. excused' \in BOOLEAN
    BY <1>15 DEF PlanPrepare
  <2> QED BY <1>15, <2>1, <2>3, <2>4 DEF PlanPrepare, TypeOK
<1>16. CASE PlanPatch
  <2>0. "plan" \in Preparer
    BY DEF Preparer
  <2>1. /\ [path |-> sw["plan"].target, token |-> 0] \in Session
        /\ sw["plan"].seen.value \in Content
    BY <2>0 DEF TypeOK, Session, Render
  <2>2. Request("plan", "patch", sw["plan"].seen.value,
                [path |-> sw["plan"].target, token |-> 0]) \in Call
    BY <2>0, <2>1, RequestType DEF Kinds, Callers
  <2>3. sw' \in [Preparer -> [pc : SwitchPlaces, seen : Render, target : Path]]
    BY <1>16, <2>0, SwitchToType DEF PlanPatch, SwitchPlaces
  <2>4. calls' \subseteq Call
    BY <1>16, <2>2 DEF PlanPatch, TypeOK
  <2> QED BY <1>16, <2>3, <2>4 DEF PlanPatch, TypeOK
<1>5. ASSUME NEW p \in Path, SaveAs(p)
      PROVE  TypeOK'
  <2>1. [path |-> p, token |-> 0] \in Session /\ rendered.value \in Content
    BY DEF TypeOK, Session, Render
  <2>2. Request("saveAs", "saveAs", rendered.value, [path |-> p, token |-> 0])
          \in Call
    BY <2>1, RequestType DEF Kinds, Callers
  <2> QED BY <1>5, <2>2 DEF SaveAs, TypeOK
<1>6. CASE BuildStart
  BY <1>6 DEF BuildStart, TypeOK, Render, BuildPlaces
<1>7. CASE BuildSave
  <2>1. Request("build", "save", build.content, session) \in Call
    BY RequestType DEF Kinds, TypeOK, Callers
  <2> QED BY <1>7, <2>1 DEF BuildSave, TypeOK, BuildPlaces
<1>8. CASE BuildBlocked
  BY <1>8 DEF BuildBlocked, TypeOK
<1>9. ASSUME NEW c \in calls, Execute(c)
      PROVE  TypeOK'
  <2> USE <1>9
  <2>0. /\ c \in Call /\ c.content \in Content
        /\ c.session \in Session /\ c.session.path \in Path
    BY DEF TypeOK, Call, Session
  <2>1. CASE RunSave(c)
    BY <2>0, <2>1, AnswerType DEF RunSave, TypeOK
  <2>2. CASE RunOpen(c)
    <3> DEFINE path == c.session.path
               opened == IF disk[path] # Empty THEN disk[path]
                         ELSE [id |-> path, n |-> 0]
    <3>1. opened \in Content
      BY <2>0 DEF TypeOK
    <3>2. token + 1 \in 0..MaxToken /\ NewSession(path) \in Session
      BY <2>0, <2>2 DEF RunOpen, MayRotate, NewSession, Session, TypeOK
    <3> QED BY <2>0, <2>2, <3>1, <3>2, AnswerType DEF RunOpen, TypeOK
  <2>3. CASE RunSaveAs(c)
    <3>1. token + 1 \in 0..MaxToken /\ NewSession(c.session.path) \in Session
      BY <2>0, <2>3 DEF RunSaveAs, MayRotate, NewSession, Session, TypeOK
    <3> QED BY <2>0, <2>3, <3>1, AnswerType DEF RunSaveAs, TypeOK
  <2>4. CASE RunBuild(c)
    BY <2>0, <2>4, AnswerType DEF RunBuild, TypeOK
  <2>5. CASE RunFailsUnseen(c)
    BY <2>5 DEF RunFailsUnseen, TypeOK
  <2>6. CASE RunPatch(c)
    <3> DEFINE patched == [c.content EXCEPT !.n = edits + 1]
    <3>1. edits + 1 \in 0..MaxEdit
      BY <2>6 DEF RunPatch, MayEdit, TypeOK
    <3>2. patched \in Content
      BY <2>0, <3>1 DEF Content
    <3>3. calls' \subseteq Call
      BY <2>6, <3>2, AnswerType DEF RunPatch, TypeOK
    <3>4. disk' \in [Path -> Content \cup {Empty}]
      BY <2>6, <3>2 DEF RunPatch, TypeOK
    <3> QED BY <2>6, <3>1, <3>3, <3>4 DEF RunPatch, Count, TypeOK
  <2> QED BY <2>1, <2>2, <2>3, <2>4, <2>5, <2>6 DEF Execute
<1>10. ASSUME NEW c \in calls, Deliver(c)
       PROVE  TypeOK'
  <2> USE <1>10
  <2>0. /\ c \in Call /\ c.content \in Content /\ c.session \in Session
    BY DEF TypeOK, Call
  <2>1. CASE SaveReply(c)
    <3>1. sw' \in [Preparer -> [pc : SwitchPlaces, seen : Render, target : Path]]
      <4>1. CASE c.by \in Preparer
        <5>1. SwitchTo(c.by, "saved")
          BY <2>1, <4>1 DEF SaveReply
        <5> QED BY <4>1, <5>1, SwitchToType DEF SwitchPlaces
      <4>2. CASE c.by \notin Preparer
        BY <2>1, <4>2 DEF SaveReply, TypeOK
      <4> QED BY <4>1, <4>2
    <3>2. /\ calls' \subseteq Call
          /\ build' \in [pc : BuildPlaces, content : Content]
      <4>1. Request("build", "build", build.content, NoSession) \in Call
        BY RequestType DEF Kinds, TypeOK, Callers
      <4> QED BY <2>1, <4>1 DEF SaveReply, TypeOK, BuildPlaces
    <3> QED BY <2>1, <3>1, <3>2 DEF SaveReply, MarkSaved, Deliver, TypeOK
  <2>2. CASE OpenReply(c)
    <3> DEFINE Places == [pc : SwitchPlaces, seen : Render, target : Path]
    <3>1. \A x \in Places : [x EXCEPT !.pc = "restore"] \in Places
      BY DEF SwitchPlaces
    <3>2. \A x \in Places : [x EXCEPT !.seen.value = c.content] \in Places
      BY <2>0 DEF Render
    <3> DEFINE there == [sw EXCEPT ![c.by].pc = "restore"]
    <3> HIDE DEF Places
    <3>3. there \in [Preparer -> Places]
      BY <3>1 DEF TypeOK, Places
    <3>4. [there EXCEPT ![c.by].seen.value = c.content] \in [Preparer -> Places]
      <4> HIDE DEF there
      <4> QED BY <3>3, <3>2
    <3>5. sw' \in [Preparer -> Places]
      BY <2>2, <3>4 DEF OpenReply
    <3> QED BY <2>0, <2>2, <3>5 DEF OpenReply, SessionOf, Deliver, TypeOK, Places
  <2>3. CASE SaveAsReply(c)
    BY <2>0, <2>3 DEF SaveAsReply, SessionOf, Deliver, TypeOK
  <2>4. CASE BuildReply(c)
    BY <2>4 DEF BuildReply, Deliver, TypeOK
  <2>5. CASE PatchReply(c)
    <3>1. /\ sw' \in [Preparer -> [pc : SwitchPlaces, seen : Render, target : Path]]
          /\ switching' \in BOOLEAN
      BY <2>5, LeaveSwitchType DEF PatchReply
    <3> QED BY <2>0, <2>5, <3>1 DEF PatchReply, MarkSaved, Deliver, TypeOK
  <2> QED BY <2>1, <2>2, <2>3, <2>4, <2>5 DEF Deliver
<1>11. ASSUME NEW c \in calls, Fail(c)
       PROVE  TypeOK'
  <2> USE <1>11
  <2>1. calls' \subseteq Call
    <3>1. /\ c \in Call /\ "gone" \in Callers /\ {} \in SUBSET Preparer
      BY DEF TypeOK, Callers
    <3>2. [c EXCEPT !.by = "gone", !.awaited = {}] \in Call
      BY <3>1 DEF Call
    <3> QED BY <3>2 DEF Fail, TypeOK
  <2>2. /\ sw' \in [Preparer -> [pc : SwitchPlaces, seen : Render, target : Path]]
        /\ switching' \in BOOLEAN
    BY LeaveSwitchType DEF Fail, CallerFails, TypeOK
  <2> QED BY <2>1, <2>2 DEF Fail, CallerFails, TypeOK
<1>12. CASE UNCHANGED vars
  BY <1>12 DEF vars, TypeOK
<1> QED BY <1>1, <1>2, <1>3, <1>4, <1>5, <1>6, <1>7, <1>8, <1>9, <1>10, <1>11,
           <1>12, <1>13, <1>14, <1>15, <1>16 DEF Next

LEMMA TypeInit == Init => TypeOK
<1> SUFFICES ASSUME Init PROVE TypeOK
  OBVIOUS
<1> USE ContentTypes
<1>1. session \in Session /\ rendered \in Render
  BY DEF Init, Session, Render, Content, FirstProject
<1> QED BY <1>1 DEF Init, TypeOK, Content, FirstProject

\* The variables of every routine, request and handler keep their types.
THEOREM TypeCorrect == Spec => []TypeOK
  BY TypeInit, TypeStep, PTL DEF Spec

-----------------------------------------------------------------------------
(* Overwriting another project *)

\* A save keeps the id that the folder has; opening a project changes a folder
\* only when it is empty.
LEMMA StepKeepsProjects ==
    ASSUME TypeOK, [Next]_vars, NEW p \in Path, Replaced(p)
    PROVE  \E c \in calls \ calls' :
              /\ c.kind \in {"saveAs", "build", "patch"}
              /\ disk'[p].id = c.content.id
              /\ c.kind \in {"saveAs", "patch"} => c.session.path = p
<1>1. disk' # disk
  BY DEF Replaced
<1>2. PICK c \in calls : Execute(c)
  BY <1>1 DEF Next, vars, page, backend, Edit, RenderPage, TimerFires, SwitchStep,
      SwitchBegin, SaveFirst, PlanBegin, PlanPrepare, PlanPatch,
        AwaitPending, SwitchOpen, SwitchFails, SwitchRestore, SaveAs,
      BuildStart, BuildSave, BuildBlocked, Deliver, Fail, CallerFails
<1>3. c \in Call /\ c.session.path \in Path /\ c.status = "sent"
  BY <1>2 DEF TypeOK, Call, Session, Execute
<1>4. ASSUME NEW content, NEW sess, Answer(c, content, sess)
      PROVE  c \in calls \ calls'
  <2>1. [c EXCEPT !.status = "ok", !.content = content, !.session = sess] # c
    BY <1>3 DEF Call
  <2> QED BY <1>4, <2>1 DEF Answer
<1>5. CASE RunSave(c)
  BY <1>3, <1>5 DEF RunSave, Accepts, Replaced, TypeOK
<1>6. CASE RunOpen(c)
  BY <1>3, <1>6 DEF RunOpen, Replaced, TypeOK
<1>7. CASE RunSaveAs(c)
  <2>1. p = c.session.path
    BY <1>7 DEF RunSaveAs, Replaced, TypeOK
  <2>2. disk'[p] = c.content
    BY <1>7, <2>1 DEF RunSaveAs, TypeOK
  <2> QED BY <1>4, <1>7, <2>1, <2>2 DEF RunSaveAs
<1>8. CASE RunBuild(c)
  <2>1. p = store
    BY <1>8 DEF RunBuild, Replaced, TypeOK
  <2>2. disk'[p] = c.content
    BY <1>8, <2>1 DEF RunBuild, TypeOK
  <2> QED BY <1>4, <1>8, <2>2 DEF RunBuild
<1>9. CASE RunPatch(c)
  <2>1. p = store
    BY <1>9 DEF RunPatch, Replaced, TypeOK
  <2>2. disk'[p].id = c.content.id
    BY <1>3, <1>9, <2>1 DEF RunPatch, TypeOK, Call, Content
  <2> QED BY <1>4, <1>9, <2>1, <2>2 DEF RunPatch
<1>10. CASE RunFailsUnseen(c)
  BY <1>1, <1>10 DEF RunFailsUnseen, backend
<1> QED BY <1>2, <1>5, <1>6, <1>7, <1>8, <1>9, <1>10 DEF Execute

\* A project is never overwritten by a save of another one: only "save as",
\* the builds and apply_ai_patch, which do not look at the folder, replace one.
THEOREM SavesKeepProjects == Spec => NoCrossWrite
<1>1. TypeOK /\ [Next]_vars =>
        [\A p \in Path : Replaced(p) =>
            \E c \in calls \ calls' :
               /\ c.kind \in {"saveAs", "build", "patch"}
               /\ disk'[p].id = c.content.id
               /\ c.kind \in {"saveAs", "patch"} => c.session.path = p]_vars
  BY StepKeepsProjects
<1> QED BY <1>1, TypeCorrect, PTL DEF Spec, NoCrossWrite

-----------------------------------------------------------------------------
(* Who sends which request *)

\* What AwaitPending changes of a request is only who awaits it.
LEMMA AwaitPendingKeeps ==
    ASSUME TypeOK, NEW s, AwaitPending(s)
    PROVE  /\ timer' = None
           /\ \A x \in calls' : \E c \in calls :
                 /\ x.by = c.by /\ x.kind = c.kind /\ x.status = c.status
                 /\ x.content = c.content
                 /\ c.by # "auto" => x = c
           /\ \A c \in calls : \E x \in calls' :
                 /\ x.by = c.by /\ x.content = c.content
                 /\ c.by # "auto" => x = c
<1>1. \A c \in calls : LET x == [c EXCEPT !.awaited = @ \cup {s}] IN
         /\ x.by = c.by /\ x.kind = c.kind /\ x.status = c.status
         /\ x.content = c.content
  BY DEF TypeOK, Call
<1> QED BY <1>1 DEF AwaitPending

LEMMA CallsStep == TypeOK /\ CallsInv /\ SwitchInv /\ [Next]_vars => CallsInv'
<1> SUFFICES ASSUME TypeOK, CallsInv, SwitchInv, [Next]_vars, NEW x \in calls'
             PROVE  WellAddressed(x)
  BY DEF CallsInv
<1> USE DEF WellAddressed, Request
<1>1. ASSUME x \in calls PROVE WellAddressed(x)
  BY <1>1 DEF CallsInv
<1>2. CASE TimerFires
  <2>1. CASE x = Request("auto", "save", timer, session)
    BY <2>1
  <2>2. ASSUME NEW c \in calls, c.by = "auto", x = [c EXCEPT !.by = "late"]
        PROVE  WellAddressed(x)
    <3>1. c \in Call /\ c.kind = "save"
      BY <2>2 DEF CallsInv, TypeOK
    <3> QED BY <2>2, <3>1 DEF Call
  <2> QED BY <1>1, <1>2, <2>1, <2>2 DEF TimerFires
<1>10. ASSUME NEW s, AwaitPending(s)
       PROVE  WellAddressed(x)
  <2>1. PICK c \in calls :
           /\ x.by = c.by /\ x.kind = c.kind /\ x.status = c.status
    BY <1>10, AwaitPendingKeeps
  <2> QED BY <2>1 DEF CallsInv
<1>11. ASSUME NEW s \in Preparer, SaveFirst(s)
       PROVE  WellAddressed(x)
  BY <1>1, <1>11 DEF SaveFirst, Preparer
<1>3. ASSUME NEW s \in Switcher, SwitchStep(s)
      PROVE  WellAddressed(x)
  <2>1. ASSUME NEW p \in Path, SwitchBegin(s, p)
        PROVE  WellAddressed(x)
    BY <1>10, <2>1 DEF SwitchBegin
  <2>2. CASE SwitchOpen(s)
    BY <1>1, <2>2 DEF SwitchOpen
  <2>3. CASE SwitchFails(s) \/ SwitchRestore(s)
    BY <1>1, <2>3 DEF SwitchFails, SwitchRestore
  <2> QED BY <1>3, <2>1, <2>2, <2>3 DEF SwitchStep
<1>12. CASE PlanBegin \/ PlanPatch
  BY <1>1, <1>12 DEF PlanBegin, PlanPatch
<1>13. CASE PlanPrepare
  BY <1>10, <1>13 DEF PlanPrepare
<1>4. ASSUME NEW p \in Path, SaveAs(p)
      PROVE  WellAddressed(x)
  BY <1>1, <1>4 DEF SaveAs
<1>5. CASE BuildSave
  BY <1>1, <1>5 DEF BuildSave
<1>6. ASSUME NEW c \in calls, Execute(c)
      PROVE  WellAddressed(x)
  <2>1. c \in Call /\ WellAddressed(c)
    BY DEF CallsInv, TypeOK
  <2>2. ASSUME NEW content, NEW sess, Answer(c, content, sess)
        PROVE  WellAddressed(x)
    <3>1. CASE c.by # "gone" /\
               x = [c EXCEPT !.status = "ok", !.content = content, !.session = sess]
      BY <2>1, <3>1 DEF Call
    <3> QED BY <1>1, <2>2, <3>1 DEF Answer
  <2> QED BY <1>1, <1>6, <2>2 DEF Execute, RunSave, RunOpen, RunSaveAs, RunBuild, RunPatch,
             RunFailsUnseen
<1>7. ASSUME NEW c \in calls, Deliver(c)
      PROVE  WellAddressed(x)
  BY <1>1, <1>7 DEF Deliver, SaveReply, OpenReply, SaveAsReply, PatchReply, BuildReply
<1>8. ASSUME NEW c \in calls, Fail(c)
      PROVE  WellAddressed(x)
  <2>1. c \in Call /\ WellAddressed(c)
    BY DEF CallsInv, TypeOK
  <2>2. CASE c.status = "sent" /\ x = [c EXCEPT !.by = "gone", !.awaited = {}]
    BY <2>1, <2>2 DEF Call
  <2> QED BY <1>1, <1>8, <2>2 DEF Fail
<1>9. CASE Edit \/ RenderPage \/ BuildStart \/ BuildBlocked \/ UNCHANGED vars
  BY <1>1, <1>9 DEF Edit, RenderPage, BuildStart, BuildBlocked, vars
<1> QED BY <1>2, <1>3, <1>4, <1>5, <1>6, <1>7, <1>8, <1>9, <1>11, <1>12, <1>13
        DEF Next

-----------------------------------------------------------------------------
(* A switch and its request *)

\* A step that leaves a switch where it is and keeps its requests.
LEMMA OwnKept ==
    ASSUME NEW s \in Preparer, OwnInv(s), sw'[s].pc = sw[s].pc,
           \A c \in calls' : c.by = s => c \in calls,
           \A c \in calls : c.by = s => c \in calls'
    PROVE  OwnInv(s)'
<1>1. Awaited(s)' = Awaited(s)
  BY DEF Awaited
<1> QED BY <1>1 DEF OwnInv

\* A step that sends the first request of a switch.
LEMMA OwnSent ==
    ASSUME NEW s \in Preparer, OwnInv(s), Awaited(s) = {},
           NEW c, c.by = s, c.kind \in Awaited(s)', calls' = calls \cup {c}
    PROVE  OwnInv(s)'
  BY DEF OwnInv

\* A step that ends the request of a switch and moves the switch on.
LEMMA OwnEnded ==
    ASSUME NEW s \in Preparer, OwnInv(s), Awaited(s)' = {},
           NEW c \in calls, c.by = s, \A d \in calls' : d \in calls \ {c} \/ d.by # s
    PROVE  OwnInv(s)'
  BY DEF OwnInv

LEMMA LeaveSwitchOwn ==
    ASSUME TypeOK, NEW s \in Preparer, NEW t \in Preparer, LeaveSwitch(t)
    PROVE  /\ s # t => sw'[s] = sw[s]
           /\ s = t => Awaited(s)' = {}
  BY DEF LeaveSwitch, TypeOK, Awaited, NoSwitch

LEMMA SwitchToOwn ==
    ASSUME TypeOK, NEW s \in Preparer, NEW t \in Preparer, NEW place, SwitchTo(t, place)
    PROVE  /\ s # t => sw'[s] = sw[s]
           /\ sw'[t].pc = place
  BY DEF SwitchTo, TypeOK

LEMMA OwnStep ==
    ASSUME TypeOK, CallsInv, SwitchInv, [Next]_vars, NEW s \in Preparer
    PROVE  OwnInv(s)'
<1>1. OwnInv(s)
  BY DEF SwitchInv
<1>2. \A c \in calls : c \in Call /\ WellAddressed(c)
  BY DEF TypeOK, CallsInv
<1>3. CASE Edit \/ RenderPage \/ BuildStart \/ BuildBlocked \/ UNCHANGED vars
  BY <1>1, <1>3, OwnKept DEF Edit, RenderPage, BuildStart, BuildBlocked, vars, page
<1>4. CASE TimerFires
  <2>1. \A c \in calls : [c EXCEPT !.by = "late"].by = "late"
    BY <1>2 DEF Call
  <2>2. \A c \in calls' : c.by = s => c \in calls
    <3> SUFFICES ASSUME NEW x \in calls', x.by = s PROVE x \in calls
      OBVIOUS
    <3>1. Request("auto", "save", timer, session).by = "auto" /\ s \notin {"auto", "late"}
      BY DEF Request, Preparer
    <3>2. PICK c \in calls : x = IF c.by = "auto" THEN [c EXCEPT !.by = "late"] ELSE c
      BY <1>4, <3>1 DEF TimerFires
    <3>3. CASE c.by = "auto"
      BY <2>1, <3>1, <3>2, <3>3
    <3> QED BY <3>2, <3>3
  <2>3. \A c \in calls : c.by = s => c \in calls'
    BY <1>4 DEF TimerFires, Preparer
  <2> QED BY <1>1, <1>4, <2>2, <2>3, OwnKept DEF TimerFires
<1>10. ASSUME NEW t \in Preparer, AwaitPending(t), Awaited(t) = {}, Awaited(t)' = {},
              s # t => sw'[s].pc = sw[s].pc
       PROVE  OwnInv(s)'
  <2>1. s # "auto"
    BY DEF Preparer
  <2>2. /\ \A c \in calls' : c.by = s => c \in calls
        /\ \A c \in calls : c.by = s => c \in calls'
    BY <1>10, <2>1, AwaitPendingKeeps
  <2>3. CASE s = t
    BY <1>1, <1>10, <2>2, <2>3 DEF OwnInv
  <2>4. CASE s # t
    BY <1>1, <1>10, <2>2, <2>4, OwnKept
  <2> QED BY <2>3, <2>4
<1>11. ASSUME NEW t \in Preparer, NEW place, NEW r, SwitchTo(t, place), Awaited(t) = {},
              r.by = t, r.kind \in Awaited(t)', calls' = calls \cup {r}
       PROVE  OwnInv(s)'
  <2>1. s # t => sw'[s] = sw[s]
    BY <1>11, SwitchToOwn
  <2>2. CASE s = t
    BY <1>1, <1>11, <2>2, OwnSent
  <2>3. CASE s # t
    BY <1>1, <1>11, <2>1, <2>3, OwnKept
  <2> QED BY <2>2, <2>3
<1>12. ASSUME NEW t \in Preparer, SaveFirst(t)
       PROVE  OwnInv(s)'
  <2>1. Awaited(t) = {}
    BY <1>12 DEF SaveFirst, Awaited
  <2>2. CASE sw[t].seen.dirty
    <3> DEFINE r == Request(t, "save", sw[t].seen.value, session)
    <3>1. SwitchTo(t, "saving") /\ calls' = calls \cup {r}
      BY <1>12, <2>2 DEF SaveFirst
    <3>2. r.by = t /\ r.kind = "save" /\ Awaited(t)' = {"save"}
      BY <3>1, SwitchToOwn DEF Request, Awaited
    <3> HIDE DEF r
    <3> QED BY <1>11, <2>1, <3>1, <3>2
  <2>3. CASE ~sw[t].seen.dirty
    <3>1. SwitchTo(t, "saved") /\ calls' = calls
      BY <1>12, <2>3 DEF SaveFirst
    <3>2. sw'[t].pc = "saved" /\ (s # t => sw'[s] = sw[s])
      BY <3>1, SwitchToOwn
    <3>3. Awaited(t)' = {}
      BY <3>2 DEF Awaited
    <3> QED BY <1>1, <2>1, <3>1, <3>2, <3>3, OwnKept DEF OwnInv
  <2> QED BY <2>2, <2>3
<1>5. ASSUME NEW t \in Switcher, SwitchStep(t)
      PROVE  OwnInv(s)'
  <2>0. t \in Preparer
    BY DEF Preparer
  <2>1. ASSUME NEW p \in Path, SwitchBegin(t, p)
        PROVE  OwnInv(s)'
    <3>1. /\ sw[t].pc = "idle" /\ sw'[t].pc = "await"
          /\ s # t => sw'[s].pc = sw[s].pc
      BY <2>0, <2>1 DEF SwitchBegin, TypeOK
    <3>2. Awaited(t) = {} /\ Awaited(t)' = {}
      BY <3>1 DEF Awaited
    <3> QED BY <1>10, <2>0, <2>1, <3>1, <3>2 DEF SwitchBegin
  <2>3. CASE SwitchOpen(t)
    <3> DEFINE r == Request(t, "open", FirstProject, [path |-> sw[t].target, token |-> 0])
    <3>1. Awaited(t) = {} /\ SwitchTo(t, "opening") /\ calls' = calls \cup {r}
      BY <2>3 DEF SwitchOpen, Awaited
    <3>2. r.by = t /\ r.kind = "open" /\ Awaited(t)' = {"open"}
      BY <2>0, <3>1, SwitchToOwn DEF Request, Awaited
    <3> HIDE DEF r
    <3> QED BY <1>11, <2>0, <3>1, <3>2
  <2>4. CASE SwitchFails(t) \/ SwitchRestore(t)
    <3>1. Awaited(t) = {} /\ LeaveSwitch(t) /\ calls' = calls
      BY <2>4 DEF SwitchFails, SwitchRestore, Awaited
    <3> QED BY <1>1, <2>0, <3>1, LeaveSwitchOwn, OwnKept DEF OwnInv
  <2> QED BY <1>5, <2>1, <2>3, <2>4 DEF SwitchStep
<1>13. CASE PlanBegin
  <2>1. /\ sw["plan"].pc = "idle" /\ sw'["plan"].pc = "simulate" /\ calls' = calls
        /\ s # "plan" => sw'[s].pc = sw[s].pc
    BY <1>13 DEF PlanBegin, TypeOK, Preparer
  <2>2. Awaited("plan") = {} /\ Awaited("plan")' = {}
    BY <2>1 DEF Awaited
  <2> QED BY <1>1, <2>1, <2>2, OwnKept DEF OwnInv
<1>14. CASE PlanPrepare
  <2>0. "plan" \in Preparer
    BY DEF Preparer
  <2>1. /\ sw["plan"].pc = "simulate" /\ sw'["plan"].pc = "await"
        /\ s # "plan" => sw'[s].pc = sw[s].pc
    BY <1>14, <2>0 DEF PlanPrepare, TypeOK
  <2>2. Awaited("plan") = {} /\ Awaited("plan")' = {}
    BY <2>1 DEF Awaited
  <2> QED BY <1>10, <1>14, <2>0, <2>1, <2>2 DEF PlanPrepare
<1>15. CASE PlanPatch
  <2> DEFINE r == Request("plan", "patch", sw["plan"].seen.value,
                          [path |-> sw["plan"].target, token |-> 0])
  <2>0. "plan" \in Preparer
    BY DEF Preparer
  <2>1. Awaited("plan") = {} /\ SwitchTo("plan", "patching") /\ calls' = calls \cup {r}
    BY <1>15 DEF PlanPatch, Awaited
  <2>2. r.by = "plan" /\ r.kind = "patch" /\ Awaited("plan")' = {"patch"}
    BY <2>0, <2>1, SwitchToOwn DEF Request, Awaited
  <2> HIDE DEF r
  <2> QED BY <1>11, <2>0, <2>1, <2>2
<1>6. CASE BuildSave \/ \E p \in Path : SaveAs(p)
  BY <1>1, <1>6, OwnKept DEF BuildSave, SaveAs, Request, page, Preparer
<1>7. ASSUME NEW c \in calls, Execute(c)
      PROVE  OwnInv(s)'
  <2>1. sw' = sw
    BY <1>7 DEF Execute, RunSave, RunOpen, RunSaveAs, RunBuild, RunPatch, RunFailsUnseen, page
  <2>2. ASSUME NEW content, NEW sess, Answer(c, content, sess)
        PROVE  OwnInv(s)'
    <3> DEFINE d == [c EXCEPT !.status = "ok", !.content = content, !.session = sess]
    <3>1. d.by = c.by /\ d.kind = c.kind
      BY <1>2 DEF Call
    <3> HIDE DEF d
    <3>2. c.by # s => OwnInv(s)'
      BY <1>1, <2>1, <2>2, <3>1, OwnKept DEF Answer, d
    <3>3. CASE c.by = s
      <4>0. c.by # "gone"
        BY <3>3, SwitcherAssumption DEF Preparer
      <4>1. calls' = (calls \ {c}) \cup {d}
        BY <2>2, <4>0 DEF Answer, d
      <4>2. Awaited(s)' = Awaited(s)
        BY <2>1 DEF Awaited
      <4> QED BY <1>1, <3>1, <3>3, <4>1, <4>2 DEF OwnInv
    <3> QED BY <3>2, <3>3
  <2>3. CASE RunFailsUnseen(c)
    BY <1>1, <2>1, <2>3, OwnKept DEF RunFailsUnseen, Preparer
  <2> QED BY <1>7, <2>2, <2>3 DEF Execute, RunSave, RunOpen, RunSaveAs, RunBuild,
             RunPatch
<1>8. ASSUME NEW c \in calls, Deliver(c)
      PROVE  OwnInv(s)'
  <2>1. c \in Call /\ WellAddressed(c) /\ c.status = "ok"
    BY <1>2, <1>8 DEF Deliver
  <2>2. \A d \in calls' : d \in calls \ {c} \/ d.by # s
    BY <1>8 DEF Preparer, Deliver, SaveReply, OpenReply, SaveAsReply, PatchReply, BuildReply, Request
  <2>3. \A d \in calls \ {c} : d \in calls'
    BY <1>8 DEF Deliver, SaveReply, OpenReply, SaveAsReply, PatchReply, BuildReply
  <2>4. CASE c.by = s
    <3>1. c.kind \in {"save", "open", "patch"}
      BY <2>1, <2>4 DEF WellAddressed, Preparer
    <3>2. CASE SaveReply(c)
      <4>1. sw'[s].pc = "saved"
        BY <2>4, <3>2, SwitchToOwn DEF SaveReply
      <4> QED BY <1>1, <2>2, <2>4, <4>1, OwnEnded DEF Awaited
    <3>3. CASE OpenReply(c)
      <4>1. sw'[s].pc = "restore"
        BY <2>4, <3>3 DEF OpenReply, TypeOK
      <4> QED BY <1>1, <2>2, <2>4, <4>1, OwnEnded DEF Awaited
    <3>4. CASE PatchReply(c)
      <4>1. c.by = "plan"
        BY <2>1, <2>4, <3>4 DEF PatchReply, WellAddressed, Preparer
      <4>2. Awaited(s)' = {}
        BY <2>4, <3>4, <4>1, LeaveSwitchOwn DEF PatchReply
      <4> QED BY <1>1, <2>2, <2>4, <4>2, OwnEnded
    <3> QED BY <1>8, <3>1, <3>2, <3>3, <3>4 DEF Deliver, SaveAsReply, PatchReply, BuildReply
  <2>5. CASE c.by # s
    <3>1. sw'[s].pc = sw[s].pc
      <4>1. CASE SaveReply(c)
        BY <2>5, <4>1, SwitchToOwn DEF SaveReply
      <4>2. CASE OpenReply(c)
        BY <2>5, <4>2 DEF OpenReply, TypeOK
      <4>3. CASE PatchReply(c)
        <5>1. c.by \in Callers /\ c.by = "plan"
          BY <2>1, <4>3 DEF PatchReply, WellAddressed, Call, Callers, Preparer
        <5> QED BY <2>5, <4>3, <5>1, LeaveSwitchOwn DEF PatchReply, Preparer
      <4> QED BY <1>8, <4>1, <4>2, <4>3 DEF Deliver, SaveAsReply, PatchReply, BuildReply
    <3> QED BY <1>1, <2>2, <2>3, <2>5, <3>1, OwnKept
  <2> QED BY <2>4, <2>5
<1>9. ASSUME NEW c \in calls, Fail(c)
      PROVE  OwnInv(s)'
  <2>1. [c EXCEPT !.by = "gone", !.awaited = {}].by = "gone"
    BY <1>2 DEF Call
  <2>2. /\ \A d \in calls' : d \in calls \ {c} \/ d.by # s
        /\ \A d \in calls \ {c} : d \in calls'
    BY <1>9, <2>1 DEF Fail, Preparer
  <2>3. CASE c.by = s
    <3>1. Awaited(s)' = {}
      BY <1>9, <2>3, LeaveSwitchOwn DEF Fail, CallerFails
    <3> QED BY <1>1, <2>2, <2>3, <3>1, OwnEnded
  <2>4. CASE c.by # s
    <3>1. sw'[s].pc = sw[s].pc
      BY <1>9, <2>4, LeaveSwitchOwn DEF Fail, CallerFails
    <3> QED BY <1>1, <2>2, <2>4, <3>1, OwnKept
  <2> QED BY <2>3, <2>4
<1> QED BY <1>3, <1>4, <1>5, <1>6, <1>7, <1>8, <1>9, <1>12, <1>13, <1>14, <1>15
        DEF Next

\* The flag that stops the autosave is only up while a switch is under way.
LEMMA FlagStep ==
    ASSUME TypeOK, CallsInv, SwitchInv, [Next]_vars, switching'
    PROVE  \E s \in Switcher : sw'[s].pc # "idle"
<1>1. CASE \E s \in Switcher : SwitchStep(s)
  <2>1. PICK s \in Switcher : SwitchStep(s)
    BY <1>1
  <2>0. s \in Preparer
    BY DEF Preparer
  <2>2. ASSUME NEW p \in Path, SwitchBegin(s, p) PROVE sw'[s].pc # "idle"
    BY <2>0, <2>2 DEF SwitchBegin, TypeOK
  <2>3. CASE SwitchOpen(s)
    BY <2>0, <2>3, SwitchToOwn DEF SwitchOpen
  <2> QED BY <2>1, <2>2, <2>3 DEF SwitchStep, SwitchFails, SwitchRestore, LeaveSwitch
<1>5. ASSUME NEW t \in Preparer, NEW place, SwitchTo(t, place), place # "idle", switching
      PROVE  \E s \in Switcher : sw'[s].pc # "idle"
  <2>1. PICK s \in Switcher : sw[s].pc # "idle"
    BY <1>5 DEF SwitchInv
  <2>2. s \in Preparer
    BY DEF Preparer
  <2>3. sw'[s].pc = IF s = t THEN place ELSE sw[s].pc
    BY <1>5, <2>2, SwitchToOwn
  <2> QED BY <1>5, <2>1, <2>3
<1>6. ASSUME NEW s \in Preparer, SaveFirst(s)
      PROVE  \E t \in Switcher : sw'[t].pc # "idle"
  <2>1. switching
    BY <1>6 DEF SaveFirst
  <2> QED BY <1>5, <1>6, <2>1 DEF SaveFirst
<1>7. CASE PlanBegin \/ PlanPrepare \/ PlanPatch
  <2>0. "plan" \in Preparer /\ "plan" \notin Switcher /\ switching
    BY <1>7 DEF Preparer, PlanBegin, PlanPrepare, PlanPatch
  <2>1. PICK s \in Switcher : sw[s].pc # "idle"
    BY <2>0 DEF SwitchInv
  <2>2. CASE PlanBegin \/ PlanPrepare
    <3>1. sw'[s] = sw[s]
      BY <2>0, <2>2 DEF PlanBegin, PlanPrepare, TypeOK, Preparer
    <3> QED BY <2>1, <3>1
  <2>3. CASE PlanPatch
    BY <1>5, <2>0, <2>3 DEF PlanPatch
  <2> QED BY <1>7, <2>2, <2>3
<1>8. ASSUME LeaveSwitch("plan")
      PROVE  \E s \in Switcher : sw'[s].pc # "idle"
  <2>1. PICK s \in Switcher : sw[s].pc # "idle"
    BY <1>8 DEF LeaveSwitch, SwitchInv
  <2>2. sw'[s] = sw[s]
    BY <1>8 DEF LeaveSwitch, TypeOK, Preparer
  <2> QED BY <2>1, <2>2
<1>2. ASSUME NEW c \in calls, Fail(c)
      PROVE  \E s \in Switcher : sw'[s].pc # "idle"
  <2>1. CASE c.by \in Switcher
    BY <1>2, <2>1 DEF Fail, CallerFails, LeaveSwitch, Preparer
  <2>2. CASE c.by = "plan"
    BY <1>2, <1>8, <2>2 DEF Fail, CallerFails, Preparer
  <2>3. CASE c.by \notin Preparer
    BY <1>2, <2>3 DEF Fail, CallerFails, SwitchInv
  <2> QED BY <2>1, <2>2, <2>3 DEF Preparer
<1>3. ASSUME NEW c \in calls, Deliver(c)
      PROVE  \E s \in Switcher : sw'[s].pc # "idle"
  <2>0. CASE PatchReply(c)
    BY <1>8, <2>0 DEF PatchReply
  <2>1. CASE SaveReply(c)
    <3>1. switching
      BY <2>1 DEF SaveReply
    <3>2. CASE c.by \in Preparer
      BY <1>5, <2>1, <3>1, <3>2 DEF SaveReply
    <3>3. CASE c.by \notin Preparer
      BY <2>1, <3>1, <3>3 DEF SaveReply, SwitchInv
    <3> QED BY <3>2, <3>3
  <2>2. CASE OpenReply(c)
    <3>1. PICK s \in Switcher : sw[s].pc # "idle"
      BY <2>2 DEF OpenReply, SwitchInv
    <3>2. sw'[s].pc = IF s = c.by THEN "restore" ELSE sw[s].pc
      BY <2>2 DEF OpenReply, TypeOK, Preparer
    <3> QED BY <3>1, <3>2
  <2>3. CASE SaveAsReply(c) \/ BuildReply(c)
    BY <2>3 DEF SaveAsReply, BuildReply, SwitchInv
  <2> QED BY <1>3, <2>0, <2>1, <2>2, <2>3 DEF Deliver
<1>4. CASE UNCHANGED <<sw, switching>>
  BY <1>4 DEF SwitchInv
<1> QED BY <1>1, <1>2, <1>3, <1>4, <1>6, <1>7 DEF Next, vars, page, Edit, RenderPage,
           TimerFires, SaveAs, BuildStart, BuildSave, BuildBlocked, Execute, RunSave,
           RunOpen, RunSaveAs, RunBuild, RunPatch, RunFailsUnseen

\* One request in flight, counted.
LEMMA OwnIsCounted ==
    ASSUME NEW s \in Preparer, OwnInv(s)
    PROVE  Cardinality({c \in calls : c.by = s})
             = (IF sw[s].pc \in {"saving", "opening", "patching"} THEN 1 ELSE 0)
<1> DEFINE Own == {c \in calls : c.by = s}
<1>1. CASE sw[s].pc \in {"saving", "opening", "patching"}
  <2>1. PICK c \in calls : c.by = s
    BY <1>1 DEF OwnInv, Awaited
  <2>2. Own = {c}
    BY <2>1 DEF OwnInv
  <2>3. Cardinality({c}) = 1
    BY FS_Singleton
  <2> QED BY <1>1, <2>2, <2>3
<1>2. CASE sw[s].pc \notin {"saving", "opening", "patching"}
  <2>1. Own = {}
    BY <1>2 DEF OwnInv, Awaited
  <2>2. Cardinality({}) = 0
    BY FS_EmptySet
  <2> QED BY <1>2, <2>1, <2>2
<1> QED BY <1>1, <1>2

-----------------------------------------------------------------------------
(* What edits are known, and unsaved ones *)

\* Contents of projects nobody has edited.
Fresh == {[id |-> p, n |-> 0] : p \in Path}

\* Only an edit and an accepted plan make a content, the next one; all else
\* passes on what is held already.
LEMMA HeldStep ==
    ASSUME TypeOK, EditsInv, [Next]_vars, NEW x \in Held'
    PROVE  x \in Held \cup Fresh \/ (edits' = edits + 1 /\ x.n = edits + 1)
<1>1. /\ FirstProject \in Fresh
      /\ NoSwitch.seen.value = FirstProject /\ NoBuild.content = FirstProject
      /\ rendered \in Render
      /\ \A c \in calls : c \in Call
  BY DEF Fresh, FirstProject, NoSwitch, NoBuild, TypeOK
<1> DEFINE old == Held \cup Fresh
<1>2. /\ value \in old /\ rendered.value \in old /\ build.content \in old
      /\ FirstProject \in old
      /\ \A s \in Preparer : sw[s].seen.value \in old
      /\ \A c \in calls : c.content \in old
      /\ \A p \in Path : disk[p] \in old /\ [id |-> p, n |-> 0] \in old
  BY <1>1 DEF Held, Fresh
<1>3. SUFFICES ASSUME ~(edits' = edits + 1 /\ x.n = edits + 1)
               PROVE  x \in old
  OBVIOUS
<1> HIDE DEF old
<1>4. x = value' => x \in old
  <2>1. CASE value' = value
    BY <1>2, <2>1
  <2>2. Edit /\ x = value' => x.n = edits + 1 /\ edits' = edits + 1
    BY DEF Edit, Count, TypeOK, Content
  <2>3. ASSUME NEW s \in Switcher, SwitchRestore(s) PROVE value' \in old
    BY <1>2, <2>3 DEF SwitchRestore, Preparer
  <2>4. ASSUME NEW c \in calls, PatchReply(c) PROVE value' \in old
    BY <1>2, <2>4 DEF PatchReply
  <2> QED BY <1>3, <2>1, <2>2, <2>3, <2>4 DEF Next, vars, page, RenderPage, TimerFires,
        SwitchStep, SwitchBegin, SaveFirst, PlanBegin, PlanPrepare, PlanPatch,
        AwaitPending, SwitchOpen, SwitchFails, SaveAs,
        BuildStart, BuildSave, BuildBlocked, Execute, RunSave, RunOpen, RunSaveAs,
        RunBuild, RunPatch, RunFailsUnseen, Deliver, SaveReply, OpenReply,
        SaveAsReply, BuildReply, Fail, CallerFails
<1>5. x = rendered'.value => x \in old
  <2>1. CASE rendered' = rendered
    BY <1>2, <2>1
  <2>2. CASE RenderPage
    BY <1>2, <2>2 DEF RenderPage
  <2> QED BY <2>1, <2>2 DEF Next, vars, page, Edit, TimerFires,
        SwitchStep, SwitchBegin, SaveFirst, PlanBegin, PlanPrepare, PlanPatch,
        AwaitPending, SwitchOpen, SwitchFails, SwitchRestore,
        SaveAs, BuildStart, BuildSave, BuildBlocked, Execute, RunSave, RunOpen,
        RunSaveAs, RunBuild, RunPatch, RunFailsUnseen, Deliver, Fail, CallerFails
<1>6. x = build'.content => x \in old
  <2>1. \A place : [build EXCEPT !.pc = place].content = build.content
    BY DEF TypeOK
  <2>2. CASE build' = build
    BY <1>2, <2>2
  <2>3. CASE BuildStart
    BY <1>2, <2>3 DEF BuildStart
  <2>4. CASE BuildSave \/ BuildBlocked
    BY <1>1, <1>2, <2>1, <2>4 DEF BuildSave, BuildBlocked
  <2>5. ASSUME NEW c \in calls, Deliver(c)
        PROVE  build'.content \in old
    BY <1>1, <1>2, <2>1, <2>5 DEF Deliver, SaveReply, OpenReply, SaveAsReply,
       PatchReply, BuildReply
  <2>6. ASSUME NEW c \in calls, Fail(c)
        PROVE  build'.content \in old
    BY <1>1, <1>2, <2>6 DEF Fail, CallerFails
  <2> QED BY <2>2, <2>3, <2>4, <2>5, <2>6 DEF Next, vars, page, Edit, RenderPage,
        TimerFires, SwitchStep, SwitchBegin, SaveFirst, PlanBegin, PlanPrepare, PlanPatch,
        AwaitPending, SwitchOpen, SwitchFails,
        SwitchRestore, SaveAs, Execute, RunSave, RunOpen, RunSaveAs, RunBuild, RunPatch,
        RunFailsUnseen
<1>7. ASSUME NEW s \in Preparer, x = sw'[s].seen.value PROVE x \in old
  <2>1. CASE sw' = sw
    BY <1>2, <1>7, <2>1
  <2>2. ASSUME NEW t \in Preparer, LeaveSwitch(t) PROVE x \in old
    BY <1>1, <1>2, <1>7, <2>2 DEF LeaveSwitch, TypeOK
  <2>3. ASSUME NEW t \in Preparer, NEW place, SwitchTo(t, place) PROVE x \in old
    BY <1>1, <1>2, <1>7, <2>3 DEF SwitchTo, TypeOK
  <2>8. ASSUME NEW t \in Preparer, SaveFirst(t) PROVE x \in old
    BY <2>3, <2>8 DEF SaveFirst
  <2>9. CASE PlanBegin
    <3>1. sw'[s].seen \in {sw[s].seen, rendered}
      BY <1>7, <2>9 DEF PlanBegin, TypeOK
    <3> QED BY <1>2, <1>7, <3>1
  <2>10. CASE PlanPrepare
    <3>1. sw'[s].seen = sw[s].seen
      BY <1>7, <2>10 DEF PlanPrepare, TypeOK
    <3> QED BY <1>2, <1>7, <3>1
  <2>11. CASE PlanPatch
    BY <2>3, <2>11 DEF PlanPatch, Preparer
  <2>12. ASSUME NEW c \in calls, PatchReply(c) PROVE x \in old
    BY <2>2, <2>12 DEF PatchReply, Preparer
  <2>4. ASSUME NEW t \in Switcher, NEW p \in Path, SwitchBegin(t, p)
        PROVE  x \in old
    BY <1>2, <1>7, <2>4 DEF SwitchBegin, TypeOK
  <2>5. ASSUME NEW c \in calls, OpenReply(c) PROVE x \in old
    <3> DEFINE there == [sw EXCEPT ![c.by].pc = "restore"]
           Places == [pc : SwitchPlaces, seen : Render, target : Path]
    <3>1. there \in [Preparer -> Places]
      <4>1. \A y \in Places : [y EXCEPT !.pc = "restore"] \in Places
        BY DEF SwitchPlaces
      <4> HIDE DEF Places
      <4> QED BY <4>1 DEF TypeOK, Places
    <3>2. \A t \in Preparer : there[t].seen = sw[t].seen
      BY DEF TypeOK
    <3>3. sw' = [there EXCEPT ![c.by].seen.value = c.content]
      BY <2>5 DEF OpenReply
    <3> HIDE DEF there
    <3>4. sw'[s].seen.value = IF s = c.by THEN c.content ELSE there[s].seen.value
      BY <3>1, <3>3 DEF Render
    <3> QED BY <1>2, <1>7, <3>2, <3>4
  <2>6. ASSUME NEW c \in calls, Fail(c) PROVE x \in old
    BY <2>1, <2>2, <2>6 DEF Fail, CallerFails
  <2>7. ASSUME NEW c \in calls, SaveReply(c) PROVE x \in old
    BY <2>1, <2>3, <2>7 DEF SaveReply
  <2>13. ASSUME NEW t \in Switcher, SwitchStep(t) PROVE x \in old
    BY <2>2, <2>3, <2>4, <2>13 DEF SwitchStep, SwitchOpen, SwitchFails, SwitchRestore,
       Preparer
  <2>14. ASSUME NEW c \in calls, Deliver(c) PROVE x \in old
    BY <2>1, <2>5, <2>7, <2>12, <2>14 DEF Deliver, SaveAsReply, BuildReply
  <2> QED BY <2>1, <2>6, <2>8, <2>9, <2>10, <2>11, <2>13, <2>14 DEF Next, vars, page,
        Edit, RenderPage, TimerFires, SaveAs, BuildStart, BuildSave, BuildBlocked,
        Execute, RunSave, RunOpen, RunSaveAs, RunBuild, RunPatch, RunFailsUnseen
<1>8. ASSUME NEW d \in calls', x = d.content PROVE x \in old
  <2>1. CASE d \in calls
    BY <1>2, <1>8, <2>1
  <2>2. \A by, kind, content, sess : Request(by, kind, content, sess).content = content
    BY DEF Request
  <2>3. CASE TimerFires
    <3>1. \A c \in calls : [c EXCEPT !.by = "late"].content = c.content
      BY <1>1 DEF Call
    <3>2. timer \in old
      BY <1>2, <2>3 DEF TimerFires, EditsInv
    <3>3. \/ \E c \in calls : d = IF c.by = "auto" THEN [c EXCEPT !.by = "late"] ELSE c
          \/ d = Request("auto", "save", timer, session)
      BY <2>3 DEF TimerFires
    <3>4. ASSUME NEW c \in calls,
                 d = IF c.by = "auto" THEN [c EXCEPT !.by = "late"] ELSE c
          PROVE  d.content = c.content
      BY <3>1, <3>4
    <3> QED BY <1>2, <1>8, <2>2, <3>2, <3>3, <3>4
  <2>4. ASSUME NEW s, AwaitPending(s)
        PROVE  x \in old
    BY <1>2, <1>8, <2>4, AwaitPendingKeeps
  <2>5. ASSUME NEW s \in Switcher, SwitchStep(s)
        PROVE  x \in old
    <3>1. CASE SwitchOpen(s)
      BY <1>2, <1>8, <2>2, <3>1 DEF SwitchOpen
    <3>2. ASSUME NEW p \in Path, SwitchBegin(s, p) PROVE x \in old
      BY <2>4, <3>2 DEF SwitchBegin
    <3> QED BY <2>1, <2>5, <3>1, <3>2 DEF SwitchStep, SwitchFails, SwitchRestore
  <2>10. ASSUME NEW s \in Preparer, SaveFirst(s)
         PROVE  x \in old
    BY <1>2, <1>8, <2>2, <2>10 DEF SaveFirst
  <2>11. CASE PlanPatch
    <3>1. sw["plan"].seen.value \in old
      BY <1>2 DEF Preparer
    <3>2. \/ d \in calls
          \/ d = Request("plan", "patch", sw["plan"].seen.value,
                         [path |-> sw["plan"].target, token |-> 0])
      BY <2>11 DEF PlanPatch
    <3> QED BY <2>1, <2>2, <1>8, <3>1, <3>2
  <2>12. CASE PlanPrepare
    BY <2>4, <2>12 DEF PlanPrepare
  <2>6. CASE BuildSave \/ \E p \in Path : SaveAs(p)
    <3>1. CASE BuildSave
      BY <1>2, <1>8, <2>1, <2>2, <3>1 DEF BuildSave
    <3>2. ASSUME NEW p \in Path, SaveAs(p) PROVE x \in old
      <4>1. \/ d \in calls
            \/ d = Request("saveAs", "saveAs", rendered.value, [path |-> p, token |-> 0])
        BY <3>2 DEF SaveAs
      <4> QED BY <1>2, <1>8, <2>2, <4>1
    <3> QED BY <2>6, <3>1, <3>2
  <2>7. ASSUME NEW c \in calls, Execute(c) PROVE x \in old
    <3>1. ASSUME NEW content \in old, NEW sess, Answer(c, content, sess)
          PROVE  x \in old
      <4>1. [c EXCEPT !.status = "ok", !.content = content, !.session = sess].content
              = content
        BY <1>1 DEF Call
      <4> QED BY <1>2, <1>8, <3>1, <4>1 DEF Answer
    <3>2. c.content \in old /\ c.session.path \in Path
      BY <1>1, <1>2 DEF Call, Session
    <3>3. CASE RunOpen(c)
      BY <1>2, <3>1, <3>2, <3>3 DEF RunOpen
    <3>4. CASE RunPatch(c)
      <4> DEFINE patched == [c.content EXCEPT !.n = edits + 1]
                 answer == [c EXCEPT !.status = "ok", !.content = patched,
                                     !.session = NoSession]
      <4>1. patched.n = edits + 1
        BY <1>1 DEF Call, Content
      <4>2. answer.content = patched
        BY <1>1 DEF Call
      <4>3. edits' = edits + 1 /\ (d \in calls \/ d = answer)
        BY <1>8, <3>4 DEF RunPatch, Count, Answer
      <4> HIDE DEF patched, answer
      <4> QED BY <1>3, <1>8, <2>1, <4>1, <4>2, <4>3
    <3> QED BY <2>1, <2>7, <3>1, <3>2, <3>3, <3>4, <1>8 DEF Execute, RunSave,
          RunSaveAs, RunBuild, RunFailsUnseen
  <2>8. ASSUME NEW c \in calls, Deliver(c) PROVE x \in old
    BY <1>2, <1>8, <2>2, <2>8 DEF Deliver, SaveReply, OpenReply, SaveAsReply, PatchReply, BuildReply
  <2>9. ASSUME NEW c \in calls, Fail(c) PROVE x \in old
    <3>1. [c EXCEPT !.by = "gone", !.awaited = {}].content = c.content
      BY <1>1 DEF Call
    <3> QED BY <1>2, <1>8, <2>9, <3>1 DEF Fail
  <2> QED BY <1>8, <2>1, <2>3, <2>5, <2>6, <2>7, <2>8, <2>9, <2>10, <2>11, <2>12
        DEF Next, vars, Edit, RenderPage, PlanBegin, BuildStart, BuildBlocked
<1>9. ASSUME NEW p \in Path, x = disk'[p] PROVE x \in old
  <2>1. CASE disk' = disk
    BY <1>2, <1>9, <2>1
  <2>2. ASSUME NEW c \in calls, Execute(c) PROVE x \in old
    <3>1. c.content \in old /\ c.session.path \in Path
      BY <1>1, <1>2 DEF Call, Session
    <3>2. CASE RunPatch(c)
      <4> DEFINE patched == [c.content EXCEPT !.n = edits + 1]
      <4>1. patched.n = edits + 1
        BY <1>1 DEF Call, Content
      <4>2. edits' = edits + 1 /\ (x = disk[p] \/ x = patched)
        BY <1>9, <3>2 DEF RunPatch, Count, TypeOK
      <4> HIDE DEF patched
      <4> QED BY <1>2, <1>3, <4>1, <4>2
    <3> QED BY <1>2, <1>9, <2>1, <2>2, <3>1, <3>2 DEF Execute, RunSave, RunOpen,
          RunSaveAs, RunBuild, RunFailsUnseen, TypeOK, backend
  <2> QED BY <2>1, <2>2 DEF Next, vars, page, backend, Edit, RenderPage, TimerFires,
        SwitchStep, SwitchBegin, SaveFirst, PlanBegin, PlanPrepare, PlanPatch,
        AwaitPending, SwitchOpen, SwitchFails, SwitchRestore,
        SaveAs, BuildStart, BuildSave, BuildBlocked, Deliver, Fail, CallerFails
<1> QED BY <1>4, <1>5, <1>6, <1>7, <1>8, <1>9 DEF Held

LEMMA HeldType == TypeOK => Held \cup Fresh \subseteq Content \cup {Empty}
  BY ContentTypes DEF TypeOK, Held, Fresh, Render, Call

LEMMA EditsStep ==
    ASSUME TypeOK, EditsInv, [Next]_vars
    PROVE  EditsInv'
<1>1. edits \in Nat /\ edits' \in Nat /\ edits <= edits'
  <2>1. CASE Count
    BY <2>1 DEF Count, TypeOK
  <2>2. CASE edits' = edits
    BY <2>2 DEF TypeOK
  <2> QED BY <2>1, <2>2 DEF Next, vars, page, Edit, RenderPage, TimerFires, SwitchStep,
        SwitchBegin, SaveFirst, PlanBegin, PlanPrepare, PlanPatch,
        AwaitPending, SwitchOpen, SwitchFails, SwitchRestore, SaveAs,
        BuildStart, BuildSave, BuildBlocked, Execute, RunSave, RunOpen, RunSaveAs,
        RunBuild, RunPatch, RunFailsUnseen, Deliver, Fail, CallerFails
<1>2. ASSUME NEW x \in Held'
      PROVE  x.n <= edits'
  <2>1. CASE x \in Held
    <3>1. x.n \in Nat /\ x.n <= edits
      BY <2>1, HeldType DEF Content, Empty, EditsInv
    <3> QED BY <1>1, <3>1
  <2>2. CASE x \in Fresh
    BY <1>1, <2>2 DEF Fresh
  <2>3. CASE edits' = edits + 1 /\ x.n = edits + 1
    BY <1>1, <2>3
  <2> QED BY <1>2, <2>1, <2>2, <2>3, HeldStep
<1>3. timer' # None => timer' = rendered'.value
  <2>1. CASE RenderPage
    BY <2>1 DEF RenderPage, AutosaveDepsChanged
  <2>2. CASE UNCHANGED rendered /\ timer' \in {timer, None}
    BY <2>2 DEF EditsInv
  <2> QED BY <2>1, <2>2 DEF Next, vars, page, Edit, TimerFires, SwitchStep,
        SwitchBegin, SaveFirst, PlanBegin, PlanPrepare, PlanPatch,
        AwaitPending, SwitchOpen, SwitchFails, SwitchRestore, SaveAs,
        BuildStart, BuildSave, BuildBlocked, Execute, RunSave, RunOpen, RunSaveAs,
        RunBuild, RunPatch, RunFailsUnseen, Deliver, Fail, CallerFails
<1> QED BY <1>2, <1>3 DEF EditsInv

\* applyAgentPlan is about to save what it knows.
PlanSaves == sw["plan"].pc \in {"await", "saving"} /\ sw["plan"].seen.dirty

\* TimerFires is the step that hands the content from the timer to a request,
\* and applyAgentPlan clears the timer; a reply to either clears the flag, and a
\* failure is excused.
LEMMA DirtyStep ==
    ASSUME TypeOK, CallsInv, SwitchInv, EditsInv, DirtyIsHandled, [Next]_vars,
           dirty', rendered' = [value |-> value', dirty |-> dirty'],
           ~switching', ~excused'
    PROVE  \/ timer' = value'
           \/ \E c \in calls' : c.by = "auto" /\ c.content = value'
           \/ PlanSaves'
<1> DEFINE Goal == \/ timer' = value'
                   \/ \E c \in calls' : c.by = "auto" /\ c.content = value'
                   \/ PlanSaves'
<1>1. \A c \in calls : c \in Call /\ WellAddressed(c)
  BY DEF TypeOK, CallsInv
<1>2. CASE Edit
  <2>1. rendered.value.n <= edits /\ edits \in Nat
    BY <1>2 DEF EditsInv, Held, TypeOK
  <2>2. value'.n = edits + 1 /\ rendered'.value = rendered.value
    BY <1>2 DEF Edit, TypeOK, Content
  <2> QED BY <2>1, <2>2
<1>3. CASE RenderPage
  BY <1>3 DEF RenderPage, AutosaveDepsChanged
<1>4. ASSUME dirty' = dirty, value' = value, rendered' = rendered,
             switching' = switching, excused' = excused
      PROVE  \/ timer = value
             \/ \E c \in calls : c.by = "auto" /\ c.content = value
             \/ PlanSaves
  BY <1>4 DEF DirtyIsHandled, PlanSaves
<1>0. /\ sw["plan"].seen.dirty \in BOOLEAN /\ "plan" \in Preparer
      /\ "plan" \notin Switcher
  BY DEF TypeOK, Render, Preparer
<1>5. CASE TimerFires
  <2>1. timer = value
    BY <1>5 DEF TimerFires, EditsInv
  <2>2. Request("auto", "save", timer, session) \in calls'
    BY <1>5 DEF TimerFires
  <2> QED BY <1>5, <2>1, <2>2 DEF TimerFires, Request
<1>6. ASSUME NEW s \in Switcher, SwitchStep(s) PROVE Goal
  <2>1. CASE SwitchOpen(s)
    <3>1. sw'["plan"] = sw["plan"]
      BY <1>0, <2>1 DEF SwitchOpen, SwitchTo, TypeOK
    <3> QED BY <1>4, <2>1, <3>1 DEF SwitchOpen, PlanSaves
  <2> QED BY <1>6, <2>1 DEF SwitchStep, SwitchBegin, SwitchFails, SwitchRestore
<1>12. ASSUME NEW s \in Preparer, SaveFirst(s) PROVE Goal
  <2>1. PlanSaves => PlanSaves'
    <3>1. CASE s # "plan"
      <4>1. sw'["plan"] = sw["plan"]
        BY <1>0, <1>12, <3>1 DEF SaveFirst, SwitchTo, TypeOK
      <4> QED BY <4>1 DEF PlanSaves
    <3>2. CASE s = "plan" /\ sw["plan"].seen.dirty
      <4>1. SwitchTo("plan", "saving")
        BY <1>12, <3>2 DEF SaveFirst
      <4>2. sw'["plan"].pc = "saving" /\ sw'["plan"].seen = sw["plan"].seen
        BY <1>0, <4>1 DEF SwitchTo, TypeOK
      <4> QED BY <3>2, <4>2 DEF PlanSaves
    <3> QED BY <3>1, <3>2 DEF PlanSaves
  <2>2. \A c \in calls : c \in calls'
    BY <1>12 DEF SaveFirst
  <2> QED BY <1>4, <1>12, <2>1, <2>2 DEF SaveFirst
<1>13. CASE PlanBegin
  <2>1. ~PlanSaves
    BY <1>13 DEF PlanBegin, PlanSaves
  <2> QED BY <1>4, <1>13, <2>1 DEF PlanBegin
<1>14. CASE PlanPrepare
  <2>1. ~PlanSaves /\ ~excused
    BY <1>14 DEF PlanPrepare, PlanSaves
  <2>2. /\ timer = value
           \/ \E c \in calls : c.by = "auto" /\ c.content = value
    BY <1>4, <1>14, <2>1 DEF PlanPrepare, DirtyIsHandled, PlanSaves
  <2>3. CASE sw["plan"].seen.dirty
    <3>1. sw'["plan"].pc = "await" /\ sw'["plan"].seen = sw["plan"].seen
      BY <1>0, <1>14 DEF PlanPrepare, TypeOK
    <3> QED BY <2>3, <3>1 DEF PlanSaves
  <2>4. CASE ~sw["plan"].seen.dirty
    <3>1. timer = None
      BY <1>14, <2>4 DEF PlanPrepare
    <3>2. value # None
      BY NoneAssumption DEF TypeOK
    <3>3. PICK c \in calls : c.by = "auto" /\ c.content = value
      BY <2>2, <3>1, <3>2
    <3>4. \E x \in calls' : x.by = c.by /\ x.content = c.content
      BY <1>14, AwaitPendingKeeps DEF PlanPrepare
    <3> QED BY <1>14, <3>3, <3>4 DEF PlanPrepare
  <2> QED BY <1>0, <2>3, <2>4
<1>15. CASE PlanPatch
  <2>1. ~PlanSaves
    BY <1>15 DEF PlanPatch, PlanSaves
  <2> QED BY <1>4, <1>15, <2>1 DEF PlanPatch
<1>7. ASSUME NEW p \in Path, SaveAs(p) PROVE Goal
  BY <1>4, <1>7 DEF SaveAs, page, PlanSaves
<1>8. CASE BuildStart \/ BuildSave \/ BuildBlocked \/ UNCHANGED vars
  BY <1>4, <1>8 DEF BuildStart, BuildSave, BuildBlocked, vars, page, PlanSaves
<1>9. ASSUME NEW c \in calls, Execute(c) PROVE Goal
  <2>1. UNCHANGED <<value, dirty, rendered, timer, switching, sw, excused>>
    BY <1>9 DEF page, Execute, RunSave, RunOpen, RunSaveAs, RunBuild, RunPatch, RunFailsUnseen
  <2>2. ASSUME NEW a \in calls, a.by = "auto"
        PROVE  \E b \in calls' : b.by = "auto" /\ b.content = a.content
    <3>1. CASE a # c
      BY <1>9, <2>2, <3>1 DEF Execute, RunSave, RunOpen, RunSaveAs, RunBuild, RunPatch,
         RunFailsUnseen, Answer
    <3>2. CASE a = c
      <4>1. a.kind = "save" /\ Answer(a, a.content, NoSession)
        BY <1>1, <1>9, <2>2, <3>2 DEF WellAddressed, Execute, RunSave, RunOpen,
           RunSaveAs, RunBuild, RunPatch, RunFailsUnseen
      <4> DEFINE b == [a EXCEPT !.status = "ok", !.content = a.content,
                                !.session = NoSession]
      <4>2. b \in calls'
        BY <2>2, <4>1 DEF Answer
      <4>3. b.by = "auto" /\ b.content = a.content
        BY <1>1, <2>2 DEF Call
      <4> QED BY <4>2, <4>3
    <3> QED BY <3>1, <3>2
  <2> QED BY <1>4, <2>1, <2>2 DEF PlanSaves
<1>10. ASSUME NEW c \in calls, Deliver(c) PROVE Goal
  <2>0. ~SaveReply(c) /\ ~PatchReply(c)
    BY DEF SaveReply, PatchReply, MarkSaved
  <2>1. c.by # "auto"
    BY <1>1, <1>10, <2>0 DEF WellAddressed, Deliver, OpenReply, SaveAsReply, BuildReply
  <2>2. /\ UNCHANGED <<value, dirty, rendered, timer, switching, excused>>
        /\ \A d \in calls : d # c => d \in calls'
    BY <1>10, <2>0 DEF Deliver, OpenReply, SaveAsReply, BuildReply
  <2>3. sw'["plan"] = sw["plan"]
    <3>1. CASE OpenReply(c)
      <4>1. c.by # "plan"
        BY <1>1, <3>1 DEF WellAddressed, OpenReply
      <4> QED BY <1>0, <3>1, <4>1 DEF OpenReply, TypeOK
    <3> QED BY <1>10, <2>0, <3>1 DEF Deliver, SaveAsReply, BuildReply
  <2> QED BY <1>4, <2>1, <2>2, <2>3 DEF PlanSaves
<1>11. ASSUME NEW c \in calls, Fail(c) PROVE Goal
  <2>1. c.kind = "patch" /\ ~excused
    BY <1>11 DEF Fail, CallerFails
  <2>2. c.by = "plan"
    BY <1>1, <1>11, <2>1 DEF Fail, WellAddressed, Call, Callers, Preparer
  <2>3. sw["plan"].pc = "patching"
    BY <1>0, <2>1, <2>2 DEF SwitchInv, OwnInv, Awaited
  <2>4. UNCHANGED <<value, dirty, rendered, timer, switching>>
    BY <1>0, <1>11, <2>2 DEF Fail, CallerFails, LeaveSwitch, TypeOK
  <2>5. \A d \in calls : d # c => d \in calls'
    BY <1>11 DEF Fail
  <2> QED BY <2>1, <2>2, <2>3, <2>4, <2>5 DEF DirtyIsHandled
<1> QED BY <1>2, <1>3, <1>5, <1>6, <1>7, <1>8, <1>9, <1>10, <1>11, <1>12, <1>13,
           <1>14, <1>15 DEF Next

-----------------------------------------------------------------------------
(* The theorems *)

LEMMA SaveInvInit == Init => SaveInv
<1> SUFFICES ASSUME Init PROVE SaveInv
  OBVIOUS
<1>1. CallsInv /\ DirtyIsHandled
  BY DEF Init, CallsInv, DirtyIsHandled
<1>2. SwitchInv
  BY DEF Init, SwitchInv, OwnInv, Awaited, NoSwitch
<1>3. EditsInv
  <2>1. /\ value = FirstProject /\ rendered.value = FirstProject /\ edits = 0
        /\ build.content = FirstProject /\ calls = {} /\ timer = None
        /\ \A s \in Preparer : sw[s].seen.value = FirstProject
        /\ \A p \in Path : disk[p].n = 0
    BY DEF Init, NoBuild, NoSwitch, Empty
  <2>2. \A x \in Held : x.n = 0
    BY <2>1 DEF Held, FirstProject
  <2> QED BY <2>1, <2>2 DEF EditsInv
<1> QED BY <1>1, <1>2, <1>3, TypeInit DEF SaveInv

LEMMA SaveInvStep == SaveInv /\ [Next]_vars => SaveInv'
<1> SUFFICES ASSUME SaveInv, [Next]_vars PROVE SaveInv'
  OBVIOUS
<1> USE DEF SaveInv
<1>1. TypeOK' /\ CallsInv'
  BY TypeStep, CallsStep
<1>2. SwitchInv'
  BY OwnStep, FlagStep DEF SwitchInv
<1>3. EditsInv' /\ DirtyIsHandled'
  BY EditsStep, DirtyStep DEF DirtyIsHandled, PlanSaves
<1> QED BY <1>1, <1>2, <1>3

LEMMA SaveInvCorrect == Spec => []SaveInv
  BY SaveInvInit, SaveInvStep, PTL DEF Spec

\* While the flag that stops the autosave is up a switch is under way, and a
\* switch or a plan that waits has exactly one request in flight to wait for.
THEOREM SwitchesAreAwaited == Spec => []SwitchIsAwaited
<1>1. SaveInv => SwitchIsAwaited
  BY OwnIsCounted DEF SaveInv, SwitchInv, SwitchIsAwaited
<1> QED BY <1>1, SaveInvCorrect, PTL

\* An edit the page knows to be unsaved is in the timer, in a running autosave
\* or before the save of a plan, unless the save failed, a switch gave up or a
\* plan cleared the timer of an edit it does not know.
THEOREM UnsavedEditsAreHandled == Spec => []DirtyIsHandled
<1>1. SaveInv => DirtyIsHandled
  BY DEF SaveInv
<1> QED BY <1>1, SaveInvCorrect, PTL

-----------------------------------------------------------------------------
(***************************************************************************)
(* Proofs about UpdateService: its types, and that a download which was     *)
(* reported as finished can be installed, whatever the other thread writes *)
(* over the state file and wherever the process dies.                      *)
(***************************************************************************)
USE UpdateAssumption

\* The download the page is at was verified and placed first of all; from
\* "write" on, and nowhere else, a state to be written is of a finished one,
\* which has its metadata.
PageInv ==
    LET asker == thread["page"]
        placed == exes # <<>> /\ exes[1] = asker.state.manifest /\ stopped
    IN  /\ asker.at \in {"fetch", "note"} => asker.state.manifest # NoVersion
        /\ asker.at = "note" => placed
        /\ asker.at \in {"write", "replace"} /\ asker.state.status = "downloaded" =>
              placed /\ asker.state.manifest \in notes
        /\ asker.at \in {"retain", "forget"} =>
              exes # <<>> /\ done # <<>> /\ exes[1] = done[1] /\ stopped
        /\ asker.at = "forget" => asker.state.download \notin Elements(exes)

StartInv ==
    LET start == thread["start"]
    IN  /\ start.at \in {"idle", "check", "discover", "write", "replace"}
        /\ start.at \in {"write", "replace"} => start.state.status # "downloaded"

\* The last download is there, the others too as long as there are not Kept
\* installers; and unless one stopped, the installers are those of the last
\* downloads, with their metadata.
FilesInv ==
    /\ done # <<>> => done[1] \in Elements(exes) /\ done[1] \in notes
    /\ Elements(done) \subseteq Elements(exes) \/ Len(exes) >= Kept
    /\ ~stopped => IsPrefix(exes, done) /\ Elements(exes) \subseteq notes

UpdateInv == UpdateTypeOK /\ PageInv /\ StartInv /\ FilesInv

-----------------------------------------------------------------------------
(* What a step of a thread makes of it *)

LEMMA Values ==
    /\ NoState \in State /\ Resting \in Thread /\ Starting \in Thread
    /\ NoState.status = "idle" /\ Resting.at = "idle" /\ Starting.at = "check"
    /\ Resting.state = NoState /\ Starting.state = NoState
<1>1. 0 \in 0 .. Newest + 1
    OBVIOUS
<1>2. NoState \in State /\ NoState.status = "idle"
    BY <1>1 DEF NoState, State, Channel, NoVersion
<1>3. Resting \in Thread /\ Resting.at = "idle" /\ Resting.state = NoState
    BY <1>2 DEF Resting, Thread, Channel
<1>4. Starting \in Thread /\ Starting.at = "check" /\ Starting.state = NoState
    BY <1>3 DEF Starting, Thread
<1> QED BY <1>2, <1>3, <1>4

\* A thread that stands somewhere else, and one that holds another state.
LEMMA ThreadMoves ==
    ASSUME thread \in [{"page", "start"} -> Thread], NEW t \in {"page", "start"},
           NEW at \in {"idle", "check", "discover", "write", "replace", "fetch", "note",
                       "retain", "forget"},
           thread' = [thread EXCEPT ![t].at = at]
    PROVE  /\ thread' \in [{"page", "start"} -> Thread]
           /\ thread'[t].at = at /\ thread'[t].state = thread[t].state
           /\ \A u \in {"page", "start"} \ {t} : thread'[u] = thread[u]
BY DEF Thread

LEMMA ThreadLoads ==
    ASSUME thread \in [{"page", "start"} -> Thread], NEW t \in {"page", "start"},
           NEW at \in {"idle", "check", "discover", "write", "replace", "fetch", "note",
                       "retain", "forget"},
           NEW s \in State,
           thread' = [thread EXCEPT ![t].state = s, ![t].at = at]
    PROVE  /\ thread' \in [{"page", "start"} -> Thread]
           /\ thread'[t].at = at /\ thread'[t].state = s
           /\ \A u \in {"page", "start"} \ {t} : thread'[u] = thread[u]
BY DEF Thread

LEMMA ThreadEnds ==
    ASSUME thread \in [{"page", "start"} -> Thread], NEW t \in {"page", "start"},
           NEW r \in Thread, thread' = [thread EXCEPT ![t] = r]
    PROVE  /\ thread' \in [{"page", "start"} -> Thread]
           /\ thread'[t] = r
           /\ \A u \in {"page", "start"} \ {t} : thread'[u] = thread[u]
OBVIOUS

\* A new process: the page rests, the check at start-up begins.
LEMMA ThreadStarts ==
    ASSUME NEW version, StartProcess(version)
    PROVE  /\ thread' \in [{"page", "start"} -> Thread]
           /\ thread'["page"] = Resting /\ thread'["start"] = Starting
           /\ current' = version
BY Values DEF StartProcess

\* What a check offers was published.
LEMMA DiscoveredType ==
    ASSUME published \in 1 .. Newest + 1, NEW channel
    PROVE  Discovered(channel) \in 0 .. Newest + 1
<1> DEFINE Offered == {v \in 1 .. published : channel = "beta" \/ v \in Stable}
<1>1. CASE Offered = {}
    BY <1>1 DEF Discovered, NoVersion
<1>2. CASE Offered # {}
  <2>1. published \in Nat /\ Offered \subseteq 1 .. published
    OBVIOUS
  <2> DEFINE d == CHOOSE v \in Offered : \A w \in Offered : w <= v
  <2>2. Discovered(channel) = d
    BY <1>2 DEF Discovered
  <2> HIDE DEF Offered
  <2>3. \E v \in Offered : \A w \in Offered : w <= v
    BY <2>1, <1>2, GreatestExists
  <2>4. d \in Offered
    BY <2>3
  <2>5. d \in 1 .. published
    BY <2>1, <2>4
  <2> HIDE DEF d
  <2> QED BY <2>2, <2>5
<1> QED BY <1>1, <1>2

-----------------------------------------------------------------------------
(* What leaves each part of the invariant alone *)

LEMMA FilesSame ==
    ASSUME FilesInv, UNCHANGED <<exes, notes, done, stopped>>
    PROVE  FilesInv'
BY DEF FilesInv

\* The page does not move, or stands where nothing is said of it.
LEMMA PageSame ==
    ASSUME PageInv, UNCHANGED <<exes, notes, done, stopped>>,
           thread'["page"] = thread["page"]
    PROVE  PageInv'
BY DEF PageInv

LEMMA PageRests ==
    ASSUME \/ thread'["page"].at \in {"idle", "discover"}
           \/ /\ thread'["page"].at \in {"write", "replace"}
              /\ thread'["page"].state.status # "downloaded"
    PROVE  PageInv'
BY DEF PageInv

LEMMA StartSame ==
    ASSUME StartInv, thread'["start"] = thread["start"]
    PROVE  StartInv'
BY DEF StartInv

LEMMA StartMoves ==
    ASSUME \/ thread'["start"].at \in {"idle", "check", "discover"}
           \/ /\ thread'["start"].at \in {"write", "replace"}
              /\ thread'["start"].state.status # "downloaded"
    PROVE  StartInv'
BY DEF StartInv

\* A new process leaves the files as they are.
LEMMA ProcessStarts ==
    ASSUME UpdateInv, NEW version \in 1 .. Newest + 1, StartProcess(version),
           UNCHANGED <<published, files, done, stopped>>
    PROVE  UpdateInv'
<1>1. /\ thread' \in [{"page", "start"} -> Thread]
      /\ thread'["page"] = Resting /\ thread'["start"] = Starting /\ current' = version
    BY ThreadStarts
<1>2. UNCHANGED <<published, state, temporary, exes, notes, done, stopped>>
    BY DEF files
<1>3. UpdateTypeOK'
    BY <1>1, <1>2 DEF UpdateInv, UpdateTypeOK
<1>4. PageInv'
    BY <1>1, Values, PageRests
<1>5. StartInv'
    BY <1>1, Values, StartMoves
<1> QED BY <1>2, <1>3, <1>4, <1>5, FilesSame DEF UpdateInv

-----------------------------------------------------------------------------
(* The checks *)

LEMMA BeginCheckStep ==
    ASSUME UpdateInv, NEW t \in {"page", "start"}, NEW channel \in Channel,
           BeginCheck(t, channel)
    PROVE  UpdateInv'
<1> DEFINE next == IF ~(t = "page") /\ CacheIsFresh(channel) THEN Resting
                   ELSE [at |-> "discover", state |-> state, channel |-> channel]
<1>1. UNCHANGED <<published, current, state, temporary, exes, notes, done, stopped>>
    BY DEF BeginCheck, files
<1>2. thread' = [thread EXCEPT ![t] = next] /\ thread \in [{"page", "start"} -> Thread]
    BY DEF BeginCheck, UpdateInv, UpdateTypeOK
<1>3. next \in Thread /\ next.at \in {"idle", "discover"}
  <2>1. state \in State
    BY DEF UpdateInv, UpdateTypeOK
  <2>2. [at |-> "discover", state |-> state, channel |-> channel] \in Thread
    BY <2>1 DEF Thread
  <2> QED BY <2>2, Values
<1> HIDE DEF next
<1>4. /\ thread' \in [{"page", "start"} -> Thread] /\ thread'[t] = next
      /\ \A u \in {"page", "start"} \ {t} : thread'[u] = thread[u]
    BY <1>2, <1>3, ThreadEnds
<1>5. UpdateTypeOK'
    BY <1>1, <1>4 DEF UpdateInv, UpdateTypeOK
<1>6. PageInv'
    BY <1>1, <1>3, <1>4, PageSame, PageRests DEF UpdateInv
<1>7. StartInv'
    BY <1>3, <1>4, StartSame, StartMoves DEF UpdateInv
<1> QED BY <1>1, <1>5, <1>6, <1>7, FilesSame DEF UpdateInv

\* What a check writes is never the state of a download.
LEMMA AfterCheckType ==
    ASSUME UpdateInv, NEW t \in {"page", "start"}
    PROVE  /\ AfterCheck(t) \in State /\ AfterCheck(t).status # "downloaded"
           /\ AfterFailedCheck(t) \in State /\ AfterFailedCheck(t).status # "downloaded"
<1> DEFINE v == Discovered(thread[t].channel)
<1>1. thread[t] \in Thread /\ Loaded(t) \in State /\ thread[t].channel \in Channel
    BY DEF UpdateInv, UpdateTypeOK, Thread, Loaded
<1>2. v \in 0 .. Newest + 1
    BY DiscoveredType DEF UpdateInv, UpdateTypeOK
<1> HIDE DEF v
<1>3. 0 \in 0 .. Newest + 1
    OBVIOUS
<1>4. Loaded(t).download \in 0 .. Newest + 1
    BY <1>1 DEF State
<1>5. ValidDownload(Loaded(t).download, v) \in 0 .. Newest + 1
    BY <1>3, <1>4 DEF ValidDownload, NoVersion
<1>6. AfterCheck(t) \in State /\ AfterCheck(t).status # "downloaded"
  <2>1. AfterCheck(t) =
          [status |-> IF v > current THEN "available" ELSE "up-to-date",
           channel |-> thread[t].channel,
           manifest |-> IF v > current THEN v ELSE NoVersion,
           download |-> ValidDownload(Loaded(t).download, v),
           fresh |-> TRUE]
    BY DEF AfterCheck, v
  <2>2. (IF v > current THEN v ELSE NoVersion) \in 0 .. Newest + 1
    BY <1>2, <1>3 DEF NoVersion
  <2> QED BY <2>1, <2>2, <1>1, <1>5 DEF State
<1>7. AfterFailedCheck(t) \in State /\ AfterFailedCheck(t).status # "downloaded"
    BY <1>1 DEF AfterFailedCheck, State
<1> QED BY <1>6, <1>7

LEMMA DiscoverStep ==
    ASSUME UpdateInv, NEW t \in {"page", "start"}, Discover(t)
    PROVE  UpdateInv'
<1>1. UNCHANGED <<published, current, state, temporary, exes, notes, done, stopped>>
    BY DEF Discover, files
<1>2. thread \in [{"page", "start"} -> Thread]
    BY DEF UpdateInv, UpdateTypeOK
<1>3. PICK s \in State : /\ s.status # "downloaded"
                         /\ thread' = [thread EXCEPT ![t].state = s, ![t].at = "write"]
    BY AfterCheckType DEF Discover
<1>4. /\ thread' \in [{"page", "start"} -> Thread]
      /\ thread'[t].at = "write" /\ thread'[t].state = s
      /\ \A u \in {"page", "start"} \ {t} : thread'[u] = thread[u]
    BY <1>2, <1>3, ThreadLoads, ZenonT(60)
<1>5. UpdateTypeOK'
    BY <1>1, <1>4 DEF UpdateInv, UpdateTypeOK
<1>6. PageInv'
    BY <1>1, <1>3, <1>4, PageSame, PageRests DEF UpdateInv
<1>7. StartInv'
    BY <1>3, <1>4, StartSame, StartMoves DEF UpdateInv
<1> QED BY <1>1, <1>5, <1>6, <1>7, FilesSame DEF UpdateInv

-----------------------------------------------------------------------------
(* Writing the state *)

LEMMA WriteTemporaryStep ==
    ASSUME UpdateInv, NEW t \in {"page", "start"}, WriteTemporary(t)
    PROVE  UpdateInv'
<1>1. UNCHANGED <<published, current, state, exes, notes, done, stopped>>
    BY DEF WriteTemporary
<1>2. thread \in [{"page", "start"} -> Thread] /\ Loaded(t) \in State /\ temporary \in Seq(State)
    BY DEF UpdateInv, UpdateTypeOK, Loaded, Thread
<1>3. temporary' \in Seq(State)
  <2>1. <<Loaded(t)>> \in Seq(State) /\ <<NoState>> \in Seq(State)
    BY <1>2, Values
  <2>2. temporary' \in {<<Loaded(t)>>, temporary, <<NoState>>}
    BY DEF WriteTemporary
  <2> QED BY <2>1, <2>2, <1>2
<1>4. CASE To(t, "replace")
  <2>1. thread' = [thread EXCEPT ![t].at = "replace"] /\ thread[t].at = "write"
    BY <1>4 DEF To, WriteTemporary, At
  <2>2. /\ thread' \in [{"page", "start"} -> Thread]
        /\ thread'[t].at = "replace" /\ thread'[t].state = thread[t].state
        /\ \A u \in {"page", "start"} \ {t} : thread'[u] = thread[u]
    BY <2>1, <1>2, ThreadMoves
  <2>3. UpdateTypeOK'
    BY <1>1, <1>3, <2>2 DEF UpdateInv, UpdateTypeOK
  <2>4. PageInv'
    <3>1. CASE t = "page"
      BY <3>1, <1>1, <2>1, <2>2 DEF PageInv, UpdateInv
    <3>2. CASE t = "start"
      BY <3>2, <1>1, <2>2, PageSame DEF UpdateInv
    <3> QED BY <3>1, <3>2
  <2>5. StartInv'
    BY <2>1, <2>2 DEF StartInv, UpdateInv
  <2> QED BY <1>1, <2>3, <2>4, <2>5, FilesSame DEF UpdateInv
<1>5. CASE Ends(t)
  <2>1. /\ thread' \in [{"page", "start"} -> Thread] /\ thread'[t] = Resting
        /\ \A u \in {"page", "start"} \ {t} : thread'[u] = thread[u]
    BY <1>2, <1>5, Values, ThreadEnds DEF Ends
  <2>2. UpdateTypeOK'
    BY <1>1, <1>3, <2>1 DEF UpdateInv, UpdateTypeOK
  <2>3. PageInv'
    BY <1>1, <2>1, Values, PageSame, PageRests DEF UpdateInv
  <2>4. StartInv'
    BY <2>1, Values, StartSame, StartMoves DEF UpdateInv
  <2> QED BY <1>1, <2>2, <2>3, <2>4, FilesSame DEF UpdateInv
<1> QED BY <1>4, <1>5 DEF WriteTemporary

\* t is s with v at the front.
Fronted(t, S, s, v) ==
    /\ t \in Seq(S) /\ t # <<>> /\ t[1] = v
    /\ Len(t) \in Nat /\ Len(t) >= Len(s)
    /\ Elements(t) = Elements(s) \cup {v}
    /\ IsInjective(t)

\* The version goes to the front of a list that may hold it.
LEMMA FrontElements ==
    ASSUME NEW S, NEW s \in Seq(S), NEW v \in S, IsInjective(s)
    PROVE  Fronted(<<v>> \o Without(s, {v}), S, s, v)
<1> DEFINE w == Without(s, {v})
           t == <<v>> \o w
<1>1. /\ w \in Seq(S) /\ Elements(w) = Elements(s) \ {v} /\ IsInjective(w)
      /\ Len(w) >= Len(s) - 1 /\ Len(w) \in Nat /\ Len(s) \in Nat
    BY WithoutElements, WithoutOne, LenProperties
<1> HIDE DEF w
<1>2. <<v>> \in Seq(S) /\ Len(<<v>>) = 1 /\ Elements(<<v>>) = {v}
    BY DEF Elements
<1>3. t \in Seq(S) /\ Elements(t) = {v} \cup Elements(w)
  <2> DEFINE u == <<v>>
  <2>1. u \in Seq(S) /\ Elements(u) = {v}
    BY <1>2
  <2> HIDE DEF u
  <2>2. u \o w \in Seq(S) /\ Elements(u \o w) = Elements(u) \cup Elements(w)
    BY <2>1, <1>1, ConcatElements
  <2> QED BY <2>1, <2>2 DEF u
<1>4. /\ Len(t) = 1 + Len(w)
      /\ \A i \in 1 .. 1 + Len(w) : t[i] = IF i <= 1 THEN v ELSE w[i - 1]
    BY <1>1, <1>2, ConcatProperties
<1>5. t # <<>> /\ t[1] = v /\ Len(t) >= Len(s) /\ Len(t) \in Nat
    BY <1>1, <1>3, <1>4
<1>6. \A i \in 2 .. 1 + Len(w) : i - 1 \in 1 .. Len(w) /\ t[i] = w[i - 1] /\ t[i] # v
  <2> TAKE i \in 2 .. 1 + Len(w)
  <2>1. i - 1 \in 1 .. Len(w) /\ t[i] = w[i - 1]
    BY <1>1, <1>4
  <2>2. w[i - 1] \in Elements(w)
    BY <2>1 DEF Elements
  <2> QED BY <2>1, <2>2, <1>1
<1>7. IsInjective(t)
  <2>1. DOMAIN t = 1 .. 1 + Len(w) /\ DOMAIN w = 1 .. Len(w)
    BY <1>1, <1>3, <1>4
  <2>2. SUFFICES ASSUME NEW i \in 1 .. 1 + Len(w), NEW j \in 1 .. 1 + Len(w), t[i] = t[j]
                 PROVE  i = j
    BY <2>1 DEF IsInjective
  <2>3. i = 1 \/ i \in 2 .. 1 + Len(w)
    BY <1>1
  <2>4. j = 1 \/ j \in 2 .. 1 + Len(w)
    BY <1>1
  <2>5. CASE i = 1 \/ j = 1
    BY <2>2, <2>3, <2>4, <2>5, <1>5, <1>6
  <2>6. CASE i \in 2 .. 1 + Len(w) /\ j \in 2 .. 1 + Len(w)
    <3>1. w[i - 1] = w[j - 1] /\ i - 1 \in DOMAIN w /\ j - 1 \in DOMAIN w
      BY <2>1, <2>2, <2>6, <1>6
    <3>2. i - 1 = j - 1
      BY <3>1, <1>1 DEF IsInjective
    <3> QED BY <3>2
  <2> QED BY <2>3, <2>4, <2>5, <2>6
<1>8. Elements(t) = Elements(s) \cup {v}
  <2>1. v \in S /\ Elements(s) \cup {v} = {v} \cup (Elements(s) \ {v})
    OBVIOUS
  <2> HIDE DEF t
  <2> QED BY <1>1, <1>3, <2>1
<1> HIDE DEF t
<1>9. Fronted(t, S, s, v)
    BY <1>3, <1>5, <1>7, <1>8 DEF Fronted
<1> QED BY <1>9 DEF w, t

LEMMA ReplaceStateStep ==
    ASSUME UpdateInv, NEW t \in {"page", "start"}, ReplaceState(t)
    PROVE  UpdateInv'
<1>1. UNCHANGED <<published, current, exes, notes, stopped>>
    BY DEF ReplaceState
<1>2. /\ thread \in [{"page", "start"} -> Thread] /\ Loaded(t) \in State
      /\ temporary \in Seq(State) /\ state \in State
    BY DEF UpdateInv, UpdateTypeOK, Loaded, Thread
<1>3. state' \in State /\ temporary' \in Seq(State)
  <2>1. temporary # <<>> => temporary[1] \in State
    BY <1>2
  <2>2. <<>> \in Seq(State)
    OBVIOUS
  <2> QED BY <2>1, <2>2, <1>2 DEF ReplaceState
<1>4. CASE Ends(t) /\ done' = done
  <2>1. /\ thread' \in [{"page", "start"} -> Thread] /\ thread'[t] = Resting
        /\ \A u \in {"page", "start"} \ {t} : thread'[u] = thread[u]
    BY <1>2, <1>4, Values, ThreadEnds DEF Ends
  <2>2. UpdateTypeOK'
    BY <1>1, <1>3, <1>4, <2>1 DEF UpdateInv, UpdateTypeOK
  <2>3. PageInv'
    BY <1>1, <1>4, <2>1, Values, PageSame, PageRests DEF UpdateInv
  <2>4. StartInv'
    BY <2>1, Values, StartSame, StartMoves DEF UpdateInv
  <2> QED BY <1>1, <1>4, <2>2, <2>3, <2>4, FilesSame DEF UpdateInv
<1>5. CASE /\ Loaded(t).status = "downloaded" /\ To(t, "retain")
           /\ done' = <<Loaded(t).manifest>> \o Without(done, {Loaded(t).manifest})
  <2> DEFINE v == thread["page"].state.manifest
  <2>1. thread[t].at = "replace" /\ thread[t].state.status = "downloaded"
    BY <1>5 DEF ReplaceState, At, Loaded
  <2>2. t = "page"
    BY <2>1 DEF UpdateInv, StartInv
  <2>3. exes # <<>> /\ exes[1] = v /\ stopped /\ v \in notes
    BY <2>1, <2>2 DEF UpdateInv, PageInv
  <2>4. /\ exes \in Seq(1 .. Newest + 1) /\ done \in Seq(1 .. Newest + 1)
        /\ notes \subseteq 1 .. Newest + 1
    BY DEF UpdateInv, UpdateTypeOK
  <2>5. done' = <<v>> \o Without(done, {v}) /\ v \in 1 .. Newest + 1
    BY <1>5, <2>2, <2>3, <2>4 DEF Loaded
  <2> HIDE DEF v
  <2>6. done' \in Seq(1 .. Newest + 1) /\ done' # <<>> /\ done'[1] = v
        /\ Elements(done') \subseteq Elements(done) \cup {v}
    <3>1. Without(done, {v}) \in Seq(1 .. Newest + 1)
          /\ Elements(Without(done, {v})) = Elements(done) \ {v}
      BY <2>4, WithoutElements
    <3>2. <<v>> \in Seq(1 .. Newest + 1) /\ Len(<<v>>) = 1 /\ <<v>>[1] = v /\ Elements(<<v>>) = {v}
      BY <2>5 DEF Elements
    <3>3. Elements(done') = {v} \cup (Elements(done) \ {v}) /\ done' \in Seq(1 .. Newest + 1)
      <4> DEFINE u == <<v>>
                 w == Without(done, {v})
      <4>1. u \in Seq(1 .. Newest + 1) /\ Elements(u) = {v}
        BY <3>2
      <4>2. w \in Seq(1 .. Newest + 1) /\ Elements(w) = Elements(done) \ {v} /\ done' = u \o w
        BY <3>1, <2>5
      <4> HIDE DEF u, w
      <4>3. u \o w \in Seq(1 .. Newest + 1) /\ Elements(u \o w) = Elements(u) \cup Elements(w)
        BY <4>1, <4>2, ConcatElements
      <4> QED BY <4>1, <4>2, <4>3
    <3>4. Len(done') = 1 + Len(Without(done, {v})) /\ Len(Without(done, {v})) \in Nat
          /\ done'[1] = v
      <4>1. Len(Without(done, {v})) \in Nat
        BY <3>1, LenProperties
      <4>2. 1 \in 1 .. Len(<<v>>) + Len(Without(done, {v}))
        BY <4>1, <3>2
      <4> QED BY <4>1, <4>2, <3>1, <3>2, <2>5, ConcatProperties
    <3> QED BY <3>3, <3>4
  <2>7. thread' = [thread EXCEPT !["page"].at = "retain"]
    BY <1>5, <2>2 DEF To
  <2>8. /\ thread' \in [{"page", "start"} -> Thread] /\ thread'["page"].at = "retain"
        /\ thread'["start"] = thread["start"]
    BY <2>7, <1>2, ThreadMoves
  <2>9. UpdateTypeOK'
    BY <1>1, <1>3, <2>6, <2>8 DEF UpdateInv, UpdateTypeOK
  <2>10. PageInv'
    BY <1>1, <2>3, <2>6, <2>8 DEF PageInv
  <2>11. StartInv'
    BY <2>8, StartSame DEF UpdateInv
  <2>12. v \in Elements(exes)
    BY <2>3, <2>4, EmptySeq DEF Elements
  <2>13. FilesInv'
    BY <1>1, <2>3, <2>6, <2>12 DEF FilesInv, UpdateInv
  <2> QED BY <2>9, <2>10, <2>11, <2>13 DEF UpdateInv
<1> QED BY <1>4, <1>5 DEF ReplaceState

-----------------------------------------------------------------------------
(* Downloads *)

LEMMA BeginDownloadStep ==
    ASSUME UpdateInv, BeginDownload
    PROVE  UpdateInv'
<1> DEFINE r == [Resting EXCEPT !.at = "fetch", !.state = state]
<1>1. UNCHANGED <<published, current, state, temporary, exes, notes, done, stopped>>
    BY DEF BeginDownload, files
<1>2. thread \in [{"page", "start"} -> Thread] /\ state \in State
    BY DEF UpdateInv, UpdateTypeOK
<1>3. r \in Thread /\ r.at = "fetch" /\ r.state = state
    BY <1>2 DEF Resting, Thread, Channel
<1>4. thread' = [thread EXCEPT !["page"] = r] /\ state.manifest # NoVersion
    BY DEF BeginDownload
<1> HIDE DEF r
<1>5. /\ thread' \in [{"page", "start"} -> Thread] /\ thread'["page"] = r
      /\ thread'["start"] = thread["start"]
    BY <1>2, <1>3, <1>4, ThreadEnds
<1>6. UpdateTypeOK'
    BY <1>1, <1>5 DEF UpdateInv, UpdateTypeOK
<1>7. PageInv'
    BY <1>3, <1>4, <1>5 DEF PageInv
<1>8. StartInv'
    BY <1>5, StartSame DEF UpdateInv
<1> QED BY <1>1, <1>6, <1>7, <1>8, FilesSame DEF UpdateInv

LEMMA FetchStep ==
    ASSUME UpdateInv, Fetch
    PROVE  UpdateInv'
<1> DEFINE v == thread["page"].state.manifest
<1>1. UNCHANGED <<published, current, state, temporary, notes, done>>
    BY DEF Fetch
<1>2. /\ thread \in [{"page", "start"} -> Thread] /\ thread["page"].state \in State
      /\ exes \in Seq(1 .. Newest + 1) /\ IsInjective(exes)
    BY DEF UpdateInv, UpdateTypeOK, Thread
<1>3. thread["page"].at = "fetch" /\ v # NoVersion /\ v \in 1 .. Newest + 1
  <2>1. thread["page"].at = "fetch" /\ v # NoVersion
    BY DEF Fetch, At, UpdateInv, PageInv
  <2>2. v \in 0 .. Newest + 1
    BY <1>2 DEF State
  <2> QED BY <2>1, <2>2 DEF NoVersion
<1>4. CASE /\ exes' = <<v>> \o Without(exes, {v})
           /\ stopped' = TRUE
           /\ To("page", "note")
  <2> HIDE DEF v
  <2>1. /\ exes' \in Seq(1 .. Newest + 1) /\ exes' # <<>> /\ exes'[1] = v
        /\ Len(exes') >= Len(exes) /\ Len(exes') \in Nat
        /\ Elements(exes') = Elements(exes) \cup {v} /\ IsInjective(exes')
    <3>1. Fronted(<<v>> \o Without(exes, {v}), 1 .. Newest + 1, exes, v)
      BY <1>2, <1>3, FrontElements
    <3>2. Fronted(exes', 1 .. Newest + 1, exes, v)
      BY <3>1, <1>4
    <3> QED BY <3>2 DEF Fronted
  <2>2. thread' = [thread EXCEPT !["page"].at = "note"]
    BY <1>4 DEF To
  <2>3. /\ thread' \in [{"page", "start"} -> Thread] /\ thread'["page"].at = "note"
        /\ thread'["page"].state = thread["page"].state
        /\ thread'["start"] = thread["start"]
    BY <2>2, <1>2, ThreadMoves
  <2>4. UpdateTypeOK'
    BY <1>1, <1>4, <2>1, <2>3 DEF UpdateInv, UpdateTypeOK
  <2>5. PageInv'
    BY <1>3, <1>4, <2>1, <2>3 DEF PageInv, v
  <2>6. StartInv'
    BY <2>3, StartSame DEF UpdateInv
  <2>7. Len(exes) \in Nat /\ Kept \in Nat
    BY <1>2
  <2>8. FilesInv'
    <3>1. done # <<>> => done[1] \in Elements(exes') /\ done[1] \in notes
      BY <2>1 DEF FilesInv, UpdateInv
    <3>2. Elements(done) \subseteq Elements(exes') \/ Len(exes') >= Kept
      BY <2>1, <2>7 DEF FilesInv, UpdateInv
    <3> QED BY <1>1, <1>4, <3>1, <3>2 DEF FilesInv
  <2> QED BY <2>4, <2>5, <2>6, <2>8 DEF UpdateInv
<1>5. CASE Ends("page") /\ UNCHANGED <<exes, stopped>>
  <2>1. /\ thread' \in [{"page", "start"} -> Thread] /\ thread'["page"] = Resting
        /\ thread'["start"] = thread["start"]
    BY <1>2, <1>5, Values, ThreadEnds DEF Ends
  <2>2. UpdateTypeOK'
    BY <1>1, <1>5, <2>1 DEF UpdateInv, UpdateTypeOK
  <2>3. PageInv'
    BY <2>1, Values, PageRests
  <2>4. StartInv'
    BY <2>1, StartSame DEF UpdateInv
  <2> QED BY <1>1, <1>5, <2>2, <2>3, <2>4, FilesSame DEF UpdateInv
<1> QED BY <1>4, <1>5 DEF Fetch, Loaded

\* With the metadata written the state of the download is written next.  Without
\* it the versions that were downloaded keep theirs, or none is left of them.
LEMMA WriteNoteStep ==
    ASSUME UpdateInv, WriteNote
    PROVE  UpdateInv'
<1> DEFINE v == thread["page"].state.manifest
<1>1. UNCHANGED <<published, state, temporary, exes, stopped>>
    BY DEF WriteNote
<1>2. /\ thread \in [{"page", "start"} -> Thread] /\ thread["page"].state \in State
      /\ exes \in Seq(1 .. Newest + 1) /\ done \in Seq(1 .. Newest + 1)
      /\ notes \subseteq 1 .. Newest + 1 /\ current \in 1 .. Newest + 1
    BY DEF UpdateInv, UpdateTypeOK, Thread
<1>3. /\ thread["page"].at = "note" /\ v # NoVersion /\ v \in 1 .. Newest + 1
      /\ exes # <<>> /\ exes[1] = v /\ stopped
  <2>1. /\ thread["page"].at = "note" /\ v # NoVersion
        /\ exes # <<>> /\ exes[1] = v /\ stopped
    BY DEF WriteNote, At, UpdateInv, PageInv
  <2>2. v \in 0 .. Newest + 1
    BY <1>2 DEF State
  <2> QED BY <2>1, <2>2 DEF NoVersion
<1>4. CASE /\ notes' = notes \cup {v}
           /\ thread' = [thread EXCEPT !["page"].state = Downloaded(@), !["page"].at = "write"]
           /\ UNCHANGED <<current, done>>
  <2> DEFINE s == Downloaded(thread["page"].state)
  <2>1. s \in State /\ s.manifest = v
    BY <1>2 DEF Downloaded, State
  <2>2. thread' = [thread EXCEPT !["page"].state = s, !["page"].at = "write"]
    BY <1>4
  <2> HIDE DEF s, v
  <2>3. /\ thread' \in [{"page", "start"} -> Thread] /\ thread'["page"].at = "write"
        /\ thread'["page"].state = s /\ thread'["start"] = thread["start"]
    BY <2>1, <2>2, <1>2, ThreadLoads
  <2>4. UpdateTypeOK'
    BY <1>1, <1>2, <1>3, <1>4, <2>3 DEF UpdateInv, UpdateTypeOK
  <2>5. PageInv'
    BY <1>1, <1>3, <1>4, <2>1, <2>3 DEF PageInv
  <2>6. StartInv'
    BY <2>3, StartSame DEF UpdateInv
  <2>7. FilesInv'
    BY <1>1, <1>3, <1>4 DEF FilesInv, UpdateInv
  <2> QED BY <2>4, <2>5, <2>6, <2>7 DEF UpdateInv
<1>5. CASE /\ \/ UNCHANGED <<notes, done>>
              \/ /\ notes' = notes \ {v}
                 /\ done' = IF v \in Elements(done) THEN <<>> ELSE done
           /\ StartProcess(current) \/ (Ends("page") /\ UNCHANGED current)
  <2>1. /\ thread' \in [{"page", "start"} -> Thread] /\ thread'["page"] = Resting
        /\ thread'["start"] \in {Starting, thread["start"]} /\ current' = current
    <3>1. CASE StartProcess(current)
      BY <3>1, ThreadStarts
    <3>2. CASE Ends("page") /\ UNCHANGED current
      BY <3>2, <1>2, Values, ThreadEnds DEF Ends
    <3> QED BY <3>1, <3>2, <1>5
  <2>2. notes' \subseteq notes /\ done' \in Seq(1 .. Newest + 1)
    <3>1. notes' \subseteq notes /\ (done' = done \/ done' = <<>>)
      BY <1>5
    <3>2. <<>> \in Seq(1 .. Newest + 1)
      OBVIOUS
    <3>3. CASE done' = done
      BY <3>1, <3>3, <1>2
    <3>4. CASE done' = <<>>
      BY <3>1, <3>2, <3>4
    <3> QED BY <3>1, <3>3, <3>4
  <2>3. UpdateTypeOK'
    BY <1>1, <2>1, <2>2 DEF UpdateInv, UpdateTypeOK
  <2>4. PageInv'
    BY <2>1, Values, PageRests
  <2>5. StartInv'
    BY <2>1, Values, StartSame, StartMoves DEF UpdateInv
  <2> HIDE DEF v
  <2>6. FilesInv'
    <3>1. CASE UNCHANGED <<notes, done>>
      BY <1>1, <3>1, FilesSame DEF UpdateInv
    <3>2. CASE done' = <<>>
      <4>1. Elements(done') = {}
        BY <3>2 DEF Elements
      <4> QED BY <3>2, <4>1, <1>1, <1>3 DEF FilesInv
    <3>3. CASE notes' = notes \ {v} /\ done' = done /\ v \notin Elements(done)
      <4>1. done # <<>> => done[1] \in Elements(done)
        BY <1>2, EmptySeq DEF Elements
      <4> QED BY <3>3, <4>1, <1>1, <1>3 DEF FilesInv, UpdateInv
    <3> QED BY <3>1, <3>2, <3>3, <1>5
  <2> QED BY <2>3, <2>4, <2>5, <2>6 DEF UpdateInv
<1> QED BY <1>4, <1>5 DEF WriteNote, Loaded

\* The newest stays, as there is room for it; the oldest goes, and is not there
\* twice.  With none to remove the download is done.
LEMMA RetainStep ==
    ASSUME UpdateInv, Retain
    PROVE  UpdateInv'
<1>1. UNCHANGED <<published, current, state, temporary, notes, done>>
    BY DEF Retain
<1>2. /\ thread \in [{"page", "start"} -> Thread] /\ thread["page"] \in Thread
      /\ thread["page"].state \in State
      /\ exes \in Seq(1 .. Newest + 1) /\ IsInjective(exes) /\ done \in Seq(1 .. Newest + 1)
      /\ Len(exes) \in Nat /\ Kept \in Nat \ {0}
    BY DEF UpdateInv, UpdateTypeOK, Thread
<1>3. /\ thread["page"].at = "retain"
      /\ exes # <<>> /\ done # <<>> /\ exes[1] = done[1] /\ stopped
    BY DEF Retain, At, UpdateInv, PageInv
<1>4. CASE /\ Len(exes) > Kept
           /\ exes' = Front(exes)
           /\ thread' = [thread EXCEPT !["page"].at = "forget", !["page"].state.download = Last(exes)]
           /\ UNCHANGED stopped
  <2> DEFINE n == Len(exes) - 1
             s == [thread["page"].state EXCEPT !.download = Last(exes)]
  <2>1. n \in Nat /\ n >= Kept /\ n >= 1 /\ 1 \in 1 .. Len(exes) + 1 /\ n \in (1 - 1) .. Len(exes)
        /\ n - 1 + 1 = n /\ Len(exes) = n + 1
    BY <1>2, <1>4
  <2>3. exes' = SubSeq(exes, 1, n)
    BY <1>4 DEF Front
  <2> HIDE DEF n
  <2>2. /\ SubSeq(exes, 1, n) \in Seq(1 .. Newest + 1)
        /\ Len(SubSeq(exes, 1, n)) = n - 1 + 1
        /\ \A i \in 1 .. (n - 1 + 1) : SubSeq(exes, 1, n)[i] = exes[1 + i - 1]
        /\ Elements(SubSeq(exes, 1, n)) = {exes[i] : i \in 1 .. n}
    <3> DEFINE m == 1
               S == 1 .. Newest + 1
    <3>1. m \in 1 .. Len(exes) + 1 /\ n \in (m - 1) .. Len(exes) /\ exes \in Seq(S)
      BY <1>2, <2>1
    <3> HIDE DEF m, S
    <3>2. /\ SubSeq(exes, m, n) \in Seq(S)
          /\ Len(SubSeq(exes, m, n)) = n - m + 1
          /\ \A i \in 1 .. (n - m + 1) : SubSeq(exes, m, n)[i] = exes[m + i - 1]
          /\ Elements(SubSeq(exes, m, n)) = {exes[i] : i \in m .. n}
      BY <3>1, SubSeqElements
    <3> QED BY <3>2 DEF m, S
  <2>4. /\ exes' \in Seq(1 .. Newest + 1) /\ Len(exes') = n
        /\ \A i \in 1 .. n : exes'[i] = exes[i]
        /\ Elements(exes') = {exes[i] : i \in 1 .. n}
    <3>1. \A i \in 1 .. n : 1 + i - 1 = i
      BY <2>1
    <3> QED BY <2>1, <2>2, <2>3, <3>1
  <2>5. DOMAIN exes = 1 .. (n + 1) /\ DOMAIN exes' = 1 .. n
    BY <1>2, <2>1, <2>4
  <2>6. exes' # <<>> /\ exes'[1] = exes[1] /\ exes[1] \in Elements(exes')
    <3>1. 1 \in 1 .. n
      BY <2>1
    <3> QED BY <3>1, <2>4, <2>5
  <2>7. IsInjective(exes')
    <3>1. \A i \in 1 .. n : i \in 1 .. (n + 1)
      BY <2>1
    <3> QED BY <3>1, <1>2, <2>4, <2>5 DEF IsInjective
  <2>8. Last(exes) \in 1 .. Newest + 1 /\ Last(exes) \notin Elements(exes')
    <3>1. n + 1 \in 1 .. (n + 1) /\ Last(exes) = exes[n + 1] /\ \A i \in 1 .. n : i \in 1 .. (n + 1) /\ i # n + 1
      BY <2>1 DEF Last
    <3>2. \A i \in 1 .. n : exes[i] # exes[n + 1]
      BY <3>1, <1>2, <2>5 DEF IsInjective
    <3>3. exes[n + 1] \in 1 .. Newest + 1
      BY <3>1, <1>2, <2>1
    <3> QED BY <3>1, <3>2, <3>3, <2>4
  <2>9. s \in State /\ s.download = Last(exes)
    <3> DEFINE l == Last(exes)
    <3>1. l \in 1 .. Newest + 1
      BY <2>8
    <3>0. l \in 0 .. Newest + 1
      BY <3>1
    <3> HIDE DEF l
    <3>2. [thread["page"].state EXCEPT !.download = l] \in State
          /\ [thread["page"].state EXCEPT !.download = l].download = l
      <4>1. PICK p \in State : p = thread["page"].state
        BY <1>2
      <4>2. [p EXCEPT !.download = l] \in State /\ [p EXCEPT !.download = l].download = l
        BY <3>0 DEF State
      <4> QED BY <4>1, <4>2
    <3>3. s = [thread["page"].state EXCEPT !.download = l]
      BY DEF l
    <3> QED BY <3>2, <3>3 DEF l
  <2>10. thread' = [thread EXCEPT !["page"].state = s, !["page"].at = "forget"]
    BY <1>2, <1>4 DEF Thread, State
  <2> HIDE DEF s
  <2>11. /\ thread' \in [{"page", "start"} -> Thread] /\ thread'["page"].at = "forget"
         /\ thread'["page"].state = s /\ thread'["start"] = thread["start"]
    BY <2>9, <2>10, <1>2, ThreadLoads
  <2>12. UpdateTypeOK'
    BY <1>1, <1>4, <2>4, <2>7, <2>11 DEF UpdateInv, UpdateTypeOK
  <2>13. PageInv'
    BY <1>1, <1>3, <1>4, <2>6, <2>8, <2>9, <2>11 DEF PageInv
  <2>14. StartInv'
    BY <2>11, StartSame DEF UpdateInv
  <2>15. FilesInv'
    BY <1>1, <1>3, <1>4, <2>1, <2>4, <2>6 DEF FilesInv, UpdateInv
  <2> QED BY <2>12, <2>13, <2>14, <2>15 DEF UpdateInv
<1>5. CASE /\ stopped' = ~(IsPrefix(exes, done) /\ Elements(exes) \subseteq notes)
           /\ Ends("page")
           /\ UNCHANGED exes
  <2>1. /\ thread' \in [{"page", "start"} -> Thread] /\ thread'["page"] = Resting
        /\ thread'["start"] = thread["start"]
    BY <1>2, <1>5, Values, ThreadEnds DEF Ends
  <2>2. UpdateTypeOK'
    BY <1>1, <1>5, <2>1 DEF UpdateInv, UpdateTypeOK
  <2>3. PageInv'
    BY <2>1, Values, PageRests
  <2>4. StartInv'
    BY <2>1, StartSame DEF UpdateInv
  <2>5. FilesInv'
    <3>1. ~stopped' => IsPrefix(exes', done') /\ Elements(exes') \subseteq notes'
      BY <1>1, <1>5
    <3> QED BY <1>1, <1>5, <3>1 DEF FilesInv, UpdateInv
  <2> QED BY <2>2, <2>3, <2>4, <2>5 DEF UpdateInv
<1> QED BY <1>4, <1>5 DEF Retain

\* The installer is gone already.
LEMMA ForgetNoteStep ==
    ASSUME UpdateInv, ForgetNote
    PROVE  UpdateInv'
<1> DEFINE v == thread["page"].state.download
<1>1. UNCHANGED <<published, current, state, temporary, exes, done, stopped>>
    BY DEF ForgetNote
<1>2. thread \in [{"page", "start"} -> Thread] /\ notes \subseteq 1 .. Newest + 1
    BY DEF UpdateInv, UpdateTypeOK
<1>3. /\ thread["page"].at = "forget" /\ v \notin Elements(exes) /\ stopped
      /\ exes # <<>> /\ done # <<>> /\ exes[1] = done[1]
    BY DEF ForgetNote, At, UpdateInv, PageInv
<1>4. notes' = notes \ {v} /\ thread' = [thread EXCEPT !["page"].at = "retain"]
    BY DEF ForgetNote, Loaded, To
<1> HIDE DEF v
<1>5. /\ thread' \in [{"page", "start"} -> Thread] /\ thread'["page"].at = "retain"
      /\ thread'["start"] = thread["start"]
    BY <1>2, <1>4, ThreadMoves
<1>6. UpdateTypeOK'
    BY <1>1, <1>2, <1>4, <1>5 DEF UpdateInv, UpdateTypeOK
<1>7. PageInv'
    BY <1>1, <1>3, <1>5 DEF PageInv
<1>8. StartInv'
    BY <1>5, StartSame DEF UpdateInv
<1>9. FilesInv'
    BY <1>1, <1>3, <1>4 DEF FilesInv, UpdateInv
<1> QED BY <1>6, <1>7, <1>8, <1>9 DEF UpdateInv

-----------------------------------------------------------------------------
(* The theorems *)

LEMMA InstallStep ==
    ASSUME UpdateInv, NEW v \in 0 .. published, Install(v)
    PROVE  UpdateInv'
<1>1. UpdateTypeOK
    BY DEF UpdateInv
<1>2. Found(v) \in 1 .. Newest + 1
  <2>1. HasFile(Found(v))
    BY DEF Install, Installable
  <2>2. PICK i \in 1 .. Len(exes) : exes[i] = Found(v)
    BY <2>1 DEF HasFile, Elements
  <2> QED BY <2>2, <1>1 DEF UpdateTypeOK
<1> QED BY <1>2, ProcessStarts DEF Install

LEMMA InitInv == UpdateInit => UpdateInv
<1> SUFFICES ASSUME UpdateInit PROVE UpdateInv
    OBVIOUS
<1>1. /\ thread \in [{"page", "start"} -> Thread]
      /\ thread["page"] = Resting /\ thread["start"] = Starting
    BY Values DEF UpdateInit
<1>2. 1 \in 1 .. Newest + 1 /\ 1 \in 0 .. Newest + 1 /\ 0 \in 0 .. Newest + 1
    OBVIOUS
<1>3. /\ published \in 1 .. Newest + 1 /\ current \in 1 .. Newest + 1
      /\ temporary \in Seq(State) /\ stopped = FALSE
      /\ done = exes /\ notes = Elements(exes)
    BY <1>2 DEF UpdateInit
<1>4. state \in State
  <2>1. Downloaded([NoState EXCEPT !.manifest = 1]) \in State
    BY <1>2, Values DEF Downloaded, State
  <2> QED BY <2>1, Values DEF UpdateInit
<1>5. exes = <<>> \/ exes = <<1>>
    BY DEF UpdateInit
<1>6. /\ exes \in Seq(1 .. Newest + 1) /\ IsInjective(exes) /\ IsPrefix(exes, exes)
      /\ Elements(exes) \subseteq 1 .. Newest + 1
      /\ exes # <<>> => exes[1] \in Elements(exes)
  <2>1. CASE exes = <<>>
    BY <2>1 DEF IsInjective, IsPrefix, Elements
  <2>2. CASE exes = <<1>>
    BY <2>2, <1>2 DEF IsInjective, IsPrefix, Elements
  <2> QED BY <1>5, <2>1, <2>2
<1>7. UpdateTypeOK
    BY <1>1, <1>3, <1>4, <1>6 DEF UpdateTypeOK
<1>8. PageInv /\ StartInv
    BY <1>1, Values DEF PageInv, StartInv
<1>9. FilesInv
    BY <1>3, <1>6 DEF FilesInv
<1> QED BY <1>7, <1>8, <1>9 DEF UpdateInv

LEMMA StepInv == UpdateInv /\ [UpdateNext]_updates => UpdateInv'
<1> SUFFICES ASSUME UpdateInv, [UpdateNext]_updates PROVE UpdateInv'
    OBVIOUS
<1>1. CASE Ask
  <2>1. ASSUME NEW channel \in Channel, BeginCheck("page", channel)
        PROVE  UpdateInv'
    BY <2>1, BeginCheckStep
  <2>2. CASE BeginDownload
    BY <2>2, BeginDownloadStep
  <2>3. ASSUME NEW v \in 0 .. published, Install(v)
        PROVE  UpdateInv'
    BY <2>3, InstallStep
  <2> QED BY <1>1, <2>1, <2>2, <2>3 DEF Ask
<1>2. CASE BeginCheck("start", "beta")
  <2>1. "beta" \in Channel
    BY DEF Channel
  <2> QED BY <1>2, <2>1, BeginCheckStep
<1>3. ASSUME NEW t \in {"page", "start"}, Discover(t) \/ WriteTemporary(t) \/ ReplaceState(t)
      PROVE  UpdateInv'
    BY <1>3, DiscoverStep, WriteTemporaryStep, ReplaceStateStep
<1>4. CASE Fetch
    BY <1>4, FetchStep
<1>5. CASE WriteNote
    BY <1>5, WriteNoteStep
<1>6. CASE Retain
    BY <1>6, RetainStep
<1>7. CASE ForgetNote
    BY <1>7, ForgetNoteStep
<1>8. CASE Die
  <2>1. current \in 1 .. Newest + 1
    BY DEF UpdateInv, UpdateTypeOK
  <2> QED BY <1>8, <2>1, ProcessStarts DEF Die, Restart
<1>9. CASE Publish
  <2>1. UNCHANGED <<current, state, temporary, exes, notes, thread, done, stopped>>
    BY <1>9 DEF Publish, files
  <2>2. published' \in 1 .. Newest + 1
    BY <1>9 DEF Publish, UpdateInv, UpdateTypeOK
  <2>3. UpdateTypeOK'
    BY <2>1, <2>2 DEF UpdateInv, UpdateTypeOK
  <2> QED BY <2>1, <2>3, PageSame, StartSame, FilesSame DEF UpdateInv
<1>10. CASE Day
  <2>1. UNCHANGED <<published, current, temporary, exes, notes, thread, done, stopped>>
    BY <1>10 DEF Day
  <2>2. state' \in State
    BY <1>10 DEF Day, UpdateInv, UpdateTypeOK, State
  <2>3. UpdateTypeOK'
    BY <2>1, <2>2 DEF UpdateInv, UpdateTypeOK
  <2> QED BY <2>1, <2>3, PageSame, StartSame, FilesSame DEF UpdateInv
<1>11. CASE UNCHANGED updates
  <2>1. UNCHANGED <<published, current, state, temporary, exes, notes, thread, done, stopped>>
    BY <1>11 DEF updates, files
  <2>2. UpdateTypeOK'
    BY <2>1 DEF UpdateInv, UpdateTypeOK
  <2> QED BY <2>1, <2>2, PageSame, StartSame, FilesSame DEF UpdateInv
<1> QED BY <1>1, <1>2, <1>3, <1>4, <1>5, <1>6, <1>7, <1>8, <1>9, <1>10, <1>11 DEF UpdateNext

\* The invariant holds, whatever the numbers of versions, faults and calls.
THEOREM UpdateServiceInv == UpdateSpec => []UpdateInv
BY InitInv, StepInv, PTL DEF UpdateSpec

\* Versions, states, threads and lists of installers are always of their types;
\* an installer is in the folder once (update_service.py).
THEOREM UpdateServiceTypes == UpdateSpec => []UpdateTypeOK
<1>1. UpdateInv => UpdateTypeOK
    BY DEF UpdateInv
<1> QED BY <1>1, UpdateServiceInv, PTL

\* A finished download can be installed, and so can the one before it
\* (download, _retain_recent_installers, list_downloaded, install_downloaded),
\* for every number of versions, faults and calls.
THEOREM FinishedIsInstallable == UpdateSpec => []DownloadInstallable
<1>1. ASSUME UpdateInv
      PROVE  DownloadInstallable
  <2> SUFFICES ASSUME NEW i \in 1 .. Len(done), i = 1 \/ (i <= Kept /\ ~stopped)
               PROVE  Installable(done[i])
    BY DEF DownloadInstallable
  <2>1. /\ exes \in Seq(1 .. Newest + 1) /\ done \in Seq(1 .. Newest + 1)
        /\ done # <<>> /\ done[i] \in 1 .. Newest + 1 /\ done[i] \in Elements(done)
        /\ Len(exes) \in Nat /\ Len(done) \in Nat /\ Kept \in Nat /\ i \in Nat
    BY <1>1, EmptySeq DEF UpdateInv, UpdateTypeOK, Elements
  <2>2. done[i] \in Elements(exes) /\ done[i] \in notes
    <3>1. CASE i = 1
      BY <3>1, <1>1, <2>1 DEF UpdateInv, FilesInv
    <3>2. CASE i <= Kept /\ ~stopped
      <4>1. IsPrefix(exes, done) /\ Elements(exes) \subseteq notes
        BY <1>1, <3>2 DEF UpdateInv, FilesInv
      <4>2. CASE i <= Len(exes)
        <5>1. i \in 1 .. Len(exes)
          BY <2>1, <4>2
        <5>2. SubSeq(exes, 1, Len(exes))[i] = exes[i] /\ SubSeq(done, 1, Len(exes))[i] = done[i]
          BY <2>1, <4>1, <5>1 DEF IsPrefix
        <5>3. exes[i] = done[i]
          BY <5>2, <4>1 DEF IsPrefix
        <5> QED BY <5>1, <5>3, <4>1 DEF Elements
      <4>3. CASE Len(exes) < i
        <5>1. ~(Len(exes) >= Kept)
          BY <2>1, <3>2, <4>3
        <5> QED BY <5>1, <1>1, <2>1, <4>1 DEF UpdateInv, FilesInv
      <4> QED BY <2>1, <4>2, <4>3
    <3> QED BY <3>1, <3>2
  <2>3. done[i] # NoVersion
    BY <2>1 DEF NoVersion
  <2>4. Found(done[i]) = done[i]
    BY <2>2, <2>3 DEF Found, Listed, HasFile
  <2> QED BY <2>2, <2>3, <2>4 DEF Installable, HasFile
<1> QED BY <1>1, UpdateServiceInv, PTL

=============================================================================
