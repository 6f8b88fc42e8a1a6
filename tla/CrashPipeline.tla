---------------------------- MODULE CrashPipeline ----------------------------
(***************************************************************************)
(* The way of a crash report: the queue of the editor                       *)
(* (backend/crash_reporting.py) sends a report the user confirmed to the   *)
(* collector (services/crash-collector), which reserves a row of its       *)
(* database, stores the body as an object and marks the row as stored.     *)
(*                                                                         *)
(* Several editors share an address.  An editor has one submission at a    *)
(* time (its calls are served on its GUI thread); it gives up on an answer *)
(* after 15 seconds while the collector goes on, so that a report may be   *)
(* sent again, and another one sent, while a first request is under way.   *)
(* Every statement on the database and every call of the object store is a *)
(* step that may fail, and the collector may stop between any two.         *)
(***************************************************************************)
EXTENDS Naturals, FiniteSets

CONSTANTS
    Report,         \* crash reports
    Editor,         \* editors at one address
    Fingerprint,    \* reports of the same crash share it
    Submitter,      \* requests that can be under way at once
    MaxAccepted,    \* reports accepted of an address (5 in an hour)
    MaxDay,         \* days, the age at which reports may be swept
    MaxTroubles     \* failing calls and stops of the collector

VARIABLES
    owner,      \* the editor of each report
    place,      \* where it keeps the report
    print,      \* the report's fingerprint
    client,     \* whether an editor still waits for request s, or records
    req,        \* where its request is in createReport, "none" if nowhere
    rows,       \* the table crash_reports by fingerprint (UNIQUE)
    objects,    \* the keys in the bucket
    day,
    sweep,      \* the run of CleanupExpired and DeleteMany
    swept,      \* history: fingerprints whose row a sweep removed
    unclear,    \* history: a statement that raised had been applied
    troubles

editor == <<owner, place, print>>
table == <<rows, swept>>
reports == <<editor, client, req, table, objects, day, sweep, unclear, troubles>>

NoRow == [id |-> "none", stored |-> FALSE, day |-> 0]
NoReport == "none"
NoSweep == [at |-> "none", keys |-> {}, before |-> 0]
IdleClient == [at |-> "idle", of |-> NoReport]
NoRequest == [at |-> "none", of |-> NoReport, key |-> <<NoReport, 0>>]

\* No report has the name that stands for none; a report has a fingerprint.
ASSUME ReportAssumption == NoReport \notin Report /\ Fingerprint # {}

Works == UNCHANGED troubles
Fails == troubles < MaxTroubles /\ troubles' = troubles + 1

\* Once the editor hung up, the context of its request is cancelled: each
\* further call may fail of that alone.
CallFails(s) == IF client[s].at = "waiting" THEN Fails ELSE UNCHANGED troubles

-----------------------------------------------------------------------------
(* The editor *)

\* _queue: the look for a recent duplicate comes before the write without a
\* lock, and covers 30 seconds and ten reports: it excludes no queue.
QueueReport(r, f) ==
    /\ place[r] = "none"
    /\ place' = [place EXCEPT ![r] = "pending"]
    /\ print' = [print EXCEPT ![r] = f]
    /\ UNCHANGED <<owner, client, req, table, objects, day, sweep, unclear, troubles>>

\* The GUI thread of the owner is in no submission.
Free(r) == \A s \in Submitter : client[s] # IdleClient => owner[client[s].of] # owner[r]

DeleteReport(r) ==
    /\ place[r] = "pending" /\ Free(r)
    /\ place' = [place EXCEPT ![r] = "deleted"]
    /\ UNCHANGED <<owner, print, client, req, table, objects, day, sweep, unclear, troubles>>

\* submit reads the report and posts it.
Submit(s, r) ==
    /\ client[s] = IdleClient /\ req[s] = NoRequest
    /\ place[r] = "pending" /\ Free(r)
    /\ client' = [client EXCEPT ![s] = [at |-> "waiting", of |-> r]]
    /\ req' = [req EXCEPT ![s] = [at |-> "limit", of |-> r, key |-> <<r, day>>]]
    /\ UNCHANGED <<editor, table, objects, day, sweep, unclear, troubles>>

\* urlopen gives up after 15 seconds, or the editor stops.
GivesUp(s) ==
    /\ client[s] # IdleClient
    /\ client' = [client EXCEPT ![s] = IdleClient]
    /\ UNCHANGED <<editor, req, table, objects, day, sweep, unclear, troubles>>

\* os.replace moves the report to the sent ones.
MoveToSent(s) ==
    /\ client[s].at = "record"
    /\ place' = [place EXCEPT ![client[s].of] = "sent"]
    /\ client' = [client EXCEPT ![s] = IdleClient]
    /\ UNCHANGED <<owner, print, req, table, objects, day, sweep, unclear, troubles>>

-----------------------------------------------------------------------------
(* The collector: createReport *)

Move(s, at) == req' = [req EXCEPT ![s].at = at] /\ UNCHANGED client

\* The answer, if someone waits for it: a success is recorded next, anything
\* else raises.
AnswerUnread(s, ok) ==
    /\ req' = [req EXCEPT ![s] = NoRequest]
    /\ client' = [client EXCEPT ![s] = IF @.at = "waiting" THEN [@ EXCEPT !.at = "record"] ELSE IdleClient]
AnswerSuccess(s, ok) ==
    /\ req' = [req EXCEPT ![s] = NoRequest]
    /\ client' = [client EXCEPT ![s] = IF ok THEN [@ EXCEPT !.at = "record"] ELSE @]
Answer(s, ok) ==
    /\ req' = [req EXCEPT ![s] = NoRequest]
    /\ client' = [client EXCEPT ![s] =
                    IF ok /\ @.at = "waiting" THEN [@ EXCEPT !.at = "record"] ELSE IdleClient]

At(s, at) == req[s].at = at /\ UNCHANGED <<editor, day, sweep>>
CrashOf(s) == print[req[s].of]

Accepted == {f \in Fingerprint : rows[f] # NoRow /\ rows[f].day = day}
IsRateLimited == Cardinality(Accepted) >= MaxAccepted

CheckLimit(s) ==
    /\ At(s, "limit")
    /\ \/ Works /\ IF IsRateLimited THEN Answer(s, FALSE) ELSE Move(s, "reserve")
       \/ CallFails(s) /\ Answer(s, FALSE)
    /\ UNCHANGED <<table, objects, unclear>>

\* INSERT ... ON CONFLICT (fingerprint) DO NOTHING: one that fails may have
\* been applied, and nothing cleans up after it.
Inserted(s) ==
    [rows EXCEPT ![CrashOf(s)] =
        [id |-> req[s].of, stored |-> FALSE, day |-> req[s].key[2]]]

Reserve(s) ==
    /\ At(s, "reserve")
    /\ \/ /\ Works
          /\ IF rows[CrashOf(s)] = NoRow THEN rows' = Inserted(s) /\ Move(s, "put")
             ELSE UNCHANGED rows /\ Move(s, "lookup")
          /\ UNCHANGED unclear
       \/ CallFails(s) /\ Answer(s, FALSE) /\ UNCHANGED <<rows, unclear>>
       \/ /\ CallFails(s) /\ Answer(s, FALSE)
          /\ rows[CrashOf(s)] = NoRow
          /\ rows' = Inserted(s)
          /\ unclear' = TRUE
    /\ UNCHANGED <<swept, objects>>

\* A duplicate is accepted once the first is stored.
Lookup(s) ==
    /\ At(s, "lookup")
    /\ \/ Works /\ Answer(s, rows[CrashOf(s)].stored)
       \/ CallFails(s) /\ Answer(s, FALSE)
    /\ UNCHANGED <<table, objects, unclear>>

\* A Put that fails may have stored the object.
PutObject(s) ==
    /\ At(s, "put")
    /\ \/ Works /\ Move(s, "mark") /\ objects' = objects \cup {req[s].key}
       \/ CallFails(s) /\ Move(s, "clean") /\ objects' \in {objects, objects \cup {req[s].key}}
    /\ UNCHANGED <<table, unclear>>

\* UPDATE ... WHERE id: an update that fails may have been applied.
Marked(id) ==
    [f \in Fingerprint |->
        IF rows[f].id = id THEN [rows[f] EXCEPT !.stored = TRUE] ELSE rows[f]]

MarkStored(s) ==
    /\ At(s, "mark")
    /\ \/ Works /\ Answer(s, TRUE) /\ rows' = Marked(req[s].of) /\ UNCHANGED unclear
       \/ CallFails(s) /\ Move(s, "clean") /\ UNCHANGED <<rows, unclear>>
       \/ /\ CallFails(s) /\ Move(s, "clean")
          /\ rows' = Marked(req[s].of)
          /\ unclear' = TRUE
    /\ UNCHANGED <<swept, objects>>

RowsWithout(id) ==
    [f \in Fingerprint |-> IF rows[f].id = id THEN NoRow ELSE rows[f]]

\* cleanupReservation: the row goes, the object stays. Its context is not
\* cancelled with the request.
Clean(s, failed) ==
    /\ At(s, "clean")
    /\ \/ Works /\ rows' = RowsWithout(req[s].of)
       \/ failed /\ UNCHANGED rows
    /\ Answer(s, FALSE)
    /\ UNCHANGED <<swept, objects, unclear>>

CleanWithRequest(s) == Clean(s, CallFails(s))
CleanReservation(s) == Clean(s, Fails)

CollectorStops ==
    /\ Fails
    /\ req' = [s \in Submitter |-> NoRequest]
    /\ client' = [s \in Submitter |-> IF client[s].at = "waiting" THEN IdleClient ELSE client[s]]
    /\ sweep' = NoSweep
    /\ UNCHANGED <<editor, table, objects, day, unclear>>

-----------------------------------------------------------------------------
(* The sweep of expired reports, at the start and on demand *)

Expired(before) == {f \in Fingerprint : rows[f] # NoRow /\ rows[f].day < before}
KeyOf(f) == <<rows[f].id, rows[f].day>>

SweepSelect ==
    /\ sweep = NoSweep /\ Expired(day) # {}
    /\ sweep' = [at |-> "rows", keys |-> {KeyOf(f) : f \in Expired(day)}, before |-> day]
    /\ UNCHANGED <<editor, client, req, table, objects, day, unclear, troubles>>

SweepRows ==
    /\ sweep.at = "rows"
    /\ \/ /\ Works
          /\ rows' = [f \in Fingerprint |->
                        IF f \in Expired(sweep.before) THEN NoRow ELSE rows[f]]
          /\ swept' = swept \cup Expired(sweep.before)
          /\ sweep' = [sweep EXCEPT !.at = "objects"]
       \/ Fails /\ sweep' = NoSweep /\ UNCHANGED table
    /\ UNCHANGED <<editor, client, req, objects, day, unclear>>

\* DeleteMany stops at the first object it cannot remove.
SweepObjects ==
    /\ sweep.at = "objects"
    /\ \/ Works /\ objects' = objects \ sweep.keys
       \/ Fails /\ \E gone \in SUBSET sweep.keys : objects' = objects \ gone
    /\ sweep' = NoSweep
    /\ UNCHANGED <<editor, client, req, table, day, unclear>>

\* A request lasts seconds, a report a day at the least.
NextDay ==
    /\ day < MaxDay /\ day' = day + 1
    /\ \A s \in Submitter : req[s] = NoRequest
    /\ UNCHANGED <<editor, client, req, table, objects, sweep, unclear, troubles>>

-----------------------------------------------------------------------------
ReportsInit ==
    /\ owner \in [Report -> Editor]
    /\ place = [r \in Report |-> "none"]
    /\ print \in [Report -> {CHOOSE f \in Fingerprint : TRUE}]
    /\ client = [s \in Submitter |-> IdleClient]
    /\ req = [s \in Submitter |-> NoRequest]
    /\ rows = [f \in Fingerprint |-> NoRow]
    /\ objects = {} /\ swept = {} /\ sweep = NoSweep
    /\ day = 1 /\ unclear = FALSE /\ troubles = 0

ReportsNext ==
    \/ \E r \in Report, f \in Fingerprint : QueueReport(r, f)
    \/ \E r \in Report : DeleteReport(r)
    \/ \E s \in Submitter, r \in Report : Submit(s, r)
    \/ \E s \in Submitter :
        \/ GivesUp(s) \/ MoveToSent(s)
        \/ CheckLimit(s) \/ Reserve(s) \/ Lookup(s)
        \/ PutObject(s) \/ MarkStored(s) \/ CleanReservation(s)
    \/ CollectorStops
    \/ SweepSelect \/ SweepRows \/ SweepObjects \/ NextDay

ReportsSpec == ReportsInit /\ [][ReportsNext]_reports

-----------------------------------------------------------------------------
ReportsTypeOK ==
    /\ place \in [Report -> {"none", "pending", "sent", "deleted"}]
    /\ print \in [Report -> Fingerprint]
    /\ \A s \in Submitter :
        /\ client[s].at \in {"idle", "waiting", "record"}
        /\ req[s].at \in {"none", "limit", "reserve", "lookup", "put", "mark", "clean"}
        /\ client[s].at = "waiting" => req[s].of = client[s].of
    /\ \A f \in Fingerprint :
        rows[f] = NoRow \/ (print[rows[f].id] = f /\ rows[f].day \in 1..day)
    /\ objects \subseteq (Report \X (1..day))
    /\ swept \subseteq Fingerprint

\* A report that is filed as sent is in the collector, its crash recorded
\* and a body stored, until a sweep removed it: whatever answers are lost,
\* repeated or late and whichever program stops (submit, createReport).
SentIsStored ==
    ~unclear => \A r \in Report :
        place[r] = "sent" /\ print[r] \notin swept
            => /\ rows[print[r]].stored
               /\ KeyOf(print[r]) \in objects

\* A row is never on its own. A stored one has its object: a sweep that is still
\* removing objects does not hit those of a report stored again since. A
\* reservation belongs to a request that is storing its body, also after the
\* editor hung up: one left behind takes a failing call, a stop of the collector
\* or an insert whose answer was lost.
RowsAreBacked ==
    \A f \in Fingerprint :
        /\ rows[f].stored => KeyOf(f) \in objects
        /\ troubles = 0 /\ ~unclear /\ rows[f] # NoRow /\ ~rows[f].stored
             => \E s \in Submitter :
                   req[s].of = rows[f].id /\ req[s].at \in {"put", "mark", "clean"}
=============================================================================
