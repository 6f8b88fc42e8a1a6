---------------------------- MODULE UpdateService ----------------------------
(***************************************************************************)
(* The updates of the editor (backend/update_service.py): a state file that *)
(* is read, worked on for seconds and written whole by two threads, the    *)
(* handlers of the page ("page") and the check at start-up ("start"), and  *)
(* the installers in the download folder, of which the newest Kept stay.   *)
(*                                                                         *)
(* Versions are numbered in their order and published once.  A request may *)
(* fail, a write may raise, the process may die between any two steps; the *)
(* installer the user launches closes it and starts its own version.       *)
(***************************************************************************)
EXTENDS Lists, SequencesExt

CONSTANTS
    Newest,         \* versions that may be published after the first
    Stable,         \* those of the channel "stable"
    Kept,           \* installers kept (2 in the code)
    MaxFailures,    \* requests and writes that fail, deaths of the process
    MaxCalls        \* calls of the page, and runs of the process

ASSUME UpdateAssumption ==
    /\ Newest \in Nat
    /\ Kept \in Nat \ {0}

VARIABLES
    published,  \* the newest version there is
    current,    \* the version that runs
    state,      \* update-state.json
    temporary,  \* update-state.json.tmp, <<>> if there is none
    exes,       \* the versions with an installer, the newest file first
    notes,      \* the versions with a file of metadata beside it
    thread,     \* where each thread is, the state it loaded, its channel
    done,       \* history: versions whose download succeeded, the newest first
                \* (emptied when a second download of one tears its metadata)
    stopped,    \* history: a download stopped after its installer was placed,
                \* which is still between the others or without metadata
    failures, asked

files == <<state, temporary, exes, notes>>
updates == <<published, current, files, thread, done, stopped, failures, asked>>

NoVersion == 0
Channel == {"beta", "stable"}
\* fresh says that the check noted in it is less than a day old.
NoState == [status |-> "idle", channel |-> "beta", manifest |-> NoVersion, download |-> NoVersion,
            fresh |-> FALSE]
Resting == [at |-> "idle", state |-> NoState, channel |-> "beta"]
Starting == [Resting EXCEPT !.at = "check"]

NoFault == UNCHANGED failures
Fault == failures < MaxFailures /\ failures' = failures + 1
Ends(t) == thread' = [thread EXCEPT ![t] = Resting]
At(t, at) == thread[t].at = at
To(t, at) == thread' = [thread EXCEPT ![t].at = at]
Loaded(t) == thread[t].state

StartProcess(version) ==
    /\ current' = version
    /\ thread' = [t \in {"page", "start"} |-> IF t = "start" THEN Starting ELSE Resting]

\* _discover_manifest: the newest release of the channel.
Discovered(channel) ==
    LET Offered == {v \in 1 .. published : channel = "beta" \/ v \in Stable}
    IN  IF Offered = {} THEN NoVersion ELSE CHOOSE v \in Offered : \A w \in Offered : w <= v

\* The installer v is in the folder.
HasFile(v) == v \in Elements(exes)

-----------------------------------------------------------------------------
(* check *)

CacheIsFresh(channel) == state.fresh /\ state.channel = channel

BeginCheck(t, channel) ==
    /\ \/ t = "page" /\ At(t, "idle")
       \/ t = "start" /\ At(t, "check") /\ channel = "beta"
    /\ LET force == t = "page"
       IN  thread' = [thread EXCEPT ![t] =
                        IF ~force /\ CacheIsFresh(channel) THEN Resting
                        ELSE [at |-> "discover", state |-> state, channel |-> channel]]
    /\ UNCHANGED <<published, current, files, done, stopped, failures>>

\* _valid_download: of the version offered, and its file is there.
ValidDownload(download, manifest) ==
    IF download = manifest /\ HasFile(download) THEN download ELSE NoVersion

AfterCheck(t) ==
    LET v == Discovered(thread[t].channel)
        available == v > current
    IN  [status |-> IF available THEN "available" ELSE "up-to-date",
         channel |-> thread[t].channel,
         manifest |-> IF available THEN v ELSE NoVersion,
         download |-> ValidDownload(Loaded(t).download, v),
         fresh |-> TRUE]

AfterFailedCheck(t) ==
    [Loaded(t) EXCEPT !.status = "error", !.channel = thread[t].channel, !.fresh = TRUE]

Discover(t) ==
    /\ At(t, "discover")
    /\ \/ /\ NoFault
          /\ thread' = [thread EXCEPT ![t].state = AfterCheck(t), ![t].at = "write"]
       \/ /\ Fault
          /\ thread' = [thread EXCEPT ![t].state = AfterFailedCheck(t), ![t].at = "write"]
    /\ UNCHANGED <<published, current, files, done, stopped, asked>>

-----------------------------------------------------------------------------
(* _write_state, of a check and of a download: both threads use one temporary *)
(* file, and the second of them to replace finds none, or one that is torn *)
(* (which _load_state reads as no state).                                  *)

WriteTemporary(t) ==
    /\ At(t, "write")
    /\ \/ /\ NoFault
          /\ temporary' = <<Loaded(t)>>
          /\ To(t, "replace")
       \/ /\ Fault
          /\ Ends(t)
          /\ temporary' \in {temporary, <<NoState>>}
    /\ UNCHANGED <<published, current, state, exes, notes, done, stopped, asked>>

ReplaceState(t) ==
    /\ At(t, "replace")
    /\ \/ /\ temporary # <<>>
          /\ NoFault
          /\ state' = temporary[1]
          /\ temporary' = <<>>
          /\ IF Loaded(t).status = "downloaded"
             THEN /\ To(t, "retain")
                  /\ done' = <<Loaded(t).manifest>> \o Without(done, {Loaded(t).manifest})
             ELSE Ends(t) /\ UNCHANGED done
       \/ /\ IF temporary = <<>> THEN NoFault ELSE Fault
          /\ Ends(t)
          /\ UNCHANGED <<state, temporary, done>>
    /\ UNCHANGED <<published, current, exes, notes, stopped, asked>>

-----------------------------------------------------------------------------
(* download, and list_downloaded *)

BeginDownload ==
    /\ At("page", "idle") /\ state.manifest # NoVersion
    /\ thread' = [thread EXCEPT !["page"] = [Resting EXCEPT !.at = "fetch", !.state = state]]
    /\ UNCHANGED <<published, current, files, done, stopped, failures>>

\* The partial file is verified before it takes the installer's place.
Fetch ==
    /\ At("page", "fetch")
    /\ \/ /\ NoFault
          /\ exes' = <<Loaded("page").manifest>> \o Without(exes, {Loaded("page").manifest})
          /\ stopped' = TRUE
          /\ To("page", "note")
       \/ /\ Fault
          /\ Ends("page")
          /\ UNCHANGED <<exes, stopped>>
    /\ UNCHANGED <<published, current, state, temporary, notes, done, asked>>

Downloaded(s) == [s EXCEPT !.status = "downloaded", !.download = s.manifest]

\* Without the file of metadata, the state file alone knows the installer.
WriteNoNote ==
    /\ At("page", "note") /\ NoFault
    /\ thread' = [thread EXCEPT !["page"].state = Downloaded(@), !["page"].at = "write"]
    /\ UNCHANGED <<published, current, files, done, stopped, asked>>

\* A write that fails, or that the process dies in, may leave it torn.
WriteNote ==
    /\ At("page", "note")
    /\ \/ /\ NoFault
          /\ notes' = notes \cup {Loaded("page").manifest}
          /\ thread' = [thread EXCEPT !["page"].state = Downloaded(@), !["page"].at = "write"]
          /\ UNCHANGED <<current, done>>
       \/ /\ Fault
          /\ \/ UNCHANGED <<notes, done>>
             \/ /\ notes' = notes \ {Loaded("page").manifest}
                /\ done' = IF Loaded("page").manifest \in Elements(done) THEN <<>> ELSE done
          /\ StartProcess(current) \/ (Ends("page") /\ UNCHANGED current)
    /\ UNCHANGED <<published, state, temporary, exes, stopped, asked>>

\* _retain_recent_installers: the oldest beyond those kept, then its metadata;
\* download() returns when there is none left.
Retain ==
    /\ At("page", "retain")
    /\ IF Len(exes) > Kept
       THEN /\ exes' = Front(exes)
            /\ thread' = [thread EXCEPT !["page"].at = "forget", !["page"].state.download = Last(exes)]
            /\ UNCHANGED stopped
       ELSE /\ stopped' = ~(IsPrefix(exes, done) /\ Elements(exes) \subseteq notes)
            /\ Ends("page")
            /\ UNCHANGED exes
    /\ UNCHANGED <<published, current, state, temporary, notes, done, failures, asked>>

ForgetNote ==
    /\ At("page", "forget")
    /\ notes' = notes \ {Loaded("page").download}
    /\ To("page", "retain")
    /\ UNCHANGED <<published, current, state, temporary, exes, done, stopped, failures, asked>>

Listed == {v \in notes : HasFile(v)}

-----------------------------------------------------------------------------
(* install_downloaded, and the process *)

\* The installer that is found for a version the user chose, or for the last
\* download; it is verified again before it is launched.
Found(v) ==
    IF v = NoVersion \/ state.download = v THEN state.download
    ELSE IF v \in Listed THEN v ELSE NoVersion
Installable(v) == Found(v) # NoVersion /\ HasFile(Found(v))

Install(v) ==
    /\ At("page", "idle") /\ Installable(v)
    /\ StartProcess(Found(v))
    /\ UNCHANGED <<published, files, done, stopped, failures>>

\* The process dies, or is closed, and is started again.
Restart ==
    /\ StartProcess(current)
    /\ UNCHANGED <<published, files, done, stopped>>

-----------------------------------------------------------------------------
(* What others do *)

Publish ==
    /\ published < Newest + 1
    /\ published' = published + 1
    /\ UNCHANGED <<current, files, thread, done, stopped, failures, asked>>

\* A day passes, which no thread is under way for.
Day ==
    /\ state.fresh /\ \A t \in {"page", "start"} : At(t, "idle")
    /\ state' = [state EXCEPT !.fresh = FALSE]
    /\ UNCHANGED <<published, current, temporary, exes, notes, thread, done, stopped, failures, asked>>

\* Version 1 starts for the first time, installed by hand or by an update.
UpdateInit ==
    /\ published = 1 /\ current = 1 /\ temporary = <<>>
    /\ \/ state = NoState /\ exes = <<>>
       \/ state = Downloaded([NoState EXCEPT !.manifest = 1]) /\ exes = <<1>>
    /\ notes = Elements(exes) /\ done = exes
    /\ thread = [t \in {"page", "start"} |-> IF t = "start" THEN Starting ELSE Resting]
    /\ stopped = FALSE
    /\ failures = 0 /\ asked = 0

Ask ==
    /\ asked < MaxCalls
    /\ asked' = asked + 1
    /\ \/ \E channel \in Channel : BeginCheck("page", channel)
       \/ BeginDownload
       \/ \E v \in 0 .. published : Install(v)

Die == Fault /\ Restart /\ UNCHANGED asked

UpdateNext ==
    \/ Ask
    \/ BeginCheck("start", "beta") /\ UNCHANGED asked
    \/ \E t \in {"page", "start"} : Discover(t) \/ WriteTemporary(t) \/ ReplaceState(t)
    \/ Fetch \/ WriteNote \/ Retain \/ ForgetNote
    \/ Die \/ Publish \/ Day

UpdateSpec == UpdateInit /\ [][UpdateNext]_updates

-----------------------------------------------------------------------------
(* Properties *)

State == [status : {"idle", "available", "up-to-date", "error", "downloaded"},
          channel : Channel, manifest : 0 .. Newest + 1, download : 0 .. Newest + 1, fresh : BOOLEAN]

Thread == [at : {"idle", "check", "discover", "write", "replace", "fetch", "note", "retain", "forget"},
           state : State, channel : Channel]

\* What each variable may hold; there is one installer of a version.
UpdateTypeOK ==
    /\ published \in 1 .. Newest + 1 /\ current \in 1 .. Newest + 1
    /\ state \in State /\ temporary \in Seq(State)
    /\ exes \in Seq(1 .. Newest + 1) /\ IsInjective(exes)
    /\ done \in Seq(1 .. Newest + 1)
    /\ notes \subseteq 1 .. Newest + 1
    /\ thread \in [{"page", "start"} -> Thread]
    /\ stopped \in BOOLEAN

\* A version whose download was reported as finished can be installed, and so
\* can the one before it, to go back to, unless an interrupted download left an
\* installer between them, or without its metadata: whatever the check at
\* start-up wrote over the state file meanwhile, and wherever the process died.
DownloadInstallable ==
    \A i \in 1 .. Len(done) :
        i = 1 \/ (i <= Kept /\ ~stopped) => Installable(done[i])
=============================================================================
