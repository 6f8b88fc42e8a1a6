------------------------------ MODULE AiFailover ------------------------------
(***************************************************************************)
(* The calls of the AI service: a run of the Agent over its candidate      *)
(* models (AiService.run, OpenAiCompatibleProvider._complete_stream), the  *)
(* health pass that probes them (background_health_pass, _probe_discovery), *)
(* the health cache with its circuit breaker between the two               *)
(* (ModelHealthCache), a cancellation (RequestCancellation) and a change   *)
(* of the endpoint or its key.                                             *)
(*                                                                         *)
(* Each method of the cache that reads or writes the file holds its lock;  *)
(* a record is a read and, later, a write.                                 *)
(***************************************************************************)
EXTENDS Integers, Sequences

CONSTANTS
    Models,     \* the configured models are 1, 2, ..., the preferred one first
    Endpoints,  \* addresses with an API key, in the order they are set
    Attempts,   \* tries of a request (3)
    ProbeLimit, \* probes of a pass (2)
    MaxClock,   \* units of CIRCUIT_BASE_COOLDOWN_SECONDS
    MaxStarts   \* runs and passes, together

Threshold == 2
MaxCooldown == 6
Ttl == 2

VARIABLES
    clock,
    endpoint,   \* of the settings
    cache,      \* the file: for which endpoint, an entry for each model
    proc,       \* the run and the pass
    wire,       \* the response the run reads: "none", "open", "aborted"
    aborter,    \* it is registered with the cancellation
    cancel,     \* RequestCancellation.cancel: "no", "set", "done"
    shown,      \* attempts of this request whose text was streamed
    starts,
    results,    \* history: the last results recorded of each model, until raced
    raced       \* history: a record was built on an entry replaced since

channel == <<wire, aborter, shown>>
health == <<cache, results, raced>>
calls == <<clock, endpoint, health, proc, channel, cancel, starts>>

\* The settings configure a model and an endpoint.
ASSUME ModelsAssumption ==
    /\ Models \in Nat \ {0} /\ Endpoints \in Nat \ {0}
    /\ MaxClock \in Nat

Model == 1..Models
Proc == {"run", "pass"}

NoEntry == [failures |-> 0, open |-> FALSE, until |-> 0, checked |-> -1]
NoCall == [at |-> "idle", endpoint |-> 0, model |-> 0, tries |-> 0,
         ok |-> FALSE, prev |-> NoEntry]

Is(p, at) == proc[p].at = at
Set(p, q) == proc' = [proc EXCEPT ![p] = q]
To(p, at) == Set(p, [proc[p] EXCEPT !.at = at])
End(p) == Set(p, NoCall)

\* The next candidate, or the end of the loop.
Advance(p) ==
    IF proc[p].model = Models THEN End(p)
    ELSE Set(p, [proc[p] EXCEPT !.at = "next", !.model = @ + 1, !.ok = FALSE,
                                !.prev = NoEntry,
                                !.tries = IF p = "run" THEN 0 ELSE @])

-----------------------------------------------------------------------------
(* ModelHealthCache *)

\* _load and _matches: an entry of another endpoint is none.
EntryOfAnyEndpoint(e, m) == cache.models[m]
Entry(e, m) == IF cache.of = e THEN cache.models[m] ELSE NoEntry

IsFresh(entry) == entry.checked >= 0 /\ clock - entry.checked < Ttl
CircuitState(entry) ==
    CASE ~entry.open -> "closed"
      [] entry.open /\ clock < entry.until -> "open"
      [] OTHER -> "half_open"
ShouldProbe(entry) ==
    \/ entry = NoEntry
    \/ CircuitState(entry) = "half_open"
    \/ CircuitState(entry) = "closed" /\ ~IsFresh(entry)

Cooldown(n) ==
    IF 2 ^ (n - Threshold) < MaxCooldown THEN 2 ^ (n - Threshold) ELSE MaxCooldown

\* record_success, record_failure
AfterSuccessKept(prev) == [prev EXCEPT !.open = FALSE, !.checked = clock]
AfterSuccess(prev) ==
    [prev EXCEPT !.failures = 0, !.open = FALSE, !.until = 0, !.checked = clock]
AfterFailure(prev) == LET n == prev.failures + 1 IN
    [failures |-> n, open |-> n >= Threshold,
     until |-> IF n >= Threshold THEN clock + Cooldown(n) ELSE 0,
     checked |-> clock]

RecordReads(p) ==
    /\ Is(p, "record")
    /\ Set(p, [proc[p] EXCEPT !.at = "write",
                              !.prev = Entry(proc[p].endpoint, proc[p].model)])
    /\ UNCHANGED <<clock, endpoint, health, channel, cancel, starts>>

\* _set: the entries of another endpoint are given up. The run ends with its
\* answer; after a failure the next candidate has its turn.
RecordWrites(p) == LET c == proc[p]  m == c.model IN
    /\ Is(p, "write")
    /\ LET kept == IF cache.of = c.endpoint THEN cache.models
                   ELSE [x \in Model |-> NoEntry]
           known == IF cache.of = c.endpoint THEN results
                    ELSE [x \in Model |-> <<>>]
       IN /\ cache' = [of |-> c.endpoint,
                       models |-> [kept EXCEPT ![m] =
                            IF c.ok THEN AfterSuccess(c.prev) ELSE AfterFailure(c.prev)]]
          /\ raced' = (raced \/ c.prev # kept[m])
          /\ results' = IF raced' THEN [x \in Model |-> <<>>]
                        ELSE [known EXCEPT ![m] =
                            Append(IF @ = <<>> THEN @ ELSE <<@[Len(@)]>>, c.ok)]
    /\ IF p = "run" /\ c.ok THEN End(p) ELSE Advance(p)
    /\ UNCHANGED <<clock, endpoint, channel, cancel, starts>>

\* The file cannot be written: the exception ends the run or the pass.
RecordRaises(p) ==
    /\ Is(p, "write") /\ End(p)
    /\ UNCHANGED <<clock, endpoint, health, channel, cancel, starts>>

-----------------------------------------------------------------------------
(* AiService.run and _complete_stream *)

Cancelled == cancel # "no"

\* checkpoint, circuit_state; ProviderRequestCancelled ends the run.
RunNext ==
    /\ Is("run", "next")
    /\ IF Cancelled THEN End("run")
       ELSE IF CircuitState(Entry(proc["run"].endpoint, proc["run"].model)) = "open"
       THEN Advance("run")
       ELSE To("run", "connect")
    /\ shown' = {}
    /\ UNCHANGED <<clock, endpoint, health, wire, aborter, cancel, starts>>

\* raise_if_cancelled, urlopen
Connect ==
    /\ Is("run", "connect")
    /\ IF Cancelled THEN End("run")
       ELSE Set("run", [proc["run"] EXCEPT !.at = "opening", !.tries = @ + 1])
    /\ UNCHANGED <<clock, endpoint, health, channel, cancel, starts>>

\* A try that failed: the last one makes the model unavailable. ("emitted" is
\* assigned when _read_sse returns, and is still false here.)
TryFailed ==
    IF proc["run"].tries = Attempts THEN To("run", "record") ELSE To("run", "sleep")

\* What urlopen raises: a refused key ends the run; a status that is not worth
\* a retry makes the model unavailable at once; a lost connection of a
\* cancelled request is a cancellation.
Opened ==
    /\ Is("run", "opening")
    /\ \/ To("run", "register") /\ wire' = "open"
       \/ End("run") /\ UNCHANGED wire
       \/ To("run", "record") /\ UNCHANGED wire
       \/ TryFailed /\ UNCHANGED wire
    /\ UNCHANGED <<clock, endpoint, health, aborter, shown, cancel, starts>>

\* RequestCancellation.register: a request cancelled meanwhile is aborted on
\* the spot.
RegisterAlways ==
    /\ Is("run", "register")
    /\ aborter' = TRUE
    /\ To("run", "reading")
    /\ UNCHANGED <<clock, endpoint, health, wire, shown, cancel, starts>>
Register ==
    /\ Is("run", "register")
    /\ aborter' = ~Cancelled
    /\ wire' = IF Cancelled THEN "aborted" ELSE wire
    /\ To("run", "reading")
    /\ UNCHANGED <<clock, endpoint, health, shown, cancel, starts>>

\* finally: unregister, close
Hangup == wire' = "none" /\ aborter' = FALSE

\* raise_if_cancelled at the head of the loop, or after an aborted read.
ReadCancelled ==
    /\ Is("run", "reading") /\ Cancelled
    /\ Hangup
    /\ End("run") /\ shown' = {}
    /\ UNCHANGED <<clock, endpoint, health, cancel, starts>>

ReadDelta ==
    /\ Is("run", "reading") /\ wire = "open"
    /\ shown' = shown \cup {proc["run"].tries}
    /\ UNCHANGED <<clock, endpoint, health, proc, wire, aborter, cancel, starts>>

\* The end of the stream, or of a stream cut short: what came is the answer,
\* unless the request was cancelled. The line that ends it is read before the
\* abort or not at all.
EndOfStream == wire = "open" /\ proc["run"].tries \in shown
ReadAnswer ==
    /\ Is("run", "reading") /\ EndOfStream
    /\ Hangup
    /\ To("run", "answered")
    /\ UNCHANGED <<clock, endpoint, health, shown, cancel, starts>>

\* _run_tool_loop: the checkpoint after an answer; then another round, an
\* error (a plan that cannot be parsed, a ninth round) or the plan.
Answered ==
    /\ Is("run", "answered")
    /\ \/ End("run")
       \/ ~Cancelled /\ Set("run", [proc["run"] EXCEPT !.at = "connect", !.tries = 0])
       \/ ~Cancelled /\ Set("run", [proc["run"] EXCEPT !.at = "record", !.ok = TRUE])
    /\ shown' = {}
    /\ UNCHANGED <<clock, endpoint, health, wire, aborter, cancel, starts>>

\* An empty or malformed stream is an error of its own.
ReadInvalid ==
    /\ Is("run", "reading")
    /\ Hangup
    /\ End("run") /\ shown' = {}
    /\ UNCHANGED <<clock, endpoint, health, cancel, starts>>

\* OSError: the connection is lost, or times out.
ReadLost ==
    /\ Is("run", "reading") /\ ~Cancelled
    /\ Hangup
    /\ TryFailed
    /\ UNCHANGED <<clock, endpoint, health, shown, cancel, starts>>

Sleep ==
    /\ Is("run", "sleep")
    /\ IF Cancelled THEN End("run") ELSE To("run", "connect")
    /\ UNCHANGED <<clock, endpoint, health, channel, cancel, starts>>

\* RequestCancellation.cancel: the event first, then the registered aborters.
CancelSet ==
    /\ cancel = "no" /\ proc["run"] # NoCall
    /\ cancel' = "set"
    /\ UNCHANGED <<clock, endpoint, health, proc, channel, starts>>

CancelAborts ==
    /\ cancel = "set" /\ cancel' = "done"
    /\ wire' = IF aborter THEN "aborted" ELSE wire
    /\ aborter' = FALSE
    /\ UNCHANGED <<clock, endpoint, health, proc, shown, starts>>

-----------------------------------------------------------------------------
(* background_health_pass *)

PassNext == LET c == proc["pass"] IN
    /\ Is("pass", "next")
    /\ IF c.tries = ProbeLimit THEN End("pass")
       ELSE IF ShouldProbe(Entry(c.endpoint, c.model))
       THEN Set("pass", [c EXCEPT !.at = "probe", !.tries = @ + 1])
       ELSE Advance("pass")
    /\ UNCHANGED <<clock, endpoint, health, channel, cancel, starts>>

\* A refused key ends the pass, and so does any exception that is no
\* RuntimeError: a model that accepts and does not answer in time.
Probed ==
    /\ Is("pass", "probe")
    /\ \/ \E ok \in BOOLEAN :
            Set("pass", [proc["pass"] EXCEPT !.at = "record", !.ok = ok])
       \/ End("pass")
    /\ UNCHANGED <<clock, endpoint, health, channel, cancel, starts>>

-----------------------------------------------------------------------------
Begin(p) ==
    /\ proc[p] = NoCall
    /\ starts < MaxStarts /\ starts' = starts + 1
    /\ Set(p, [NoCall EXCEPT !.at = "next", !.endpoint = endpoint, !.model = 1])
    /\ UNCHANGED <<clock, endpoint, health>>

\* A run has a cancellation of its own.
StartRun == Begin("run") /\ cancel' = "no" /\ UNCHANGED channel
StartPass == Begin("pass") /\ UNCHANGED <<cancel, channel>>

\* To an address or a key that is new.
SaveSettings ==
    /\ endpoint < Endpoints /\ endpoint' = endpoint + 1
    /\ UNCHANGED <<clock, health, proc, channel, cancel, starts>>

Tick ==
    /\ clock < MaxClock /\ clock' = clock + 1
    /\ UNCHANGED <<endpoint, health, proc, channel, cancel, starts>>

CallsInit ==
    /\ clock = 0 /\ starts = 0
    /\ endpoint = 1
    /\ cache = [of |-> endpoint, models |-> [m \in Model |-> NoEntry]]
    /\ proc = [p \in Proc |-> NoCall]
    /\ wire = "none" /\ aborter = FALSE /\ shown = {} /\ cancel = "no"
    /\ results = [m \in Model |-> <<>>] /\ raced = FALSE

CallsNext ==
    \/ \E p \in Proc : RecordReads(p) \/ RecordWrites(p) \/ RecordRaises(p)
    \/ RunNext \/ Connect \/ Opened \/ Register
    \/ ReadCancelled \/ ReadDelta \/ ReadAnswer \/ Answered \/ ReadInvalid \/ ReadLost \/ Sleep
    \/ CancelSet \/ CancelAborts
    \/ PassNext \/ Probed
    \/ StartRun \/ StartPass \/ SaveSettings \/ Tick

CallsSpec == CallsInit /\ [][CallsNext]_calls

-----------------------------------------------------------------------------
CallsTypeOK ==
    /\ clock \in 0..MaxClock /\ endpoint \in 1..Endpoints /\ cache.of \in 1..endpoint
    /\ \A m \in Model : LET entry == cache.models[m] IN
        /\ entry.open = (entry.failures >= Threshold)
        /\ entry.until \in 0..(MaxClock + MaxCooldown)
        /\ Len(results[m]) <= 2
    /\ wire # "none" => proc["run"].at \in {"register", "reading"}
    /\ aborter => wire = "open" /\ ~(cancel = "done")

\* Once cancel() has returned, no run waits on an open response: it is
\* registered and aborted, or it finds the event when it registers
\* (RequestCancellation.register, cancel).
CancelUnblocks ==
    cancel = "done" /\ Is("run", "reading") => wire = "aborted"

\* As long as no record overtakes another, the circuit of a model is open
\* exactly when its last two results were failures, of whichever of the run
\* and the pass (record_success, record_failure).
BreakerFollowsResults ==
    ~raced => \A m \in Model :
        cache.models[m].open <=> results[m] = <<FALSE, FALSE>>

\* A run skips a model only for two failures in a row at the endpoint and
\* with the key the run itself uses (circuit_state, _matches).
SkippedIsBroken ==
    [][(/\ Is("run", "next") /\ ~Cancelled /\ ~raced
        /\ proc'["run"] # proc["run"] /\ proc'["run"].at # "connect")
          => /\ cache.of = proc["run"].endpoint
             /\ results[proc["run"].model] = <<FALSE, FALSE>>]_calls

\* assertEqual("".join(deltas), ...) (test_ai_service.py:199): the text that
\* was streamed is the text of the answer.
StreamIsAnswer == Is("run", "answered") => shown = {proc["run"].tries}
=============================================================================
