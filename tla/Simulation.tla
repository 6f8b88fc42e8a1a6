------------------------------ MODULE Simulation ------------------------------
(***************************************************************************)
(* The exploration of all branches of a story (engine-core/simulation.ts)  *)
(* and what the check before a build concludes from it (simulationIssues   *)
(* in buildPreflight.ts).                                                  *)
(*                                                                         *)
(* simulateProjectBranches is one synchronous function: here one action    *)
(* per pending path taken from the queue and per turn of its inner loop.   *)
(* The blocks are those of StoryEngine; the voice of a line plays no part. *)
(* Progress reports, choices, variable conflicts and the wording of the    *)
(* results are left out, and so is the dead end without a block: settle()   *)
(* ends at a line or a branch, or the story is over.                       *)
(***************************************************************************)
EXTENDS StoryEngine

CONSTANTS
    Stories,      \* the scripts a project may have
    MaxPaths,     \* maxPaths
    MaxSteps,     \* maxStepsPerPath
    MaxScenarios  \* maxVariableScenarios

VARIABLES
    story,    \* project.scripts
    queue,    \* the pending paths, Unset before the call
    path,     \* the path that is being followed, or Unset
    paths,    \* the statuses of the finished paths
    covered,  \* coveredFragments, coveredBlocks, coveredOptions
    cut       \* generated.truncated

simulation == <<story, queue, path, paths, covered, cut>>

Engine == INSTANCE StoryEngine WITH scripts <- story
Seqs == INSTANCE SequencesExt
Sets == INSTANCE FiniteSetsExt

-----------------------------------------------------------------------------
(* The engine, a whole settle() at a time *)

\* settle() from the moment r.now; places are those of the blocks it meets.
RECURSIVE Run(_, _)
Run(r, n) ==
    IF n = MaxSettle THEN [r EXCEPT !.now.status = "error"]
    ELSE IF ~Engine!HasBlock(r.now)
      THEN IF r.now.stack = <<>> THEN [r EXCEPT !.now.status = "finished"]
           ELSE Run([r EXCEPT !.now = Engine!Leave(@)], n + 1)
    ELSE LET b == Engine!Current(r.now)
             met == r.places \cup {At(r.now)}
         IN  IF IsVisible(b) THEN [r EXCEPT !.places = met]
             ELSE LET m == Engine!Execute(r.now, b)
                      after == [now |-> m, places |-> met,
                                executed |-> r.executed + 1]
                  IN  IF m.status = "error" THEN after ELSE Run(after, n + 1)

Settled(m, executed) == Run([now |-> m, places |-> {}, executed |-> executed], 0)

\* createEngineState with these variables.
Created(vs) == Settled([Engine!Initial(story) EXCEPT !.vars = vs], 0)

\* advanceEngine at a line.
Advanced(m, executed) == Settled([Skip(m) EXCEPT !.status = "playing"], executed)

\* chooseBranch: without its target, the state keeps its place.
Chosen(m, target, executed) ==
    LET next == Engine!GoTo(m, target)
    IN  IF next.status = "error"
          THEN [now |-> next, places |-> {}, executed |-> executed]
          ELSE Settled(next, executed)

-----------------------------------------------------------------------------
(* The scenarios: which variables are given which values at the start *)

StoryBlocks == UNION {Seqs!ToSet(story[f]) : f \in DOMAIN story}

\* candidateValues: the default and what the blocks set, count and test.
Candidates(v) ==
    LET about == {b \in StoryBlocks : b.op \in {"set", "add", "test"} /\ b.var = v}
    IN  {0} \cup UNION {CASE b.op = "set" -> {b.value}
                          [] b.op = "add" -> {b.by, -b.by}
                          [] b.op = "test" -> b.value - 1 .. b.value + 1 : b \in about}

\* A set as a sequence, in some order: that of its appearance in the code.
Listed(S) == Sets!FoldSet(LAMBDA x, list : Append(list, x), <<>>, S)

\* One more variable is varied, unless there are scenarios enough; what is over
\* the limit is dropped.
Vary(acc, v) ==
    LET values == Listed(Candidates(v))
        expanded == Seqs!FlattenSeq([i \in 1..Len(acc.list) |->
                       [j \in 1..Len(values) |-> [acc.list[i] EXCEPT ![v] = values[j]]]])
        kept == SubSeq(expanded, 1, Min(Len(expanded), MaxScenarios))
    IN  IF acc.enough THEN acc
        ELSE [list |-> kept, enough |-> Len(kept) >= MaxScenarios,
              truncated |-> acc.truncated \/ Len(expanded) > MaxScenarios]

\* variableScenarios.
Scenarios ==
    Seqs!FoldLeft(Vary,
             [list |-> << [v \in Var |-> 0] >>, enough |-> FALSE, truncated |-> FALSE],
             Listed({v \in Var : Cardinality(Candidates(v)) > 1}))

-----------------------------------------------------------------------------
(* The exploration *)

\* Mutant: two calls of a fragment lead to the same state.
KeyOfPlace(m) == <<m.frag, m.ip, m.vars>>

\* stateKey.
StateKey(m) == <<m.frag, m.ip, m.vars, m.stack>>

\* recordTrace.
Record(p, r) ==
    [p EXCEPT !.now = r.now, !.executed = r.executed,
              !.frags = @ \cup {place.frag : place \in r.places},
              !.blocks = @ \cup r.places,
              !.steps = IF @ < r.executed THEN r.executed ELSE @]

\* A pending path of the queue as it begins.
Begin(vs) ==
    Record([now |-> Engine!Initial(story), executed |-> 0, keys |-> {},
            frags |-> {Entry}, blocks |-> {}, options |-> {}, steps |-> 0],
           Created(vs))

\* The path with the place it has come to: the start of every turn of the loop.
Here == [path EXCEPT !.frags = @ \cup {path.now.frag},
                     !.blocks = @ \cup {At(m) : m \in {n \in {path.now} :
                                                         Engine!HasBlock(n)}}]

\* The call of simulateProjectBranches: one pending path for every scenario.
Generate ==
    /\ queue = Unset
    /\ LET generated == Scenarios
       IN  /\ queue' = [i \in 1..Len(generated.list) |-> Begin(generated.list[i])]
           /\ cut' = generated.truncated
    /\ UNCHANGED <<story, path, paths, covered>>

\* queue.shift().
TakePath ==
    /\ path = Unset
    /\ queue \notin {Unset, <<>>}
    /\ Len(paths) < MaxPaths
    /\ path' = Head(queue)
    /\ queue' = Tail(queue)
    /\ UNCHANGED <<story, paths, covered, cut>>

\* finish.
Finish(status) ==
    /\ paths' = Append(paths, status)
    /\ covered' = [frags |-> covered.frags \cup Here.frags,
                   blocks |-> covered.blocks \cup Here.blocks,
                   options |-> covered.options \cup Here.options]
    /\ path' = Unset
    /\ UNCHANGED <<story, queue, cut>>

Following == path # Unset
Repeated == StateKey(path.now) \in path.keys
Ahead ==
    /\ Following
    /\ ~Repeated
    /\ path.now.status = "playing"
    /\ path.steps < MaxSteps

EndInLoop == Following /\ Repeated /\ Finish("loop")

EndInError ==
    Following /\ ~Repeated /\ path.now.status = "error" /\ Finish("error")

EndOfStory ==
    /\ Following /\ ~Repeated
    /\ path.now.status = "finished"
    /\ Finish(IF Here.blocks = {} THEN "dead-end" ELSE "completed")

EndAtLimit ==
    /\ Following /\ ~Repeated
    /\ path.now.status = "playing"
    /\ path.steps >= MaxSteps
    /\ Finish("truncated")

EndWithoutOption ==
    /\ Ahead
    /\ Engine!Current(path.now).op = "branch"
    /\ Engine!Current(path.now).options = {}
    /\ Finish("dead-end")

\* A path of its own for every option, at the end of the queue.
ForkOf(target) ==
    LET p == [Here EXCEPT !.keys = @ \cup {StateKey(path.now)},
                          !.frags = @ \cup {target},
                          !.options = @ \cup {[at |-> At(path.now), target |-> target]},
                          !.steps = @ + 1]
    IN  Record(p, Chosen(path.now, target, path.executed))

Fork ==
    /\ Ahead
    /\ Engine!Current(path.now).op = "branch"
    /\ Engine!Current(path.now).options # {}
    /\ LET targets == Listed(Engine!Current(path.now).options)
       IN  queue' = queue \o [i \in 1..Len(targets) |-> ForkOf(targets[i])]
    /\ path' = Unset
    /\ UNCHANGED <<story, paths, covered, cut>>

Advance ==
    /\ Ahead
    /\ Engine!Current(path.now).op = "line"
    /\ path' = Record([Here EXCEPT !.keys = @ \cup {StateKey(path.now)},
                                   !.steps = @ + 1],
                      Advanced(path.now, path.executed))
    /\ UNCHANGED <<story, queue, paths, covered, cut>>

SimulationInit ==
    /\ story \in Stories
    /\ queue = Unset
    /\ path = Unset
    /\ paths = <<>>
    /\ covered = [frags |-> {}, blocks |-> {}, options |-> {}]
    /\ cut = FALSE

SimulationNext ==
    \/ Generate \/ TakePath \/ Fork \/ Advance
    \/ EndInLoop \/ EndInError \/ EndOfStory \/ EndAtLimit \/ EndWithoutOption

-----------------------------------------------------------------------------
(* The result, and what simulationIssues makes of it *)

SimulationDone ==
    /\ queue # Unset
    /\ path = Unset
    /\ queue = <<>> \/ Len(paths) >= MaxPaths

\* pathLimitReached.
PathLimitReached == queue # <<>>

\* SIMULATION_INCOMPLETE.
Incomplete == PathLimitReached \/ cut \/ Seqs!Contains(paths, "truncated")

\* DETERMINISTIC_LOOP and SIMULATION_RUNTIME_ERROR: the build is refused.
Blocked == Seqs!Contains(paths, "loop") \/ Seqs!Contains(paths, "error")

-----------------------------------------------------------------------------
(* The play the exploration stands for *)

\* What a player can do next.
PlayFrom(r) ==
    IF r.now.status # "playing" THEN {}
    ELSE IF Engine!Current(r.now).op = "line" THEN {Advanced(r.now, 0)}
    ELSE {Chosen(r.now, target, 0) : target \in Engine!Current(r.now).options}

\* All that is played from the moments of S, in at most n turns.
RECURSIVE Play(_, _)
Play(S, n) ==
    LET more == UNION {PlayFrom(r) : r \in S}
    IN  IF n = 0 \/ more \subseteq S THEN S ELSE Play(S \cup more, n - 1)

Played == Play({Created(vs) : vs \in Seqs!ToSet(Scenarios.list)}, MaxSteps + 1)

\* A report that does not call itself incomplete is right: its covered blocks
\* and fragments are those a player can meet from the scenarios, whatever the
\* player chooses, and a story that can fail is refused. Paths end at a repeated
\* state, so a state key that says too little hides what lies behind it.
ReportIsRight ==
    SimulationDone /\ ~Incomplete =>
       LET played == Played
           met == UNION {r.places : r \in played}
                    \cup {At(r.now) : r \in {q \in played : Engine!HasBlock(q.now)}}
       IN  /\ covered.blocks = met
           /\ covered.frags \cap DOMAIN story =
                 {Entry} \cup {place.frag : place \in met}
                         \cup {r.now.frag : r \in played}
           /\ (\E r \in played : r.now.status = "error") => Blocked
=============================================================================
