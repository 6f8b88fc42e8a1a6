------------------------------ MODULE SeekCache ------------------------------
(***************************************************************************)
(* Seeking a block for the preview of the editor (EngineSeekCache and      *)
(* seekEngine in engine-core/runtime.ts): the story is played from the     *)
(* start of a fragment up to the block, and what was played is kept - the  *)
(* first moment, checkpoints on the way, results - while the project is    *)
(* edited, the oldest entries are dropped and the collector takes weakly   *)
(* held results.                                                           *)
(*                                                                         *)
(* The caches of different scripts are independent maps (a WeakMap keyed   *)
(* by the scripts); scripts are compared by value here and by identity in  *)
(* the code, which finds less in the cache.  Characters and assets are     *)
(* compared like the variables and are part of them here.  The copy that   *)
(* is handed out (detachSeekState) is a value; the snapshots in the trace  *)
(* are left out of it.                                                     *)
(***************************************************************************)
EXTENDS StoryEngine

CONSTANTS
    Projects,      \* [scripts, variables]: what the editor may hold
    Interval,      \* SEEK_CHECKPOINT_INTERVAL
    MaxFragments,  \* MAX_CACHED_SEEK_FRAGMENTS
    MaxHot,        \* MAX_CACHED_SEEK_CHECKPOINT_FRAGMENTS
    MaxResults,    \* MAX_CACHED_SEEK_RESULTS
    MaxCheckpoints,\* MAX_CACHED_SEEK_CHECKPOINTS
    MaxSeeks       \* bound on seeks and edits

VARIABLES
    project,  \* what the editor holds
    entries,  \* scriptCaches: per scripts, the entries of fragments, oldest first
    hot,      \* checkpointFragmentLrus
    seeks     \* seeks and edits so far

seekCache == <<project, entries, hot, seeks>>

Story == INSTANCE StoryEngine WITH scripts <- project.scripts
Lists == INSTANCE SequencesExt

-----------------------------------------------------------------------------
(* settle() with the look for a repeated state *)

\* controlStateFingerprint.
ControlState(m) == <<m.frag, m.ip, m.vars, m.stack>>

Meet(w, m) == [w EXCEPT !.now = m, !.places = LastN(Append(@, At(w.now)), MaxTrace)]

\* settle() with visitedControlStates: w.keys.
RECURSIVE Walk(_, _)
WalkOn(w, n) == IF w.now.status = "error" THEN w ELSE Walk(w, n + 1)
Pass(w, n) ==
    IF ~Story!HasBlock(w.now)
      THEN IF w.now.stack = <<>> THEN [w EXCEPT !.now.status = "finished"]
           ELSE Walk([w EXCEPT !.now = Story!Leave(@)], n + 1)
    ELSE IF IsVisible(Story!Current(w.now))
      THEN Meet(w, Prepare(w.now, Story!Current(w.now)))
    ELSE WalkOn(Meet(w, Story!Execute(w.now, Story!Current(w.now))), n)
Walk(w, n) ==
    IF n = MaxSettle \/ ControlState(w.now) \in w.keys
      THEN [w EXCEPT !.now.status = "error"]
      ELSE Pass([w EXCEPT !.keys = @ \cup {ControlState(w.now)}], n)

\* createEngineStateWithOptions.
Sought(w) == [now |-> w.now, places |-> w.places]
First(frag) ==
    Sought(Walk([now |-> [Story!Initial(project.scripts) EXCEPT
                             !.frag = frag, !.vars = project.variables],
                 places |-> <<>>, keys |-> {}], 0))

\* The block the seek is for, within the fragment.
Limit(frag, index) ==
    LET last == Len(BlocksOf(project.scripts, frag))
    IN  IF index > last THEN (IF last = 0 THEN 1 ELSE last) ELSE index

Playing(s, frag) == s.now.status = "playing" /\ s.now.frag = frag

-----------------------------------------------------------------------------
(* Checkpoints: a sequence of moments, in the order they were set *)

HasCheckpoint(points, ip) == \E i \in 1..Len(points) : points[i].now.ip = ip

\* The oldest checkpoints over the limit go, never the one at the first moment.
\* e is an entry, or a walk that sets its checkpoints.
Trim(e) ==
    LET removable == {i \in 1..Len(e.points) : e.points[i].now.ip # e.first.now.ip}
        oldest == CHOOSE i \in removable : \A j \in removable : i <= j
    IN  IF Len(e.points) > MaxCheckpoints /\ removable # {}
          THEN [e EXCEPT !.points = Lists!RemoveAt(@, oldest),
                         !.dropped = @ \cup {e.points[oldest]}]
          ELSE e

Checkpointed(e, s) ==
    IF HasCheckpoint(e.points, s.now.ip) THEN e
    ELSE Trim([e EXCEPT !.points = Append(@, s)])

\* The loop of seek(): lines and branches are passed up to the limit.
RECURSIVE Follow(_, _, _, _)
FollowOn(w, frag, limit, n) ==
    Follow(IF Playing(w, frag) /\ (w.now.ip - 1) % Interval = 0
             THEN Checkpointed(w, Sought(w)) ELSE w,
           frag, limit, n + 1)
Follow(w, frag, limit, n) ==
    IF w.now.status # "playing" THEN w
    ELSE IF n = MaxSettle THEN [w EXCEPT !.now.status = "error"]
    ELSE IF w.now.frag # frag \/ w.now.ip >= limit THEN w
    ELSE FollowOn(Walk([w EXCEPT !.now = Skip(@)], 0), frag, limit, n)

-----------------------------------------------------------------------------
(* seek() *)

\* Mutant: the defaults of the variables are not part of the source.
AnySource(e) == TRUE

\* matchesSeekCacheSource; the scripts are the key of the map.
SameSource(e) == e.variables = project.variables

\* dropped is history: the checkpoints that went at the limit.
EntryFrom(frag, first) ==
    [frag |-> frag, variables |-> project.variables, first |-> first,
     points |-> <<first>>, dropped |-> {}, results |-> <<>>]
NewEntry(frag) == EntryFrom(frag, First(frag))

Known(frag) ==
    {e \in Lists!ToSet(entries[project.scripts]) : e.frag = frag /\ SameSource(e)}

\* A fragment that is not hot any more keeps its results, weakly.
Released(e) ==
    [e EXCEPT !.first = Unset, !.points = <<>>,
              !.results = [i \in 1..Len(@) |-> [@[i] EXCEPT !.weak = TRUE]]]

OtherResults(results, limit) == SelectSeq(results, LAMBDA r : r.limit # limit)
Live(e, limit) ==
    {r \in Lists!ToSet(e.results) : r.limit = limit /\ r.state # Unset}
Strong(limit, s) == [limit |-> limit, state |-> s, weak |-> FALSE]

\* A result that is there becomes the youngest ...
Reused(e, limit) ==
    [e EXCEPT !.results =
        Append(OtherResults(@, limit), Strong(limit, (CHOOSE r \in Live(e, limit) : TRUE).state))]

\* ... or the fragment is played from the last checkpoint before the block; a
\* released fragment begins anew.
Awake(e) == IF e.first # Unset THEN e
            ELSE [EntryFrom(e.frag, First(e.frag)) EXCEPT !.results = e.results,
                                                          !.dropped = e.dropped]
Start(e, limit) ==
    LET usable == {s \in Lists!ToSet(e.points) :
                      /\ Playing(s, e.frag)
                      /\ e.first.now.ip < s.now.ip /\ s.now.ip <= limit}
    IN  IF usable = {} THEN e.first
        ELSE CHOOSE s \in usable : \A t \in usable : t.now.ip <= s.now.ip
From(s, e, limit) ==
    Follow([now |-> s.now, places |-> s.places, first |-> e.first,
            points |-> e.points, dropped |-> e.dropped,
            keys |-> {ControlState(s.now)}], e.frag, limit, 0)
Kept(e, end, limit) ==
    LET last == IF Playing(end, e.frag) THEN Checkpointed(end, Sought(end)) ELSE end
    IN  [e EXCEPT !.points = last.points, !.dropped = last.dropped,
                  !.results = LastN(Append(OtherResults(@, limit),
                                           Strong(limit, Sought(end))), MaxResults)]
PlayedTo(e, limit) == Kept(e, From(Start(e, limit), e, limit), limit)
Replayed(e, limit) == PlayedTo(Awake(e), limit)

Answered(e, limit) ==
    IF Live(e, limit) # {} THEN Reused(e, limit) ELSE Replayed(e, limit)

\* The entry becomes the youngest, its fragment the hottest.
Store(e) ==
    LET s == project.scripts
        others == LastN(SelectSeq(entries[s], LAMBDA x : x.frag # e.frag),
                        MaxFragments - 1)
        hottest == LastN(Append(SelectSeq(hot[s], LAMBDA f : f # e.frag), e.frag),
                         MaxHot)
        cooled == Lists!ToSet(hot[s]) \ Lists!ToSet(hottest)
    IN  /\ entries' = [entries EXCEPT ![s] =
              Append([i \in 1..Len(others) |->
                         IF others[i].frag \in cooled THEN Released(others[i])
                                                      ELSE others[i]],
                     e)]
        /\ hot' = [hot EXCEPT ![s] = hottest]

\* The entry of a fragment: one of the project as it is now, or a new one.
EntryOf(frag) ==
    IF Known(frag) # {} THEN CHOOSE e \in Known(frag) : TRUE ELSE NewEntry(frag)

\* seek().
Seek(frag, index) ==
    /\ seeks < MaxSeeks
    /\ Store(Answered(EntryOf(frag), Limit(frag, index)))
    /\ seeks' = seeks + 1
    /\ UNCHANGED project

SeekBlock ==
    \E frag \in DOMAIN project.scripts : \E index \in 1..Len(project.scripts[frag]) :
        Seek(frag, index)

\* The editor changes a block or the default of a variable.
EditProject ==
    /\ seeks < MaxSeeks
    /\ project' \in Projects \ {project}
    /\ seeks' = seeks + 1
    /\ UNCHANGED <<entries, hot>>

\* The collector takes a weakly held result.
Collect ==
    /\ \E s \in DOMAIN entries : \E i \in 1..Len(entries[s]) :
          \E j \in 1..Len(entries[s][i].results) :
             /\ entries[s][i].results[j].weak
             /\ entries[s][i].results[j].state # Unset
             /\ entries' = [entries EXCEPT ![s][i].results[j].state = Unset]
    /\ UNCHANGED <<project, hot, seeks>>

\* stats() drops the results that were taken.
DropCollected ==
    /\ \E i \in 1..Len(entries[project.scripts]) :
          LET results == entries[project.scripts][i].results
              live == SelectSeq(results, LAMBDA r : r.state # Unset)
          IN  /\ live # results
              /\ entries' = [entries EXCEPT ![project.scripts][i].results = live]
    /\ UNCHANGED <<project, hot, seeks>>

SeekInit ==
    /\ project \in Projects
    /\ entries = [s \in {p.scripts : p \in Projects} |-> <<>>]
    /\ hot = [s \in {p.scripts : p \in Projects} |-> <<>>]
    /\ seeks = 0

SeekNext == SeekBlock \/ EditProject \/ Collect \/ DropCollected

-----------------------------------------------------------------------------
(* Properties *)

\* What seek() answers with a cache that knows nothing.
Fresh(frag, limit) == Lists!Last(Replayed(NewEntry(frag), limit).results).state

\* A checkpoint that was dropped was set again by a later lap of a loop.
Overtaken(e) ==
    \E d \in e.dropped : \E s \in e.dropped \cup Lists!ToSet(e.points) :
        s.now.ip = d.now.ip /\ s # d

\* seek() answers what playing the fragment of the project as it is now would,
\* whatever was sought, edited and dropped before. Excepted is a search that
\* ends in an error, which a checkpoint behind the loop may not meet, and a
\* fragment with a checkpoint that was dropped at the limit and that a later lap
\* has set again.
SeekIsFresh ==
    [][seeks' # seeks /\ project' = project =>
         LET e == Lists!Last(entries'[project.scripts])
             answer == Lists!Last(e.results)
             fresh == Fresh(e.frag, answer.limit)
         IN  fresh.now.status # "error" /\ ~Overtaken(e) => answer.state = fresh]_seekCache
=============================================================================
