----------------------------- MODULE StoryEngine -----------------------------
(***************************************************************************)
(* The story engine (engine-core/runtime.ts) as GameRuntime.tsx drives it: *)
(* blocks, call stack, choices, rollback, execution trace, save and load   *)
(* across releases of a game, and the variables all saves share.           *)
(*                                                                         *)
(* A story is a function from fragments to sequences of blocks.  What a    *)
(* player sees is a line or a branch; settle() executes the blocks before  *)
(* it.  The page is single-threaded, so settle() is not interleaved with   *)
(* anything; it is one step per iteration of its loop here, which keeps    *)
(* the module free of recursion.                                           *)
(*                                                                         *)
(* Scenes, sounds, characters and the camera are one kind of block that    *)
(* leaves a value on the stage.  Read blocks and the backlog only grow and *)
(* steer nothing but the skip mode; they are left out.                     *)
(***************************************************************************)
EXTENDS Integers, Sequences, FiniteSets

CONSTANTS
    Releases,     \* the scripts of the releases of the game
    Fragment,     \* names of fragments, also of ones a release lacks
    Entry,        \* the fragment the game starts with
    Unset,        \* no target, no voice, no save
    Var,          \* variables
    Shared,       \* the variables with persistence "shared"
    Value,        \* what a block sets a variable or the stage to
    MaxSettle,    \* MAX_SETTLE_STEPS
    MaxRollbacks, \* MAX_ROLLBACKS
    MaxTrace,     \* MAX_TRACE_ENTRIES
    MaxTurns      \* bound on what the player does

Block ==
    [op : {"line"}, voiced : BOOLEAN]
      \cup [op : {"branch"}, options : SUBSET Fragment]
      \cup [op : {"effect"}, value : Value]
      \cup [op : {"set"}, var : Var, value : Value]
      \cup [op : {"add"}, var : Var, by : Value]
      \cup [op : {"test"}, var : Var, value : Value,
            yes : Fragment \cup {Unset}, no : Fragment \cup {Unset}]
      \cup [op : {"jump", "call"}, target : Fragment]
      \cup [op : {"return"}]

ASSUME ReleasesAssumption ==
    /\ Releases # {}
    /\ \A r \in Releases : /\ Entry \in DOMAIN r
                           /\ DOMAIN r \subseteq Fragment
                           /\ \A f \in DOMAIN r : r[f] \in Seq(Block)
ASSUME ConstantsAssumption ==
    /\ Unset \notin Fragment
    /\ Shared \subseteq Var
    /\ Value \subseteq Int /\ 0 \in Value
ASSUME LimitsAssumption ==
    /\ MaxSettle \in Nat \ {0}
    /\ MaxRollbacks \in Nat \ {0}
    /\ MaxTrace \in Nat \ {0}
    /\ MaxTurns \in Nat

\* A place in a story: an instruction pointer counts from 1 here.
Place == [frag : Fragment, ip : Nat \ {0}]
Voices == Place \cup {[frag |-> Unset, ip |-> 0]}
Silent == [frag |-> Unset, ip |-> 0]

\* EngineSnapshot: finished and error are one status.
Moment == [frag : Fragment, ip : Nat \ {0}, vars : [Var -> Int], stage : Int,
           voice : Voices, stack : Seq(Place),
           status : {"playing", "finished", "error"}]
Entries == [frag : Fragment, ip : Nat \ {0}, snap : Moment]
Traces == {t \in Seq(Entries) : Len(t) <= MaxTrace}
SaveGames == [of : Releases, mixed : BOOLEAN, now : Moment, trace : Traces,
              cursor : Nat]
Loads == [vars : [Var -> Int], title : BOOLEAN]

VARIABLES
    scripts,    \* project.scripts of the running release
    screen,     \* the title screen or the game
    settling,   \* whether settle() is under way
    guard,      \* its loop counter
    now,        \* the part of EngineState a snapshot holds
    rollback,   \* rollbackStack
    trace,      \* executionTrace
    cursor,     \* traceCursor + 1
    save,       \* a save slot
    stored,     \* the shared variables in the storage
    saving,     \* the save that is being written
    loading,    \* what the load under way has read of the game
    sharedReady,\* whether the shared variables have been read
    armed,      \* whether the effect has armed the timer that writes them
    mixed,      \* history: the game goes on from a save of another release
    turns       \* actions of the player so far

engine == <<now, rollback, trace, cursor>>
session == <<scripts, screen, mixed, turns>>
persisted == <<save, stored>>
pending == <<saving, loading>>
sharing == <<sharedReady, armed>>
vars == <<session, settling, guard, engine, persisted, pending, sharing>>

-----------------------------------------------------------------------------
(* Blocks *)

Min(a, b) == IF a < b THEN a ELSE b
LastN(s, n) == IF Len(s) <= n THEN s ELSE SubSeq(s, Len(s) - n + 1, Len(s))
Top(s) == s[Len(s)]
Pop(s) == SubSeq(s, 1, Len(s) - 1)

\* project.scripts[fragmentId] ?? [], and currentBlock.
BlocksOf(r, frag) == IF frag \in DOMAIN r THEN r[frag] ELSE <<>>
HasBlock(m) == m.ip <= Len(BlocksOf(scripts, m.frag))
Current(m) == BlocksOf(scripts, m.frag)[m.ip]
IsVisible(b) == b.op \in {"line", "branch"}
At(m) == [frag |-> m.frag, ip |-> m.ip]

\* own, except that the shared variables are those of other.
WithShared(own, other) == [v \in Var |-> IF v \in Shared THEN other[v] ELSE own[v]]

\* goTo: a missing fragment ends the story with an error.
GoTo(m, target) ==
    IF target \in DOMAIN scripts
      THEN [m EXCEPT !.frag = target, !.ip = 1, !.status = "playing"]
      ELSE [m EXCEPT !.status = "error"]

Skip(m) == [m EXCEPT !.ip = m.ip + 1]
\* Mutant: the caller is resumed at the call itself.
FrameAtCall(m) == [frag |-> m.frag, ip |-> m.ip]
Frame(m) == [frag |-> m.frag, ip |-> m.ip + 1]

\* Back to the caller.
Leave(m) == [m EXCEPT !.frag = Top(m.stack).frag, !.ip = Top(m.stack).ip,
                      !.stack = Pop(m.stack)]

Test(m, b) ==
    LET target == IF m.vars[b.var] = b.value THEN b.yes ELSE b.no
    IN  IF target = Unset THEN Skip(m) ELSE GoTo(m, target)

Call(m, b) == GoTo([m EXCEPT !.stack = Append(m.stack, Frame(m))], b.target)

\* The moment after a block that is not shown.
Execute(m, b) ==
    CASE b.op = "effect" -> Skip([m EXCEPT !.stage = b.value])
      [] b.op = "set" -> Skip([m EXCEPT !.vars[b.var] = b.value])
      [] b.op = "add" -> Skip([m EXCEPT !.vars[b.var] = @ + b.by])
      [] b.op = "test" -> Test(m, b)
      [] b.op = "jump" -> GoTo(m, b.target)
      [] b.op = "call" -> Call(m, b)
      [] b.op = "return" -> IF m.stack = <<>> THEN [m EXCEPT !.status = "error"]
                                              ELSE Leave(m)

\* Mutant: a line without a voice lets the last voice play on.
PrepareVoiced(m, b) ==
    IF b.op = "line" /\ b.voiced THEN [m EXCEPT !.voice = At(m)] ELSE m

\* prepareVisible: a line stops the voice of the one before it.
Prepare(m, b) ==
    IF b.op = "line"
      THEN [m EXCEPT !.voice = IF b.voiced THEN At(m) ELSE Silent]
      ELSE m

\* appendTrace: entries behind the cursor are dropped.
AppendTrace(place, m) ==
    /\ trace' = LastN(Append(SubSeq(trace, 1, cursor),
                             [frag |-> place.frag, ip |-> place.ip, snap |-> m]),
                      MaxTrace)
    /\ cursor' = Len(trace')

-----------------------------------------------------------------------------
(* settle() *)

Initial(r) ==
    [frag |-> Entry, ip |-> 1, vars |-> [v \in Var |-> 0], stage |-> 0,
     voice |-> Silent, stack |-> <<>>, status |-> "playing"]

\* createEngineState.
Create(frag) ==
    /\ now' = [Initial(scripts) EXCEPT !.frag = frag]
    /\ rollback' = <<>>
    /\ trace' = <<>>
    /\ cursor' = 0
    /\ settling' = TRUE
    /\ guard' = 0
    /\ armed' = TRUE

\* One iteration of settle(): the end of the loop ...
GiveUp ==
    /\ guard = MaxSettle
    /\ now' = [now EXCEPT !.status = "error"]
    /\ settling' = FALSE
    /\ guard' = 0
    /\ UNCHANGED <<rollback, trace, cursor, armed>>

\* ... the end of a fragment ...
EndFragment ==
    /\ guard < MaxSettle
    /\ ~HasBlock(now)
    /\ \/ /\ now.stack = <<>>
          /\ now' = [now EXCEPT !.status = "finished"]
          /\ settling' = FALSE
          /\ guard' = 0
       \/ /\ now.stack # <<>>
          /\ now' = Leave(now)
          /\ guard' = guard + 1
          /\ UNCHANGED settling
    /\ UNCHANGED <<rollback, trace, cursor, armed>>

\* ... a block for the player ...
Present ==
    /\ guard < MaxSettle
    /\ HasBlock(now)
    /\ IsVisible(Current(now))
    /\ now' = Prepare(now, Current(now))
    /\ AppendTrace(now, now')
    /\ settling' = FALSE
    /\ guard' = 0
    /\ UNCHANGED <<rollback, armed>>

\* ... or any other.
ExecuteBlock ==
    /\ guard < MaxSettle
    /\ HasBlock(now)
    /\ ~IsVisible(Current(now))
    /\ now' = Execute(now, Current(now))
    /\ AppendTrace(now, now')
    /\ settling' = (now'.status = "playing")
    /\ guard' = IF settling' THEN guard + 1 ELSE 0
    /\ armed' = (armed \/ Current(now).op \in {"set", "add"})
    /\ UNCHANGED rollback

Settle ==
    /\ settling
    /\ GiveUp \/ EndFragment \/ Present \/ ExecuteBlock
    /\ UNCHANGED <<session, persisted, pending, sharedReady>>

-----------------------------------------------------------------------------
(* The player *)

Turn ==
    /\ ~settling
    /\ turns < MaxTurns
    /\ turns' = turns + 1

\* Mutant: the stack is not cut.
RememberAll == rollback' = Append(rollback, now)

\* withRollback.
Remember == rollback' = LastN(Append(rollback, now), MaxRollbacks)

\* advance(), the automatic mode and the skip mode; advanceEngine.
AdvanceLine ==
    /\ Turn
    /\ screen = "playing" /\ now.status = "playing"
    /\ HasBlock(now) /\ Current(now).op = "line"
    /\ Remember
    /\ now' = Skip(now)
    /\ settling' = TRUE
    /\ guard' = 0
    /\ UNCHANGED <<scripts, screen, mixed, trace, cursor, persisted,
                   pending, sharing>>

\* advanceEngine at a block that is not shown: a save of another release may
\* point at one.
AdvanceHidden ==
    /\ Turn
    /\ screen = "playing" /\ now.status = "playing"
    /\ HasBlock(now) /\ ~IsVisible(Current(now))
    /\ settling' = TRUE
    /\ guard' = 0
    /\ UNCHANGED <<scripts, screen, mixed, engine, persisted, pending, sharing>>

\* chooseBranch; the buttons of a branch are also there when it led nowhere.
Choose ==
    /\ Turn
    /\ screen = "playing"
    /\ HasBlock(now) /\ Current(now).op = "branch"
    /\ \E target \in Current(now).options :
          /\ Remember
          /\ now' = GoTo(now, target)
          /\ settling' = (target \in DOMAIN scripts)
          /\ guard' = 0
    /\ UNCHANGED <<scripts, screen, mixed, trace, cursor, persisted,
                   pending, sharing>>

\* Mutant: one entry back, however many blocks the last turn executed.
CursorBefore(m) == IF cursor = 0 THEN 0 ELSE cursor - 1

\* The last trace entry whose snapshot is where m is, else the one before the
\* cursor (0: none).
CursorFor(m) ==
    LET matches == {i \in 1..Len(trace) : At(trace[i].snap) = At(m)}
    IN  IF matches # {} THEN CHOOSE i \in matches : \A j \in matches : j <= i
                        ELSE IF cursor = 0 THEN 0 ELSE cursor - 1

\* What the rollback restores of the moment on top of its stack.
RolledBack == [Top(rollback) EXCEPT !.vars = WithShared(@, now.vars)]

\* rollbackEngine.
Rollback ==
    /\ Turn
    /\ screen = "playing"
    /\ rollback # <<>>
    /\ now' = RolledBack
    /\ cursor' = CursorFor(Top(rollback))
    /\ trace' = SubSeq(trace, 1, CursorFor(Top(rollback)))
    /\ rollback' = Pop(rollback)
    /\ armed' = TRUE
    /\ UNCHANGED <<scripts, screen, mixed, settling, guard, persisted,
                   pending, sharedReady>>

\* beginNewGame.
NewGame ==
    /\ Turn
    /\ Create(Entry)
    /\ screen' = "playing"
    /\ mixed' = FALSE
    /\ UNCHANGED <<scripts, persisted, pending, sharedReady>>

\* The button of the error screen: the fragment from its start.
RetryFragment ==
    /\ Turn
    /\ screen = "playing"
    /\ now.status = "error"
    /\ Create(now.frag)
    /\ mixed' = FALSE
    /\ UNCHANGED <<scripts, screen, persisted, pending, sharedReady>>

ReturnToTitle ==
    /\ Turn
    /\ screen = "playing"
    /\ screen' = "title"
    /\ UNCHANGED <<scripts, mixed, settling, guard, engine, persisted,
                   pending, sharing>>

\* quickSave, the automatic save and the save dialog keep the state of the
\* render they start in, and wait for a thumbnail and the storage.
BeginSave ==
    /\ Turn
    /\ screen = "playing"
    /\ saving = Unset
    /\ saving' = [of |-> scripts, mixed |-> mixed, now |-> now, trace |-> trace,
                  cursor |-> cursor]
    /\ UNCHANGED <<scripts, screen, mixed, settling, guard, engine, persisted,
                   loading, sharing>>

\* writeSaveSlot: createSaveGame, and the shared variables; or it fails.
EndSave ==
    /\ ~settling
    /\ saving # Unset
    /\ saving' = Unset
    /\ \/ /\ save' = saving
          /\ stored' = [v \in Shared |-> saving.now.vars[v]]
       \/ UNCHANGED persisted
    /\ UNCHANGED <<session, settling, guard, engine, loading, sharing>>

\* continueGame, quickLoad and the load dialog: the variables are those of the
\* render the load starts in.
BeginLoad ==
    /\ Turn
    /\ loading = Unset
    /\ save # Unset
    /\ loading' = [vars |-> now.vars, title |-> screen = "title"]
    /\ UNCHANGED <<scripts, screen, mixed, settling, guard, engine, persisted,
                   saving, sharing>>

\* normalizeSaveState: the frames whose fragments are there, in their order
\* (what SelectSeq returns, in a form the prover knows).
KnownFrames(stack) ==
    LET known == {i \in 1..Len(stack) : stack[i].frag \in DOMAIN scripts}
        Nth(k) == CHOOSE i \in known : Cardinality({j \in known : j <= i}) = k
    IN  [k \in 1..Cardinality(known) |-> stack[Nth(k)]]
Normalized(m) ==
    [m EXCEPT !.ip = Min(m.ip, Len(scripts[m.frag]) + 1),
              !.vars = WithShared(@, loading.vars),
              !.stack = KnownFrames(@)]

\* The record is there.  Only quickLoad leaves the screen alone.
EndLoad ==
    /\ ~settling
    /\ loading # Unset
    /\ save.now.frag \in DOMAIN scripts
    /\ now' = Normalized(save.now)
    /\ rollback' = <<>>
    /\ trace' = save.trace
    /\ cursor' = Min(save.cursor, Len(save.trace))
    /\ screen' \in IF loading.title THEN {"playing"} ELSE {"playing", screen}
    /\ mixed' = (save.mixed \/ save.of # scripts)
    /\ loading' = Unset
    /\ armed' = TRUE
    /\ UNCHANGED <<scripts, turns, settling, guard, persisted, saving,
                   sharedReady>>

\* The record cannot be read, or its fragment is gone: nothing changes.
RefuseLoad ==
    /\ ~settling
    /\ loading # Unset
    /\ loading' = Unset
    /\ UNCHANGED <<session, settling, guard, engine, persisted, saving, sharing>>

-----------------------------------------------------------------------------
(* The program *)

\* The game is started again, perhaps in another release.
Restart ==
    /\ Turn
    /\ \E r \in Releases :
          /\ scripts' = r
          /\ now' = Initial(r)
    /\ screen' = "title"
    /\ rollback' = <<>> /\ trace' = <<>> /\ cursor' = 0
    /\ settling' = TRUE /\ guard' = 0
    /\ mixed' = FALSE
    /\ saving' = Unset /\ loading' = Unset
    /\ sharedReady' = FALSE /\ armed' = FALSE
    /\ UNCHANGED persisted

\* readSharedVariables(...).then.
ReadShared ==
    /\ ~settling
    /\ ~sharedReady
    /\ now' = [now EXCEPT !.vars = [v \in Var |-> IF v \in DOMAIN stored
                                                    THEN stored[v] ELSE @[v]]]
    /\ sharedReady' = TRUE
    /\ armed' = TRUE
    /\ UNCHANGED <<session, settling, guard, rollback, trace, cursor, persisted,
                   pending>>

\* The timer of the effect on state.variables.
WriteShared ==
    /\ ~settling
    /\ sharedReady
    /\ armed
    /\ Shared # {}
    /\ stored' = [v \in Shared |-> now.vars[v]]
    /\ armed' = FALSE
    /\ UNCHANGED <<session, settling, guard, engine, save, pending, sharedReady>>

Init ==
    /\ scripts \in Releases
    /\ screen = "title"
    /\ settling = TRUE
    /\ guard = 0
    /\ now = Initial(scripts)
    /\ rollback = <<>>
    /\ trace = <<>>
    /\ cursor = 0
    /\ save = Unset
    /\ stored = <<>>
    /\ saving = Unset
    /\ loading = Unset
    /\ sharedReady = FALSE
    /\ armed = FALSE
    /\ mixed = FALSE
    /\ turns = 0

Player ==
    \/ AdvanceLine \/ AdvanceHidden \/ Choose \/ Rollback
    \/ NewGame \/ RetryFragment \/ ReturnToTitle
    \/ BeginSave \/ BeginLoad

Storage == EndSave \/ EndLoad \/ RefuseLoad \/ ReadShared \/ WriteShared

Next == Settle \/ Player \/ Storage \/ Restart

Spec == Init /\ [][Next]_vars

-----------------------------------------------------------------------------
(* Properties *)

\* The variables have their types, and the histories keep their limits.
TypeOK ==
    /\ scripts \in Releases
    /\ screen \in {"title", "playing"}
    /\ settling \in BOOLEAN
    /\ guard \in 0..MaxSettle
    /\ now \in Moment
    /\ rollback \in Seq(Moment) /\ Len(rollback) <= MaxRollbacks
    /\ trace \in Traces
    /\ cursor \in 0..Len(trace)
    /\ save \in SaveGames \cup {Unset}
    /\ stored \in [Shared -> Int] \cup {<<>>}
    /\ saving \in SaveGames \cup {Unset}
    /\ loading \in Loads \cup {Unset}
    /\ loading # Unset => save # Unset
    /\ sharedReady \in BOOLEAN
    /\ armed \in BOOLEAN
    /\ mixed \in BOOLEAN
    /\ turns \in 0..MaxTurns

\* What the player is shown at m: a branch, or a line with its own voice.
Shown(r, m) ==
    /\ m.ip <= Len(BlocksOf(r, m.frag))
    /\ LET b == BlocksOf(r, m.frag)[m.ip]
       IN  \/ b.op = "branch"
           \/ /\ b.op = "line"
              /\ m.voice = IF b.voiced THEN At(m) ELSE Silent

\* Whatever the player does (turns, rollbacks, saves, loads, new games), a game
\* that goes on stands at a line or a branch, prepared as settle() prepares
\* it, and so does every moment it can be rolled back to.
Presented ==
    ~mixed =>
       /\ ~settling /\ now.status = "playing" => Shown(scripts, now)
       /\ \A i \in 1..Len(rollback) :
             rollback[i].status = "playing" => Shown(scripts, rollback[i])

\* Every frame of the call stack, also of the stacks a rollback restores,
\* returns to the block behind a call.
ReturnsToCall(r, p) ==
    /\ p.frag \in DOMAIN r
    /\ p.ip - 1 \in 1..Len(r[p.frag])
    /\ r[p.frag][p.ip - 1].op = "call"
GoodStack(r, stack) == \A i \in 1..Len(stack) : ReturnsToCall(r, stack[i])
FramesFollowCalls ==
    ~mixed => /\ GoodStack(scripts, now.stack)
              /\ \A i \in 1..Len(rollback) : GoodStack(scripts, rollback[i].stack)

\* The entry at the trace cursor is where the game stands, as long as the trace
\* still has an entry for that place: the preview marks its block in the
\* editor (Preview.tsx, traceLocation).
CursorAtMoment ==
    ~mixed /\ ~settling /\ now.status = "playing" =>
       \/ cursor > 0 /\ At(trace[cursor].snap) = At(now)
       \/ \A i \in 1..Len(trace) : At(trace[i].snap) # At(now)

\* The timer of the game stores a shared variable ("global" in the editor's
\* variable panel) only with a value a block assigns it, or the one it has.
StoredByBlock ==
    [][WriteShared =>
         \A v \in DOMAIN stored :
            stored'[v] # stored[v] =>
               \E f \in DOMAIN scripts : \E i \in 1..Len(scripts[f]) :
                  /\ scripts[f][i].op = "set"
                  /\ scripts[f][i].var = v
                  /\ scripts[f][i].value = stored'[v]]_vars

=============================================================================
