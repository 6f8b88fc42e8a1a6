-------------------------- MODULE StoryEngineProofs --------------------------
(***************************************************************************)
(* Proofs about StoryEngine: its types, that a game always stands at a     *)
(* prepared line or branch, that call frames return behind calls, and that *)
(* the cursor of the trace is where the game stands.                       *)
(*                                                                         *)
(* The save slot, a save under way and the rollback stack keep old         *)
(* moments: the invariant covers all of them.                              *)
(***************************************************************************)
EXTENDS StoryEngine, ListsProofs, TLAPS

\* What a save that was not made in a mixed game holds: a moment of its release
\* that can be shown, with a good call stack.
GoodSave(s) ==
    s # Unset /\ ~s.mixed =>
       /\ s.now.status = "playing" => Shown(s.of, s.now)
       /\ GoodStack(s.of, s.now.stack)
SaveInv == GoodSave(save) /\ GoodSave(saving)

-----------------------------------------------------------------------------
(* The frames a load keeps *)

\* The frames a load keeps are frames of the stack, and a stack again.
LEMMA KnownFramesType ==
    ASSUME NEW stack \in Seq(Place)
    PROVE  /\ KnownFrames(stack) \in Seq(Place)
           /\ \A k \in 1..Len(KnownFrames(stack)) :
                 \E i \in 1..Len(stack) : KnownFrames(stack)[k] = stack[i]
<1> DEFINE known == {i \in 1..Len(stack) : stack[i].frag \in DOMAIN scripts}
           Nth(k) == CHOOSE i \in known : Cardinality({j \in known : j <= i}) = k
           n == Cardinality(known)
<1>1. KnownFrames(stack) = [k \in 1..n |-> stack[Nth(k)]]
    BY DEF KnownFrames
<1>2. known \subseteq 1..Len(stack) /\ Len(stack) \in Nat
    OBVIOUS
<1>3. n \in Nat
  <2> HIDE DEF known
  <2>1. IsFiniteSet(1..Len(stack))
    BY <1>2, FS_Interval
  <2>2. IsFiniteSet(known)
    BY <1>2, <2>1, FS_Subset
  <2> QED BY <2>2, FS_CardinalityType
<1>4. \A k \in 1..n : Nth(k) \in 1..Len(stack)
  <2> HIDE DEF known
  <2> TAKE k \in 1..n
  <2>1. \E i \in known : Cardinality({j \in known : j <= i}) = k
    BY <1>2, RankExists, ZenonT(60)
  <2>2. Nth(k) \in known
    BY <2>1
  <2> QED BY <1>2, <2>2
<1> HIDE DEF n, Nth, known
<1>5. \A i \in 1..Len(stack) : stack[i] \in Place
    OBVIOUS
<1>6. KnownFrames(stack) \in Seq(Place) /\ Len(KnownFrames(stack)) = n
    BY <1>1, <1>3, <1>4, <1>5
<1> QED BY <1>1, <1>4, <1>6

-----------------------------------------------------------------------------
(* Blocks and moments *)

\* The fragments of a release are sequences of blocks, also the missing ones.
LEMMA BlocksType ==
    ASSUME NEW r \in Releases, NEW frag
    PROVE  BlocksOf(r, frag) \in Seq(Block)
<1>1. CASE frag \in DOMAIN r
    BY <1>1, ReleasesAssumption DEF BlocksOf
<1>2. CASE frag \notin DOMAIN r
    BY <1>2 DEF BlocksOf
<1> QED BY <1>1, <1>2

\* A block in a fragment is a block.
LEMMA CurrentType ==
    ASSUME scripts \in Releases, NEW m \in Moment, HasBlock(m)
    PROVE  Current(m) \in Block
<1>1. BlocksOf(scripts, m.frag) \in Seq(Block)
    BY BlocksType
<1>2. m.ip \in 1..Len(BlocksOf(scripts, m.frag))
    BY <1>1 DEF HasBlock, Moment
<1> QED BY <1>1, <1>2 DEF Current

\* The last elements of a sequence.
LEMMA LastNType ==
    ASSUME NEW S, NEW s \in Seq(S), NEW n \in Nat
    PROVE  /\ LastN(s, n) \in Seq(S)
           /\ Len(LastN(s, n)) <= n
           /\ Len(LastN(s, n)) <= Len(s)
           /\ Len(s) > 0 /\ n > 0 => Len(LastN(s, n)) > 0
           /\ \A i \in 1..Len(LastN(s, n)) :
                 \E j \in 1..Len(s) : LastN(s, n)[i] = s[j]
<1>1. CASE Len(s) <= n
    BY <1>1 DEF LastN
<1>2. CASE Len(s) > n
  <2>1. LastN(s, n) = SubSeq(s, Len(s) - n + 1, Len(s))
    BY <1>2 DEF LastN
  <2>2. /\ SubSeq(s, Len(s) - n + 1, Len(s)) \in Seq(S)
        /\ Len(SubSeq(s, Len(s) - n + 1, Len(s))) = n
        /\ \A i \in 1..n : SubSeq(s, Len(s) - n + 1, Len(s))[i] = s[Len(s) - n + i]
    BY <1>2
  <2>3. \A i \in 1..n : Len(s) - n + i \in 1..Len(s)
    BY <1>2
  <2>4. \A i \in 1..Len(LastN(s, n)) :
           \E j \in 1..Len(s) : LastN(s, n)[i] = s[j]
    <3> TAKE i \in 1..Len(LastN(s, n))
    <3>1. i \in 1..n
      BY <2>1, <2>2
    <3>2. Len(s) - n + i \in 1..Len(s)
      BY <2>3, <3>1
    <3>3. LastN(s, n)[i] = s[Len(s) - n + i]
      BY <2>1, <2>2, <3>1
    <3> QED BY <3>2, <3>3
  <2>5. LastN(s, n) \in Seq(S) /\ Len(LastN(s, n)) = n
    BY <2>1, <2>2
  <2>6. n <= n /\ n <= Len(s)
    BY <1>2
  <2> QED BY <2>4, <2>5, <2>6
<1> QED BY <1>1, <1>2

\* Moving on keeps the type.
LEMMA MoveType ==
    ASSUME scripts \in Releases, NEW m \in Moment
    PROVE  /\ Skip(m) \in Moment
           /\ \A target \in Fragment : GoTo(m, target) \in Moment
           /\ At(m) \in Place
           /\ Frame(m) \in Place
<1>1. /\ m.frag \in Fragment /\ m.ip \in Nat \ {0} /\ m.ip + 1 \in Nat \ {0}
      /\ 1 \in Nat \ {0}
    BY DEF Moment
<1>2. Skip(m) \in Moment
    BY <1>1 DEF Skip, Moment
<1>3. \A target \in Fragment : GoTo(m, target) \in Moment
    BY <1>1 DEF GoTo, Moment
<1> QED BY <1>1, <1>2, <1>3 DEF At, Frame, Place

\* So does leaving a fragment.
LEMMA LeaveType ==
    ASSUME NEW m \in Moment, m.stack # <<>>
    PROVE  /\ Leave(m) \in Moment
           /\ Leave(m).stack = Pop(m.stack)
           /\ Leave(m).status = m.status
<1>1. m.stack \in Seq(Place) /\ Len(m.stack) > 0
    BY DEF Moment
<1>2. /\ Top(m.stack) \in Place
      /\ Pop(m.stack) \in Seq(Place)
    BY <1>1 DEF Top, Pop
<1>3. Top(m.stack).frag \in Fragment /\ Top(m.stack).ip \in Nat \ {0}
    BY <1>2 DEF Place
<1> QED BY <1>2, <1>3 DEF Leave, Moment

\* So does setting a variable.
LEMMA VarsType ==
    ASSUME NEW m \in Moment, NEW v \in Var, NEW x \in Int
    PROVE  [m EXCEPT !.vars[v] = x] \in Moment
<1>1. m.vars \in [Var -> Int]
    BY DEF Moment
<1>2. [m.vars EXCEPT ![v] = x] \in [Var -> Int]
    BY <1>1
<1>3. [m EXCEPT !.vars[v] = x] = [m EXCEPT !.vars = [m.vars EXCEPT ![v] = x]]
    BY DEF Moment
<1> QED BY <1>2, <1>3 DEF Moment

\* And every block that is not shown.
LEMMA ExecuteType ==
    ASSUME scripts \in Releases, NEW m \in Moment, NEW b \in Block,
           ~IsVisible(b)
    PROVE  Execute(m, b) \in Moment
<1>0. b.op \in {"effect", "set", "add", "test", "jump", "call", "return"}
    BY DEF Block, IsVisible
<1>1. CASE b.op = "effect"
  <2>1. b.value \in Int
    BY <1>1, ConstantsAssumption DEF Block
  <2>2. [m EXCEPT !.stage = b.value] \in Moment
    BY <2>1 DEF Moment
  <2>3. Execute(m, b) = Skip([m EXCEPT !.stage = b.value])
    BY <1>1 DEF Execute
  <2> QED BY <2>2, <2>3, MoveType
<1>2. CASE b.op = "set"
  <2>1. b.value \in Int /\ b.var \in Var
    BY <1>2, ConstantsAssumption DEF Block
  <2>2. [m EXCEPT !.vars[b.var] = b.value] \in Moment
    BY <2>1, VarsType
  <2>3. Execute(m, b) = Skip([m EXCEPT !.vars[b.var] = b.value])
    BY <1>2 DEF Execute
  <2> QED BY <2>2, <2>3, MoveType
<1>3. CASE b.op = "add"
  <2>1. b.by \in Int /\ b.var \in Var
    BY <1>3, ConstantsAssumption DEF Block
  <2>2. m.vars[b.var] + b.by \in Int
    BY <2>1 DEF Moment
  <2>4. [m EXCEPT !.vars[b.var] = m.vars[b.var] + b.by] \in Moment
    BY <2>1, <2>2, VarsType
  <2>3. Execute(m, b) = Skip([m EXCEPT !.vars[b.var] = m.vars[b.var] + b.by])
    BY <1>3 DEF Execute
  <2> QED BY <2>3, <2>4, MoveType
<1>4. CASE b.op = "test"
  <2>1. b.yes \in Fragment \cup {Unset} /\ b.no \in Fragment \cup {Unset}
    BY <1>4 DEF Block
  <2>2. Execute(m, b) = Test(m, b)
    BY <1>4 DEF Execute
  <2>3. Test(m, b) \in Moment
    BY <2>1, MoveType DEF Test
  <2> QED BY <2>2, <2>3
<1>5. CASE b.op = "jump"
  <2>1. b.target \in Fragment
    BY <1>5 DEF Block
  <2>2. Execute(m, b) = GoTo(m, b.target)
    BY <1>5 DEF Execute
  <2> QED BY <2>1, <2>2, MoveType
<1>6. CASE b.op = "call"
  <2>1. b.target \in Fragment
    BY <1>6 DEF Block
  <2>2. Append(m.stack, Frame(m)) \in Seq(Place)
    BY MoveType DEF Moment
  <2>3. [m EXCEPT !.stack = Append(m.stack, Frame(m))] \in Moment
    BY <2>2 DEF Moment
  <2>4. Execute(m, b) = GoTo([m EXCEPT !.stack = Append(m.stack, Frame(m))], b.target)
    BY <1>6 DEF Execute, Call
  <2> QED BY <2>1, <2>3, <2>4, MoveType
<1>7. CASE b.op = "return"
  <2>1. Execute(m, b) = IF m.stack = <<>> THEN [m EXCEPT !.status = "error"]
                                          ELSE Leave(m)
    BY <1>7 DEF Execute
  <2>2. [m EXCEPT !.status = "error"] \in Moment
    BY DEF Moment
  <2> QED BY <2>1, <2>2, LeaveType
<1> QED BY <1>0, <1>1, <1>2, <1>3, <1>4, <1>5, <1>6, <1>7

\* A stack stays good when a frame is removed or that of a call added.
LEMMA GoodPop ==
    ASSUME NEW r, NEW stack \in Seq(Place), stack # <<>>, GoodStack(r, stack)
    PROVE  GoodStack(r, Pop(stack))
<1>1. Len(stack) \in Nat \ {0}
    OBVIOUS
<1>2. Len(Pop(stack)) = Len(stack) - 1
  <2>1. \A i \in 1..(Len(stack) - 1) : stack[i] \in Place
    BY <1>1
  <2>2. Len(SubSeq(stack, 1, Len(stack) - 1))
          = IF 1 <= Len(stack) - 1 THEN Len(stack) - 1 - 1 + 1 ELSE 0
    <3> DEFINE n == Len(stack) - 1
    <3>1. n \in Int /\ 1 \in Int /\ \A i \in 1..n : stack[i] \in Place
      BY <1>1, <2>1
    <3> HIDE DEF n
    <3>2. Len(SubSeq(stack, 1, n)) = IF 1 <= n THEN n - 1 + 1 ELSE 0
      BY <3>1, SubSeqProperties
    <3> QED BY <3>2 DEF n
  <2> QED BY <1>1, <2>2 DEF Pop
<1>3. \A i \in 1..Len(stack) - 1 : Pop(stack)[i] = stack[i]
    BY <1>1 DEF Pop
<1>4. \A i \in 1..Len(Pop(stack)) : i \in 1..Len(stack) - 1 /\ i \in 1..Len(stack)
    BY <1>1, <1>2
<1> QED BY <1>2, <1>3, <1>4 DEF GoodStack

\* A frame of a call block is a good frame.
LEMMA GoodCall ==
    ASSUME scripts \in Releases, NEW m \in Moment, HasBlock(m),
           Current(m).op = "call", GoodStack(scripts, m.stack)
    PROVE  GoodStack(scripts, Append(m.stack, Frame(m)))
<1>1. m.frag \in DOMAIN scripts
    BY DEF HasBlock, BlocksOf, Moment
<1>2. BlocksOf(scripts, m.frag) = scripts[m.frag]
    BY <1>1 DEF BlocksOf
<1>3. m.ip \in Nat \ {0} /\ m.stack \in Seq(Place)
    BY DEF Moment
<1>4. ReturnsToCall(scripts, Frame(m))
  <2>1. Frame(m).frag = m.frag /\ Frame(m).ip = m.ip + 1
    BY DEF Frame
  <2>2. Frame(m).ip - 1 = m.ip
    BY <2>1, <1>3
  <2>3. scripts[m.frag] \in Seq(Block)
    BY <1>1, ReleasesAssumption
  <2>4. m.ip \in 1..Len(scripts[m.frag])
    BY <1>2, <1>3, <2>3 DEF HasBlock
  <2>5. scripts[m.frag][m.ip].op = "call"
    BY <1>2 DEF Current
  <2> QED BY <1>1, <2>1, <2>2, <2>4, <2>5 DEF ReturnsToCall
<1>5. /\ Len(Append(m.stack, Frame(m))) = Len(m.stack) + 1
      /\ \A i \in 1..Len(m.stack) : Append(m.stack, Frame(m))[i] = m.stack[i]
      /\ Append(m.stack, Frame(m))[Len(m.stack) + 1] = Frame(m)
    BY <1>3
<1> QED BY <1>3, <1>4, <1>5 DEF GoodStack

\* Executing a block keeps the stack good.
LEMMA ExecuteStack ==
    ASSUME scripts \in Releases, NEW m \in Moment, HasBlock(m),
           ~IsVisible(Current(m)), GoodStack(scripts, m.stack)
    PROVE  GoodStack(scripts, Execute(m, Current(m)).stack)
<1> DEFINE b == Current(m)
<1>0. b.op \in {"effect", "set", "add", "test", "jump", "call", "return"}
    BY CurrentType DEF Block, IsVisible
<1>1. CASE b.op \in {"effect", "set", "add"}
    BY <1>1 DEF Execute, Skip, Moment
<1>2. CASE b.op \in {"test", "jump"}
    BY <1>2 DEF Execute, Test, GoTo, Skip, Moment
<1>3. CASE b.op = "call"
  <2>1. Execute(m, b).stack = Append(m.stack, Frame(m))
    BY <1>3 DEF Execute, Call, GoTo, Moment
  <2> QED BY <1>3, <2>1, GoodCall
<1>4. CASE b.op = "return"
  <2>1. CASE m.stack = <<>>
    BY <1>4, <2>1 DEF Execute, Moment
  <2>2. CASE m.stack # <<>>
    <3>1. Execute(m, b).stack = Pop(m.stack)
      BY <1>4, <2>2, LeaveType DEF Execute
    <3> QED BY <2>2, <3>1, GoodPop DEF Moment
  <2> QED BY <2>1, <2>2
<1> QED BY <1>0, <1>1, <1>2, <1>3, <1>4

-----------------------------------------------------------------------------
(* Types *)

\* What settle() prepares is a moment.
LEMMA PrepareType ==
    ASSUME NEW m \in Moment, NEW b
    PROVE  Prepare(m, b) \in Moment
<1>1. At(m) \in Voices
    BY DEF At, Voices, Place, Moment
<1>2. Silent \in Voices
    BY DEF Silent, Voices
<1> QED BY <1>1, <1>2 DEF Prepare, Moment

\* The first moment of a game is one.
LEMMA InitialType ==
    ASSUME NEW r \in Releases
    PROVE  /\ Initial(r) \in Moment
           /\ Initial(r).stack = <<>>
           /\ \A frag \in Fragment : [Initial(r) EXCEPT !.frag = frag] \in Moment
<1>1. Entry \in Fragment
    BY ReleasesAssumption
<1>2. Silent \in Voices /\ <<>> \in Seq(Place)
    BY DEF Silent, Voices
<1>3. /\ [v \in Var |-> 0] \in [Var -> Int] /\ 0 \in Int /\ 1 \in Nat \ {0}
      /\ "playing" \in {"playing", "finished", "error"}
    OBVIOUS
<1>4. Initial(r) \in Moment
    BY <1>1, <1>2, <1>3 DEF Initial, Moment
<1>5. \A frag \in Fragment : [Initial(r) EXCEPT !.frag = frag] \in Moment
    BY <1>4 DEF Moment
<1> QED BY <1>4, <1>5 DEF Initial

\* Appending to the trace keeps its type and its limit.
LEMMA TraceType ==
    ASSUME trace \in Seq(Entries), cursor \in 0..Len(trace),
           NEW place \in Moment, NEW m \in Moment, AppendTrace(place, m)
    PROVE  /\ trace' \in Seq(Entries)
           /\ Len(trace') <= MaxTrace
           /\ cursor' \in 0..Len(trace')
<1> DEFINE e == [frag |-> place.frag, ip |-> place.ip, snap |-> m]
           t == Append(SubSeq(trace, 1, cursor), e)
<1>1. e \in Entries
    BY DEF Entries, Moment
<1>2. SubSeq(trace, 1, cursor) \in Seq(Entries)
    OBVIOUS
<1>3. t \in Seq(Entries)
    BY <1>1, <1>2
<1>4. trace' = LastN(t, MaxTrace) /\ cursor' = Len(trace')
    BY DEF AppendTrace
<1> HIDE DEF t
<1>5. LastN(t, MaxTrace) \in Seq(Entries) /\ Len(LastN(t, MaxTrace)) <= MaxTrace
    BY <1>3, LastNType, LimitsAssumption
<1> QED BY <1>4, <1>5

\* What a player's turn remembers: some moments of before, and this one.
LEMMA RememberType ==
    ASSUME rollback \in Seq(Moment), now \in Moment, Remember
    PROVE  /\ rollback' \in Seq(Moment)
           /\ Len(rollback') <= MaxRollbacks
           /\ \A i \in 1..Len(rollback') :
                 \/ rollback'[i] = now
                 \/ \E j \in 1..Len(rollback) : rollback'[i] = rollback[j]
<1> DEFINE t == Append(rollback, now)
<1>1. t \in Seq(Moment) /\ rollback' = LastN(t, MaxRollbacks)
    BY DEF Remember
<1>2. \A j \in 1..Len(t) :
         t[j] = now \/ \E k \in 1..Len(rollback) : t[j] = rollback[k]
    OBVIOUS
<1> HIDE DEF t
<1>3. /\ LastN(t, MaxRollbacks) \in Seq(Moment)
      /\ Len(LastN(t, MaxRollbacks)) <= MaxRollbacks
      /\ \A i \in 1..Len(LastN(t, MaxRollbacks)) :
            \E j \in 1..Len(t) : LastN(t, MaxRollbacks)[i] = t[j]
    BY <1>1, LastNType, LimitsAssumption
<1> QED BY <1>1, <1>2, <1>3

\* A rollback takes the last remembered moment from the stack.
LEMMA RolledBackType ==
    ASSUME rollback \in Seq(Moment), rollback # <<>>, now \in Moment
    PROVE  /\ Top(rollback) \in Moment
           /\ Top(rollback) = rollback[Len(rollback)]
           /\ Len(rollback) \in 1..Len(rollback)
           /\ RolledBack \in Moment
           /\ Pop(rollback) \in Seq(Moment)
           /\ Len(Pop(rollback)) <= Len(rollback)
           /\ \A i \in 1..Len(Pop(rollback)) :
                 i \in 1..Len(rollback) /\ Pop(rollback)[i] = rollback[i]
<1>1. Len(rollback) \in Nat \ {0}
    OBVIOUS
<1>2. Top(rollback) \in Moment /\ Top(rollback) = rollback[Len(rollback)]
    BY <1>1 DEF Top
<1>3. WithShared(Top(rollback).vars, now.vars) \in [Var -> Int]
    BY <1>2 DEF WithShared, Moment
<1>4. RolledBack \in Moment
    BY <1>2, <1>3 DEF RolledBack, Moment
<1>5. \A i \in 1..(Len(rollback) - 1) : rollback[i] \in Moment
    BY <1>1
<1>6. /\ Pop(rollback) \in Seq(Moment)
      /\ Len(Pop(rollback)) <= Len(rollback) - 1
      /\ \A i \in 1..(Len(rollback) - 1) : Pop(rollback)[i] = rollback[i]
  <2> DEFINE n == Len(rollback) - 1
  <2>1. n \in Int /\ 1 \in Int /\ \A i \in 1..n : rollback[i] \in Moment
    BY <1>1, <1>5
  <2>2. Pop(rollback) = SubSeq(rollback, 1, n)
    BY DEF Pop
  <2>3. n >= 0
    BY <1>1
  <2> HIDE DEF n
  <2>4. /\ SubSeq(rollback, 1, n) \in Seq(Moment)
        /\ Len(SubSeq(rollback, 1, n)) = IF 1 <= n THEN n - 1 + 1 ELSE 0
        /\ \A i \in 1..(n - 1 + 1) : SubSeq(rollback, 1, n)[i] = rollback[1 + i - 1]
    BY <2>1, SubSeqProperties
  <2>5. \A i \in 1..n : i \in 1..(n - 1 + 1) /\ 1 + i - 1 = i
    BY <2>1
  <2>6. \A i \in 1..n : SubSeq(rollback, 1, n)[i] = rollback[i]
    BY <2>4, <2>5
  <2>7. Len(SubSeq(rollback, 1, n)) <= n
    BY <2>1, <2>3, <2>4
  <2> QED BY <2>2, <2>4, <2>6, <2>7 DEF n
<1>7. Len(Pop(rollback)) \in Nat
    BY <1>6
<1>8. \A i \in 1..Len(Pop(rollback)) :
         i \in 1..Len(rollback) /\ i \in 1..(Len(rollback) - 1)
    BY <1>1, <1>6, <1>7
<1> QED BY <1>1, <1>2, <1>4, <1>6, <1>7, <1>8

\* What a load goes on from is a moment.
LEMMA NormalizedType ==
    ASSUME scripts \in Releases, loading \in Loads,
           NEW m \in Moment, m.frag \in DOMAIN scripts
    PROVE  Normalized(m) \in Moment
<1>1. scripts[m.frag] \in Seq(Block)
    BY ReleasesAssumption
<1>2. Len(scripts[m.frag]) + 1 \in Nat \ {0}
    BY <1>1
<1>3. Min(m.ip, Len(scripts[m.frag]) + 1) \in Nat \ {0}
    BY <1>2 DEF Min, Moment
<1>4. WithShared(m.vars, loading.vars) \in [Var -> Int]
    BY DEF WithShared, Moment, Loads
<1>5. KnownFrames(m.stack) \in Seq(Place)
    BY KnownFramesType DEF Moment
<1> QED BY <1>3, <1>4, <1>5 DEF Normalized, Moment

-----------------------------------------------------------------------------
(* Type correctness *)

\* One iteration of settle() keeps the types.
LEMMA SettleType ==
    ASSUME TypeOK, Settle
    PROVE  TypeOK'
<1>1. /\ scripts \in Releases /\ now \in Moment
      /\ trace \in Seq(Entries) /\ cursor \in 0..Len(trace)
      /\ Len(trace) <= MaxTrace
    BY DEF TypeOK, Traces
<1>2. UNCHANGED <<scripts, screen, mixed, turns, save, stored, saving, loading,
                  sharedReady>>
    BY DEF Settle, session, persisted, pending
<1>3. /\ now' \in Moment
      /\ settling' \in BOOLEAN
      /\ guard' \in 0..MaxSettle
      /\ UNCHANGED rollback
      /\ trace' \in Seq(Entries) /\ Len(trace') <= MaxTrace
      /\ cursor' \in 0..Len(trace')
      /\ armed' \in BOOLEAN
  <2>0. guard \in 0..MaxSettle /\ 0 \in 0..MaxSettle
        /\ (guard < MaxSettle => guard + 1 \in 0..MaxSettle)
        /\ armed \in BOOLEAN
    BY LimitsAssumption DEF TypeOK, Traces
  <2>1. CASE GiveUp
    <3>1. now' \in Moment
      BY <1>1, <2>1 DEF GiveUp, Moment
    <3> QED BY <1>1, <2>0, <2>1, <3>1 DEF GiveUp
  <2>2. CASE EndFragment
    <3>1. now' \in Moment
      <4>1. CASE now.stack = <<>>
        BY <1>1, <2>2, <4>1 DEF EndFragment, Moment
      <4>2. CASE now.stack # <<>>
        BY <1>1, <2>2, <4>2, LeaveType DEF EndFragment
      <4> QED BY <4>1, <4>2
    <3>2. settling' \in BOOLEAN /\ guard' \in 0..MaxSettle
      BY <2>0, <2>2 DEF EndFragment, TypeOK, Traces
    <3> QED BY <1>1, <2>0, <2>2, <3>1, <3>2 DEF EndFragment
  <2>3. CASE Present
    <3>1. now' \in Moment
      BY <1>1, <2>3, PrepareType DEF Present
    <3>2. AppendTrace(now, now')
      BY <2>3 DEF Present
    <3>3. /\ trace' \in Seq(Entries) /\ Len(trace') <= MaxTrace
          /\ cursor' \in 0..Len(trace')
      BY <1>1, <3>1, <3>2, TraceType
    <3> QED BY <2>0, <2>3, <3>1, <3>3 DEF Present
  <2>4. CASE ExecuteBlock
    <3>1. Current(now) \in Block /\ ~IsVisible(Current(now))
      BY <1>1, <2>4, CurrentType DEF ExecuteBlock
    <3>2. now' \in Moment
      BY <1>1, <2>4, <3>1, ExecuteType DEF ExecuteBlock
    <3>3. AppendTrace(now, now')
      BY <2>4 DEF ExecuteBlock
    <3>4. /\ trace' \in Seq(Entries) /\ Len(trace') <= MaxTrace
          /\ cursor' \in 0..Len(trace')
      BY <1>1, <3>2, <3>3, TraceType
    <3>5. settling' \in BOOLEAN
      BY <2>4 DEF ExecuteBlock
    <3>6. guard' \in 0..MaxSettle
      BY <2>0, <2>4 DEF ExecuteBlock
    <3> QED BY <2>4, <3>2, <3>4, <3>5, <3>6 DEF ExecuteBlock
  <2> QED BY <2>1, <2>2, <2>3, <2>4 DEF Settle
<1> QED BY <1>2, <1>3 DEF TypeOK, Traces

\* So does whatever the player does.
LEMMA PlayerType ==
    ASSUME TypeOK, Player
    PROVE  TypeOK'
<1>1. /\ scripts \in Releases /\ now \in Moment /\ rollback \in Seq(Moment)
      /\ Len(rollback) <= MaxRollbacks
      /\ trace \in Seq(Entries) /\ cursor \in 0..Len(trace)
      /\ Len(trace) <= MaxTrace /\ save \in SaveGames \cup {Unset}
    BY DEF TypeOK, Traces
<1>2. Turn => turns' \in 0..MaxTurns
    BY LimitsAssumption DEF Turn, TypeOK, Traces
<1>3. 0 \in 0..MaxSettle /\ <<>> \in Seq(Moment) /\ <<>> \in Seq(Entries)
      /\ Len(<<>>) <= MaxTrace /\ Len(<<>>) <= MaxRollbacks /\ 0 \in 0..Len(<<>>)
    BY LimitsAssumption
<1>4. CASE AdvanceLine
  <2>1. now' \in Moment
    BY <1>1, <1>4, MoveType DEF AdvanceLine
  <2>2. rollback' \in Seq(Moment) /\ Len(rollback') <= MaxRollbacks
    BY <1>1, <1>4, RememberType DEF AdvanceLine
  <2> QED BY <1>2, <1>3, <1>4, <2>1, <2>2 DEF AdvanceLine, persisted, pending, sharing, TypeOK, Traces
<1>5. CASE AdvanceHidden
    BY <1>2, <1>3, <1>5 DEF AdvanceHidden, engine, persisted, pending, sharing, TypeOK, Traces
<1>6. CASE Choose
  <2>1. PICK target \in Current(now).options :
           /\ Remember
           /\ now' = GoTo(now, target)
           /\ settling' = (target \in DOMAIN scripts)
           /\ guard' = 0
    BY <1>6 DEF Choose
  <2>2. GoTo(now, target) \in Moment
    <3>1. CASE target \in Fragment
      BY <1>1, <3>1, MoveType
    <3>2. CASE target \notin Fragment
      <4>1. target \notin DOMAIN scripts
        BY <1>1, <3>2, ReleasesAssumption
      <4> QED BY <1>1, <4>1 DEF GoTo, Moment
    <3> QED BY <3>1, <3>2
  <2>3. now' \in Moment
    BY <2>1, <2>2
  <2>4. rollback' \in Seq(Moment) /\ Len(rollback') <= MaxRollbacks
    BY <1>1, <2>1, RememberType
  <2>5. settling' \in BOOLEAN /\ guard' \in 0..MaxSettle
    BY <1>3, <2>1
  <2> QED BY <1>2, <1>6, <2>3, <2>4, <2>5 DEF Choose, persisted, pending, sharing, TypeOK, Traces
<1>7. CASE Rollback
  <2>1. rollback # <<>>
    BY <1>7 DEF Rollback
  <2>2. now' \in Moment
    BY <1>1, <1>7, <2>1, RolledBackType DEF Rollback
  <2>3. rollback' \in Seq(Moment) /\ Len(rollback') <= MaxRollbacks
    <3>1. /\ Pop(rollback) \in Seq(Moment) /\ Len(Pop(rollback)) <= Len(rollback)
      BY <1>1, <2>1, RolledBackType
    <3>2. rollback' = Pop(rollback)
      BY <1>7 DEF Rollback
    <3>3. Len(Pop(rollback)) \in Nat /\ Len(rollback) \in Nat /\ MaxRollbacks \in Nat
      BY <1>1, <3>1, LimitsAssumption
    <3> QED BY <1>1, <3>1, <3>2, <3>3
  <2>4. CursorFor(Top(rollback)) \in 0..Len(trace)
    <3> DEFINE m == Top(rollback)
               matches == {i \in 1..Len(trace) : At(trace[i].snap) = At(m)}
    <3>0. Len(trace) \in Nat /\ cursor \in 0..Len(trace)
      BY <1>1
    <3>1. CASE matches = {}
      BY <3>0, <3>1 DEF CursorFor
    <3>2. CASE matches # {}
      <4>1. \E i \in matches : \A j \in matches : j <= i
        <5> DEFINE behind == {k \in Nat : k <= Len(trace) /\ Len(trace) - k \in matches}
        <5>1. behind \subseteq Nat
          OBVIOUS
        <5>2. PICK i \in matches : TRUE
          BY <3>2
        <5>3. i \in 1..Len(trace)
          OBVIOUS
        <5>4. Len(trace) - i \in behind
          BY <3>0, <5>2, <5>3
        <5>5. PICK k \in behind : \A l \in behind : k <= l
          <6> HIDE DEF behind
          <6> QED BY <5>1, <5>4, LeastExists
        <5>6. Len(trace) - k \in matches /\ k \in Nat
          BY <5>5
        <5>7. \A j \in matches : j <= Len(trace) - k
          <6> TAKE j \in matches
          <6>1. j \in 1..Len(trace)
            OBVIOUS
          <6>2. Len(trace) - (Len(trace) - j) = j
            BY <3>0, <6>1
          <6>3. Len(trace) - j \in Nat /\ Len(trace) - j <= Len(trace)
            BY <3>0, <6>1
          <6>4. Len(trace) - j \in behind
            BY <6>2, <6>3
          <6>5. k <= Len(trace) - j
            BY <5>5, <6>4
          <6> QED BY <3>0, <5>6, <6>1, <6>3, <6>5
        <5> QED BY <5>6, <5>7
      <4>2. CursorFor(m) = CHOOSE i \in matches : \A j \in matches : j <= i
        BY <3>2 DEF CursorFor
      <4>3. CursorFor(m) \in matches
        <5> HIDE DEF matches, m
        <5> QED BY <4>1, <4>2
      <4> QED BY <3>0, <4>3
    <3> QED BY <3>1, <3>2
  <2>5. /\ trace' \in Seq(Entries) /\ Len(trace') <= MaxTrace
        /\ cursor' \in 0..Len(trace')
    <3> DEFINE c == CursorFor(Top(rollback))
    <3>1. trace' = SubSeq(trace, 1, c) /\ cursor' = c
      BY <1>7 DEF Rollback
    <3> HIDE DEF c
    <3>2. c \in 0..Len(trace)
      BY <2>4 DEF c
    <3>3. SubSeq(trace, 1, c) \in Seq(Entries) /\ Len(SubSeq(trace, 1, c)) = c
      <4>1. c \in Int /\ 1 \in Int /\ \A i \in 1..c : trace[i] \in Entries
        BY <1>1, <3>2
      <4>2. /\ SubSeq(trace, 1, c) \in Seq(Entries)
            /\ Len(SubSeq(trace, 1, c)) = IF 1 <= c THEN c - 1 + 1 ELSE 0
        BY <4>1, SubSeqProperties
      <4> QED BY <3>2, <4>2
    <3> QED BY <1>1, <3>1, <3>2, <3>3, LimitsAssumption
  <2> QED BY <1>2, <1>7, <2>2, <2>3, <2>5 DEF Rollback, persisted, pending, sharing, TypeOK, Traces
<1>8. CASE NewGame
  <2>1. Entry \in Fragment
    BY <1>1, ReleasesAssumption
  <2>2. now' \in Moment
    BY <1>1, <1>8, <2>1, InitialType DEF NewGame, Create
  <2> QED BY <1>2, <1>3, <1>8, <2>2 DEF NewGame, Create, persisted, pending, sharing, TypeOK, Traces
<1>9. CASE RetryFragment
  <2>1. now.frag \in Fragment
    BY <1>1 DEF Moment
  <2>2. now' \in Moment
    BY <1>1, <1>9, <2>1, InitialType DEF RetryFragment, Create
  <2> QED BY <1>2, <1>3, <1>9, <2>2 DEF RetryFragment, Create, persisted, pending, sharing, TypeOK, Traces
<1>10. CASE ReturnToTitle
    BY <1>2, <1>10 DEF ReturnToTitle, engine, persisted, pending, sharing, TypeOK, Traces
<1>11. CASE BeginSave
  <2>1. saving' \in SaveGames
    <3>1. cursor \in Nat
      BY <1>1
    <3> QED BY <1>1, <1>11, <3>1 DEF BeginSave, SaveGames, TypeOK, Traces
  <2> QED BY <1>2, <1>11, <2>1 DEF BeginSave, engine, persisted, sharing, TypeOK
<1>12. CASE BeginLoad
  <2>1. loading' \in Loads /\ save # Unset
    BY <1>1, <1>12 DEF BeginLoad, Loads, Moment
  <2> QED BY <1>2, <1>12, <2>1 DEF BeginLoad, engine, persisted, sharing, TypeOK
<1> QED BY <1>4, <1>5, <1>6, <1>7, <1>8, <1>9, <1>10, <1>11, <1>12 DEF Player

\* So do the storage's answers.
LEMMA StorageType ==
    ASSUME TypeOK, Storage
    PROVE  TypeOK'
<1>1. /\ scripts \in Releases /\ now \in Moment
      /\ stored \in [Shared -> Int] \cup {<<>>}
      /\ save \in SaveGames \cup {Unset} /\ saving \in SaveGames \cup {Unset}
      /\ loading \in Loads \cup {Unset}
      /\ loading # Unset => save # Unset
    BY DEF TypeOK
<1>2. CASE EndSave
  <2>1. saving \in SaveGames /\ saving # Unset
    BY <1>1, <1>2 DEF EndSave
  <2>2. [v \in Shared |-> saving.now.vars[v]] \in [Shared -> Int]
    BY <2>1, ConstantsAssumption DEF SaveGames, Moment
  <2>3. /\ save' \in SaveGames \cup {Unset} /\ (loading # Unset => save' # Unset)
        /\ stored' \in [Shared -> Int] \cup {<<>>} /\ saving' = Unset
    BY <1>1, <1>2, <2>1, <2>2 DEF EndSave, persisted
  <2> QED BY <1>2, <2>3 DEF EndSave, session, engine, sharing, TypeOK
<1>3. CASE ReadShared
  <2> DEFINE read == [v \in Var |-> IF v \in DOMAIN stored THEN stored[v] ELSE now.vars[v]]
  <2>1. read \in [Var -> Int]
    <3>1. CASE stored \in [Shared -> Int]
      BY <1>1, <3>1 DEF Moment
    <3>2. CASE stored = <<>>
      <4>1. DOMAIN stored = {}
        BY <3>2
      <4> QED BY <1>1, <4>1 DEF Moment
    <3> QED BY <1>1, <3>1, <3>2
  <2>2. now' = [now EXCEPT !.vars = read]
    BY <1>1, <1>3 DEF ReadShared
  <2>3. now' \in Moment
    <3> HIDE DEF read
    <3> QED BY <1>1, <2>1, <2>2 DEF Moment
  <2> QED BY <1>3, <2>3 DEF ReadShared, session, persisted, pending, sharing, TypeOK
<1>4. CASE WriteShared
  <2>1. stored' \in [Shared -> Int]
    BY <1>1, <1>4, ConstantsAssumption DEF WriteShared, Moment
  <2> QED BY <1>4, <2>1 DEF WriteShared, session, engine, pending, TypeOK
<1>5. CASE EndLoad
  <2>1. save \in SaveGames /\ save.now \in Moment /\ save.trace \in Seq(Entries)
        /\ save.cursor \in Nat /\ Len(save.trace) <= MaxTrace
        /\ loading \in Loads
    BY <1>1, <1>5 DEF EndLoad, SaveGames, Traces
  <2>2. now' \in Moment
    BY <1>1, <1>5, <2>1, NormalizedType DEF EndLoad
  <2>3. Len(save.trace) \in Nat
    BY <2>1
  <2>4. Min(save.cursor, Len(save.trace)) \in 0..Len(save.trace)
    BY <2>1, <2>3 DEF Min
  <2>5. mixed' \in BOOLEAN /\ screen' \in {"title", "playing"}
    BY <1>5 DEF EndLoad, TypeOK
  <2>6. <<>> \in Seq(Moment) /\ Len(<<>>) <= MaxRollbacks
    BY LimitsAssumption
  <2> QED BY <1>5, <2>1, <2>2, <2>4, <2>5, <2>6 DEF EndLoad, persisted, TypeOK, Traces
<1>6. CASE RefuseLoad
    BY <1>6 DEF RefuseLoad, session, engine, persisted, sharing, TypeOK
<1> QED BY <1>2, <1>3, <1>4, <1>5, <1>6 DEF Storage

\* So does a start of the program.
LEMMA RestartType ==
    ASSUME TypeOK, Restart
    PROVE  TypeOK'
<1>1. PICK r \in Releases : scripts' = r /\ now' = Initial(r)
  BY DEF Restart
<1>2. now' \in Moment /\ scripts' \in Releases
  BY <1>1, InitialType
<1>3. turns' \in 0..MaxTurns
  BY LimitsAssumption DEF Restart, Turn, TypeOK
<1>4. 0 \in 0..MaxSettle /\ <<>> \in Seq(Moment) /\ <<>> \in Seq(Entries)
      /\ Len(<<>>) <= MaxTrace /\ Len(<<>>) <= MaxRollbacks /\ 0 \in 0..Len(<<>>)
  BY LimitsAssumption
<1> QED BY <1>2, <1>3, <1>4 DEF Restart, persisted, pending, sharing, TypeOK, Traces

\* The initial states have the types.
LEMMA TypeInit ==
    ASSUME Init
    PROVE  TypeOK
<1>1. now \in Moment
    BY InitialType DEF Init
<1>2. 0 \in 0..MaxSettle /\ <<>> \in Seq(Moment) /\ <<>> \in Seq(Entries)
      /\ Len(<<>>) <= MaxTrace /\ Len(<<>>) <= MaxRollbacks /\ 0 \in 0..Len(<<>>)
      /\ 0 \in 0..MaxTurns
    BY LimitsAssumption
<1> QED BY <1>1, <1>2 DEF Init, TypeOK, Traces

\* Every step keeps the types.
LEMMA TypeStep ==
    ASSUME TypeOK, [Next]_vars
    PROVE  TypeOK'
<1>1. CASE UNCHANGED vars
    BY <1>1 DEF vars, session, engine, persisted, pending, sharing, TypeOK
<1> QED BY <1>1, SettleType, PlayerType, StorageType, RestartType DEF Next

\* Every variable keeps its type, and the rollback stack and the trace keep
\* their limits, whatever the release, the player and the saves.
THEOREM TypeCorrect == Spec => []TypeOK
<1>1. Init => TypeOK
    BY TypeInit
<1>2. TypeOK /\ [Next]_vars => TypeOK'
    BY TypeStep
<1> QED BY <1>1, <1>2, PTL DEF Spec

-----------------------------------------------------------------------------
(* Moments and call stacks *)

\* A moment that can be shown may change its variables and its status.
LEMMA ShownVars ==
    ASSUME NEW r, NEW m, NEW k, k.frag = m.frag, k.ip = m.ip, k.voice = m.voice,
           Shown(r, m)
    PROVE  Shown(r, k)
BY DEF Shown, At

\* A visible block is shown after settle() has prepared it.
LEMMA PrepareShown ==
    ASSUME scripts \in Releases, NEW m \in Moment, HasBlock(m),
           IsVisible(Current(m))
    PROVE  /\ Shown(scripts, Prepare(m, Current(m)))
           /\ Prepare(m, Current(m)).stack = m.stack
<1> DEFINE b == Current(m)
           k == Prepare(m, b)
<1>1. k.frag = m.frag /\ k.ip = m.ip /\ k.stack = m.stack
    BY DEF Prepare, Moment
<1>2. b = BlocksOf(scripts, m.frag)[m.ip]
    BY DEF Current
<1>3. m.ip <= Len(BlocksOf(scripts, m.frag))
    BY DEF HasBlock
<1>4. b.op = "line" => k.voice = IF b.voiced THEN At(m) ELSE Silent
    BY DEF Prepare, Moment
<1>5. At(k) = At(m)
    BY <1>1 DEF At
<1>6. b.op \in {"line", "branch"}
    BY DEF IsVisible
<1> HIDE DEF b, k
<1>7. Shown(scripts, k)
    BY <1>1, <1>2, <1>3, <1>4, <1>5, <1>6 DEF Shown
<1> QED BY <1>1, <1>7 DEF b, k

\* What the rest of the proof follows: every moment of the game, remembered or
\* current, can be shown unless settle() is at work or the game is over, and
\* has a good call stack.
MomentsInv ==
    /\ FramesFollowCalls
    /\ Presented
    /\ SaveInv

\* Settling keeps the moments good: it ends at a prepared block.
LEMMA MomentsSettle ==
    ASSUME TypeOK, MomentsInv, Settle
    PROVE  MomentsInv'
<1>1. scripts \in Releases /\ now \in Moment
    BY DEF TypeOK
<1>2. UNCHANGED <<scripts, mixed, save, saving>> /\ settling
    BY DEF Settle, session, persisted, pending, sharing
<1>3. UNCHANGED rollback
    BY DEF Settle, GiveUp, EndFragment, Present, ExecuteBlock
<1>4. SaveInv'
    BY <1>2 DEF MomentsInv, SaveInv, GoodSave
<1>5. ~mixed => /\ ~settling' /\ now'.status = "playing" => Shown(scripts, now')
                /\ GoodStack(scripts, now'.stack)
  <2> SUFFICES ASSUME ~mixed
               PROVE  /\ ~settling' /\ now'.status = "playing" => Shown(scripts, now')
                      /\ GoodStack(scripts, now'.stack)
    OBVIOUS
  <2>1. GoodStack(scripts, now.stack)
    BY DEF MomentsInv, FramesFollowCalls
  <2>2. CASE GiveUp
    <3>1. now'.status = "error" /\ now'.stack = now.stack
      BY <1>1, <2>2 DEF GiveUp, Moment
    <3> QED BY <2>1, <3>1
  <2>3. CASE EndFragment
    <3>1. CASE now.stack = <<>>
      <4>1. now'.status = "finished" /\ now'.stack = now.stack
        BY <1>1, <2>3, <3>1 DEF EndFragment, Moment
      <4> QED BY <2>1, <4>1
    <3>2. CASE now.stack # <<>>
      <4>1. settling' /\ now' = Leave(now)
        BY <1>2, <2>3, <3>2 DEF EndFragment
      <4>2. now'.stack = Pop(now.stack)
        BY <1>1, <3>2, <4>1, LeaveType
      <4>3. now.stack \in Seq(Place)
        BY <1>1 DEF Moment
      <4> QED BY <2>1, <3>2, <4>1, <4>2, <4>3, GoodPop
    <3> QED BY <3>1, <3>2
  <2>4. CASE Present
    BY <1>1, <2>1, <2>4, PrepareShown DEF Present
  <2>5. CASE ExecuteBlock
    <3>1. GoodStack(scripts, now'.stack)
      BY <1>1, <2>1, <2>5, ExecuteStack DEF ExecuteBlock
    <3>2. settling' = (now'.status = "playing")
      BY <2>5 DEF ExecuteBlock
    <3> QED BY <3>1, <3>2
  <2> QED BY <2>2, <2>3, <2>4, <2>5 DEF Settle
<1> QED BY <1>2, <1>3, <1>4, <1>5 DEF MomentsInv, Presented, FramesFollowCalls

\* A turn remembers a moment that can be shown, and a good call stack.
LEMMA MomentsRemember ==
    ASSUME TypeOK, MomentsInv, ~settling, ~mixed, Remember
    PROVE  \A i \in 1..Len(rollback') :
              /\ rollback'[i].status = "playing" => Shown(scripts, rollback'[i])
              /\ GoodStack(scripts, rollback'[i].stack)
<1>1. \A i \in 1..Len(rollback') :
         \/ rollback'[i] = now
         \/ \E j \in 1..Len(rollback) : rollback'[i] = rollback[j]
    BY RememberType DEF TypeOK
<1>2. /\ now.status = "playing" => Shown(scripts, now)
      /\ GoodStack(scripts, now.stack)
    BY DEF MomentsInv, Presented, FramesFollowCalls
<1>3. \A j \in 1..Len(rollback) :
         /\ rollback[j].status = "playing" => Shown(scripts, rollback[j])
         /\ GoodStack(scripts, rollback[j].stack)
    BY DEF MomentsInv, Presented, FramesFollowCalls
<1> QED BY <1>1, <1>2, <1>3

\* A new game, a retry and a start of the program forget the rollback stack.
LEMMA MomentsCreate ==
    ASSUME MomentsInv, settling', rollback' = <<>>, now'.stack = <<>>,
           UNCHANGED save, saving' \in {saving, Unset}
    PROVE  MomentsInv'
<1>1. \A r : GoodStack(r, <<>>)
    BY DEF GoodStack
<1> QED BY <1>1 DEF MomentsInv, Presented, FramesFollowCalls, SaveInv, GoodSave

\* So does what the player does.
LEMMA MomentsPlayer ==
    ASSUME TypeOK, MomentsInv, Player
    PROVE  MomentsInv'
<1>1. /\ scripts \in Releases /\ now \in Moment /\ rollback \in Seq(Moment)
      /\ save \in SaveGames \cup {Unset}
    BY DEF TypeOK
<1>2. ~mixed => /\ ~settling /\ now.status = "playing" => Shown(scripts, now)
                /\ GoodStack(scripts, now.stack)
                /\ \A i \in 1..Len(rollback) :
                      /\ rollback[i].status = "playing" => Shown(scripts, rollback[i])
                      /\ GoodStack(scripts, rollback[i].stack)
    BY DEF MomentsInv, Presented, FramesFollowCalls
<1>3. CASE AdvanceLine
  <2>1. UNCHANGED <<scripts, mixed, save, saving>> /\ ~settling /\ settling' /\ Remember
    BY <1>3 DEF AdvanceLine, Turn, persisted, pending, sharing
  <2>2. now'.stack = now.stack
    BY <1>1, <1>3 DEF AdvanceLine, Skip, Moment
  <2> QED BY <1>2, <2>1, <2>2, MomentsRemember
          DEF MomentsInv, Presented, FramesFollowCalls, SaveInv, GoodSave
<1>4. CASE AdvanceHidden
    BY <1>4 DEF AdvanceHidden, engine, persisted, pending, sharing,
                MomentsInv, Presented, FramesFollowCalls, SaveInv, GoodSave
<1>5. CASE Choose
  <2>1. PICK target \in Current(now).options :
           /\ Remember
           /\ now' = GoTo(now, target)
           /\ settling' = (target \in DOMAIN scripts)
    BY <1>5 DEF Choose
  <2>2. UNCHANGED <<scripts, mixed, save, saving>> /\ ~settling
    BY <1>5 DEF Choose, Turn, persisted, pending, sharing
  <2>3. now'.stack = now.stack /\ (~settling' => now'.status = "error")
    BY <1>1, <2>1 DEF GoTo, Moment
  <2> QED BY <1>2, <2>1, <2>2, <2>3, MomentsRemember
          DEF MomentsInv, Presented, FramesFollowCalls, SaveInv, GoodSave
<1>6. CASE Rollback
  <2>1. UNCHANGED <<scripts, mixed, save, saving>> /\ rollback # <<>>
    BY <1>6 DEF Rollback, persisted, pending, sharing
  <2>2. now' = RolledBack /\ rollback' = Pop(rollback)
    BY <1>6 DEF Rollback
  <2>3. /\ Top(rollback) \in Moment /\ Top(rollback) = rollback[Len(rollback)]
        /\ Len(rollback) \in 1..Len(rollback)
        /\ \A i \in 1..Len(Pop(rollback)) :
              i \in 1..Len(rollback) /\ Pop(rollback)[i] = rollback[i]
    BY <1>1, <2>1, RolledBackType
  <2>4. /\ now'.frag = Top(rollback).frag /\ now'.ip = Top(rollback).ip
        /\ now'.voice = Top(rollback).voice /\ now'.stack = Top(rollback).stack
        /\ now'.status = Top(rollback).status
    BY <2>2, <2>3 DEF RolledBack, Moment
  <2>5. ~mixed => /\ now'.status = "playing" => Shown(scripts, now')
                  /\ GoodStack(scripts, now'.stack)
    BY <1>2, <2>3, <2>4, ShownVars
  <2>6. ~mixed => \A i \in 1..Len(rollback') :
                     /\ rollback'[i].status = "playing" => Shown(scripts, rollback'[i])
                     /\ GoodStack(scripts, rollback'[i].stack)
    BY <1>2, <2>2, <2>3
  <2> QED BY <2>1, <2>5, <2>6 DEF MomentsInv, Presented, FramesFollowCalls, SaveInv, GoodSave
<1>7. CASE NewGame \/ RetryFragment
  <2>1. /\ settling' /\ rollback' = <<>> /\ UNCHANGED <<save, saving>>
        /\ \E frag : now' = [Initial(scripts) EXCEPT !.frag = frag]
    BY <1>7 DEF NewGame, RetryFragment, Create, persisted, pending, sharing
  <2>2. now'.stack = <<>>
    BY <2>1 DEF Initial
  <2> QED BY <2>1, <2>2, MomentsCreate
<1>8. CASE ReturnToTitle
    BY <1>8 DEF ReturnToTitle, engine, persisted, pending, sharing,
                MomentsInv, Presented, FramesFollowCalls, SaveInv, GoodSave
<1>9. CASE BeginSave
  <2>1. UNCHANGED <<scripts, mixed, settling, now, rollback, save>> /\ ~settling
    BY <1>9 DEF BeginSave, Turn, engine, persisted
  <2>2. saving'.of = scripts /\ saving'.mixed = mixed /\ saving'.now = now
    BY <1>9 DEF BeginSave
  <2>3. GoodSave(saving)'
    BY <1>2, <2>1, <2>2 DEF GoodSave
  <2>4. GoodSave(save)'
    BY <2>1 DEF MomentsInv, SaveInv, GoodSave
  <2> QED BY <2>1, <2>3, <2>4 DEF MomentsInv, Presented, FramesFollowCalls, SaveInv, GoodSave
<1>10. CASE BeginLoad
    BY <1>10 DEF BeginLoad, engine, persisted,
                 MomentsInv, Presented, FramesFollowCalls, SaveInv, GoodSave
<1> QED BY <1>3, <1>4, <1>5, <1>6, <1>7, <1>8, <1>9, <1>10 DEF Player

\* So do the storage's answers; a save of this release is a good moment of it.
LEMMA MomentsStorage ==
    ASSUME TypeOK, MomentsInv, Storage
    PROVE  MomentsInv'
<1>1. /\ scripts \in Releases /\ save \in SaveGames \cup {Unset}
      /\ loading # Unset => save # Unset
    BY DEF TypeOK
<1>2. CASE EndSave
  <2>1. UNCHANGED <<scripts, mixed, settling, now, rollback>> /\ saving' = Unset
        /\ save' \in {save, saving}
    BY <1>2 DEF EndSave, session, engine, persisted
  <2>2. GoodSave(save)' /\ GoodSave(saving)'
    BY <2>1 DEF MomentsInv, SaveInv, GoodSave
  <2> QED BY <2>1, <2>2 DEF MomentsInv, Presented, FramesFollowCalls, SaveInv, GoodSave
<1>3. CASE ReadShared
  <2>1. UNCHANGED <<scripts, mixed, settling, rollback, save, saving>>
    BY <1>3 DEF ReadShared, session, persisted, pending
  <2>2. now \in Moment
    BY DEF TypeOK
  <2>3. /\ now'.frag = now.frag /\ now'.ip = now.ip /\ now'.voice = now.voice
        /\ now'.stack = now.stack /\ now'.status = now.status
    BY <1>3, <2>2 DEF ReadShared, Moment
  <2>4. Shown(scripts, now) => Shown(scripts, now')
    BY <2>3, ShownVars
  <2> QED BY <2>1, <2>3, <2>4
          DEF MomentsInv, Presented, FramesFollowCalls, SaveInv, GoodSave
<1>4. CASE WriteShared
    BY <1>4 DEF WriteShared, session, engine, pending,
                MomentsInv, Presented, FramesFollowCalls, SaveInv, GoodSave
<1>5. CASE EndLoad
  <2>1. /\ UNCHANGED <<scripts, save, saving, settling>> /\ save # Unset
        /\ save.now.frag \in DOMAIN scripts
        /\ now' = Normalized(save.now) /\ rollback' = <<>>
        /\ mixed' = (save.mixed \/ save.of # scripts)
    BY <1>1, <1>5 DEF EndLoad, persisted
  <2>2. save.now \in Moment /\ save.mixed \in BOOLEAN
    BY <1>1, <2>1 DEF SaveGames
  <2>3. ~mixed' => /\ save.now.status = "playing" => Shown(scripts, save.now)
                   /\ GoodStack(scripts, save.now.stack)
    BY <2>1 DEF MomentsInv, SaveInv, GoodSave
  <2>4. /\ now'.frag = save.now.frag /\ now'.voice = save.now.voice
        /\ now'.status = save.now.status
        /\ now'.stack = KnownFrames(save.now.stack)
        /\ now'.ip = Min(save.now.ip, Len(scripts[save.now.frag]) + 1)
    BY <2>1, <2>2 DEF Normalized, Moment
  <2>5. ~mixed' /\ now'.status = "playing" => Shown(scripts, now')
    <3> SUFFICES ASSUME ~mixed', now'.status = "playing"
                 PROVE  Shown(scripts, now')
      OBVIOUS
    <3>1. Shown(scripts, save.now)
      BY <2>3, <2>4
    <3>2. save.now.ip <= Len(scripts[save.now.frag])
      BY <2>1, <3>1 DEF Shown, BlocksOf
    <3>3. scripts[save.now.frag] \in Seq(Block) /\ save.now.ip \in Nat
      BY <1>1, <2>1, <2>2, ReleasesAssumption DEF Moment
    <3>4. now'.ip = save.now.ip
      BY <2>4, <3>2, <3>3 DEF Min
    <3> QED BY <2>4, <3>1, <3>4, ShownVars
  <2>6. ~mixed' => GoodStack(scripts, now'.stack)
    <3>1. \A k \in 1..Len(now'.stack) :
             \E i \in 1..Len(save.now.stack) : now'.stack[k] = save.now.stack[i]
      <4>1. save.now.stack \in Seq(Place)
        BY <2>2 DEF Moment
      <4> QED BY <2>4, <4>1, KnownFramesType
    <3> QED BY <2>3, <3>1 DEF GoodStack
  <2>7. \A i \in 1..Len(rollback') : FALSE
    BY <2>1
  <2>8. GoodSave(save)' /\ GoodSave(saving)'
    BY <2>1 DEF MomentsInv, SaveInv, GoodSave
  <2> QED BY <2>5, <2>6, <2>7, <2>8, <2>1
          DEF MomentsInv, Presented, FramesFollowCalls, SaveInv, GoodSave
<1>6. CASE RefuseLoad
    BY <1>6 DEF RefuseLoad, session, engine, persisted,
                MomentsInv, Presented, FramesFollowCalls, SaveInv, GoodSave
<1> QED BY <1>2, <1>3, <1>4, <1>5, <1>6 DEF Storage

\* So does a start in any release.
LEMMA MomentsRestart ==
    ASSUME TypeOK, MomentsInv, Restart
    PROVE  MomentsInv'
<1>1. /\ settling' /\ rollback' = <<>> /\ UNCHANGED save /\ saving' = Unset
      /\ \E r : now' = Initial(r)
    BY DEF Restart, persisted
<1>2. now'.stack = <<>>
    BY <1>1 DEF Initial
<1> QED BY <1>1, <1>2, MomentsCreate

\* The first moment of a game is good.
LEMMA MomentsInit ==
    ASSUME Init
    PROVE  MomentsInv
<1>1. now.stack = <<>> /\ rollback = <<>> /\ settling
      /\ save = Unset /\ saving = Unset
    BY DEF Init, Initial
<1>2. GoodStack(scripts, <<>>)
    BY DEF GoodStack
<1> QED BY <1>1, <1>2 DEF MomentsInv, Presented, FramesFollowCalls, SaveInv, GoodSave

\* All moments the program keeps are good.
LEMMA MomentsCorrect == Spec => []MomentsInv
<1>1. Init => MomentsInv
    BY MomentsInit
<1>2. TypeOK /\ MomentsInv /\ [Next]_vars => MomentsInv'
  <2>1. ASSUME TypeOK, MomentsInv, UNCHANGED vars
        PROVE  MomentsInv'
    BY <2>1 DEF vars, session, engine, persisted, pending, sharing,
                MomentsInv, Presented, FramesFollowCalls, SaveInv, GoodSave
  <2> QED BY <2>1, MomentsSettle, MomentsPlayer, MomentsStorage, MomentsRestart
      DEF Next
<1> QED BY <1>1, <1>2, TypeCorrect, PTL DEF Spec

\* A game that goes on stands at a line or a branch as settle() prepares it,
\* also after any number of turns, rollbacks, saves, loads and restarts, for
\* every story and every limit.
THEOREM PlayerSeesPrepared == Spec => []Presented
<1>1. MomentsInv => Presented
    BY DEF MomentsInv
<1> QED BY <1>1, MomentsCorrect, PTL

\* Every frame of a call stack returns behind a call of its story.
THEOREM ReturnsBehindCalls == Spec => []FramesFollowCalls
<1>1. MomentsInv => FramesFollowCalls
    BY DEF MomentsInv
<1> QED BY <1>1, MomentsCorrect, PTL

-----------------------------------------------------------------------------
(* The cursor of the trace *)

\* The cursor c marks the moment m in the trace t, or nothing does.
Marks(m, t, c) ==
    \/ c \in 1..Len(t) /\ At(t[c].snap) = At(m)
    \/ \A i \in 1..Len(t) : At(t[i].snap) # At(m)

\* A save keeps its own trace and cursor, from which a load goes on.
MarkedSave(s) ==
    s # Unset /\ ~s.mixed /\ s.now.status = "playing" =>
        Marks(s.now, s.trace, s.cursor)
MarkedSaves == MarkedSave(save) /\ MarkedSave(saving)
CursorInv ==
    /\ ~mixed /\ ~settling /\ now.status = "playing" => Marks(now, trace, cursor)
    /\ MarkedSaves

\* The block that settle() presents is the last entry of the trace.
LEMMA MarksPresent ==
    ASSUME TypeOK, Present
    PROVE  Marks(now', trace', cursor')
<1> DEFINE e == [frag |-> now.frag, ip |-> now.ip, snap |-> now']
           t == Append(SubSeq(trace, 1, cursor), e)
<1>1. trace \in Seq(Entries) /\ cursor \in 0..Len(trace) /\ now \in Moment
      /\ scripts \in Releases
    BY DEF TypeOK, Traces
<1>2. now' \in Moment
    BY <1>1, PrepareType, CurrentType DEF Present
<1>3. e \in Entries
    BY <1>1, <1>2 DEF Entries, Moment
<1>4. SubSeq(trace, 1, cursor) \in Seq(Entries)
    BY <1>1
<1>5. t \in Seq(Entries) /\ Len(t) \in Nat \ {0} /\ t[Len(t)] = e
    BY <1>3, <1>4
<1>6. trace' = LastN(t, MaxTrace) /\ cursor' = Len(trace')
    BY DEF Present, AppendTrace
<1> HIDE DEF e, t
<1>7. LastN(t, MaxTrace) \in Seq(Entries) /\ Len(LastN(t, MaxTrace)) \in Nat \ {0}
      /\ LastN(t, MaxTrace)[Len(LastN(t, MaxTrace))] = e
  <2>1. CASE Len(t) <= MaxTrace
    BY <1>5, <2>1 DEF LastN
  <2>2. CASE ~(Len(t) <= MaxTrace)
    <3> DEFINE k == Len(t) - MaxTrace + 1
    <3>1. k \in 1..Len(t) /\ MaxTrace \in Nat \ {0} /\ Len(t) - k + 1 = MaxTrace
      BY <1>5, <2>2, LimitsAssumption
    <3>2. LastN(t, MaxTrace) = SubSeq(t, k, Len(t))
      BY <2>2 DEF LastN
    <3> HIDE DEF k
    <3>3. \A i \in k..Len(t) : t[i] \in Entries
      BY <1>5, <3>1
    <3>4. /\ SubSeq(t, k, Len(t)) \in Seq(Entries)
          /\ Len(SubSeq(t, k, Len(t))) = IF k <= Len(t) THEN Len(t) - k + 1 ELSE 0
          /\ \A i \in 1..(Len(t) - k + 1) : SubSeq(t, k, Len(t))[i] = t[k + i - 1]
      BY <1>5, <3>1, <3>3, SubSeqProperties
    <3>5. Len(SubSeq(t, k, Len(t))) = MaxTrace /\ k + MaxTrace - 1 = Len(t)
      BY <1>5, <3>1, <3>4
    <3>6. SubSeq(t, k, Len(t))[MaxTrace] = t[k + MaxTrace - 1]
      BY <3>1, <3>4
    <3> QED BY <1>5, <3>1, <3>2, <3>4, <3>5, <3>6
  <2> QED BY <2>1, <2>2
<1>8. cursor' \in 1..Len(trace') /\ trace'[cursor'] = e
    BY <1>6, <1>7
<1>9. At(trace'[cursor'].snap) = At(now')
    BY <1>8 DEF e
<1> QED BY <1>8, <1>9 DEF Marks

\* A rollback puts the cursor at the last entry of the moment it restores.
LEMMA MarksRollback ==
    ASSUME TypeOK, Rollback
    PROVE  Marks(now', trace', cursor')
<1>1. trace \in Seq(Entries) /\ cursor \in 0..Len(trace)
      /\ rollback \in Seq(Moment) /\ now \in Moment
    BY DEF TypeOK, Traces
<1>2. Top(rollback) \in Moment /\ now' = RolledBack
    BY <1>1, RolledBackType DEF Rollback
<1>3. At(now') = At(Top(rollback))
    BY <1>2 DEF RolledBack, Moment, At
<1> DEFINE m == Top(rollback)
           matches == {i \in 1..Len(trace) : At(trace[i].snap) = At(m)}
           c == CursorFor(m)
<1>4. cursor' = c /\ trace' = SubSeq(trace, 1, c)
    BY DEF Rollback
<1>5. c \in 0..Len(trace)
      /\ (matches # {} => c \in matches)
  <2>1. CASE matches # {}
    <3>a. Len(trace) \in Nat /\ matches \subseteq 1..Len(trace)
      BY <1>1
    <3>1. PICK i \in matches : \A j \in matches : j <= i
      <4> HIDE DEF matches
      <4> QED BY <2>1, <3>a, GreatestExists
    <3>2. c \in matches
      BY <2>1, <3>1 DEF CursorFor
    <3> QED BY <3>2
  <2>2. CASE matches = {}
    BY <1>1, <2>2 DEF CursorFor
  <2> QED BY <2>1, <2>2
<1> HIDE DEF c
<1>6. /\ Len(trace') = c
      /\ \A i \in 1..c : trace'[i] = trace[i]
    BY <1>1, <1>4, <1>5
<1>7. CASE matches # {}
  <2>1. c \in 1..Len(trace') /\ At(trace'[c].snap) = At(m)
    BY <1>5, <1>6, <1>7
  <2> QED BY <1>3, <1>4, <2>1 DEF Marks
<1>8. CASE matches = {}
  <2>1. \A i \in 1..Len(trace') : At(trace'[i].snap) # At(m)
    BY <1>5, <1>6, <1>8
  <2> QED BY <1>3, <2>1 DEF Marks
<1> QED BY <1>7, <1>8

\* A load of a good save goes on where its cursor is.
LEMMA MarksLoad ==
    ASSUME TypeOK, MomentsInv, CursorInv, EndLoad, ~mixed',
           now'.status = "playing"
    PROVE  Marks(now', trace', cursor')
<1>1. /\ scripts \in Releases /\ save \in SaveGames
      /\ save.now.frag \in DOMAIN scripts /\ now' = Normalized(save.now)
      /\ trace' = save.trace /\ cursor' = Min(save.cursor, Len(save.trace))
      /\ ~save.mixed /\ save.of = scripts /\ save # Unset
    BY DEF TypeOK, EndLoad
<1>2. save.now \in Moment /\ save.trace \in Seq(Entries) /\ save.cursor \in Nat
    BY <1>1 DEF SaveGames, Traces
<1>3. /\ now'.frag = save.now.frag /\ now'.status = save.now.status
      /\ now'.ip = Min(save.now.ip, Len(scripts[save.now.frag]) + 1)
    BY <1>1, <1>2 DEF Normalized, Moment
<1>4. At(now') = At(save.now)
  <2>1. Shown(scripts, save.now)
    BY <1>1, <1>3 DEF MomentsInv, SaveInv, GoodSave
  <2>2. save.now.ip <= Len(scripts[save.now.frag])
    BY <1>1, <2>1 DEF Shown, BlocksOf
  <2>3. scripts[save.now.frag] \in Seq(Block) /\ save.now.ip \in Nat
    BY <1>1, <1>2, ReleasesAssumption DEF Moment
  <2>4. now'.ip = save.now.ip
    BY <1>3, <2>2, <2>3 DEF Min
  <2> QED BY <1>3, <2>4 DEF At
<1>5. Marks(save.now, save.trace, save.cursor)
    BY <1>1, <1>3 DEF CursorInv, MarkedSaves, MarkedSave
<1>6. save.cursor \in 1..Len(save.trace) => cursor' = save.cursor
    BY <1>1, <1>2 DEF Min
<1> QED BY <1>1, <1>4, <1>5, <1>6 DEF Marks

\* Every other step leaves the game, and the trace with it, where it is; or
\* settle() is still at work, or the game is over.
LEMMA MarksStep ==
    ASSUME TypeOK, MomentsInv, CursorInv, [Next]_vars
    PROVE  CursorInv'
<1> DEFINE Goes == ~mixed /\ ~settling /\ now.status = "playing"
<1>a. now \in Moment
    BY DEF TypeOK
<1>1. CASE UNCHANGED vars
    BY <1>1 DEF vars, session, engine, persisted, CursorInv, MarkedSaves,
                MarkedSave, pending
<1>2. CASE Settle
  <2>1. UNCHANGED <<mixed, save, saving>>
    BY <1>2 DEF Settle, session, persisted, pending
  <2>2. CASE Present
    BY <2>1, <2>2, MarksPresent DEF CursorInv, MarkedSaves, MarkedSave
  <2>3. CASE GiveUp \/ EndFragment \/ ExecuteBlock
    <3>1. settling' \/ now'.status # "playing"
      BY <1>2, <1>a, <2>3 DEF Settle, GiveUp, EndFragment, ExecuteBlock, Moment
    <3> QED BY <2>1, <3>1 DEF CursorInv, MarkedSaves, MarkedSave
  <2> QED BY <1>2, <2>2, <2>3 DEF Settle
<1>3. CASE AdvanceLine \/ AdvanceHidden \/ NewGame \/ RetryFragment
  <2>1. settling' /\ UNCHANGED <<save, saving>>
    BY <1>3 DEF AdvanceLine, AdvanceHidden, NewGame, RetryFragment, Create,
                persisted, pending
  <2> QED BY <2>1 DEF CursorInv, MarkedSaves, MarkedSave
<1>4. CASE Choose
  <2>1. UNCHANGED <<save, saving>>
    BY <1>4 DEF Choose, persisted, pending
  <2>2. settling' \/ now'.status # "playing"
    BY <1>4, <1>a DEF Choose, GoTo, Moment
  <2> QED BY <2>1, <2>2 DEF CursorInv, MarkedSaves, MarkedSave
<1>5. CASE Rollback
  <2>1. UNCHANGED <<save, saving>>
    BY <1>5 DEF Rollback, persisted, pending
  <2> QED BY <1>5, <2>1, MarksRollback DEF CursorInv, MarkedSaves, MarkedSave
<1>6. CASE ReturnToTitle \/ BeginLoad \/ RefuseLoad \/ WriteShared
  <2>1. UNCHANGED <<mixed, settling, now, trace, cursor, save, saving>>
    BY <1>6 DEF ReturnToTitle, BeginLoad, RefuseLoad, WriteShared, session,
                engine, persisted, pending
  <2> QED BY <2>1 DEF CursorInv, MarkedSaves, MarkedSave
<1>7. CASE BeginSave
  <2>1. UNCHANGED <<mixed, settling, now, trace, cursor, save>> /\ ~settling
    BY <1>7 DEF BeginSave, Turn, engine, persisted
  <2>2. /\ saving'.mixed = mixed /\ saving'.now = now
        /\ saving'.trace = trace /\ saving'.cursor = cursor
    BY <1>7 DEF BeginSave
  <2>3. MarkedSave(saving)'
    BY <2>1, <2>2 DEF CursorInv, MarkedSave
  <2> QED BY <2>1, <2>3 DEF CursorInv, MarkedSaves, MarkedSave
<1>8. CASE EndSave
  <2>1. UNCHANGED <<mixed, settling, now, trace, cursor>> /\ saving' = Unset
        /\ save' \in {save, saving}
    BY <1>8 DEF EndSave, session, engine, persisted
  <2>2. MarkedSave(save)' /\ MarkedSave(saving)'
    BY <2>1 DEF CursorInv, MarkedSaves, MarkedSave
  <2> QED BY <2>1, <2>2 DEF CursorInv, MarkedSaves
<1>9. CASE EndLoad
  <2>1. UNCHANGED <<save, saving>>
    BY <1>9 DEF EndLoad, persisted
  <2> QED BY <1>9, <2>1, MarksLoad DEF CursorInv, MarkedSaves, MarkedSave
<1>10. CASE ReadShared
  <2>1. UNCHANGED <<mixed, settling, trace, cursor, save, saving>>
    BY <1>10 DEF ReadShared, session, persisted, pending
  <2>2. At(now') = At(now) /\ now'.status = now.status
    BY <1>10, <1>a DEF ReadShared, Moment, At
  <2> QED BY <2>1, <2>2 DEF CursorInv, MarkedSaves, MarkedSave, Marks
<1>11. CASE Restart
  <2>1. settling' /\ UNCHANGED save /\ saving' = Unset
    BY <1>11 DEF Restart, persisted
  <2> QED BY <2>1 DEF CursorInv, MarkedSaves, MarkedSave
<1> QED BY <1>1, <1>2, <1>3, <1>4, <1>5, <1>6, <1>7, <1>8, <1>9, <1>10, <1>11
    DEF Next, Player, Storage

\* The entry at the cursor is where the game stands, after any number of turns,
\* rollbacks and loads, for every story and every length of the trace.
THEOREM CursorIsAtGame == Spec => []CursorAtMoment
<1>1. Init => CursorInv
    BY DEF Init, CursorInv, MarkedSaves, MarkedSave
<1>2. CursorInv => CursorAtMoment
    BY DEF CursorInv, CursorAtMoment, Marks
<1> QED BY <1>1, <1>2, MarksStep, TypeCorrect, MomentsCorrect, PTL DEF Spec

=============================================================================
