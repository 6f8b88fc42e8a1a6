------------------------ MODULE CommandHistoryProofs ------------------------
(***************************************************************************)
(* Theorems of CommandHistory, for any limit of the stacks and any number  *)
(* of contents, saves and events: what its variables hold, that undo and    *)
(* redo walk a line of contents (it implements UndoLine), that a category   *)
(* is marked as undone exactly while it is, that the file catches up with   *)
(* the page, and that the operations of a plan land once.                  *)
(*                                                                         *)
(* The commands to undo and those to redo are seen as one line, which Undo  *)
(* and Redo leave alone but for the marks.  Every history that may come     *)
(* back, from the page, the queue or the file, is sound in the same sense.  *)
(***************************************************************************)
EXTENDS CommandHistory, ListsProofs

\* A content with the operations of the plan has changed what the plan is about.
Content == {v \in [n : Nat, scope : Nat, ops : BOOLEAN] : v.ops => v.scope >= 1}
CommandRecord == [id : Nat, before : Content, after : Content, pinned : BOOLEAN,
                  agents : BOOLEAN, undone : BOOLEAN, effect : Nat]
Stacks == [undo : Seq(CommandRecord), redo : Seq(CommandRecord), archive : Seq(CommandRecord)]

\* Identifiers are used up to m, but for r, which a plan under way is given.
Numbered(s, m, r) ==
    \A x \in Elements(s) :
        /\ x.id \in 1 .. m /\ x.id # r
        /\ x.effect \in 0 .. m /\ (x.effect = 0 \/ x.effect # r)

\* No command is there twice.
Different(s) == \A i, j \in 1 .. Len(s) : s[i].id = s[j].id => i = j
Apart(s, t) == \A x \in Elements(s), y \in Elements(t) : x.id # y.id
Distinct(h) ==
    /\ Different(h.undo) /\ Different(h.redo) /\ Different(h.archive)
    /\ Apart(h.undo, h.redo) /\ Apart(h.undo, h.archive) /\ Apart(h.redo, h.archive)

\* A stack is within the limit, or pins made it longer.
Bounded(s) == Len(s) <= Limit \/ \A i \in 1 .. Len(s) : s[i].pinned

Size(h) == Len(h.undo) + Len(h.redo)
Held(h, m, r) ==
    /\ h \in Stacks
    /\ Numbered(h.undo, m, r) /\ Numbered(h.redo, m, r) /\ Numbered(h.archive, m, r)
    /\ Distinct(h)
    /\ Size(h) <= Limit /\ Bounded(h.archive)

\* The line of commands: those to undo, then those to redo, the next one first.
On(h, i) == IF i <= Len(h.undo) THEN h.undo[i] ELSE h.redo[Size(h) + 1 - i]

\* A command that undid a category comes after its source and is the only one,
\* and the source is marked as long as the command is applied.
Ordered(h) ==
    /\ \A i, j \in 1 .. Size(h) : On(h, j).effect = On(h, i).id => i < j
    /\ \A i, j \in 1 .. Size(h) :
        On(h, i).effect # 0 /\ On(h, i).effect = On(h, j).effect => i = j
MarksHold(h) ==
    \A i \in 1 .. Size(h) :
        On(h, i).undone <=>
            (i <= Len(h.undo) /\ \E j \in 1 .. Len(h.undo) : On(h, j).effect = On(h, i).id)

Lined(h) == Ordered(h) /\ MarksHold(h)

Sound(h, m, r, t) == Held(h, m, r) /\ (t \/ Lined(h))

Reserved(a) == IF a.at \in {"mark", "answer"} THEN a.project.n ELSE 0
Agent == [at : {"idle", "save", "apply", "mark", "answer"}, project : Content]

SoundNow(h) == Sound(h, made, Reserved(agent), torn)

\* The history of the page is the last one on its way to the file, or it is there.
Caught ==
    /\ queue # <<>> => Last(queue) = stacks
    /\ queue = <<>> /\ ~failed /\ AcceptedHistory(stacks) => kept = stacks

Values ==
    /\ value \in Content /\ file \in Content
    /\ agent \in Agent
    /\ agent.at \in {"mark", "answer"} => agent.project.n \in 1 .. made
    /\ made \in Nat
    /\ applied \in {"no", "memory", "file"}
    /\ torn \in BOOLEAN

Waiting ==
    /\ queue \in Seq(Stacks) /\ Len(queue) <= MaxQueue
    /\ \A i \in 1 .. Len(queue) : SoundNow(queue[i])

HistoryInv ==
    /\ Values /\ Waiting /\ Caught
    /\ SoundNow(stacks)
    /\ SoundNow(kept) /\ AcceptedHistory(kept)
    /\ torn \/ Fits(stacks, value)

-----------------------------------------------------------------------------
(* Sequences of commands *)

\* The whole of a sequence but its first element is picked from its tail.
LEMMA PickedTail ==
    ASSUME NEW S, NEW s \in Seq(S), s # <<>>
    PROVE  Picked(s, 2 .. Len(s)) = Tail(s)
<1> DEFINE n == Len(s)
           P == 2 .. n
           Nth(k) == CHOOSE i \in P : Cardinality({j \in P : j <= i}) = k
<1>1. n \in Nat /\ n >= 1
  BY LenProperties, EmptySeq
<1>2. Tail(s) \in Seq(S) /\ Len(Tail(s)) = n - 1 /\ \A i \in 1 .. n - 1 : Tail(s)[i] = s[i + 1]
  BY HeadTailProperties
<1> HIDE DEF n
<1>3. \A i \in P : Cardinality({j \in P : j <= i}) = i - 1
  <2> TAKE i \in P
  <2>1. {j \in P : j <= i} = 2 .. i
    BY <1>1
  <2>2. Cardinality(2 .. i) = i - 1
    <3> DEFINE t == 2
    <3>1. t \in Int /\ i \in Int
      BY <1>1
    <3> HIDE DEF t
    <3>2. Cardinality(t .. i) = IF t > i THEN 0 ELSE i - t + 1
      BY <3>1, FS_Interval
    <3> QED BY <3>1, <3>2 DEF t
  <2> QED BY <2>1, <2>2
<1>4. Cardinality(P) = n - 1
  <2> DEFINE t == 2
  <2>1. t \in Int /\ n \in Int
    BY <1>1
  <2> HIDE DEF t
  <2>2. Cardinality(t .. n) = IF t > n THEN 0 ELSE n - t + 1
    BY <2>1, FS_Interval
  <2> QED BY <2>1, <2>2, <1>1 DEF t
<1>5. \A k \in 1 .. n - 1 : Nth(k) = k + 1
  <2> TAKE k \in 1 .. n - 1
  <2> DEFINE R(i) == Cardinality({j \in P : j <= i})
  <2>1. k + 1 \in P /\ R(k + 1) = k
    <3>1. k + 1 \in P /\ (k + 1) - 1 = k
      BY <1>1
    <3> QED BY <3>1, <1>3
  <2>2. \A i \in P : R(i) = i - 1 /\ i \in Int
    BY <1>1, <1>3
  <2> HIDE DEF R
  <2>3. \E i \in P : R(i) = k
    BY <2>1
  <2>4. \A i \in P : R(i) = k => i = k + 1
    BY <2>2, <1>1
  <2> HIDE DEF P
  <2>5. (CHOOSE i \in P : R(i) = k) = k + 1
    BY <2>3, <2>4
  <2> QED BY <2>5 DEF R
<1>6. Picked(s, P) = [k \in 1 .. Cardinality(P) |-> s[Nth(k)]]
  BY DEF Picked
<1> HIDE DEF P, Nth
<1>7. Picked(s, P) = [k \in 1 .. n - 1 |-> s[k + 1]]
  BY <1>4, <1>5, <1>6
<1> DEFINE f == [k \in 1 .. n - 1 |-> s[k + 1]]
<1>8. f \in Seq(S) /\ Len(f) = n - 1 /\ \A k \in 1 .. n - 1 : f[k] = s[k + 1]
  <2>1. \A k \in 1 .. n - 1 : k + 1 \in 1 .. n
    BY <1>1
  <2>2. \A k \in 1 .. n - 1 : s[k + 1] \in S
    BY <2>1 DEF n
  <2>3. n - 1 \in Nat
    BY <1>1
  <2> QED BY <2>2, <2>3
<1> HIDE DEF f
<1>9. f = Tail(s)
  BY <1>2, <1>8, SeqEqual
<1> QED BY <1>7, <1>9 DEF f, P, n

PinnedAt(s) == {i \in 1 .. Len(s) : s[i].pinned}
LooseFrom(s, i) == {j \in i .. Len(s) : ~s[j].pinned}
KeptAt(s) == {i \in 1 .. Len(s) :
    s[i].pinned \/ Cardinality(PinnedAt(s)) + Cardinality(LooseFrom(s, i)) <= Limit}

LEMMA TrimIs ==
    ASSUME NEW s
    PROVE  TrimHistory(s) = IF Len(s) <= Limit THEN s ELSE Picked(s, KeptAt(s))
BY DEF TrimHistory, Trim, KeptAt, PinnedAt, LooseFrom

\* Different commands are different elements, and a part of them is.
LEMMA DifferentPart ==
    ASSUME NEW s \in Seq(CommandRecord), NEW P, P \subseteq 1 .. Len(s)
    PROVE  /\ Picked(s, P) \in Seq(CommandRecord)
           /\ Elements(Picked(s, P)) \subseteq Elements(s)
           /\ Len(Picked(s, P)) <= Len(s)
           /\ Different(s) => Different(Picked(s, P))
<1> DEFINE t == Picked(s, P)
<1>1. /\ t \in Seq(CommandRecord) /\ Len(t) <= Len(s)
      /\ Elements(t) = {s[i] : i \in P}
      /\ IsInjective(s) => IsInjective(t)
  BY PickedElements
<1> HIDE DEF t
<1>2. Elements(t) \subseteq Elements(s)
  BY <1>1 DEF Elements
<1>3. ASSUME Different(s) PROVE Different(t)
  <2>1. DOMAIN s = 1 .. Len(s) /\ DOMAIN t = 1 .. Len(t)
    BY <1>1
  <2>2. IsInjective(s)
    BY <1>3, <2>1 DEF Different, IsInjective
  <2>3. IsInjective(t)
    BY <2>2, <1>1
  <2> SUFFICES ASSUME NEW i \in 1 .. Len(t), NEW j \in 1 .. Len(t), t[i].id = t[j].id
               PROVE  i = j
    BY DEF Different
  <2>4. \E a \in 1 .. Len(s) : t[i] = s[a]
    BY <1>2 DEF Elements
  <2>5. \E b \in 1 .. Len(s) : t[j] = s[b]
    BY <1>2 DEF Elements
  <2>6. PICK a \in 1 .. Len(s) : t[i] = s[a]
    BY <2>4
  <2>7. PICK b \in 1 .. Len(s) : t[j] = s[b]
    BY <2>5
  <2>8. a = b
    BY <2>6, <2>7, <1>3 DEF Different
  <2>9. t[i] = t[j]
    BY <2>6, <2>7, <2>8
  <2> QED BY <2>9, <2>3, <2>1 DEF IsInjective
<1> QED BY <1>1, <1>2, <1>3 DEF t

\* So are the commands that a limit leaves, and those that are pinned.
LEMMA TrimPart ==
    ASSUME NEW s \in Seq(CommandRecord)
    PROVE  /\ TrimHistory(s) \in Seq(CommandRecord)
           /\ Elements(TrimHistory(s)) \subseteq Elements(s)
           /\ Len(TrimHistory(s)) <= Len(s)
           /\ Different(s) => Different(TrimHistory(s))
<1>1. KeptAt(s) \subseteq 1 .. Len(s)
  BY DEF KeptAt
<1>2. CASE Len(s) <= Limit
  <2>1. TrimHistory(s) = s
    BY <1>2, TrimIs
  <2>2. Len(s) \in Nat
    BY LenProperties
  <2> QED BY <2>1, <2>2
<1>3. CASE ~(Len(s) <= Limit)
  <2>1. TrimHistory(s) = Picked(s, KeptAt(s))
    BY <1>3, TrimIs
  <2> QED BY <2>1, <1>1, DifferentPart
<1> QED BY <1>2, <1>3

LEMMA PinnedPart ==
    ASSUME NEW s \in Seq(CommandRecord)
    PROVE  /\ Pinned(s) \in Seq(CommandRecord)
           /\ Elements(Pinned(s)) \subseteq Elements(s)
           /\ Different(s) => Different(Pinned(s))
<1> DEFINE P == {i \in 1 .. Len(s) : s[i].pinned}
<1>1. P \subseteq 1 .. Len(s) /\ Pinned(s) = Picked(s, P)
  BY DEF Pinned
<1> HIDE DEF P
<1> QED BY <1>1, DifferentPart

\* The pinned and the others are all.
LEMMA PinnedAndLoose ==
    ASSUME NEW s \in Seq(CommandRecord)
    PROVE  /\ PinnedAt(s) \subseteq 1 .. Len(s)
           /\ IsFiniteSet(PinnedAt(s)) /\ Cardinality(PinnedAt(s)) \in Nat
           /\ \A i \in 1 .. Len(s) : /\ LooseFrom(s, i) \subseteq 1 .. Len(s)
                                      /\ IsFiniteSet(LooseFrom(s, i))
                                      /\ Cardinality(LooseFrom(s, i)) \in Nat
           /\ \A i \in 1 .. Len(s) : (\A j \in 1 .. Len(s) : ~s[j].pinned => i <= j) =>
                Cardinality(PinnedAt(s)) + Cardinality(LooseFrom(s, i)) = Len(s)
<1>1. Len(s) \in Nat
  BY LenProperties
<1>2. IsFiniteSet(1 .. Len(s)) /\ Cardinality(1 .. Len(s)) = Len(s)
  BY <1>1, FS_Interval
<1>3. PinnedAt(s) \subseteq 1 .. Len(s)
  BY DEF PinnedAt
<1>4. \A i \in 1 .. Len(s) : LooseFrom(s, i) \subseteq 1 .. Len(s)
  BY <1>1 DEF LooseFrom
<1>5. IsFiniteSet(PinnedAt(s)) /\ Cardinality(PinnedAt(s)) \in Nat
  BY <1>2, <1>3, FS_Subset, FS_CardinalityType
<1>6. \A i \in 1 .. Len(s) : IsFiniteSet(LooseFrom(s, i)) /\ Cardinality(LooseFrom(s, i)) \in Nat
  BY <1>2, <1>4, FS_Subset, FS_CardinalityType
<1>7. ASSUME NEW i \in 1 .. Len(s), \A j \in 1 .. Len(s) : ~s[j].pinned => i <= j
      PROVE  Cardinality(PinnedAt(s)) + Cardinality(LooseFrom(s, i)) = Len(s)
  <2>1. PinnedAt(s) \cap LooseFrom(s, i) = {}
    BY DEF PinnedAt, LooseFrom
  <2>2. PinnedAt(s) \cup LooseFrom(s, i) = 1 .. Len(s)
    <3>1. \A j \in 1 .. Len(s) : ~s[j].pinned => j \in i .. Len(s)
      BY <1>1, <1>7
    <3>2. \A j \in 1 .. Len(s) : j \in PinnedAt(s) \/ j \in LooseFrom(s, i)
      BY <3>1 DEF PinnedAt, LooseFrom
    <3> QED BY <3>2, <1>3, <1>4
  <2>3. Cardinality({}) = 0
    BY FS_EmptySet
  <2> DEFINE a == PinnedAt(s)  b == LooseFrom(s, i)  c == 1 .. Len(s)
  <2>4. /\ IsFiniteSet(a) /\ IsFiniteSet(b) /\ a \cap b = {} /\ a \cup b = c
        /\ Cardinality(a) \in Nat /\ Cardinality(b) \in Nat /\ Cardinality(c) = Len(s)
    BY <2>1, <2>2, <1>2, <1>5, <1>6
  <2> HIDE DEF a, b, c
  <2>5. Cardinality(a \cup b) = Cardinality(a) + Cardinality(b) - Cardinality(a \cap b)
    BY <2>4, FS_Union
  <2>7. Cardinality(a \cap b) = 0 /\ Cardinality(a \cup b) = Len(s)
    BY <2>3, <2>4
  <2>6. Cardinality(a) + Cardinality(b) = Len(s)
    BY <2>4, <2>5, <2>7
  <2> QED BY <2>6 DEF a, b
<1> QED BY <1>3, <1>4, <1>5, <1>6, <1>7

\* A limit leaves no more than itself, but for what is pinned.
LEMMA TrimBounded ==
    ASSUME NEW s \in Seq(CommandRecord)
    PROVE  Bounded(TrimHistory(s))
<1>0. Len(s) \in Nat /\ Limit \in Nat
  BY LenProperties, HistoryAssumption
<1>1. CASE Len(s) <= Limit
  BY <1>1, TrimIs DEF Bounded
<1>2. CASE ~(Len(s) <= Limit)
  <2> DEFINE K == KeptAt(s)  t == TrimHistory(s)  p == Cardinality(PinnedAt(s))
             L == {i \in 1 .. Len(s) : ~s[i].pinned /\ p + Cardinality(LooseFrom(s, i)) <= Limit}
  <2>1. t = Picked(s, K) /\ K \subseteq 1 .. Len(s)
    BY <1>2, TrimIs DEF KeptAt
  <2>2. /\ t \in Seq(CommandRecord) /\ Len(t) = Cardinality(K)
        /\ Elements(t) = {s[i] : i \in K}
    <3> HIDE DEF K, t
    <3> QED BY <2>1, PickedElements
  <2>3. K = PinnedAt(s) \cup L
    BY DEF KeptAt, PinnedAt
  <2>4. PinnedAt(s) \subseteq 1 .. Len(s) /\ IsFiniteSet(PinnedAt(s)) /\ p \in Nat
        /\ \A i \in 1 .. Len(s) : /\ LooseFrom(s, i) \subseteq 1 .. Len(s)
                                   /\ IsFiniteSet(LooseFrom(s, i))
                                   /\ Cardinality(LooseFrom(s, i)) \in Nat
    BY PinnedAndLoose
  <2>5. CASE L = {}
    <3>1. \A i \in K : s[i].pinned
      BY <2>3, <2>5 DEF PinnedAt
    <3>2. \A x \in Elements(t) : x.pinned
      BY <3>1, <2>2
    <3>3. \A k \in 1 .. Len(t) : t[k].pinned
      BY <3>2 DEF Elements
    <3> QED BY <3>3 DEF Bounded
  <2>6. CASE L # {}
    <3>1. L \subseteq Nat
      BY <1>0
    <3>2. PICK m \in L : \A i \in L : m <= i
      <4> HIDE DEF L
      <4> QED BY <2>6, <3>1, LeastExists
    <3>3. L \subseteq LooseFrom(s, m)
      <4>1. \A i \in L : i \in m .. Len(s) /\ ~s[i].pinned
        BY <3>2, <1>0
      <4> QED BY <4>1 DEF LooseFrom
    <3>4. m \in 1 .. Len(s) /\ p + Cardinality(LooseFrom(s, m)) <= Limit
      BY <3>2
    <3>5. L \cap PinnedAt(s) = {}
      BY DEF PinnedAt
    <3> DEFINE M == LooseFrom(s, m)  a == PinnedAt(s)
    <3>6. /\ IsFiniteSet(M) /\ Cardinality(M) \in Nat /\ L \subseteq M
          /\ IsFiniteSet(a) /\ a \cap L = {} /\ K = a \cup L
          /\ p = Cardinality(a) /\ p + Cardinality(M) <= Limit
      BY <3>3, <3>4, <3>5, <2>3, <2>4
    <3> HIDE DEF L, M, a, K, t, p
    <3>7. IsFiniteSet(L) /\ Cardinality(L) <= Cardinality(M) /\ Cardinality(L) \in Nat
      BY <3>6, FS_Subset, FS_CardinalityType
    <3>8. Cardinality(a \cup L) = Cardinality(a) + Cardinality(L) - Cardinality(a \cap L)
      BY <3>6, <3>7, FS_Union
    <3>9. Cardinality(a \cap L) = 0
      BY <3>6, FS_EmptySet
    <3>10. Cardinality(K) <= Limit
      BY <3>6, <3>7, <3>8, <3>9, <2>4, <1>0
    <3> QED BY <3>10, <2>2 DEF Bounded, t
  <2> QED BY <2>5, <2>6
<1> QED BY <1>1, <1>2

\* Of one more than the limit, the oldest command that is not pinned goes.
LEMMA TrimOne ==
    ASSUME NEW s \in Seq(CommandRecord), Len(s) = Limit + 1,
           NEW m \in 1 .. Len(s), ~s[m].pinned,
           \A j \in 1 .. Len(s) : ~s[j].pinned => m <= j
    PROVE  /\ TrimHistory(s) = Picked(s, (1 .. Len(s)) \ {m})
           /\ Len(TrimHistory(s)) = Limit
<1>0. Len(s) \in Nat /\ Limit \in Nat /\ ~(Len(s) <= Limit)
  BY LenProperties, HistoryAssumption
<1> DEFINE p == Cardinality(PinnedAt(s))
           C(i) == Cardinality(LooseFrom(s, i))
<1>1. /\ p \in Nat
      /\ \A i \in 1 .. Len(s) : IsFiniteSet(LooseFrom(s, i)) /\ C(i) \in Nat
      /\ p + C(m) = Len(s)
  BY PinnedAndLoose
<1>2. \A i \in 1 .. Len(s) : ~s[i].pinned /\ i # m => C(i) < C(m)
  <2> TAKE i \in 1 .. Len(s)
  <2> HAVE ~s[i].pinned /\ i # m
  <2>1. m <= i /\ m \notin i .. Len(s) /\ m \in m .. Len(s) /\ \A j \in i .. Len(s) : j \in m .. Len(s)
    BY <1>0
  <2> DEFINE A == LooseFrom(s, i)  B == LooseFrom(s, m)
  <2>2. A \subseteq B /\ m \in B /\ m \notin A
    BY <2>1 DEF LooseFrom
  <2>3. IsFiniteSet(B) /\ Cardinality(A) \in Nat /\ Cardinality(B) \in Nat
    BY <1>1
  <2> HIDE DEF A, B
  <2>4. Cardinality(A) <= Cardinality(B) /\ Cardinality(A) # Cardinality(B)
    BY <2>2, <2>3, FS_Subset
  <2>5. Cardinality(A) < Cardinality(B)
    BY <2>3, <2>4
  <2> QED BY <2>5 DEF A, B
<1>3. KeptAt(s) = {i \in 1 .. Len(s) : s[i].pinned \/ p + C(i) <= Limit}
  BY DEF KeptAt
<1> HIDE DEF p, C
<1>4. \A i \in 1 .. Len(s) : (s[i].pinned \/ p + C(i) <= Limit) <=> i # m
  <2> TAKE i \in 1 .. Len(s)
  <2>1. CASE i = m
    BY <2>1, <1>0, <1>1
  <2>2. CASE i # m /\ ~s[i].pinned
    BY <2>2, <1>0, <1>1, <1>2
  <2>3. CASE i # m /\ s[i].pinned
    BY <2>3
  <2> QED BY <2>1, <2>2, <2>3
<1>5. KeptAt(s) = (1 .. Len(s)) \ {m}
  BY <1>3, <1>4
<1>6. TrimHistory(s) = Picked(s, KeptAt(s))
  BY <1>0, TrimIs
<1>7. Cardinality((1 .. Len(s)) \ {m}) = Limit
  <2>1. IsFiniteSet(1 .. Len(s)) /\ Cardinality(1 .. Len(s)) = Len(s)
    BY <1>0, FS_Interval
  <2>2. Cardinality((1 .. Len(s)) \ {m}) = Cardinality(1 .. Len(s)) - 1
    BY <2>1, FS_RemoveElement
  <2> QED BY <2>1, <2>2, <1>0
<1> DEFINE K == (1 .. Len(s)) \ {m}
<1>8. K \subseteq 1 .. Len(s)
  OBVIOUS
<1>9. Len(Picked(s, K)) = Cardinality(K)
  <2> HIDE DEF K
  <2> QED BY <1>8, PickedElements
<1> QED BY <1>5, <1>6, <1>7, <1>9

\* A new command on top: the limit holds, and unless there is a hole the oldest
\* command goes, which is not pinned.
LEMMA TrimPush ==
    ASSUME NEW s \in Seq(CommandRecord), Len(s) <= Limit + 1, s # <<>>, ~s[Len(s)].pinned
    PROVE  /\ Len(TrimHistory(s)) <= Limit
           /\ Different(s) /\ ~Hole(s) =>
                IF Len(s) <= Limit THEN TrimHistory(s) = s
                ELSE TrimHistory(s) = Tail(s) /\ ~s[1].pinned
<1>0. Len(s) \in Nat /\ Limit \in Nat /\ Limit >= 1 /\ Len(s) >= 1
  BY LenProperties, HistoryAssumption, EmptySeq
<1>1. CASE Len(s) <= Limit
  BY <1>1, TrimIs
<1>2. CASE ~(Len(s) <= Limit)
  <2>0. Len(s) = Limit + 1
    BY <1>0, <1>2
  <2> DEFINE U == {j \in 1 .. Len(s) : ~s[j].pinned}
  <2>1. U \subseteq Nat /\ U # {}
    BY <1>0
  <2>2. PICK m \in U : \A j \in U : m <= j
    BY <2>1, LeastExists
  <2>3. m \in 1 .. Len(s) /\ ~s[m].pinned /\ \A j \in 1 .. Len(s) : ~s[j].pinned => m <= j
    BY <2>2
  <2> HIDE DEF U
  <2> DEFINE K == (1 .. Len(s)) \ {m}  t == TrimHistory(s)
  <2>4. t = Picked(s, K) /\ Len(t) = Limit
    BY <2>0, <2>3, TrimOne
  <2>5. ASSUME Different(s), ~Hole(s) PROVE t = Tail(s) /\ ~s[1].pinned
    <3>1. t = SubSeq(s, Len(s) - Len(t) + 1, Len(s))
      BY <2>5 DEF Hole
    <3>2. Len(s) - Len(t) + 1 = 2
      BY <2>0, <2>4, <1>0
    <3>3. t = SubSeq(s, 2, Len(s))
      BY <3>1, <3>2
    <3>4. Tail(s) = SubSeq(s, 2, Len(s))
      BY EmptySeq, HeadTailProperties, SubSeqProperties
    <3>5. m = 1
      <4> SUFFICES ASSUME m # 1 PROVE FALSE
        OBVIOUS
      <4>1. 1 \in K /\ K \subseteq 1 .. Len(s)
        BY <1>0
      <4> HIDE DEF K
      <4>2. t[1] = s[1]
        <5> HIDE DEF t
        <5> QED BY <4>1, <2>4, PickedElements
      <4>3. Tail(s)[1] = s[1 + 1]
        <5>1. 1 \in 1 .. Len(s) - 1
          BY <1>0, <2>0
        <5> QED BY <5>1, HeadTailProperties
      <4>4. s[1] = s[2] /\ 1 \in 1 .. Len(s) /\ 2 \in 1 .. Len(s)
        BY <4>2, <4>3, <3>3, <3>4, <1>0, <2>0
      <4> QED BY <4>4, <2>5 DEF Different
    <3> QED BY <3>3, <3>4, <3>5, <2>3
  <2>6. Len(t) <= Limit
    BY <2>4, <1>0
  <2> QED BY <1>2, <2>5, <2>6
<1> QED BY <1>1, <1>2

LEMMA TrimFirst ==
    ASSUME NEW s \in Seq(CommandRecord), Len(s) = Limit + 1, ~s[1].pinned
    PROVE  TrimHistory(s) = Tail(s)
<1> DEFINE m == 1
<1>1. /\ m \in 1 .. Len(s) /\ ~s[m].pinned
      /\ \A j \in 1 .. Len(s) : ~s[j].pinned => m <= j
      /\ (1 .. Len(s)) \ {m} = 2 .. Len(s)
  BY HistoryAssumption
<1>2. s # <<>>
  BY HistoryAssumption, EmptySeq
<1> HIDE DEF m
<1>3. TrimHistory(s) = Picked(s, (1 .. Len(s)) \ {m})
  BY <1>1, TrimOne
<1>4. TrimHistory(s) = Picked(s, 2 .. Len(s))
  BY <1>1, <1>3
<1> QED BY <1>2, <1>4, PickedTail

LEMMA DifferentAppend ==
    ASSUME NEW s \in Seq(CommandRecord), NEW c \in CommandRecord, Different(s),
           \A x \in Elements(s) : x.id # c.id
    PROVE  Different(Append(s, c))
<1>1. /\ Len(s) \in Nat /\ Len(Append(s, c)) = Len(s) + 1
      /\ \A i \in 1 .. Len(s) : Append(s, c)[i] = s[i]
      /\ Append(s, c)[Len(s) + 1] = c
  BY AppendProperties, LenProperties
<1>2. \A i \in 1 .. Len(s) : s[i].id # c.id
  BY DEF Elements
<1>3. \A i \in 1 .. Len(s) + 1 : i \in 1 .. Len(s) \/ i = Len(s) + 1
  BY <1>1
<1> QED BY <1>1, <1>2, <1>3 DEF Different

LEMMA DifferentConcat ==
    ASSUME NEW s \in Seq(CommandRecord), NEW t \in Seq(CommandRecord),
           Different(s), Different(t), Apart(s, t)
    PROVE  Different(s \o t)
<1>1. /\ Len(s \o t) = Len(s) + Len(t) /\ Len(s) \in Nat /\ Len(t) \in Nat
      /\ \A i \in 1 .. Len(s) + Len(t) : (s \o t)[i] = IF i <= Len(s) THEN s[i] ELSE t[i - Len(s)]
  BY ConcatProperties, LenProperties
<1>2. \A i \in 1 .. Len(s), j \in 1 .. Len(t) : s[i].id # t[j].id
  BY DEF Apart, Elements
<1>3. \A i \in 1 .. Len(s) + Len(t) : (i <= Len(s) => i \in 1 .. Len(s))
                                      /\ (~(i <= Len(s)) => i - Len(s) \in 1 .. Len(t))
  BY <1>1
<1> SUFFICES ASSUME NEW i \in 1 .. Len(s) + Len(t), NEW j \in 1 .. Len(s) + Len(t),
                    (s \o t)[i].id = (s \o t)[j].id
             PROVE  i = j
  BY <1>1 DEF Different
<1>4. CASE i <= Len(s) /\ j <= Len(s)
  BY <1>1, <1>3, <1>4 DEF Different
<1>5. CASE i <= Len(s) /\ ~(j <= Len(s))
  BY <1>1, <1>2, <1>3, <1>5
<1>6. CASE ~(i <= Len(s)) /\ j <= Len(s)
  BY <1>1, <1>2, <1>3, <1>6
<1>7. CASE ~(i <= Len(s)) /\ ~(j <= Len(s))
  <2>1. i - Len(s) = j - Len(s)
    BY <1>1, <1>3, <1>7 DEF Different
  <2> QED BY <2>1, <1>1
<1> QED BY <1>4, <1>5, <1>6, <1>7

\* The last command and the others.
LEMMA FrontAndLast ==
    ASSUME NEW s \in Seq(CommandRecord), s # <<>>
    PROVE  /\ Len(s) \in Nat /\ Len(s) >= 1
           /\ Front(s) \in Seq(CommandRecord) /\ Len(Front(s)) = Len(s) - 1
           /\ \A i \in 1 .. Len(s) - 1 : Front(s)[i] = s[i]
           /\ Last(s) \in CommandRecord /\ Last(s) \in Elements(s) /\ Last(s) = s[Len(s)]
           /\ Elements(Front(s)) \subseteq Elements(s)
           /\ Different(s) =>
                Different(Front(s)) /\ \A x \in Elements(Front(s)) : x.id # Last(s).id
<1>1. Len(s) \in Nat /\ Len(s) >= 1
  BY LenProperties, EmptySeq
<1> DEFINE m == 1  n == Len(s) - 1
<1>2. m \in 1 .. Len(s) + 1 /\ n \in (m - 1) .. Len(s) /\ Front(s) = SubSeq(s, m, n)
      /\ n - m + 1 = Len(s) - 1 /\ \A i \in 1 .. Len(s) - 1 : m + i - 1 = i
  BY <1>1 DEF Front
<1> HIDE DEF m, n
<1>3. /\ SubSeq(s, m, n) \in Seq(CommandRecord)
      /\ Len(SubSeq(s, m, n)) = n - m + 1
      /\ \A i \in 1 .. (n - m + 1) : SubSeq(s, m, n)[i] = s[m + i - 1]
  BY <1>2, SubSeqElements
<1>4. /\ Front(s) \in Seq(CommandRecord) /\ Len(Front(s)) = Len(s) - 1
      /\ \A i \in 1 .. Len(s) - 1 : Front(s)[i] = s[i]
  BY <1>2, <1>3
<1>5. \A i \in 1 .. Len(s) - 1 : i \in 1 .. Len(s) /\ i # Len(s)
  BY <1>1
<1>6. Len(s) \in 1 .. Len(s) /\ Last(s) = s[Len(s)]
  BY <1>1 DEF Last
<1>7. Last(s) \in CommandRecord /\ Last(s) \in Elements(s)
  BY <1>6 DEF Elements
<1>8. Elements(Front(s)) \subseteq Elements(s)
  BY <1>4, <1>5 DEF Elements
<1>9. ASSUME Different(s)
      PROVE  Different(Front(s)) /\ \A x \in Elements(Front(s)) : x.id # Last(s).id
  <2>1. Different(Front(s))
    BY <1>4, <1>5, <1>9 DEF Different
  <2>2. \A i \in 1 .. Len(s) - 1 : Front(s)[i].id # Last(s).id
    BY <1>4, <1>5, <1>6, <1>9 DEF Different
  <2> QED BY <1>4, <2>1, <2>2 DEF Elements
<1> QED BY <1>1, <1>4, <1>6, <1>7, <1>8, <1>9

\* Marks and pins change nothing else.
Alike(s, t) ==
    /\ Len(t) = Len(s)
    /\ \A i \in 1 .. Len(s) :
        /\ t[i].id = s[i].id /\ t[i].effect = s[i].effect /\ t[i].agents = s[i].agents
        /\ t[i].before = s[i].before /\ t[i].after = s[i].after

LEMMA MarkAlike ==
    ASSUME NEW s \in Seq(CommandRecord), NEW id, NEW b \in BOOLEAN
    PROVE  /\ MarkIn(s, id, b) \in Seq(CommandRecord)
           /\ Alike(s, MarkIn(s, id, b))
           /\ \A i \in 1 .. Len(s) :
                /\ MarkIn(s, id, b)[i].pinned = s[i].pinned
                /\ MarkIn(s, id, b)[i].undone = IF s[i].id = id THEN b ELSE s[i].undone
<1> DEFINE C(i) == IF s[i].id = id THEN [s[i] EXCEPT !.undone = b] ELSE s[i]
           t == [i \in 1 .. Len(s) |-> C(i)]
<1>1. Len(s) \in Nat /\ \A i \in 1 .. Len(s) : s[i] \in CommandRecord
  BY LenProperties
<1>2. \A i \in 1 .. Len(s) :
        /\ C(i) \in CommandRecord
        /\ C(i).id = s[i].id /\ C(i).effect = s[i].effect /\ C(i).agents = s[i].agents
        /\ C(i).before = s[i].before /\ C(i).after = s[i].after /\ C(i).pinned = s[i].pinned
  BY <1>1 DEF CommandRecord
<1>3. \A i \in 1 .. Len(s) : C(i).undone = IF s[i].id = id THEN b ELSE s[i].undone
  BY <1>1 DEF CommandRecord
<1> HIDE DEF C
<1>4. t \in Seq(CommandRecord) /\ Len(t) = Len(s) /\ \A i \in 1 .. Len(s) : t[i] = C(i)
  BY <1>1, <1>2
<1>5. MarkIn(s, id, b) = t
  BY DEF MarkIn, C
<1> HIDE DEF t
<1> QED BY <1>2, <1>3, <1>4, <1>5 DEF Alike

LEMMA PinAlike ==
    ASSUME NEW s \in Seq(CommandRecord), NEW id
    PROVE  /\ TogglePin(s, id) \in Seq(CommandRecord)
           /\ Alike(s, TogglePin(s, id))
           /\ \A i \in 1 .. Len(s) : TogglePin(s, id)[i].undone = s[i].undone
<1> DEFINE C(i) == IF s[i].id = id THEN [s[i] EXCEPT !.pinned = ~@] ELSE s[i]
           t == [i \in 1 .. Len(s) |-> C(i)]
<1>1. Len(s) \in Nat /\ \A i \in 1 .. Len(s) : s[i] \in CommandRecord
  BY LenProperties
<1>2. \A i \in 1 .. Len(s) :
        /\ C(i) \in CommandRecord
        /\ C(i).id = s[i].id /\ C(i).effect = s[i].effect /\ C(i).agents = s[i].agents
        /\ C(i).before = s[i].before /\ C(i).after = s[i].after /\ C(i).undone = s[i].undone
  BY <1>1 DEF CommandRecord
<1> HIDE DEF C
<1>4. t \in Seq(CommandRecord) /\ Len(t) = Len(s) /\ \A i \in 1 .. Len(s) : t[i] = C(i)
  BY <1>1, <1>2
<1>5. TogglePin(s, id) = t
  BY DEF TogglePin, C
<1> HIDE DEF t
<1> QED BY <1>2, <1>4, <1>5 DEF Alike

LEMMA AlikeKeeps ==
    ASSUME NEW s \in Seq(CommandRecord), NEW t \in Seq(CommandRecord), Alike(s, t)
    PROVE  /\ Different(s) => Different(t)
           /\ \A m, r : Numbered(s, m, r) => Numbered(t, m, r)
           /\ \A u : Apart(s, u) => Apart(t, u)
           /\ \A u : Apart(u, s) => Apart(u, t)
<1>1. Different(s) => Different(t)
  BY DEF Alike, Different
<1>2. \A y \in Elements(t) : \E x \in Elements(s) : y.id = x.id /\ y.effect = x.effect
  BY DEF Alike, Elements
<1>3. \A m, r : Numbered(s, m, r) => Numbered(t, m, r)
  BY <1>2 DEF Numbered
<1>4. \A u : Apart(s, u) => Apart(t, u)
  BY <1>2 DEF Apart
<1>5. \A u : Apart(u, s) => Apart(u, t)
  BY <1>2 DEF Apart
<1> QED BY <1>1, <1>3, <1>4, <1>5

-----------------------------------------------------------------------------
(* What a step of the stacks keeps *)

LEMMA HeldLater ==
    ASSUME NEW h, NEW m \in Nat, NEW r, NEW n \in Nat, NEW q,
           Held(h, m, r), m <= n, q = 0 \/ q = r \/ q \in m + 1 .. n
    PROVE  Held(h, n, q)
<1>1. ASSUME NEW s, Numbered(s, m, r) PROVE Numbered(s, n, q)
  <2> SUFFICES ASSUME NEW x \in Elements(s)
               PROVE  /\ x.id \in 1 .. n /\ x.id # q
                      /\ x.effect \in 0 .. n /\ (x.effect = 0 \/ x.effect # q)
    BY DEF Numbered
  <2>1. /\ x.id \in 1 .. m /\ x.id # r
        /\ x.effect \in 0 .. m /\ (x.effect = 0 \/ x.effect # r)
    BY <1>1 DEF Numbered
  <2> QED BY <2>1
<1> QED BY <1>1 DEF Held

LEMMA HeldAlike ==
    ASSUME NEW h, NEW g \in Stacks, NEW m, NEW r, Held(h, m, r),
           Alike(h.undo, g.undo), Alike(h.redo, g.redo), Alike(h.archive, g.archive),
           Bounded(g.archive)
    PROVE  Held(g, m, r)
<1>1. /\ h.undo \in Seq(CommandRecord) /\ h.redo \in Seq(CommandRecord)
      /\ h.archive \in Seq(CommandRecord)
  BY DEF Held, Stacks
<1>2. /\ g.undo \in Seq(CommandRecord) /\ g.redo \in Seq(CommandRecord)
      /\ g.archive \in Seq(CommandRecord)
  BY DEF Stacks
<1>3. Numbered(g.undo, m, r) /\ Numbered(g.redo, m, r) /\ Numbered(g.archive, m, r)
  BY <1>1, <1>2, AlikeKeeps DEF Held
<1>4. Different(g.undo) /\ Different(g.redo) /\ Different(g.archive)
  BY <1>1, <1>2, AlikeKeeps DEF Held, Distinct
<1>5. Apart(g.undo, h.redo) /\ Apart(g.undo, h.archive) /\ Apart(g.redo, h.archive)
  BY <1>1, <1>2, AlikeKeeps DEF Held, Distinct
<1>6. Apart(g.undo, g.redo) /\ Apart(g.undo, g.archive) /\ Apart(g.redo, g.archive)
  BY <1>1, <1>2, <1>5, AlikeKeeps
<1>7. Size(g) <= Limit
  BY DEF Held, Size, Alike
<1> QED BY <1>3, <1>4, <1>6, <1>7 DEF Held, Distinct

LEMMA MarkIs ==
    ASSUME NEW h, NEW id, NEW b
    PROVE  Mark(h, id, b) = [undo |-> MarkIn(h.undo, id, b), redo |-> MarkIn(h.redo, id, b),
                             archive |-> MarkIn(h.archive, id, b)]
BY DEF Mark, EachStack

LEMMA HeldMark ==
    ASSUME NEW h, NEW m, NEW r, NEW id, NEW b \in BOOLEAN, Held(h, m, r)
    PROVE  Held(Mark(h, id, b), m, r)
<1> DEFINE u == MarkIn(h.undo, id, b)  v == MarkIn(h.redo, id, b)
           a == MarkIn(h.archive, id, b)  g == Mark(h, id, b)
<1>1. /\ h.undo \in Seq(CommandRecord) /\ h.redo \in Seq(CommandRecord)
      /\ h.archive \in Seq(CommandRecord) /\ Bounded(h.archive)
  BY DEF Held, Stacks
<1>2. /\ u \in Seq(CommandRecord) /\ v \in Seq(CommandRecord) /\ a \in Seq(CommandRecord)
      /\ Alike(h.undo, u) /\ Alike(h.redo, v) /\ Alike(h.archive, a)
      /\ \A i \in 1 .. Len(h.archive) : a[i].pinned = h.archive[i].pinned
  BY <1>1, MarkAlike
<1>3. g = [undo |-> u, redo |-> v, archive |-> a]
  BY MarkIs
<1> HIDE DEF u, v, a
<1>4. g \in Stacks /\ g.undo = u /\ g.redo = v /\ g.archive = a
  BY <1>2, <1>3 DEF Stacks
<1>5. Bounded(a)
  BY <1>1, <1>2 DEF Bounded, Alike
<1> HIDE DEF g
<1> QED BY <1>2, <1>4, <1>5, HeldAlike DEF g

LEMMA ApartParts ==
    ASSUME NEW s, NEW t, Apart(s, t)
    PROVE  /\ \A u : Elements(u) \subseteq Elements(s) => Apart(u, t)
           /\ \A v : Elements(v) \subseteq Elements(t) => Apart(s, v)
BY DEF Apart

LEMMA NumberedPart ==
    ASSUME NEW s, NEW m, NEW r, Numbered(s, m, r)
    PROVE  \A u : Elements(u) \subseteq Elements(s) => Numbered(u, m, r)
BY DEF Numbered

LEMMA NoElements == Elements(<<>>) = {}
BY DEF Elements

\* A new command is put on top, and what was undone is left but for its pins.
LEMMA HeldPush ==
    ASSUME NEW h, NEW m, NEW r, NEW c \in CommandRecord, Held(h, m, r),
           ~c.pinned, c.id \in 1 .. m, c.id # r,
           c.effect \in 0 .. m, c.effect = 0 \/ c.effect # r,
           \A x \in Commands(h) : x.id # c.id
    PROVE  /\ Held(Push(h, c), m, r)
           /\ Push(h, c).undo = TrimHistory(Append(h.undo, c)) /\ Push(h, c).redo = <<>>
<1> DEFINE u0 == h.undo  v0 == h.redo  a0 == h.archive
           u == Append(u0, c)  p == Pinned(v0)  a == a0 \o p
           u1 == TrimHistory(u)  a1 == TrimHistory(a)  g == Push(h, c)
<1>1. /\ u0 \in Seq(CommandRecord) /\ v0 \in Seq(CommandRecord) /\ a0 \in Seq(CommandRecord)
      /\ Numbered(u0, m, r) /\ Numbered(v0, m, r) /\ Numbered(a0, m, r)
      /\ Different(u0) /\ Different(v0) /\ Different(a0)
      /\ Apart(u0, v0) /\ Apart(u0, a0) /\ Apart(v0, a0)
      /\ Len(u0) + Len(v0) <= Limit
      /\ Len(u0) \in Nat /\ Len(v0) \in Nat /\ Limit \in Nat
  BY HistoryAssumption, LenProperties DEF Held, Stacks, Distinct, Size
<1>2. \A x \in Elements(u0) \cup Elements(v0) \cup Elements(a0) : x.id # c.id
  BY DEF Commands
<1>3. g = [undo |-> u1, redo |-> <<>>, archive |-> a1]
  BY DEF Push, ArchivePinnedRedo
<1> HIDE DEF u0, v0, a0, g
<1>4. /\ u \in Seq(CommandRecord) /\ Elements(u) = Elements(u0) \cup {c}
      /\ Len(u) = Len(u0) + 1 /\ u[Len(u)] = c /\ u # <<>>
  <2>1. u \in Seq(CommandRecord) /\ Len(u) = Len(u0) + 1 /\ u[Len(u)] = c
    BY <1>1, AppendProperties
  <2>2. Elements(u) = Elements(u0) \cup {c}
    BY <1>1, AppendElements
  <2>3. u # <<>>
    BY <1>1, <2>1, EmptySeq
  <2> QED BY <2>1, <2>2, <2>3
<1>5. p \in Seq(CommandRecord) /\ Elements(p) \subseteq Elements(v0) /\ Different(p)
  BY <1>1, PinnedPart
<1>6. Different(u)
  BY <1>1, <1>2, DifferentAppend
<1>7. Apart(a0, p)
  BY <1>1, <1>5 DEF Apart
<1>8. Different(a)
  BY <1>1, <1>5, <1>7, DifferentConcat
<1>9. a \in Seq(CommandRecord) /\ Elements(a) = Elements(a0) \cup Elements(p)
  BY <1>1, <1>5, ConcatElements
<1> HIDE DEF u, p, a
<1>10. /\ u1 \in Seq(CommandRecord) /\ Elements(u1) \subseteq Elements(u) /\ Different(u1)
       /\ a1 \in Seq(CommandRecord) /\ Elements(a1) \subseteq Elements(a) /\ Different(a1)
  BY <1>4, <1>6, <1>8, <1>9, TrimPart
<1>11. Len(u1) <= Limit
  <2>1. Len(u) <= Limit + 1 /\ ~u[Len(u)].pinned
    BY <1>1, <1>4
  <2> QED BY <2>1, <1>4, TrimPush
<1>12. Bounded(a1)
  BY <1>9, TrimBounded
<1> HIDE DEF u1, a1
<1>13. Numbered(u1, m, r)
  <2>1. Numbered(u, m, r)
    BY <1>1, <1>4 DEF Numbered
  <2> QED BY <2>1, <1>10, NumberedPart
<1>14. Numbered(a1, m, r)
  <2>1. Numbered(a, m, r)
    BY <1>1, <1>5, <1>9 DEF Numbered
  <2> QED BY <2>1, <1>10, NumberedPart
<1>15. Apart(u1, a1)
  <2>1. Apart(u, a)
    BY <1>1, <1>2, <1>4, <1>5, <1>9 DEF Apart
  <2> QED BY <2>1, <1>10 DEF Apart
<1> DEFINE e == <<>>
<1>16. /\ e \in Seq(CommandRecord) /\ Len(e) = 0 /\ Elements(e) = {}
  BY NoElements
<1>17. g = [undo |-> u1, redo |-> e, archive |-> a1]
  BY <1>3
<1> HIDE DEF e
<1>18. Numbered(e, m, r) /\ Different(e) /\ Apart(u1, e) /\ Apart(e, a1)
  BY <1>16 DEF Numbered, Different, Apart
<1>19. g \in Stacks /\ g.undo = u1 /\ g.redo = e /\ g.archive = a1
  BY <1>10, <1>16, <1>17 DEF Stacks
<1>20. Size(g) <= Limit
  <2>1. Len(u1) \in Nat
    BY <1>10, LenProperties
  <2> QED BY <2>1, <1>11, <1>16, <1>19 DEF Size
<1>21. Held(g, m, r)
  BY <1>10, <1>12, <1>13, <1>14, <1>15, <1>18, <1>19, <1>20 DEF Held, Distinct
<1> QED BY <1>19, <1>21 DEF g, u1, u, u0, e

\* Undo and redo move a command.
Back(h) == [undo |-> Front(h.undo), redo |-> Append(h.redo, Last(h.undo)), archive |-> h.archive]
Forth(h) == [undo |-> Append(h.undo, Last(h.redo)), redo |-> Front(h.redo), archive |-> h.archive]

LEMMA Moves ==
    ASSUME NEW h \in Stacks, NEW c
    PROVE  /\ c = Last(h.undo) =>
                [h EXCEPT !.undo = Front(@), !.redo = Append(@, c)] = Back(h)
           /\ c = Last(h.redo) =>
                [h EXCEPT !.redo = Front(@), !.undo = Append(@, c)] = Forth(h)
<1>1. ASSUME NEW x, NEW y
      PROVE  /\ [h EXCEPT !.undo = x, !.redo = y] = [undo |-> x, redo |-> y, archive |-> h.archive]
             /\ [h EXCEPT !.redo = y, !.undo = x] = [undo |-> x, redo |-> y, archive |-> h.archive]
  <2> DEFINE a == h.archive
             d == [h EXCEPT !.undo = x, !.redo = y]  e == [h EXCEPT !.redo = y, !.undo = x]
  <2>1. d \in [undo : {x}, redo : {y}, archive : {a}] /\ e \in [undo : {x}, redo : {y}, archive : {a}]
    BY DEF Stacks
  <2> HIDE DEF a, d, e
  <2>2. d = [undo |-> x, redo |-> y, archive |-> a]
    BY <2>1
  <2>3. e = [undo |-> x, redo |-> y, archive |-> a]
    BY <2>1
  <2> QED BY <2>2, <2>3 DEF a, d, e
<1>2. ASSUME c = Last(h.undo)
      PROVE  [h EXCEPT !.undo = Front(@), !.redo = Append(@, c)] = Back(h)
  <2> DEFINE x == Front(h.undo)  y == Append(h.redo, c)
  <2>1. [h EXCEPT !.undo = Front(@), !.redo = Append(@, c)] = [h EXCEPT !.undo = x, !.redo = y]
    OBVIOUS
  <2>2. Back(h) = [undo |-> x, redo |-> y, archive |-> h.archive]
    BY <1>2 DEF Back
  <2> HIDE DEF x, y
  <2> QED BY <1>1, <2>1, <2>2
<1>3. ASSUME c = Last(h.redo)
      PROVE  [h EXCEPT !.redo = Front(@), !.undo = Append(@, c)] = Forth(h)
  <2> DEFINE y == Front(h.redo)  x == Append(h.undo, c)
  <2>1. [h EXCEPT !.redo = Front(@), !.undo = Append(@, c)] = [h EXCEPT !.redo = y, !.undo = x]
    OBVIOUS
  <2>2. Forth(h) = [undo |-> x, redo |-> y, archive |-> h.archive]
    BY <1>3 DEF Forth
  <2> HIDE DEF x, y
  <2> QED BY <1>1, <2>1, <2>2
<1> QED BY <1>2, <1>3

\* From s to t.
LEMMA MoveOne ==
    ASSUME NEW s \in Seq(CommandRecord), NEW t \in Seq(CommandRecord), NEW a, NEW m, NEW r,
           s # <<>>, Numbered(s, m, r), Numbered(t, m, r),
           Different(s), Different(t), Apart(s, t), Apart(s, a), Apart(t, a)
    PROVE  LET s1 == Front(s)  t1 == Append(t, Last(s)) IN
           /\ s1 \in Seq(CommandRecord) /\ t1 \in Seq(CommandRecord)
           /\ Numbered(s1, m, r) /\ Numbered(t1, m, r)
           /\ Different(s1) /\ Different(t1)
           /\ Apart(s1, t1) /\ Apart(t1, s1) /\ Apart(s1, a) /\ Apart(t1, a)
           /\ Len(s1) + Len(t1) = Len(s) + Len(t)
<1> DEFINE s1 == Front(s)  c == Last(s)  t1 == Append(t, c)
<1>1. /\ s1 \in Seq(CommandRecord) /\ c \in CommandRecord /\ c \in Elements(s)
      /\ Elements(s1) \subseteq Elements(s) /\ Len(s1) = Len(s) - 1
      /\ Different(s1) /\ \A x \in Elements(s1) : x.id # c.id
      /\ Len(s) \in Nat
  BY FrontAndLast
<1> HIDE DEF s1, c
<1>2. t1 \in Seq(CommandRecord) /\ Elements(t1) = Elements(t) \cup {c}
  BY <1>1, AppendElements
<1>3. Len(t1) = Len(t) + 1 /\ Len(t) \in Nat
  BY <1>1, AppendProperties, LenProperties
<1>4. \A x \in Elements(t) : x.id # c.id
  BY <1>1 DEF Apart
<1>5. Different(t1)
  BY <1>1, <1>4, DifferentAppend
<1> HIDE DEF t1
<1>6. Numbered(s1, m, r) /\ Numbered(t1, m, r)
  BY <1>1, <1>2 DEF Numbered
<1>7. Apart(s1, t1) /\ Apart(t1, s1) /\ Apart(s1, a) /\ Apart(t1, a)
  BY <1>1, <1>2 DEF Apart
<1>8. Len(s1) + Len(t1) = Len(s) + Len(t)
  BY <1>1, <1>3
<1> QED BY <1>1, <1>2, <1>5, <1>6, <1>7, <1>8 DEF s1, t1, c

LEMMA HeldMove ==
    ASSUME NEW h, NEW m, NEW r, Held(h, m, r)
    PROVE  /\ h.undo # <<>> => Held(Back(h), m, r)
           /\ h.redo # <<>> => Held(Forth(h), m, r)
<1> DEFINE u == h.undo  v == h.redo  a == h.archive
<1>1. /\ u \in Seq(CommandRecord) /\ v \in Seq(CommandRecord) /\ a \in Seq(CommandRecord)
      /\ Numbered(u, m, r) /\ Numbered(v, m, r) /\ Numbered(a, m, r)
      /\ Different(u) /\ Different(v) /\ Different(a)
      /\ Apart(u, v) /\ Apart(u, a) /\ Apart(v, a)
      /\ Len(u) + Len(v) <= Limit /\ Bounded(a) /\ Len(u) \in Nat /\ Len(v) \in Nat
  BY LenProperties DEF Held, Stacks, Distinct, Size
<1>2. Apart(v, u)
  BY <1>1 DEF Apart
<1> HIDE DEF u, v, a
<1>3. ASSUME u # <<>> PROVE Held(Back(h), m, r)
  <2> DEFINE u1 == Front(u)  v1 == Append(v, Last(u))  g == Back(h)
  <2>1. /\ u1 \in Seq(CommandRecord) /\ v1 \in Seq(CommandRecord)
        /\ Numbered(u1, m, r) /\ Numbered(v1, m, r)
        /\ Different(u1) /\ Different(v1)
        /\ Apart(u1, v1) /\ Apart(u1, a) /\ Apart(v1, a)
        /\ Len(u1) + Len(v1) = Len(u) + Len(v)
    BY <1>1, <1>3, MoveOne
  <2>2. g = [undo |-> u1, redo |-> v1, archive |-> a]
    BY DEF Back, u, v, a
  <2> HIDE DEF u1, v1, g
  <2>3. g \in Stacks /\ g.undo = u1 /\ g.redo = v1 /\ g.archive = a
    BY <2>1, <2>2, <1>1 DEF Stacks
  <2>4. Held(g, m, r)
    BY <1>1, <2>1, <2>3 DEF Held, Distinct, Size
  <2> QED BY <2>4 DEF g
<1>4. ASSUME v # <<>> PROVE Held(Forth(h), m, r)
  <2> DEFINE v1 == Front(v)  u1 == Append(u, Last(v))  g == Forth(h)
  <2>1. /\ u1 \in Seq(CommandRecord) /\ v1 \in Seq(CommandRecord)
        /\ Numbered(u1, m, r) /\ Numbered(v1, m, r)
        /\ Different(u1) /\ Different(v1)
        /\ Apart(u1, v1) /\ Apart(u1, a) /\ Apart(v1, a)
        /\ Len(v1) + Len(u1) = Len(v) + Len(u)
    BY <1>1, <1>2, <1>4, MoveOne
  <2>2. g = [undo |-> u1, redo |-> v1, archive |-> a]
    BY DEF Forth, u, v, a
  <2> HIDE DEF u1, v1, g
  <2>3. g \in Stacks /\ g.undo = u1 /\ g.redo = v1 /\ g.archive = a
    BY <2>1, <2>2, <1>1 DEF Stacks
  <2>5. Len(u1) + Len(v1) = Len(u) + Len(v)
    <3>1. Len(u1) \in Nat /\ Len(v1) \in Nat
      BY <2>1, LenProperties
    <3> QED BY <3>1, <2>1, <1>1
  <2>4. Held(g, m, r)
    BY <1>1, <2>1, <2>3, <2>5 DEF Held, Distinct, Size
  <2> QED BY <2>4 DEF g
<1> QED BY <1>3, <1>4 DEF u, v

\* What is within the limit is left alone.
LEMMA TrimmedIs ==
    ASSUME NEW h
    PROVE  /\ Trimmed(h) = [undo |-> TrimHistory(h.undo), redo |-> TrimHistory(h.redo),
                            archive |-> TrimHistory(h.archive)]
           /\ h \in Stacks /\ AcceptedHistory(h) => Trimmed(h) = h
<1>1. Trimmed(h) = [undo |-> TrimHistory(h.undo), redo |-> TrimHistory(h.redo),
                    archive |-> TrimHistory(h.archive)]
  BY DEF Trimmed, EachStack
<1>2. ASSUME h \in Stacks, AcceptedHistory(h) PROVE Trimmed(h) = h
  <2>1. TrimHistory(h.undo) = h.undo /\ TrimHistory(h.redo) = h.redo
        /\ TrimHistory(h.archive) = h.archive
    BY <1>2, TrimIs DEF AcceptedHistory
  <2>2. h = [undo |-> h.undo, redo |-> h.redo, archive |-> h.archive]
    BY <1>2 DEF Stacks
  <2> QED BY <1>1, <2>1, <2>2
<1> QED BY <1>1, <1>2

\* A pin is set or taken back.
Pin(h, id) == [undo |-> TogglePin(h.undo, id), redo |-> TogglePin(h.redo, id),
               archive |-> TrimHistory(TogglePin(h.archive, id))]

LEMMA HeldPin ==
    ASSUME NEW h, NEW m, NEW r, NEW id, Held(h, m, r)
    PROVE  /\ Held(Pin(h, id), m, r)
           /\ Trimmed(EachStack(h, LAMBDA s : TogglePin(s, id))) = Pin(h, id)
<1> DEFINE u0 == h.undo  v0 == h.redo  a0 == h.archive
           u == TogglePin(u0, id)  v == TogglePin(v0, id)  a == TogglePin(a0, id)
           a1 == TrimHistory(a)  g == Pin(h, id)
           k == EachStack(h, LAMBDA s : TogglePin(s, id))
<1>1. /\ u0 \in Seq(CommandRecord) /\ v0 \in Seq(CommandRecord) /\ a0 \in Seq(CommandRecord)
      /\ Numbered(u0, m, r) /\ Numbered(v0, m, r) /\ Numbered(a0, m, r)
      /\ Different(u0) /\ Different(v0) /\ Different(a0)
      /\ Apart(u0, v0) /\ Apart(u0, a0) /\ Apart(v0, a0)
      /\ Len(u0) + Len(v0) <= Limit
      /\ Len(u0) \in Nat /\ Len(v0) \in Nat /\ Limit \in Nat
  BY HistoryAssumption, LenProperties DEF Held, Stacks, Distinct, Size
<1>2. g = [undo |-> u, redo |-> v, archive |-> a1]
  BY DEF Pin
<1>3. k = [undo |-> u, redo |-> v, archive |-> a]
  BY DEF EachStack
<1> HIDE DEF u0, v0, a0, g, k
<1>4. /\ u \in Seq(CommandRecord) /\ v \in Seq(CommandRecord) /\ a \in Seq(CommandRecord)
      /\ Alike(u0, u) /\ Alike(v0, v) /\ Alike(a0, a)
  BY <1>1, PinAlike
<1> HIDE DEF u, v, a
<1>5. Numbered(u, m, r) /\ Numbered(v, m, r) /\ Numbered(a, m, r)
  BY <1>1, <1>4, AlikeKeeps
<1>6. Different(u) /\ Different(v) /\ Different(a)
  BY <1>1, <1>4, AlikeKeeps
<1>7. Apart(u, v0) /\ Apart(u, a0) /\ Apart(v, a0)
  BY <1>1, <1>4, AlikeKeeps
<1>8. Apart(u, v) /\ Apart(u, a) /\ Apart(v, a)
  BY <1>1, <1>4, <1>7, AlikeKeeps
<1>9. /\ a1 \in Seq(CommandRecord) /\ Elements(a1) \subseteq Elements(a) /\ Different(a1)
      /\ Bounded(a1)
  BY <1>4, <1>6, TrimPart, TrimBounded
<1>10. Len(u) <= Limit /\ Len(v) <= Limit /\ Len(u) + Len(v) <= Limit
  BY <1>1, <1>4 DEF Alike
<1>11. TrimHistory(u) = u /\ TrimHistory(v) = v
  BY <1>10, TrimIs
<1>12. Trimmed(k) = g
  <2>1. k.undo = u /\ k.redo = v /\ k.archive = a
    BY <1>3
  <2>2. Trimmed(k) = [undo |-> TrimHistory(k.undo), redo |-> TrimHistory(k.redo),
                      archive |-> TrimHistory(k.archive)]
    BY TrimmedIs
  <2> QED BY <1>2, <1>11, <2>1, <2>2
<1> HIDE DEF a1
<1>13. Numbered(a1, m, r) /\ Apart(u, a1) /\ Apart(v, a1)
  BY <1>5, <1>8, <1>9, NumberedPart, ApartParts
<1>14. g \in Stacks /\ g.undo = u /\ g.redo = v /\ g.archive = a1
  BY <1>2, <1>4, <1>9 DEF Stacks
<1>15. Held(g, m, r)
  BY <1>5, <1>6, <1>8, <1>9, <1>10, <1>13, <1>14 DEF Held, Distinct, Size
<1> QED BY <1>12, <1>15 DEF g, k

\* The history is cleared but for its pins.
Cleared(h) == [NoStacks EXCEPT !.archive = TrimHistory(Pinned(h.undo \o h.redo \o h.archive))]

LEMMA HeldCleared ==
    ASSUME NEW h, NEW m, NEW r, Held(h, m, r)
    PROVE  /\ Held(Cleared(h), m, r)
           /\ Cleared(h).undo = <<>> /\ Cleared(h).redo = <<>>
<1> DEFINE u0 == h.undo  v0 == h.redo  a0 == h.archive
           w == u0 \o v0  s == w \o a0  p == Pinned(s)  a == TrimHistory(p)  e == <<>>
           g == Cleared(h)
<1>1. /\ u0 \in Seq(CommandRecord) /\ v0 \in Seq(CommandRecord) /\ a0 \in Seq(CommandRecord)
      /\ Numbered(u0, m, r) /\ Numbered(v0, m, r) /\ Numbered(a0, m, r)
      /\ Different(u0) /\ Different(v0) /\ Different(a0)
      /\ Apart(u0, v0) /\ Apart(u0, a0) /\ Apart(v0, a0)
      /\ Limit \in Nat
  BY HistoryAssumption DEF Held, Stacks, Distinct
<1>2. g = [undo |-> e, redo |-> e, archive |-> a]
  BY DEF Cleared, NoStacks
<1> HIDE DEF u0, v0, a0, g
<1>3. w \in Seq(CommandRecord) /\ Elements(w) = Elements(u0) \cup Elements(v0) /\ Different(w)
  BY <1>1, ConcatElements, DifferentConcat
<1> HIDE DEF w
<1>4. Apart(w, a0)
  BY <1>1, <1>3 DEF Apart
<1>5. s \in Seq(CommandRecord) /\ Elements(s) = Elements(w) \cup Elements(a0) /\ Different(s)
  BY <1>1, <1>3, <1>4, ConcatElements, DifferentConcat
<1> HIDE DEF s
<1>6. p \in Seq(CommandRecord) /\ Elements(p) \subseteq Elements(s) /\ Different(p)
  BY <1>5, PinnedPart
<1> HIDE DEF p
<1>7. /\ a \in Seq(CommandRecord) /\ Elements(a) \subseteq Elements(p) /\ Different(a)
      /\ Bounded(a)
  BY <1>6, TrimPart, TrimBounded
<1> HIDE DEF a
<1>8. Numbered(a, m, r)
  BY <1>1, <1>3, <1>5, <1>6, <1>7 DEF Numbered
<1>9. e \in Seq(CommandRecord) /\ Len(e) = 0 /\ Elements(e) = {}
  BY NoElements
<1> HIDE DEF e
<1>10. Numbered(e, m, r) /\ Different(e) /\ Apart(e, e) /\ Apart(e, a)
  BY <1>9 DEF Numbered, Different, Apart
<1>11. g \in Stacks /\ g.undo = e /\ g.redo = e /\ g.archive = a
  BY <1>2, <1>7, <1>9 DEF Stacks
<1>12. Size(g) <= Limit
  BY <1>1, <1>9, <1>11 DEF Size
<1>13. Held(g, m, r)
  BY <1>7, <1>8, <1>10, <1>11, <1>12 DEF Held, Distinct
<1> QED BY <1>11, <1>13 DEF g, e

LEMMA HeldNone ==
    ASSUME NEW m, NEW r
    PROVE  Held(NoStacks, m, r)
<1> DEFINE e == <<>>
<1>1. e \in Seq(CommandRecord) /\ Len(e) = 0 /\ Elements(e) = {}
  BY NoElements
<1>2. NoStacks = [undo |-> e, redo |-> e, archive |-> e]
  BY DEF NoStacks
<1> HIDE DEF e
<1>3. NoStacks \in Stacks /\ NoStacks.undo = e /\ NoStacks.redo = e /\ NoStacks.archive = e
  BY <1>1, <1>2 DEF Stacks
<1>4. Numbered(e, m, r) /\ Different(e) /\ Apart(e, e)
  BY <1>1 DEF Numbered, Different, Apart
<1> QED BY <1>1, <1>3, <1>4, HistoryAssumption DEF Held, Distinct, Size, Bounded

-----------------------------------------------------------------------------
(* The line of commands *)

LEMMA OnIs ==
    ASSUME NEW h \in Stacks
    PROVE  /\ Len(h.undo) \in Nat /\ Len(h.redo) \in Nat /\ Size(h) \in Nat
           /\ Size(h) = Len(h.undo) + Len(h.redo)
           /\ \A i \in 1 .. Len(h.undo) : On(h, i) = h.undo[i] /\ i \in 1 .. Size(h)
           /\ \A i \in 1 .. Size(h) : On(h, i) \in CommandRecord
           /\ \A i \in 1 .. Size(h) : ~(i <= Len(h.undo)) =>
                /\ Size(h) + 1 - i \in 1 .. Len(h.redo)
                /\ On(h, i) = h.redo[Size(h) + 1 - i]
<1> DEFINE n == Len(h.undo)  k == Len(h.redo)  z == Size(h)
<1>1. n \in Nat /\ k \in Nat /\ z = n + k
  BY LenProperties DEF Stacks, Size
<1>2. h.undo \in Seq(CommandRecord) /\ h.redo \in Seq(CommandRecord)
  BY DEF Stacks
<1>a. \A i \in 1 .. z : On(h, i) = IF i <= n THEN h.undo[i] ELSE h.redo[z + 1 - i]
  BY DEF On
<1> HIDE DEF n, k, z
<1>3. \A i \in 1 .. n : i <= n /\ i \in 1 .. z
  BY <1>1
<1>4. \A i \in 1 .. n : On(h, i) = h.undo[i]
  BY <1>3, <1>a
<1>5. \A i \in 1 .. z : ~(i <= n) => z + 1 - i \in 1 .. k
  BY <1>1
<1>6. \A i \in 1 .. z : ~(i <= n) => On(h, i) = h.redo[z + 1 - i]
  BY <1>a
<1>b. z \in Nat
  BY <1>1
<1>7. \A i \in 1 .. z : On(h, i) \in CommandRecord
  <2> TAKE i \in 1 .. z
  <2>1. CASE i <= n
    <3>1. i \in 1 .. n
      BY <2>1, <1>1
    <3> QED BY <3>1, <1>2, <1>4 DEF n
  <2>2. CASE ~(i <= n)
    <3> DEFINE l == z + 1 - i
    <3>1. l \in 1 .. k /\ On(h, i) = h.redo[l]
      BY <2>2, <1>5, <1>6
    <3> HIDE DEF l
    <3> QED BY <3>1, <1>2 DEF k
  <2> QED BY <2>1, <2>2
<1> QED BY <1>1, <1>b, <1>3, <1>4, <1>5, <1>6, <1>7 DEF n, k, z

\* No command is twice on it.
LEMMA OnDiffers ==
    ASSUME NEW h \in Stacks, Distinct(h),
           NEW i \in 1 .. Size(h), NEW j \in 1 .. Size(h), On(h, i).id = On(h, j).id
    PROVE  i = j
<1> DEFINE n == Len(h.undo)  p == Len(h.redo)  z == Size(h)
           k == z + 1 - i  l == z + 1 - j
<1>1. n \in Nat /\ p \in Nat /\ z = n + p /\ z \in Nat
  BY OnIs
<1>a. \A a \in 1 .. n : On(h, a) = h.undo[a]
  BY OnIs
<1>b. \A a \in 1 .. z : ~(a <= n) => z + 1 - a \in 1 .. p /\ On(h, a) = h.redo[z + 1 - a]
  BY OnIs
<1>2. \A a \in 1 .. n, b \in 1 .. p : h.undo[a].id # h.redo[b].id
  BY DEF Distinct, Apart, Elements
<1>c. /\ \A a, b \in 1 .. n : h.undo[a].id = h.undo[b].id => a = b
      /\ \A a, b \in 1 .. p : h.redo[a].id = h.redo[b].id => a = b
  BY DEF Distinct, Different
<1> HIDE DEF n, p, z
<1>3. i \in 1 .. z /\ j \in 1 .. z /\ (k = l => i = j)
      /\ (i <= n => i \in 1 .. n) /\ (j <= n => j \in 1 .. n)
  BY <1>1 DEF z
<1>d. /\ ~(i <= n) => k \in 1 .. p /\ On(h, i) = h.redo[k]
      /\ ~(j <= n) => l \in 1 .. p /\ On(h, j) = h.redo[l]
  BY <1>3, <1>b
<1> HIDE DEF k, l
<1>4. CASE i <= n /\ j <= n
  BY <1>3, <1>4, <1>a, <1>c
<1>5. CASE ~(i <= n) /\ ~(j <= n)
  BY <1>3, <1>5, <1>c, <1>d
<1>6. CASE i <= n /\ ~(j <= n)
  BY <1>2, <1>3, <1>6, <1>a, <1>d
<1>7. CASE ~(i <= n) /\ j <= n
  BY <1>2, <1>3, <1>7, <1>a, <1>d
<1> QED BY <1>4, <1>5, <1>6, <1>7

\* Marks and pins leave it alone otherwise.
LEMMA OnAlike ==
    ASSUME NEW h \in Stacks, NEW g \in Stacks, Alike(h.undo, g.undo), Alike(h.redo, g.redo)
    PROVE  /\ Size(g) = Size(h) /\ Len(g.undo) = Len(h.undo)
           /\ \A i \in 1 .. Size(h) :
                On(g, i).id = On(h, i).id /\ On(g, i).effect = On(h, i).effect
           /\ Ordered(h) => Ordered(g)
<1>1. Size(g) = Size(h) /\ Len(g.undo) = Len(h.undo) /\ Len(g.redo) = Len(h.redo)
  BY DEF Size, Alike
<1>2. \A i \in 1 .. Size(h) : On(g, i).id = On(h, i).id /\ On(g, i).effect = On(h, i).effect
  <2> TAKE i \in 1 .. Size(h)
  <2>1. CASE i <= Len(h.undo)
    <3>1. i \in 1 .. Len(h.undo)
      BY <2>1, OnIs
    <3>2. On(h, i) = h.undo[i]
      BY <3>1, OnIs
    <3>3. On(g, i) = g.undo[i]
      BY <3>1, <1>1, OnIs
    <3> QED BY <3>1, <3>2, <3>3 DEF Alike
  <2>2. CASE ~(i <= Len(h.undo))
    <3> DEFINE k == Size(h) + 1 - i
    <3>1. k \in 1 .. Len(h.redo) /\ On(h, i) = h.redo[k]
      BY <2>2, OnIs
    <3>2. On(g, i) = g.redo[k]
      BY <2>2, <1>1, OnIs
    <3> HIDE DEF k
    <3> QED BY <3>1, <3>2 DEF Alike
  <2> QED BY <2>1, <2>2
<1>3. Ordered(h) => Ordered(g)
  BY <1>1, <1>2 DEF Ordered
<1> QED BY <1>1, <1>2, <1>3

LEMMA OnMark ==
    ASSUME NEW h \in Stacks, NEW id, NEW b \in BOOLEAN
    PROVE  LET g == Mark(h, id, b) IN
           /\ g \in Stacks /\ Size(g) = Size(h) /\ Len(g.undo) = Len(h.undo)
           /\ Alike(h.undo, g.undo) /\ Alike(h.redo, g.redo)
           /\ \A i \in 1 .. Size(h) :
                /\ On(g, i).id = On(h, i).id /\ On(g, i).effect = On(h, i).effect
                /\ On(g, i).undone = IF On(h, i).id = id THEN b ELSE On(h, i).undone
           /\ Ordered(h) => Ordered(g)
<1> DEFINE g == Mark(h, id, b)
           u == MarkIn(h.undo, id, b)  v == MarkIn(h.redo, id, b)
           a == MarkIn(h.archive, id, b)
<1>1. h.undo \in Seq(CommandRecord) /\ h.redo \in Seq(CommandRecord)
      /\ h.archive \in Seq(CommandRecord)
  BY DEF Stacks
<1>2. /\ u \in Seq(CommandRecord) /\ v \in Seq(CommandRecord) /\ a \in Seq(CommandRecord)
      /\ Alike(h.undo, u) /\ Alike(h.redo, v)
      /\ \A i \in 1 .. Len(h.undo) :
            u[i].undone = IF h.undo[i].id = id THEN b ELSE h.undo[i].undone
      /\ \A i \in 1 .. Len(h.redo) :
            v[i].undone = IF h.redo[i].id = id THEN b ELSE h.redo[i].undone
  BY <1>1, MarkAlike
<1>3. g = [undo |-> u, redo |-> v, archive |-> a]
  BY MarkIs
<1> HIDE DEF u, v, a, g
<1>4. g \in Stacks /\ g.undo = u /\ g.redo = v /\ g.archive = a
  BY <1>2, <1>3 DEF Stacks
<1>5. /\ Size(g) = Size(h) /\ Len(g.undo) = Len(h.undo)
      /\ \A i \in 1 .. Size(h) : On(g, i).id = On(h, i).id /\ On(g, i).effect = On(h, i).effect
      /\ Ordered(h) => Ordered(g)
  BY <1>2, <1>4, OnAlike
<1>6. \A i \in 1 .. Size(h) :
        On(g, i).undone = IF On(h, i).id = id THEN b ELSE On(h, i).undone
  <2> TAKE i \in 1 .. Size(h)
  <2>1. CASE i <= Len(h.undo)
    <3>1. i \in 1 .. Len(h.undo)
      BY <2>1, OnIs
    <3>2. On(h, i) = h.undo[i] /\ On(g, i) = u[i]
      BY <3>1, <1>4, <1>5, OnIs
    <3> QED BY <3>1, <3>2, <1>2
  <2>2. CASE ~(i <= Len(h.undo))
    <3> DEFINE k == Size(h) + 1 - i
    <3>1. k \in 1 .. Len(h.redo) /\ On(h, i) = h.redo[k]
      BY <2>2, OnIs
    <3>2. On(g, i) = v[k]
      BY <2>2, <1>4, <1>5, OnIs
    <3> HIDE DEF k
    <3> QED BY <3>1, <3>2, <1>2
  <2> QED BY <2>1, <2>2
<1>7. Alike(h.undo, g.undo) /\ Alike(h.redo, g.redo)
  BY <1>2, <1>4
<1> QED BY <1>4, <1>5, <1>6, <1>7 DEF g

\* Undo and redo do not change it.
LEMMA OnBack ==
    ASSUME NEW h \in Stacks, h.undo # <<>>
    PROVE  LET g == Back(h) IN
           /\ g \in Stacks /\ Size(g) = Size(h) /\ Len(g.undo) = Len(h.undo) - 1
           /\ Len(h.undo) \in 1 .. Size(h) /\ On(h, Len(h.undo)) = Last(h.undo)
           /\ \A i \in 1 .. Size(h) : On(g, i) = On(h, i)
<1> DEFINE g == Back(h)  u == Front(h.undo)  c == Last(h.undo)  v == Append(h.redo, c)
           n == Len(h.undo)
<1>1. h.undo \in Seq(CommandRecord) /\ h.redo \in Seq(CommandRecord)
      /\ h.archive \in Seq(CommandRecord)
  BY DEF Stacks
<1>2. /\ n \in Nat /\ n >= 1 /\ u \in Seq(CommandRecord) /\ Len(u) = n - 1
      /\ \A i \in 1 .. n - 1 : u[i] = h.undo[i]
      /\ c \in CommandRecord /\ c = h.undo[n]
  BY <1>1, FrontAndLast
<1> HIDE DEF u, c
<1>3. /\ v \in Seq(CommandRecord) /\ Len(v) = Len(h.redo) + 1 /\ Len(h.redo) \in Nat
      /\ \A i \in 1 .. Len(h.redo) : v[i] = h.redo[i]
      /\ v[Len(h.redo) + 1] = c
  BY <1>1, <1>2, AppendProperties, LenProperties
<1>4. g = [undo |-> u, redo |-> v, archive |-> h.archive]
  BY DEF Back, u, c
<1> HIDE DEF v, g
<1>5. g \in Stacks /\ g.undo = u /\ g.redo = v
  BY <1>1, <1>2, <1>3, <1>4 DEF Stacks
<1>6. Size(g) = Size(h) /\ Size(h) = n + Len(h.redo) /\ n \in 1 .. Size(h)
  <2>1. Size(g) = Len(u) + Len(v) /\ Size(h) = n + Len(h.redo)
    BY <1>5 DEF Size
  <2> HIDE DEF n
  <2> QED BY <2>1, <1>2, <1>3
<1> HIDE DEF n
<1>7. \A i \in 1 .. Size(h) : On(g, i) = On(h, i)
  <2> TAKE i \in 1 .. Size(h)
  <2>1. CASE i < n
    <3>1. i \in 1 .. n - 1 /\ i <= n - 1 /\ i <= n
      BY <2>1, <1>2
    <3> QED BY <3>1, <1>2, <1>5 DEF On, n
  <2>2. CASE i = n
    <3>1. ~(i <= n - 1) /\ i <= n /\ Size(g) + 1 - i = Len(h.redo) + 1
      BY <2>2, <1>2, <1>3, <1>6
    <3> QED BY <3>1, <2>2, <1>2, <1>3, <1>5 DEF On, n
  <2>3. CASE i > n
    <3>1. ~(i <= n - 1) /\ ~(i <= n) /\ Size(g) + 1 - i \in 1 .. Len(h.redo)
      BY <2>3, <1>2, <1>3, <1>6
    <3> QED BY <3>1, <1>2, <1>3, <1>5, <1>6 DEF On, n
  <2> QED BY <2>1, <2>2, <2>3, <1>2
<1>8. On(h, n) = c
  BY <1>2 DEF On, n
<1> QED BY <1>2, <1>5, <1>6, <1>7, <1>8 DEF g, n, c

LEMMA OnForth ==
    ASSUME NEW h \in Stacks, h.redo # <<>>
    PROVE  LET g == Forth(h) IN
           /\ g \in Stacks /\ Size(g) = Size(h) /\ Len(g.undo) = Len(h.undo) + 1
           /\ Len(h.undo) + 1 \in 1 .. Size(h) /\ On(h, Len(h.undo) + 1) = Last(h.redo)
           /\ \A i \in 1 .. Size(h) : On(g, i) = On(h, i)
<1> DEFINE g == Forth(h)  v == Front(h.redo)  c == Last(h.redo)  u == Append(h.undo, c)
           n == Len(h.undo)  k == Len(h.redo)
<1>1. h.undo \in Seq(CommandRecord) /\ h.redo \in Seq(CommandRecord)
      /\ h.archive \in Seq(CommandRecord)
  BY DEF Stacks
<1>2. /\ k \in Nat /\ k >= 1 /\ v \in Seq(CommandRecord) /\ Len(v) = k - 1
      /\ \A i \in 1 .. k - 1 : v[i] = h.redo[i]
      /\ c \in CommandRecord /\ c = h.redo[k]
  BY <1>1, FrontAndLast
<1> HIDE DEF v, c
<1>3. /\ u \in Seq(CommandRecord) /\ Len(u) = n + 1 /\ n \in Nat
      /\ \A i \in 1 .. n : u[i] = h.undo[i]
      /\ u[n + 1] = c
  BY <1>1, <1>2, AppendProperties, LenProperties
<1>4. g = [undo |-> u, redo |-> v, archive |-> h.archive]
  BY DEF Forth, v, c
<1> HIDE DEF u, g
<1>5. g \in Stacks /\ g.undo = u /\ g.redo = v
  BY <1>1, <1>2, <1>3, <1>4 DEF Stacks
<1>6. Size(g) = Size(h) /\ Size(h) = n + k /\ n + 1 \in 1 .. Size(h)
  <2>1. Size(g) = Len(u) + Len(v) /\ Size(h) = n + k
    BY <1>5 DEF Size
  <2> HIDE DEF n, k
  <2> QED BY <2>1, <1>2, <1>3
<1> HIDE DEF n, k
<1>7. \A i \in 1 .. Size(h) : On(g, i) = On(h, i)
  <2> TAKE i \in 1 .. Size(h)
  <2>1. CASE i <= n
    <3>1. i \in 1 .. n /\ i <= n + 1
      BY <2>1, <1>3
    <3> QED BY <3>1, <2>1, <1>3, <1>5 DEF On, n
  <2>2. CASE i = n + 1
    <3>1. ~(i <= n) /\ i <= n + 1 /\ Size(h) + 1 - i = k
      BY <2>2, <1>2, <1>3, <1>6
    <3> QED BY <3>1, <2>2, <1>2, <1>3, <1>5 DEF On, n
  <2>3. CASE i > n + 1
    <3>1. ~(i <= n) /\ ~(i <= n + 1) /\ Size(h) + 1 - i \in 1 .. k - 1
      BY <2>3, <1>2, <1>3, <1>6
    <3> QED BY <3>1, <1>2, <1>3, <1>5, <1>6 DEF On, n
  <2> QED BY <2>1, <2>2, <2>3, <1>3
<1>8. On(h, n + 1) = c
  <2>1. ~(n + 1 <= n) /\ Size(h) + 1 - (n + 1) = k
    BY <1>2, <1>3, <1>6
  <2> QED BY <2>1, <1>2 DEF On, n
<1> QED BY <1>3, <1>5, <1>6, <1>7, <1>8 DEF g, n, c

LEMMA HeldOn ==
    ASSUME NEW h, NEW m \in Nat, NEW r, Held(h, m, r)
    PROVE  /\ h \in Stacks /\ Distinct(h) /\ Size(h) <= Limit
           /\ \A i \in 1 .. Size(h) : On(h, i).id \in 1 .. m /\ On(h, i).id # 0
<1>1. h \in Stacks /\ Distinct(h) /\ Size(h) <= Limit
  BY DEF Held
<1>2. /\ \A i \in 1 .. Len(h.undo) : h.undo[i].id \in 1 .. m
      /\ \A i \in 1 .. Len(h.redo) : h.redo[i].id \in 1 .. m
  BY DEF Held, Numbered, Elements
<1>3. \A i \in 1 .. Size(h) : On(h, i).id \in 1 .. m
  <2> TAKE i \in 1 .. Size(h)
  <2>1. CASE i <= Len(h.undo)
    <3>1. i \in 1 .. Len(h.undo)
      BY <2>1, <1>1, OnIs
    <3> QED BY <3>1, <1>1, <1>2, OnIs
  <2>2. CASE ~(i <= Len(h.undo))
    <3> DEFINE k == Size(h) + 1 - i
    <3>1. k \in 1 .. Len(h.redo) /\ On(h, i) = h.redo[k]
      BY <2>2, <1>1, OnIs
    <3> HIDE DEF k
    <3> QED BY <3>1, <1>2
  <2> QED BY <2>1, <2>2
<1>4. \A x \in 1 .. m : x # 0
  OBVIOUS
<1> QED BY <1>1, <1>3, <1>4

\* A command with an effect that is undone takes the mark of its source along.
LEMMA LinedBack ==
    ASSUME NEW h, NEW m \in Nat, NEW r, Held(h, m, r),
           h.undo # <<>>, Lined(h), NEW c, c = Last(h.undo)
    PROVE  Lined(Unmark(Back(h), c))
<1> DEFINE n == Len(h.undo)  z == Size(h)  b == Back(h)
           g == Unmark(b, c)
<1>0. h \in Stacks /\ \A i \in 1 .. z : On(h, i).id # 0
  BY HeldOn
<1>1. /\ b \in Stacks /\ Size(b) = z /\ Len(b.undo) = n - 1
      /\ n \in 1 .. z /\ On(h, n) = c
      /\ \A i \in 1 .. z : On(b, i) = On(h, i)
  BY <1>0, OnBack
<1>2. n \in Nat /\ z \in Nat
  BY <1>0, OnIs
<1>3. /\ \A i, j \in 1 .. z : On(h, j).effect = On(h, i).id => i < j
      /\ \A i, j \in 1 .. z : On(h, i).effect # 0 /\ On(h, i).effect = On(h, j).effect => i = j
      /\ \A i \in 1 .. z : On(h, i).undone <=>
            (i <= n /\ \E j \in 1 .. n : On(h, j).effect = On(h, i).id)
  BY DEF Lined, Ordered, MarksHold
<1> HIDE DEF n, z, b
<1>4. Ordered(b)
  BY <1>1, <1>3 DEF Ordered
<1> DEFINE Hit(i) == On(h, i).id = c.effect
<1>5. /\ g \in Stacks /\ Size(g) = z /\ Len(g.undo) = n - 1
      /\ \A i \in 1 .. z : On(g, i).id = On(h, i).id /\ On(g, i).effect = On(h, i).effect
      /\ \A i \in 1 .. z : On(g, i).undone = IF Hit(i) THEN FALSE ELSE On(h, i).undone
      /\ Ordered(g)
  <2>1. CASE c.effect = 0
    <3>1. g = b
      BY <2>1 DEF Unmark
    <3> HIDE DEF g
    <3> QED BY <3>1, <2>1, <1>0, <1>1, <1>4
  <2>2. CASE c.effect # 0
    <3> DEFINE e == c.effect  f == FALSE
    <3>1. g = Mark(b, e, f)
      BY <2>2 DEF Unmark
    <3>2. f \in BOOLEAN
      OBVIOUS
    <3> HIDE DEF g, e, f
    <3>3. /\ g \in Stacks /\ Size(g) = Size(b) /\ Len(g.undo) = Len(b.undo)
          /\ \A i \in 1 .. Size(b) :
                /\ On(g, i).id = On(b, i).id /\ On(g, i).effect = On(b, i).effect
                /\ On(g, i).undone = IF On(b, i).id = e THEN f ELSE On(b, i).undone
          /\ Ordered(b) => Ordered(g)
      BY <3>1, <3>2, <1>1, OnMark
    <3> QED BY <3>3, <1>1, <1>4 DEF e, f
  <2> QED BY <2>1, <2>2
<1> HIDE DEF g
<1>6. ASSUME NEW i \in 1 .. z
      PROVE  On(g, i).undone <=>
                (i <= n - 1 /\ \E j \in 1 .. n - 1 : On(h, j).effect = On(h, i).id)
  <2>0. \A j \in 1 .. n : j \in 1 .. z /\ (j # n => j \in 1 .. n - 1)
    BY <1>1, <1>2
  <2>1. \A j \in 1 .. n - 1 : j \in 1 .. n /\ j # n /\ j \in 1 .. z
    BY <1>1, <1>2
  <2>2. CASE Hit(i)
    <3>1. ~On(g, i).undone
      BY <2>2, <1>5
    <3>2. \A j \in 1 .. n - 1 : On(h, j).effect # On(h, i).id
      BY <2>2, <2>1, <1>0, <1>1, <1>3
    <3> QED BY <3>1, <3>2
  <2>3. CASE ~Hit(i)
    <3>1. On(g, i).undone <=> On(h, i).undone
      BY <2>3, <1>5
    <3>2. \A j \in 1 .. n : On(h, j).effect = On(h, i).id => j \in 1 .. n - 1 /\ i <= n - 1
      <4> TAKE j \in 1 .. n
      <4> HAVE On(h, j).effect = On(h, i).id
      <4>1. j # n
        BY <2>3, <1>1
      <4>2. j \in 1 .. n - 1 /\ i < j
        BY <4>1, <2>0, <1>3
      <4> QED BY <4>2, <1>2
    <3>3. i <= n - 1 => i <= n
      BY <1>2
    <3> QED BY <3>1, <3>2, <3>3, <2>1, <1>3
  <2> QED BY <2>2, <2>3
<1>7. MarksHold(g)
  <2>1. \A j \in 1 .. n - 1 : j \in 1 .. z
    BY <1>1, <1>2
  <2>2. \A i \in 1 .. Size(g) :
            On(g, i).undone <=>
                (i <= Len(g.undo) /\ \E j \in 1 .. Len(g.undo) : On(g, j).effect = On(g, i).id)
    BY <1>5, <1>6, <2>1
  <2> QED BY <2>2 DEF MarksHold
<1> QED BY <1>5, <1>7 DEF Lined, g, b

LEMMA LinedForth ==
    ASSUME NEW h, NEW m \in Nat, NEW r, Held(h, m, r),
           h.redo # <<>>, Lined(h), NEW c, c = Last(h.redo)
    PROVE  Lined(Remark(Forth(h), c))
<1> DEFINE n == Len(h.undo)  z == Size(h)  b == Forth(h)
           g == Remark(b, c)
<1>0. h \in Stacks /\ \A i \in 1 .. z : On(h, i).id # 0
  BY HeldOn
<1>1. /\ b \in Stacks /\ Size(b) = z /\ Len(b.undo) = n + 1
      /\ n + 1 \in 1 .. z /\ On(h, n + 1) = c
      /\ \A i \in 1 .. z : On(b, i) = On(h, i)
  BY <1>0, OnForth
<1>2. n \in Nat /\ z \in Nat
  BY <1>0, OnIs
<1>3. /\ \A i, j \in 1 .. z : On(h, j).effect = On(h, i).id => i < j
      /\ \A i, j \in 1 .. z : On(h, i).effect # 0 /\ On(h, i).effect = On(h, j).effect => i = j
      /\ \A i \in 1 .. z : On(h, i).undone <=>
            (i <= n /\ \E j \in 1 .. n : On(h, j).effect = On(h, i).id)
  BY DEF Lined, Ordered, MarksHold
<1> HIDE DEF n, z, b
<1>4. Ordered(b)
  BY <1>1, <1>3 DEF Ordered
<1> DEFINE Hit(i) == On(h, i).id = c.effect
<1>5. /\ g \in Stacks /\ Size(g) = z /\ Len(g.undo) = n + 1
      /\ \A i \in 1 .. z : On(g, i).id = On(h, i).id /\ On(g, i).effect = On(h, i).effect
      /\ \A i \in 1 .. z : On(g, i).undone = IF Hit(i) THEN TRUE ELSE On(h, i).undone
      /\ Ordered(g)
  <2>1. CASE c.effect = 0
    <3>1. g = b
      BY <2>1 DEF Remark
    <3> HIDE DEF g
    <3> QED BY <3>1, <2>1, <1>0, <1>1, <1>4
  <2>2. CASE c.effect # 0
    <3> DEFINE e == c.effect  f == TRUE
    <3>1. g = Mark(b, e, f)
      BY <2>2 DEF Remark
    <3>2. f \in BOOLEAN
      OBVIOUS
    <3> HIDE DEF g, e, f
    <3>3. /\ g \in Stacks /\ Size(g) = Size(b) /\ Len(g.undo) = Len(b.undo)
          /\ \A i \in 1 .. Size(b) :
                /\ On(g, i).id = On(b, i).id /\ On(g, i).effect = On(b, i).effect
                /\ On(g, i).undone = IF On(b, i).id = e THEN f ELSE On(b, i).undone
          /\ Ordered(b) => Ordered(g)
      BY <3>1, <3>2, <1>1, OnMark
    <3> QED BY <3>3, <1>1, <1>4 DEF e, f
  <2> QED BY <2>1, <2>2
<1> HIDE DEF g
<1>6. ASSUME NEW i \in 1 .. z
      PROVE  On(g, i).undone <=>
                (i <= n + 1 /\ \E j \in 1 .. n + 1 : On(h, j).effect = On(h, i).id)
  <2>0. n + 1 \in 1 .. n + 1 /\ \A j \in 1 .. n + 1 : j \in 1 .. z /\ (j # n + 1 => j \in 1 .. n)
    BY <1>1, <1>2
  <2>1. \A j \in 1 .. n : j \in 1 .. n + 1 /\ j \in 1 .. z
    BY <1>1, <1>2
  <2>2. CASE Hit(i)
    <3>1. On(g, i).undone
      BY <2>2, <1>5
    <3>2. On(h, n + 1).effect = On(h, i).id /\ i < n + 1
      BY <2>2, <1>1, <1>3
    <3>3. i <= n + 1
      BY <3>2, <1>2
    <3> QED BY <3>1, <3>2, <3>3, <2>0
  <2>3. CASE ~Hit(i)
    <3>1. On(g, i).undone <=> On(h, i).undone
      BY <2>3, <1>5
    <3>2. \A j \in 1 .. n + 1 : On(h, j).effect = On(h, i).id => j \in 1 .. n /\ i <= n
      <4> TAKE j \in 1 .. n + 1
      <4> HAVE On(h, j).effect = On(h, i).id
      <4>1. j # n + 1
        BY <2>3, <1>1
      <4>2. j \in 1 .. n /\ i < j
        BY <4>1, <2>0, <1>3
      <4> QED BY <4>2, <1>2
    <3>3. i <= n => i <= n + 1
      BY <1>2
    <3> QED BY <3>1, <3>2, <3>3, <2>1, <1>3
  <2> QED BY <2>2, <2>3
<1>7. MarksHold(g)
  <2>1. \A j \in 1 .. n + 1 : j \in 1 .. z
    BY <1>1, <1>2
  <2>2. \A i \in 1 .. Size(g) :
            On(g, i).undone <=>
                (i <= Len(g.undo) /\ \E j \in 1 .. Len(g.undo) : On(g, j).effect = On(g, i).id)
    BY <1>5, <1>6, <2>1
  <2> QED BY <2>2 DEF MarksHold
<1> QED BY <1>5, <1>7 DEF Lined, g, b

LEMMA LinedPin ==
    ASSUME NEW h, NEW m \in Nat, NEW r, Held(h, m, r), NEW id, Lined(h)
    PROVE  Lined(Pin(h, id))
<1> DEFINE u == TogglePin(h.undo, id)  v == TogglePin(h.redo, id)  g == Pin(h, id)
<1>1. h \in Stacks /\ g \in Stacks /\ h.undo \in Seq(CommandRecord) /\ h.redo \in Seq(CommandRecord)
  BY HeldPin DEF Held, Stacks
<1>2. g.undo = u /\ g.redo = v
  BY DEF Pin
<1>3. /\ Alike(h.undo, u) /\ Alike(h.redo, v)
      /\ \A i \in 1 .. Len(h.undo) : u[i].undone = h.undo[i].undone
      /\ \A i \in 1 .. Len(h.redo) : v[i].undone = h.redo[i].undone
  BY <1>1, PinAlike
<1> HIDE DEF u, v, g
<1>4. /\ Size(g) = Size(h) /\ Len(g.undo) = Len(h.undo)
      /\ \A i \in 1 .. Size(h) : On(g, i).id = On(h, i).id /\ On(g, i).effect = On(h, i).effect
      /\ Ordered(g)
  BY <1>1, <1>2, <1>3, OnAlike DEF Lined
<1>5. \A i \in 1 .. Size(h) : On(g, i).undone = On(h, i).undone
  <2> TAKE i \in 1 .. Size(h)
  <2>1. CASE i <= Len(h.undo)
    <3>1. i \in 1 .. Len(h.undo)
      BY <2>1, <1>1, OnIs
    <3>2. On(h, i) = h.undo[i] /\ On(g, i) = u[i]
      BY <3>1, <1>1, <1>2, <1>4, OnIs
    <3> QED BY <3>1, <3>2, <1>3
  <2>2. CASE ~(i <= Len(h.undo))
    <3> DEFINE k == Size(h) + 1 - i
    <3>1. k \in 1 .. Len(h.redo) /\ On(h, i) = h.redo[k]
      BY <2>2, <1>1, OnIs
    <3>2. On(g, i) = v[k]
      BY <2>2, <1>1, <1>2, <1>4, OnIs
    <3> HIDE DEF k
    <3> QED BY <3>1, <3>2, <1>3
  <2> QED BY <2>1, <2>2
<1>6. \A j \in 1 .. Len(h.undo) : j \in 1 .. Size(h)
  BY <1>1, OnIs
<1>7. MarksHold(g)
  BY <1>4, <1>5, <1>6 DEF Lined, MarksHold
<1> QED BY <1>4, <1>7 DEF Lined, g

\* The same of the commands to undo alone.
InLine(s) ==
    /\ \A i, j \in 1 .. Len(s) : s[j].effect = s[i].id => i < j
    /\ \A i, j \in 1 .. Len(s) : s[i].effect # 0 /\ s[i].effect = s[j].effect => i = j
    /\ \A i \in 1 .. Len(s) : s[i].undone <=> \E j \in 1 .. Len(s) : s[j].effect = s[i].id

LEMMA InLineUndo ==
    ASSUME NEW h \in Stacks, Lined(h)
    PROVE  InLine(h.undo)
<1>1. \A i \in 1 .. Len(h.undo) : On(h, i) = h.undo[i] /\ i \in 1 .. Size(h)
  BY OnIs
<1>2. \A i \in 1 .. Len(h.undo) : i <= Len(h.undo)
  OBVIOUS
<1> QED BY <1>1, <1>2 DEF Lined, Ordered, MarksHold, InLine

LEMMA InLineStack ==
    ASSUME NEW h \in Stacks, h.redo = <<>>, InLine(h.undo)
    PROVE  Lined(h)
<1> DEFINE n == Len(h.undo)  k == Len(h.redo)  z == Size(h)
<1>0. k = 0
  OBVIOUS
<1>1. z = n + k /\ n \in Nat
  BY OnIs
<1>2. \A i \in 1 .. n : On(h, i) = h.undo[i]
  BY OnIs
<1>3. /\ \A i, j \in 1 .. n : h.undo[j].effect = h.undo[i].id => i < j
      /\ \A i, j \in 1 .. n : h.undo[i].effect # 0 /\ h.undo[i].effect = h.undo[j].effect => i = j
      /\ \A i \in 1 .. n : h.undo[i].undone <=>
            \E j \in 1 .. n : h.undo[j].effect = h.undo[i].id
  BY DEF InLine
<1> HIDE DEF n, k, z
<1>4. z = n /\ \A i \in 1 .. n : i <= n
  BY <1>0, <1>1
<1>5. /\ \A i, j \in 1 .. z : On(h, j).effect = On(h, i).id => i < j
      /\ \A i, j \in 1 .. z : On(h, i).effect # 0 /\ On(h, i).effect = On(h, j).effect => i = j
  BY <1>2, <1>3, <1>4
<1>6. \A i \in 1 .. z : On(h, i).undone <=>
            (i <= n /\ \E j \in 1 .. n : On(h, j).effect = On(h, i).id)
  BY <1>2, <1>3, <1>4
<1> QED BY <1>5, <1>6 DEF Lined, Ordered, MarksHold, z, n

LEMMA InLineTail ==
    ASSUME NEW s \in Seq(CommandRecord), s # <<>>, InLine(s)
    PROVE  InLine(Tail(s))
<1> DEFINE n == Len(s)  t == Tail(s)
<1>1. n \in Nat /\ n >= 1 /\ Len(t) = n - 1 /\ \A i \in 1 .. n - 1 : t[i] = s[i + 1]
  BY LenProperties, EmptySeq, HeadTailProperties
<1>2. /\ \A i, j \in 1 .. n : s[j].effect = s[i].id => i < j
      /\ \A i, j \in 1 .. n : s[i].effect # 0 /\ s[i].effect = s[j].effect => i = j
      /\ \A i \in 1 .. n : s[i].undone <=> \E j \in 1 .. n : s[j].effect = s[i].id
  BY DEF InLine
<1> HIDE DEF n, t
<1>3. \A i \in 1 .. n - 1 : i + 1 \in 1 .. n
  BY <1>1
<1>4. \A i, j \in 1 .. n - 1 : t[j].effect = t[i].id => i < j
  <2> TAKE i \in 1 .. n - 1, j \in 1 .. n - 1
  <2> HAVE t[j].effect = t[i].id
  <2>1. i + 1 \in 1 .. n /\ j + 1 \in 1 .. n /\ t[i] = s[i + 1] /\ t[j] = s[j + 1]
    BY <1>1, <1>3
  <2>2. i + 1 < j + 1
    BY <2>1, <1>2
  <2> QED BY <2>2, <1>1
<1>5. \A i, j \in 1 .. n - 1 : t[i].effect # 0 /\ t[i].effect = t[j].effect => i = j
  <2> TAKE i \in 1 .. n - 1, j \in 1 .. n - 1
  <2> HAVE t[i].effect # 0 /\ t[i].effect = t[j].effect
  <2>1. i + 1 \in 1 .. n /\ j + 1 \in 1 .. n /\ t[i] = s[i + 1] /\ t[j] = s[j + 1]
    BY <1>1, <1>3
  <2>2. i + 1 = j + 1
    BY <2>1, <1>2
  <2> QED BY <2>2, <1>1
<1>6. \A i \in 1 .. n - 1 : t[i].undone <=> \E j \in 1 .. n - 1 : t[j].effect = t[i].id
  <2> TAKE i \in 1 .. n - 1
  <2>1. t[i] = s[i + 1] /\ i + 1 \in 1 .. n
    BY <1>1, <1>3
  <2>2. ASSUME NEW j \in 1 .. n, s[j].effect = s[i + 1].id
        PROVE  \E k \in 1 .. n - 1 : t[k].effect = t[i].id
    <3>1. i + 1 < j
      BY <2>1, <2>2, <1>2
    <3> DEFINE k == j - 1
    <3>2. k \in 1 .. n - 1 /\ k + 1 = j
      BY <3>1, <1>1
    <3> HIDE DEF k
    <3>3. t[k] = s[j]
      BY <3>2, <1>1
    <3> QED BY <3>2, <3>3, <2>1, <2>2
  <2>3. ASSUME NEW k \in 1 .. n - 1, t[k].effect = t[i].id
        PROVE  \E j \in 1 .. n : s[j].effect = s[i + 1].id
    <3>1. t[k] = s[k + 1] /\ k + 1 \in 1 .. n
      BY <1>1, <1>3
    <3> QED BY <3>1, <2>1, <2>3
  <2>4. s[i + 1].undone <=> \E j \in 1 .. n : s[j].effect = s[i + 1].id
    BY <2>1, <1>2
  <2> QED BY <2>1, <2>2, <2>3, <2>4
<1> QED BY <1>1, <1>4, <1>5, <1>6 DEF InLine, t, n

\* A command on top is no source yet; its own source, if any, is marked.
LEMMA InLineAppend ==
    ASSUME NEW s \in Seq(CommandRecord), NEW c \in CommandRecord,
           \A i, j \in 1 .. Len(s) : s[j].effect = s[i].id => i < j,
           \A i, j \in 1 .. Len(s) : s[i].effect # 0 /\ s[i].effect = s[j].effect => i = j,
           \A i \in 1 .. Len(s) : s[i].undone <=>
                (c.effect = s[i].id \/ \E j \in 1 .. Len(s) : s[j].effect = s[i].id),
           ~c.undone, c.effect # c.id,
           \A i \in 1 .. Len(s) : s[i].effect # c.id /\ (c.effect # 0 => s[i].effect # c.effect)
    PROVE  InLine(Append(s, c))
<1> DEFINE n == Len(s)  t == Append(s, c)
<1>1. /\ n \in Nat /\ Len(t) = n + 1
      /\ \A i \in 1 .. n : t[i] = s[i]
      /\ t[n + 1] = c
  BY AppendProperties, LenProperties
<1>2. /\ \A i, j \in 1 .. n : s[j].effect = s[i].id => i < j
      /\ \A i, j \in 1 .. n : s[i].effect # 0 /\ s[i].effect = s[j].effect => i = j
      /\ \A i \in 1 .. n : s[i].undone <=>
            (c.effect = s[i].id \/ \E j \in 1 .. n : s[j].effect = s[i].id)
      /\ \A i \in 1 .. n : s[i].effect # c.id /\ (c.effect # 0 => s[i].effect # c.effect)
  OBVIOUS
<1> HIDE DEF n, t
<1>3. /\ \A i \in 1 .. n + 1 : i \in 1 .. n \/ i = n + 1
      /\ \A i \in 1 .. n : i < n + 1 /\ i \in 1 .. n + 1
      /\ n + 1 \in 1 .. n + 1
  BY <1>1
<1>4. \A i, j \in 1 .. n + 1 : t[j].effect = t[i].id => i < j
  BY <1>1, <1>2, <1>3
<1>5. \A i, j \in 1 .. n + 1 : t[i].effect # 0 /\ t[i].effect = t[j].effect => i = j
  BY <1>1, <1>2, <1>3
<1>6. \A i \in 1 .. n + 1 : t[i].undone <=> \E j \in 1 .. n + 1 : t[j].effect = t[i].id
  <2> TAKE i \in 1 .. n + 1
  <2>1. CASE i = n + 1
    <3>1. \A j \in 1 .. n + 1 : t[j].effect # t[i].id
      BY <2>1, <1>1, <1>2, <1>3
    <3> QED BY <3>1, <2>1, <1>1
  <2>2. CASE i # n + 1
    <3>1. i \in 1 .. n /\ t[i] = s[i]
      BY <2>2, <1>1, <1>3
    <3>2. s[i].undone <=> (c.effect = s[i].id \/ \E j \in 1 .. n : s[j].effect = s[i].id)
      BY <3>1, <1>2
    <3>3. ASSUME NEW j \in 1 .. n + 1, t[j].effect = s[i].id
          PROVE  c.effect = s[i].id \/ \E k \in 1 .. n : s[k].effect = s[i].id
      <4>1. CASE j \in 1 .. n
        <5>1. s[j].effect = s[i].id
          BY <4>1, <3>3, <1>1
        <5> QED BY <5>1, <4>1
      <4>2. CASE j = n + 1
        BY <4>2, <3>3, <1>1
      <4> QED BY <4>1, <4>2, <1>3
    <3>4. (c.effect = s[i].id \/ \E k \in 1 .. n : s[k].effect = s[i].id)
            => \E j \in 1 .. n + 1 : t[j].effect = s[i].id
      BY <1>1, <1>3
    <3> QED BY <3>1, <3>2, <3>3, <3>4
  <2> QED BY <2>1, <2>2
<1> QED BY <1>1, <1>4, <1>5, <1>6 DEF InLine, t, n

\* What a push leaves of a stack, unless there is a hole.
Newest(s) == IF Len(s) > Limit THEN Tail(s) ELSE s

LEMMA NewestOfPush ==
    ASSUME NEW s \in Seq(CommandRecord), NEW t \in Seq(CommandRecord),
           s # <<>>, Len(s) <= Limit + 1, ~s[Len(s)].pinned, Different(s), ~Hole(s),
           Len(t) = Len(s), \A i \in 1 .. Len(s) : t[i].pinned = s[i].pinned
    PROVE  TrimHistory(t) = Newest(t)
<1>0. Len(s) \in Nat /\ Limit \in Nat
  BY LenProperties, HistoryAssumption
<1>1. CASE Len(s) <= Limit
  <2>1. TrimHistory(t) = t
    BY <1>1, TrimIs
  <2>2. ~(Len(t) > Limit)
    BY <1>0, <1>1
  <2> QED BY <2>1, <2>2 DEF Newest
<1>2. CASE ~(Len(s) <= Limit)
  <2>1. ~s[1].pinned
    BY <1>2, TrimPush
  <2>2. Len(t) = Limit + 1 /\ 1 \in 1 .. Len(s) /\ Len(t) > Limit
    BY <1>0, <1>2
  <2>3. ~t[1].pinned
    BY <2>1, <2>2
  <2> QED BY <2>2, <2>3, TrimFirst DEF Newest
<1> QED BY <1>1, <1>2

-----------------------------------------------------------------------------
(* The commands fit the content of the page *)

LEMMA FitsAlike ==
    ASSUME NEW h, NEW g, NEW v, Alike(h.undo, g.undo), Alike(h.redo, g.redo),
           h \in Stacks, Fits(h, v)
    PROVE  Fits(g, v)
<1> DEFINE n == Len(h.undo)  k == Len(h.redo)
<1>1. n \in Nat /\ k \in Nat /\ Len(g.undo) = n /\ Len(g.redo) = k
  BY OnIs DEF Alike
<1>2. /\ \A i \in 1 .. n : g.undo[i].before = h.undo[i].before /\ g.undo[i].after = h.undo[i].after
      /\ \A i \in 1 .. k : g.redo[i].before = h.redo[i].before /\ g.redo[i].after = h.redo[i].after
  BY DEF Alike
<1>3. /\ \A i \in 1 .. n : h.undo[i].after = IF i = n THEN v ELSE h.undo[i + 1].before
      /\ \A i \in 1 .. k : h.redo[i].before = IF i = k THEN v ELSE h.redo[i + 1].after
  BY DEF Fits
<1> HIDE DEF n, k
<1>4. /\ \A i \in 1 .. n : i # n => i + 1 \in 1 .. n
      /\ \A i \in 1 .. k : i # k => i + 1 \in 1 .. k
  BY <1>1
<1>5. \A i \in 1 .. n : g.undo[i].after = IF i = n THEN v ELSE g.undo[i + 1].before
  BY <1>2, <1>3, <1>4
<1>6. \A i \in 1 .. k : g.redo[i].before = IF i = k THEN v ELSE g.redo[i + 1].after
  BY <1>2, <1>3, <1>4
<1> QED BY <1>1, <1>5, <1>6 DEF Fits

LEMMA FitsMove ==
    ASSUME NEW h \in Stacks, NEW v, Fits(h, v)
    PROVE  /\ h.undo # <<>> =>
                Fits(Back(h), Last(h.undo).before) /\ Last(h.undo).after = v
           /\ h.redo # <<>> =>
                Fits(Forth(h), Last(h.redo).after) /\ Last(h.redo).before = v
<1> DEFINE n == Len(h.undo)  k == Len(h.redo)
<1>1. n \in Nat /\ k \in Nat
  BY OnIs
<1>2. h.undo \in Seq(CommandRecord) /\ h.redo \in Seq(CommandRecord)
  BY DEF Stacks
<1>3. /\ \A i \in 1 .. n : h.undo[i].after = IF i = n THEN v ELSE h.undo[i + 1].before
      /\ \A i \in 1 .. k : h.redo[i].before = IF i = k THEN v ELSE h.redo[i + 1].after
  BY DEF Fits
<1>4. ASSUME h.undo # <<>>
      PROVE  Fits(Back(h), Last(h.undo).before) /\ Last(h.undo).after = v
  <2> DEFINE c == Last(h.undo)  u == Front(h.undo)  w == Append(h.redo, c)
  <2>1. /\ n >= 1 /\ Len(u) = n - 1 /\ \A i \in 1 .. n - 1 : u[i] = h.undo[i]
        /\ c = h.undo[n] /\ c \in CommandRecord
    BY <1>2, <1>4, FrontAndLast
  <2> HIDE DEF c, u
  <2>2. Len(w) = k + 1 /\ (\A i \in 1 .. k : w[i] = h.redo[i]) /\ w[k + 1] = c
    BY <1>2, <2>1, AppendProperties
  <2>3. Back(h).undo = u /\ Back(h).redo = w
    BY DEF Back, u, w, c
  <2> HIDE DEF w, n, k
  <2>4. n \in 1 .. n /\ c.after = v
    BY <1>1, <1>3, <2>1
  <2>5. \A i \in 1 .. n - 1 : u[i].after = IF i = n - 1 THEN c.before ELSE u[i + 1].before
    <3> TAKE i \in 1 .. n - 1
    <3>1. i \in 1 .. n /\ i # n /\ (i = n - 1 => i + 1 = n) /\ (i # n - 1 => i + 1 \in 1 .. n - 1)
      BY <1>1, <2>1
    <3>2. u[i].after = h.undo[i + 1].before
      BY <3>1, <1>3, <2>1
    <3> QED BY <3>1, <3>2, <2>1
  <2>6. \A i \in 1 .. k + 1 : w[i].before = IF i = k + 1 THEN c.before ELSE w[i + 1].after
    <3> TAKE i \in 1 .. k + 1
    <3>1. CASE i = k + 1
      BY <3>1, <2>2
    <3>2. CASE i # k + 1
      <4>1. i \in 1 .. k /\ (i # k => i + 1 \in 1 .. k)
        BY <3>2, <1>1
      <4>2. w[i].before = IF i = k THEN v ELSE h.redo[i + 1].after
        BY <4>1, <1>3, <2>2
      <4> QED BY <4>1, <4>2, <3>2, <2>2, <2>4
    <3> QED BY <3>1, <3>2
  <2> QED BY <2>1, <2>2, <2>3, <2>4, <2>5, <2>6 DEF Fits, c
<1>5. ASSUME h.redo # <<>>
      PROVE  Fits(Forth(h), Last(h.redo).after) /\ Last(h.redo).before = v
  <2> DEFINE c == Last(h.redo)  u == Append(h.undo, c)  w == Front(h.redo)
  <2>1. /\ k >= 1 /\ Len(w) = k - 1 /\ \A i \in 1 .. k - 1 : w[i] = h.redo[i]
        /\ c = h.redo[k] /\ c \in CommandRecord
    BY <1>2, <1>5, FrontAndLast
  <2> HIDE DEF c, w
  <2>2. Len(u) = n + 1 /\ (\A i \in 1 .. n : u[i] = h.undo[i]) /\ u[n + 1] = c
    BY <1>2, <2>1, AppendProperties
  <2>3. Forth(h).undo = u /\ Forth(h).redo = w
    BY DEF Forth, u, w, c
  <2> HIDE DEF u, n, k
  <2>4. k \in 1 .. k /\ c.before = v
    BY <1>1, <1>3, <2>1
  <2>5. \A i \in 1 .. k - 1 : w[i].before = IF i = k - 1 THEN c.after ELSE w[i + 1].after
    <3> TAKE i \in 1 .. k - 1
    <3>1. i \in 1 .. k /\ i # k /\ (i = k - 1 => i + 1 = k) /\ (i # k - 1 => i + 1 \in 1 .. k - 1)
      BY <1>1, <2>1
    <3>2. w[i].before = h.redo[i + 1].after
      BY <3>1, <1>3, <2>1
    <3> QED BY <3>1, <3>2, <2>1
  <2>6. \A i \in 1 .. n + 1 : u[i].after = IF i = n + 1 THEN c.after ELSE u[i + 1].before
    <3> TAKE i \in 1 .. n + 1
    <3>1. CASE i = n + 1
      BY <3>1, <2>2
    <3>2. CASE i # n + 1
      <4>1. i \in 1 .. n /\ (i # n => i + 1 \in 1 .. n)
        BY <3>2, <1>1
      <4>2. u[i].after = IF i = n THEN v ELSE h.undo[i + 1].before
        BY <4>1, <1>3, <2>2
      <4> QED BY <4>1, <4>2, <3>2, <2>2, <2>4
    <3> QED BY <3>1, <3>2
  <2> QED BY <2>1, <2>2, <2>3, <2>4, <2>5, <2>6 DEF Fits, c
<1> QED BY <1>4, <1>5

LEMMA FitsPush ==
    ASSUME NEW h \in Stacks, NEW v, Fits(h, v), NEW u \in Seq(CommandRecord), Alike(h.undo, u),
           NEW c \in CommandRecord, c.before = v,
           NEW g, g.undo = Newest(Append(u, c)), g.redo = <<>>
    PROVE  Fits(g, c.after)
<1> DEFINE n == Len(u)  s == Append(u, c)  t == g.undo
<1>1. /\ n \in Nat /\ s \in Seq(CommandRecord) /\ Len(s) = n + 1 /\ s # <<>>
      /\ (\A i \in 1 .. n : s[i] = u[i]) /\ s[n + 1] = c
  <2>1. /\ n \in Nat /\ s \in Seq(CommandRecord) /\ Len(s) = n + 1
        /\ (\A i \in 1 .. n : s[i] = u[i]) /\ s[n + 1] = c
    BY AppendProperties, LenProperties
  <2> QED BY <2>1, EmptySeq
<1>2. Len(h.undo) = n /\ \A i \in 1 .. n : u[i].before = h.undo[i].before /\ u[i].after = h.undo[i].after
  BY DEF Alike
<1>3. \A i \in 1 .. n : h.undo[i].after = IF i = n THEN v ELSE h.undo[i + 1].before
  BY <1>2 DEF Fits
<1> HIDE DEF n, s
<1>4. \A i \in 1 .. n + 1 : s[i].after = IF i = n + 1 THEN c.after ELSE s[i + 1].before
  <2> TAKE i \in 1 .. n + 1
  <2>1. CASE i = n + 1
    BY <2>1, <1>1
  <2>2. CASE i # n + 1
    <3>1. i \in 1 .. n /\ (i # n => i + 1 \in 1 .. n)
      BY <2>2, <1>1
    <3>2. s[i].after = IF i = n THEN v ELSE h.undo[i + 1].before
      BY <3>1, <1>1, <1>2, <1>3
    <3> QED BY <3>1, <3>2, <2>2, <1>1, <1>2
  <2> QED BY <2>1, <2>2
<1>5. CASE t = s
  <2>1. \A i \in 1 .. Len(g.undo) :
            g.undo[i].after = IF i = Len(g.undo) THEN c.after ELSE g.undo[i + 1].before
    BY <1>1, <1>4, <1>5
  <2> QED BY <2>1 DEF Fits
<1>6. CASE t = Tail(s)
  <2>1. Len(t) = n /\ \A i \in 1 .. n : t[i] = s[i + 1]
    <3>1. Len(Tail(s)) = Len(s) - 1 /\ \A i \in 1 .. Len(s) - 1 : Tail(s)[i] = s[i + 1]
      BY <1>1, HeadTailProperties
    <3>2. Len(s) - 1 = n
      BY <1>1
    <3> QED BY <3>1, <3>2, <1>6
  <2> HIDE DEF t
  <2>2. \A i \in 1 .. n : t[i].after = IF i = n THEN c.after ELSE t[i + 1].before
    <3> TAKE i \in 1 .. n
    <3>1. i + 1 \in 1 .. n + 1 /\ (i = n <=> i + 1 = n + 1) /\ (i # n => i + 1 \in 1 .. n)
      BY <1>1
    <3>2. s[i + 1].after = IF i + 1 = n + 1 THEN c.after ELSE s[(i + 1) + 1].before
      BY <3>1, <1>4
    <3> QED BY <3>1, <3>2, <2>1
  <2> QED BY <2>1, <2>2 DEF Fits, t
<1> QED BY <1>5, <1>6 DEF Newest, s

-----------------------------------------------------------------------------
(* A new command on the line *)

\* A command that no command of h knows.
New(h, c) == \A x \in Commands(h) : x.id # c.id /\ x.effect # c.id

\* The stacks k with the command c on top are a line again, where k is h but for
\* marks.
LEMMA PushedLine ==
    ASSUME NEW h, NEW k, NEW m \in Nat, NEW r, Held(h, m, r), Held(k, m, r),
           Alike(h.undo, k.undo),
           \A i \in 1 .. Len(h.undo) : k.undo[i].pinned = h.undo[i].pinned,
           NEW c \in CommandRecord, c.id \in 1 .. m, c.id # r,
           c.effect \in 0 .. m, c.effect = 0 \/ c.effect # r,
           ~c.pinned, New(h, c), New(k, c), Fits(h, c.before),
           ~Hole(Append(h.undo, c)), InLine(Append(k.undo, c))
    PROVE  LET g == Push(k, c) IN
           g.undo = Newest(Append(k.undo, c)) /\ Lined(g) /\ Fits(g, c.after)
<1> DEFINE g == Push(k, c)  s == Append(h.undo, c)  t == Append(k.undo, c)
<1>1. /\ h.undo \in Seq(CommandRecord) /\ k.undo \in Seq(CommandRecord)
      /\ h \in Stacks /\ Different(h.undo)
  BY DEF Held, Stacks, Distinct
<1>2. Len(h.undo) <= Limit
  <2> DEFINE n == Len(h.undo)  l == Len(h.redo)
  <2>1. n + l <= Limit
    BY DEF Held, Size
  <2>2. n \in Nat /\ l \in Nat
    BY <1>1, OnIs
  <2> HIDE DEF n, l
  <2>3. n <= Limit
    BY <2>1, <2>2, HistoryAssumption
  <2> QED BY <2>3 DEF n
<1>3. /\ s \in Seq(CommandRecord) /\ Len(s) = Len(h.undo) + 1 /\ s # <<>>
      /\ (\A i \in 1 .. Len(h.undo) : s[i] = h.undo[i]) /\ s[Len(s)] = c
      /\ Len(h.undo) \in Nat
  <2>1. /\ s \in Seq(CommandRecord) /\ Len(s) = Len(h.undo) + 1
        /\ (\A i \in 1 .. Len(h.undo) : s[i] = h.undo[i]) /\ s[Len(s)] = c
        /\ Len(h.undo) \in Nat
    BY <1>1, AppendProperties, LenProperties
  <2> QED BY <2>1, EmptySeq
<1>4. /\ t \in Seq(CommandRecord) /\ Len(t) = Len(k.undo) + 1 /\ t # <<>>
      /\ (\A i \in 1 .. Len(k.undo) : t[i] = k.undo[i]) /\ t[Len(t)] = c
  <2>1. /\ t \in Seq(CommandRecord) /\ Len(t) = Len(k.undo) + 1
        /\ (\A i \in 1 .. Len(k.undo) : t[i] = k.undo[i]) /\ t[Len(t)] = c
        /\ Len(k.undo) \in Nat
    BY <1>1, AppendProperties, LenProperties
  <2> QED BY <2>1, EmptySeq, SMTT(30)
<1>5. \A x \in Elements(h.undo) : x.id # c.id
  BY DEF New, Commands
<1>6. Different(s)
  BY <1>1, <1>5, DifferentAppend
<1>7. \A x \in Commands(k) : x.id # c.id
  BY DEF New
<1>8. Held(g, m, r) /\ g.undo = TrimHistory(t) /\ g.redo = <<>>
  BY <1>7, HeldPush
<1> HIDE DEF g, s, t
<1>9. Len(k.undo) = Len(h.undo)
  BY DEF Alike
<1>10. Len(t) = Len(s) /\ \A i \in 1 .. Len(s) : t[i].pinned = s[i].pinned
  <2>1. Len(t) = Len(s)
    BY <1>3, <1>4, <1>9
  <2>2. ASSUME NEW i \in 1 .. Len(s) PROVE t[i].pinned = s[i].pinned
    <3>1. CASE i = Len(s)
      BY <3>1, <2>1, <1>3, <1>4
    <3>2. CASE i # Len(s)
      <4>1. i \in 1 .. Len(h.undo)
        BY <3>2, <1>3
      <4> QED BY <4>1, <1>3, <1>4, <1>9
    <3> QED BY <3>1, <3>2
  <2> QED BY <2>1, <2>2
<1>11. g.undo = Newest(t)
  <2>1. Len(s) <= Limit + 1 /\ ~s[Len(s)].pinned
    BY <1>2, <1>3, HistoryAssumption
  <2>2. ~Hole(s)
    BY DEF s
  <2> QED BY <2>1, <2>2, <1>3, <1>4, <1>6, <1>8, <1>10, NewestOfPush
<1>12. Lined(g)
  <2>1. InLine(g.undo)
    <3>1. InLine(t)
      BY DEF t
    <3>2. InLine(Tail(t))
      BY <3>1, <1>4, InLineTail
    <3> QED BY <3>1, <3>2, <1>11 DEF Newest
  <2>2. g \in Stacks
    BY <1>8 DEF Held
  <2> QED BY <2>1, <2>2, <1>8, InLineStack
<1>13. Fits(g, c.after)
  <2> DEFINE v == c.before  u == k.undo
  <2>1. v = c.before /\ u \in Seq(CommandRecord) /\ Alike(h.undo, u) /\ Fits(h, v)
    BY <1>1
  <2>2. g.undo = Newest(Append(u, c))
    BY <1>11 DEF t
  <2> HIDE DEF v, u
  <2> QED BY <2>1, <2>2, <1>1, <1>8, FitsPush
<1> QED BY <1>11, <1>12, <1>13 DEF g, t

\* A command of its own.
LEMMA PushLine ==
    ASSUME NEW h, NEW m \in Nat, NEW r, Held(h, m, r), Lined(h),
           NEW c \in CommandRecord, c.id \in 1 .. m, c.id # r, c.effect = 0,
           ~c.pinned, ~c.undone, New(h, c), Fits(h, c.before), ~Hole(Append(h.undo, c))
    PROVE  LET g == Push(h, c) IN
           g.undo = Newest(Append(h.undo, c)) /\ Lined(g) /\ Fits(g, c.after)
<1> DEFINE u == h.undo
<1>1. u \in Seq(CommandRecord) /\ h \in Stacks /\ Different(u)
  BY DEF Held, Stacks, Distinct
<1>2. InLine(u)
  BY <1>1, InLineUndo
<1>3. \A i \in 1 .. Len(u) : u[i].id # 0
  BY DEF Held, Numbered, Elements
<1>4. \A i \in 1 .. Len(u) : u[i].effect # c.id
  BY DEF New, Commands, Elements
<1>5. Alike(u, u)
  BY DEF Alike
<1>6. c.effect # c.id
  OBVIOUS
<1> HIDE DEF u
<1>7. InLine(Append(u, c))
  <2>1. /\ \A i, j \in 1 .. Len(u) : u[j].effect = u[i].id => i < j
        /\ \A i, j \in 1 .. Len(u) : u[i].effect # 0 /\ u[i].effect = u[j].effect => i = j
    BY <1>2 DEF InLine
  <2>2. \A i \in 1 .. Len(u) : u[i].undone <=>
            (c.effect = u[i].id \/ \E j \in 1 .. Len(u) : u[j].effect = u[i].id)
    BY <1>2, <1>3 DEF InLine
  <2>3. \A i \in 1 .. Len(u) : u[i].effect # c.id /\ (c.effect # 0 => u[i].effect # c.effect)
    BY <1>4
  <2> QED BY <2>1, <2>2, <2>3, <1>1, <1>6, InLineAppend
<1>8. c.effect \in 0 .. m
  BY <1>1
<1> QED BY <1>5, <1>7, <1>8, PushedLine DEF u

\* A command that undid the category of another, which it marks.
LEMMA PushMarkLine ==
    ASSUME NEW h, NEW m \in Nat, NEW r, Held(h, m, r), Lined(h),
           NEW i \in 1 .. Len(h.undo), ~h.undo[i].undone,
           NEW c \in CommandRecord, c.id \in 1 .. m, c.id # r, c.effect = h.undo[i].id,
           ~c.pinned, ~c.undone, New(h, c), Fits(h, c.before), ~Hole(Append(h.undo, c))
    PROVE  LET k == Mark(h, c.effect, TRUE)  g == Push(k, c) IN
           /\ g.undo = Newest(Append(k.undo, c)) /\ Lined(g) /\ Fits(g, c.after)
           /\ Alike(h.undo, k.undo) /\ k.undo \in Seq(CommandRecord)
<1> DEFINE b == TRUE  e == c.effect  k == Mark(h, e, b)  u0 == h.undo  u == MarkIn(u0, e, b)
<1>0. b \in BOOLEAN
  OBVIOUS
<1>1. /\ u0 \in Seq(CommandRecord) /\ h \in Stacks /\ Different(u0)
      /\ h.redo \in Seq(CommandRecord) /\ h.archive \in Seq(CommandRecord)
  BY DEF Held, Stacks, Distinct
<1>2. InLine(u0)
  BY <1>1, InLineUndo
<1>3. \A j \in 1 .. Len(u0) : u0[j].effect # c.id /\ u0[j].id # c.id
  BY DEF New, Commands, Elements
<1>4. /\ \A j \in 1 .. Len(u0) : u0[j].effect # e
      /\ \A j \in 1 .. Len(u0) : u0[j].id = e <=> j = i
      /\ e # c.id
  BY <1>2, <1>1, <1>3 DEF InLine, Different
<1>5. e \in 1 .. m /\ e # r
  BY DEF Held, Numbered, Elements
<1> HIDE DEF b, e, u0
<1>6. /\ u \in Seq(CommandRecord) /\ Alike(u0, u)
      /\ \A j \in 1 .. Len(u0) :
            /\ u[j].pinned = u0[j].pinned
            /\ u[j].undone = IF u0[j].id = e THEN b ELSE u0[j].undone
  BY <1>0, <1>1, MarkAlike
<1>7. k.undo = u /\ k.redo = MarkIn(h.redo, e, b) /\ k.archive = MarkIn(h.archive, e, b)
  BY MarkIs DEF u0
<1>8. Alike(h.redo, k.redo) /\ Alike(h.archive, k.archive)
  BY <1>0, <1>1, <1>7, MarkAlike
<1>9. Held(k, m, r)
  BY <1>0, HeldMark
<1> HIDE DEF k, u
<1>10. New(k, c)
  <2>1. \A s, t : Alike(s, t) /\ (\A x \in Elements(s) : x.id # c.id /\ x.effect # c.id)
                    => \A x \in Elements(t) : x.id # c.id /\ x.effect # c.id
    BY DEF Alike, Elements
  <2>2. /\ \A x \in Elements(h.undo) : x.id # c.id /\ x.effect # c.id
        /\ \A x \in Elements(h.redo) : x.id # c.id /\ x.effect # c.id
        /\ \A x \in Elements(h.archive) : x.id # c.id /\ x.effect # c.id
    BY DEF New, Commands
  <2>3. Alike(h.undo, k.undo)
    BY <1>6, <1>7 DEF u0
  <2>4. /\ \A x \in Elements(k.undo) : x.id # c.id /\ x.effect # c.id
        /\ \A x \in Elements(k.redo) : x.id # c.id /\ x.effect # c.id
        /\ \A x \in Elements(k.archive) : x.id # c.id /\ x.effect # c.id
    BY <2>1, <2>2, <2>3, <1>8
  <2> QED BY <2>4 DEF New, Commands
<1>11. InLine(Append(u, c))
  <2>0. /\ Len(u) = Len(u0)
        /\ \A j \in 1 .. Len(u0) : u[j].id = u0[j].id /\ u[j].effect = u0[j].effect
    BY <1>6 DEF Alike
  <2>1. /\ \A a, d \in 1 .. Len(u0) : u0[d].effect = u0[a].id => a < d
        /\ \A a, d \in 1 .. Len(u0) : u0[a].effect # 0 /\ u0[a].effect = u0[d].effect => a = d
        /\ \A a \in 1 .. Len(u0) : u0[a].undone <=> \E d \in 1 .. Len(u0) : u0[d].effect = u0[a].id
    BY <1>2 DEF InLine
  <2>2. /\ \A a, d \in 1 .. Len(u) : u[d].effect = u[a].id => a < d
        /\ \A a, d \in 1 .. Len(u) : u[a].effect # 0 /\ u[a].effect = u[d].effect => a = d
    BY <2>0, <2>1
  <2>3. \A a \in 1 .. Len(u) : u[a].undone <=>
            (e = u[a].id \/ \E d \in 1 .. Len(u) : u[d].effect = u[a].id)
    <3> TAKE a \in 1 .. Len(u)
    <3>1. CASE a = i
      <4>1. u0[a].id = e
        BY <3>1, <1>4 DEF u0
      <4> QED BY <4>1, <2>0, <1>6 DEF b
    <3>2. CASE a # i
      <4>1. u0[a].id # e
        BY <3>2, <2>0, <1>4
      <4>2. u[a].undone = u0[a].undone
        BY <4>1, <2>0, <1>6
      <4> QED BY <4>1, <4>2, <2>0, <2>1
    <3> QED BY <3>1, <3>2
  <2>4. \A a \in 1 .. Len(u) : u[a].effect # c.id /\ (e # 0 => u[a].effect # e)
    BY <2>0, <1>3, <1>4
  <2>5. e = c.effect
    BY DEF e
  <2> QED BY <2>2, <2>3, <2>4, <2>5, <1>4, <1>6, InLineAppend
<1>12. c.effect \in 0 .. m /\ c.effect # r
  BY <1>5 DEF e
<1>13. /\ Alike(h.undo, k.undo) /\ InLine(Append(k.undo, c))
       /\ \A j \in 1 .. Len(h.undo) : k.undo[j].pinned = h.undo[j].pinned
  BY <1>6, <1>7, <1>11 DEF u0
<1>14. LET g == Push(k, c) IN
       g.undo = Newest(Append(k.undo, c)) /\ Lined(g) /\ Fits(g, c.after)
  BY <1>9, <1>10, <1>12, <1>13, PushedLine
<1>15. k.undo \in Seq(CommandRecord)
  BY <1>6, <1>7
<1> QED BY <1>13, <1>14, <1>15 DEF k, e, b

\* What the invariant says of the stacks after a new command.
LEMMA NewCommand ==
    ASSUME NEW h, NEW m \in Nat, NEW r, Held(h, m, r), NEW c \in CommandRecord,
           c.id > m \/ (c.id = r /\ c.id # 0)
    PROVE  New(h, c)
<1>1. c.id \in Nat
  BY DEF CommandRecord
<1>2. \A s : Numbered(s, m, r) => \A x \in Elements(s) : x.id # c.id /\ x.effect # c.id
  <2> SUFFICES ASSUME NEW s, Numbered(s, m, r), NEW x \in Elements(s)
               PROVE  x.id # c.id /\ x.effect # c.id
    OBVIOUS
  <2>1. /\ x.id \in 1 .. m /\ x.id # r
        /\ x.effect \in 0 .. m /\ (x.effect = 0 \/ x.effect # r)
    BY DEF Numbered
  <2> QED BY <2>1, <1>1
<1> QED BY <1>2 DEF Held, New, Commands

LEMMA SoundPush ==
    ASSUME NEW h, NEW m \in Nat, NEW r, NEW t \in BOOLEAN, Sound(h, m, r, t),
           NEW c \in CommandRecord, c.id \in 1 .. m, c.id # r, c.effect = 0,
           ~c.pinned, ~c.undone, New(h, c), t \/ Fits(h, c.before),
           NEW t1, t1 = (t \/ Hole(Append(h.undo, c)))
    PROVE  LET g == Push(h, c) IN
           /\ Sound(g, m, r, t1) /\ (t1 \/ Fits(g, c.after))
           /\ t1 \/ g.undo = Newest(Append(h.undo, c))
           /\ g.redo = <<>>
<1> DEFINE g == Push(h, c)
<1>1. Held(h, m, r)
  BY DEF Sound
<1>2. c.effect \in 0 .. m /\ \A x \in Commands(h) : x.id # c.id
  BY DEF New
<1>3. Held(g, m, r) /\ g.redo = <<>>
  BY <1>1, <1>2, HeldPush
<1>4. ASSUME ~t1
      PROVE  g.undo = Newest(Append(h.undo, c)) /\ Lined(g) /\ Fits(g, c.after)
  <2>1. ~t /\ ~Hole(Append(h.undo, c))
    BY <1>4
  <2>2. Lined(h) /\ Fits(h, c.before)
    BY <2>1 DEF Sound
  <2> HIDE DEF g
  <2> QED BY <2>1, <2>2, <1>1, PushLine DEF g
<1> HIDE DEF g
<1> QED BY <1>3, <1>4 DEF Sound, g

\* The commands with one of them marked as undone.
Undone(h, id) == Mark(h, id, TRUE)

LEMMA SoundMarkPush ==
    ASSUME NEW h, NEW m \in Nat, NEW r, NEW t \in BOOLEAN, Sound(h, m, r, t),
           NEW i \in 1 .. Len(h.undo), ~h.undo[i].undone,
           NEW c \in CommandRecord, c.id \in 1 .. m, c.id # r, c.effect = h.undo[i].id,
           ~c.pinned, ~c.undone, New(h, c), t \/ Fits(h, c.before),
           NEW t1, t1 = (t \/ Hole(Append(h.undo, c))),
           NEW k, k = Undone(h, c.effect), NEW g, g = Push(k, c)
    PROVE  /\ Sound(g, m, r, t1) /\ (t1 \/ Fits(g, c.after))
           /\ t1 \/ g.undo = Newest(Append(k.undo, c))
           /\ Alike(h.undo, k.undo) /\ k.undo \in Seq(CommandRecord)
           /\ g.redo = <<>>
<1> DEFINE b == TRUE  e == c.effect
<1>0. b \in BOOLEAN
  OBVIOUS
<1>1. Held(h, m, r) /\ h \in Stacks
  BY DEF Sound, Held
<1>2. c.effect \in 0 .. m /\ c.effect # r
  BY <1>1 DEF Held, Numbered, Elements
<1>a. k = Mark(h, e, b)
  BY DEF Undone
<1> HIDE DEF b, e
<1>3. Held(k, m, r)
  BY <1>0, <1>1, <1>a, HeldMark
<1>4. /\ h.undo \in Seq(CommandRecord) /\ h.redo \in Seq(CommandRecord)
      /\ h.archive \in Seq(CommandRecord)
  BY <1>1 DEF Stacks
<1>5. /\ k.undo = MarkIn(h.undo, e, b) /\ k.redo = MarkIn(h.redo, e, b)
      /\ k.archive = MarkIn(h.archive, e, b)
  <2> DEFINE x == MarkIn(h.undo, e, b)  y == MarkIn(h.redo, e, b)
             z == MarkIn(h.archive, e, b)
  <2>1. k = [undo |-> x, redo |-> y, archive |-> z]
    BY <1>a, MarkIs
  <2> HIDE DEF x, y, z
  <2>2. k.undo = x /\ k.redo = y /\ k.archive = z
    BY <2>1
  <2> QED BY <2>2 DEF x, y, z
<1>6. /\ Alike(h.undo, k.undo) /\ Alike(h.redo, k.redo) /\ Alike(h.archive, k.archive)
      /\ k.undo \in Seq(CommandRecord)
  <2>1. \A s \in Seq(CommandRecord) :
            Alike(s, MarkIn(s, e, b)) /\ MarkIn(s, e, b) \in Seq(CommandRecord)
    BY <1>0, MarkAlike
  <2> QED BY <2>1, <1>4, <1>5
<1>7. \A x \in Commands(k) : x.id # c.id
  <2>1. \A s, u : Alike(s, u) /\ (\A x \in Elements(s) : x.id # c.id)
                    => \A x \in Elements(u) : x.id # c.id
    BY DEF Alike, Elements
  <2>2. /\ \A x \in Elements(h.undo) : x.id # c.id
        /\ \A x \in Elements(h.redo) : x.id # c.id
        /\ \A x \in Elements(h.archive) : x.id # c.id
    BY DEF New, Commands
  <2>3. /\ \A x \in Elements(k.undo) : x.id # c.id
        /\ \A x \in Elements(k.redo) : x.id # c.id
        /\ \A x \in Elements(k.archive) : x.id # c.id
    BY <2>1, <2>2, <1>6
  <2> QED BY <2>3 DEF Commands
<1>8. Held(g, m, r) /\ g.redo = <<>>
  BY <1>2, <1>3, <1>7, HeldPush
<1>9. ASSUME ~t1
      PROVE  g.undo = Newest(Append(k.undo, c)) /\ Lined(g) /\ Fits(g, c.after)
  <2>1. ~t /\ ~Hole(Append(h.undo, c))
    BY <1>9
  <2>2. Lined(h) /\ Fits(h, c.before)
    BY <2>1 DEF Sound
  <2> QED BY <2>1, <2>2, <1>1, PushMarkLine DEF Undone
<1> QED BY <1>6, <1>8, <1>9 DEF Sound

LEMMA SoundUndo ==
    ASSUME NEW h, NEW m \in Nat, NEW r, NEW t, Sound(h, m, r, t), h.undo # <<>>,
           NEW c, c = Last(h.undo), NEW v, t \/ Fits(h, v)
    PROVE  LET g == Unmark(Back(h), c) IN
           /\ Sound(g, m, r, t) /\ (t \/ Fits(g, c.before))
           /\ Alike(Back(h).undo, g.undo) /\ Alike(Back(h).redo, g.redo)
           /\ Back(h) \in Stacks /\ c.before \in Content
<1> DEFINE k == Back(h)  g == Unmark(k, c)
<1>1. Held(h, m, r) /\ h \in Stacks
  BY DEF Sound, Held
<1>2. Held(k, m, r)
  BY <1>1, HeldMove
<1>3. c.before \in Content
  <2>1. c \in CommandRecord
    BY <1>1, FrontAndLast DEF Stacks
  <2> QED BY <2>1 DEF CommandRecord
<1>4. k \in Stacks
  BY <1>2 DEF Held
<1> HIDE DEF k
<1>5. Held(g, m, r) /\ Alike(k.undo, g.undo) /\ Alike(k.redo, g.redo)
  <2>1. CASE c.effect = 0
    <3>1. g = k
      BY <2>1 DEF Unmark
    <3> QED BY <3>1, <1>2 DEF Alike
  <2>2. CASE c.effect # 0
    <3> DEFINE b == FALSE  e == c.effect
    <3>1. g = Mark(k, e, b) /\ b \in BOOLEAN
      BY <2>2 DEF Unmark
    <3> HIDE DEF b, e, g
    <3>2. Held(g, m, r)
      BY <3>1, <1>2, HeldMark
    <3>3. Alike(k.undo, g.undo) /\ Alike(k.redo, g.redo)
      BY <3>1, <1>4, OnMark
    <3> QED BY <3>2, <3>3
  <2> QED BY <2>1, <2>2
<1>6. ASSUME ~t PROVE Lined(g) /\ Fits(g, c.before)
  <2>1. Lined(h) /\ Fits(h, v)
    BY <1>6 DEF Sound
  <2>2. Lined(g)
    BY <2>1, <1>1, LinedBack DEF k
  <2>3. Fits(k, c.before)
    BY <2>1, <1>1, FitsMove DEF k
  <2> HIDE DEF g
  <2> QED BY <2>2, <2>3, <1>4, <1>5, FitsAlike
<1> HIDE DEF g
<1> QED BY <1>3, <1>4, <1>5, <1>6 DEF Sound, g, k

LEMMA SoundRedo ==
    ASSUME NEW h, NEW m \in Nat, NEW r, NEW t, Sound(h, m, r, t), h.redo # <<>>,
           NEW c, c = Last(h.redo), NEW v, t \/ Fits(h, v),
           NEW k, k = Forth(h), NEW g, g = Remark(k, c)
    PROVE  /\ Sound(g, m, r, t) /\ (t \/ Fits(g, c.after))
           /\ Alike(k.undo, g.undo) /\ Alike(k.redo, g.redo)
           /\ k \in Stacks /\ c.after \in Content
<1>1. Held(h, m, r) /\ h \in Stacks
  BY DEF Sound, Held
<1>2. Held(k, m, r)
  BY <1>1, HeldMove
<1>3. c.after \in Content
  <2>1. c \in CommandRecord
    BY <1>1, FrontAndLast DEF Stacks
  <2> QED BY <2>1 DEF CommandRecord
<1>4. k \in Stacks
  BY <1>2 DEF Held
<1>5. Held(g, m, r) /\ Alike(k.undo, g.undo) /\ Alike(k.redo, g.redo)
  <2>1. CASE c.effect = 0
    <3>1. g = k
      BY <2>1 DEF Remark
    <3> QED BY <3>1, <1>2 DEF Alike
  <2>2. CASE c.effect # 0
    <3> DEFINE b == TRUE  e == c.effect
    <3>1. g = Mark(k, e, b) /\ b \in BOOLEAN
      BY <2>2 DEF Remark
    <3> HIDE DEF b, e
    <3>2. Held(g, m, r)
      BY <3>1, <1>2, HeldMark
    <3>3. Alike(k.undo, g.undo) /\ Alike(k.redo, g.redo)
      BY <3>1, <1>4, OnMark
    <3> QED BY <3>2, <3>3
  <2> QED BY <2>1, <2>2
<1>6. ASSUME ~t PROVE Lined(g) /\ Fits(g, c.after)
  <2>1. Lined(h) /\ Fits(h, v)
    BY <1>6 DEF Sound
  <2>2. Lined(g)
    BY <2>1, <1>1, LinedForth
  <2>3. Fits(k, c.after)
    BY <2>1, <1>1, FitsMove
  <2> QED BY <2>2, <2>3, <1>4, <1>5, FitsAlike
<1> QED BY <1>3, <1>4, <1>5, <1>6 DEF Sound

-----------------------------------------------------------------------------
(* The line of contents *)

Past(h) == [i \in 1 .. Len(h.undo) |-> h.undo[i].before]
Future(h) == [i \in 1 .. Len(h.redo) |-> h.redo[Len(h.redo) + 1 - i].after]

LEMMA LineIs ==
    ASSUME NEW h \in Stacks
    PROVE  /\ Past(h) \in Seq(Content) /\ Len(Past(h)) = Len(h.undo)
           /\ \A i \in 1 .. Len(h.undo) : Past(h)[i] = h.undo[i].before
           /\ Future(h) \in Seq(Content) /\ Len(Future(h)) = Len(h.redo)
           /\ \A i \in 1 .. Len(h.redo) : Future(h)[i] = h.redo[Len(h.redo) + 1 - i].after
           /\ Len(h.undo) \in Nat /\ Len(h.redo) \in Nat
           /\ h.undo = <<>> => Past(h) = <<>>
           /\ h.redo = <<>> => Future(h) = <<>>
<1> DEFINE n == Len(h.undo)  k == Len(h.redo)
           p == [i \in 1 .. n |-> h.undo[i].before]
           f == [i \in 1 .. k |-> h.redo[k + 1 - i].after]
<1>1. n \in Nat /\ k \in Nat
  BY OnIs
<1>a. h.undo \in Seq(CommandRecord) /\ h.redo \in Seq(CommandRecord)
  BY DEF Stacks
<1>b. \A c \in CommandRecord : c.before \in Content /\ c.after \in Content
  BY DEF CommandRecord
<1>2. \A i \in 1 .. n : h.undo[i].before \in Content
  BY <1>a, <1>b
<1>3. \A i \in 1 .. k : h.redo[i].after \in Content
  BY <1>a, <1>b
<1>4. (h.undo = <<>> => n = 0) /\ (h.redo = <<>> => k = 0)
  OBVIOUS
<1> HIDE DEF n, k
<1>5. \A i \in 1 .. k : k + 1 - i \in 1 .. k
  BY <1>1
<1>6. \A i \in 1 .. k : h.redo[k + 1 - i].after \in Content
  BY <1>3, <1>5
<1>7. p \in Seq(Content) /\ Len(p) = n /\ \A i \in 1 .. n : p[i] = h.undo[i].before
  BY <1>1, <1>2
<1>8. f \in Seq(Content) /\ Len(f) = k /\ \A i \in 1 .. k : f[i] = h.redo[k + 1 - i].after
  BY <1>1, <1>6
<1>9. Past(h) = p /\ Future(h) = f
  BY DEF Past, Future, n, k
<1> HIDE DEF p, f
<1>10. (h.undo = <<>> => p = <<>>) /\ (h.redo = <<>> => f = <<>>)
  BY <1>4, <1>7, <1>8, EmptySeq
<1> QED BY <1>1, <1>7, <1>8, <1>9, <1>10 DEF n, k

LEMMA LineAlike ==
    ASSUME NEW h \in Stacks, NEW g \in Stacks
    PROVE  /\ Alike(h.undo, g.undo) => Past(g) = Past(h)
           /\ Alike(h.redo, g.redo) => Future(g) = Future(h)
<1>1. ASSUME Alike(h.undo, g.undo) PROVE Past(g) = Past(h)
  <2>1. Len(g.undo) = Len(h.undo) /\ \A i \in 1 .. Len(h.undo) : g.undo[i].before = h.undo[i].before
    BY <1>1 DEF Alike
  <2> QED BY <2>1 DEF Past
<1>2. ASSUME Alike(h.redo, g.redo) PROVE Future(g) = Future(h)
  <2> DEFINE k == Len(h.redo)
  <2>1. Len(g.redo) = k /\ \A i \in 1 .. k : g.redo[i].after = h.redo[i].after
    BY <1>2 DEF Alike
  <2>2. k \in Nat
    BY OnIs
  <2>3. Future(h) = [i \in 1 .. k |-> h.redo[k + 1 - i].after]
    BY DEF Future
  <2>4. Future(g) = [i \in 1 .. k |-> g.redo[k + 1 - i].after]
    BY <2>1 DEF Future
  <2> HIDE DEF k
  <2>5. \A i \in 1 .. k : k + 1 - i \in 1 .. k
    BY <2>2
  <2>6. \A i \in 1 .. k : g.redo[k + 1 - i].after = h.redo[k + 1 - i].after
    BY <2>1, <2>5
  <2> QED BY <2>3, <2>4, <2>6
<1> QED BY <1>1, <1>2

LEMMA PastPush ==
    ASSUME NEW h \in Stacks, NEW u \in Seq(CommandRecord), Alike(h.undo, u),
           NEW c \in CommandRecord, NEW g \in Stacks, g.undo = Newest(Append(u, c))
    PROVE  Past(g) = Newest(Append(Past(h), c.before))
<1> DEFINE n == Len(u)  s == Append(u, c)  p == Past(h)  q == Append(p, c.before)
           t == g.undo
<1>1. /\ n \in Nat /\ s \in Seq(CommandRecord) /\ Len(s) = n + 1
      /\ (\A i \in 1 .. n : s[i] = u[i]) /\ s[n + 1] = c
  BY AppendProperties, LenProperties
<1>2. Len(h.undo) = n /\ \A i \in 1 .. n : u[i].before = h.undo[i].before
  BY DEF Alike
<1>3. p \in Seq(Content) /\ Len(p) = n /\ \A i \in 1 .. n : p[i] = h.undo[i].before
  BY <1>2, LineIs
<1>4. c.before \in Content
  BY DEF CommandRecord
<1> HIDE DEF p
<1>5. /\ q \in Seq(Content) /\ Len(q) = n + 1
      /\ (\A i \in 1 .. n : q[i] = p[i]) /\ q[n + 1] = c.before
  BY <1>3, <1>4, AppendProperties
<1>6. Past(g) \in Seq(Content) /\ Len(Past(g)) = Len(t)
      /\ \A i \in 1 .. Len(t) : Past(g)[i] = t[i].before
  BY LineIs
<1>0. t = Newest(s)
  OBVIOUS
<1> HIDE DEF n, s, q, t
<1>7. \A i \in 1 .. n + 1 : s[i].before = q[i]
  <2> TAKE i \in 1 .. n + 1
  <2>1. CASE i = n + 1
    BY <2>1, <1>1, <1>5
  <2>2. CASE i # n + 1
    <3>1. i \in 1 .. n
      BY <2>2, <1>1
    <3> QED BY <3>1, <1>1, <1>2, <1>3, <1>5
  <2> QED BY <2>1, <2>2
<1>8. CASE ~(n + 1 > Limit)
  <2>1. t = s /\ Newest(q) = q
    BY <1>0, <1>1, <1>5, <1>8 DEF Newest
  <2>2. \A i \in 1 .. Len(Past(g)) : Past(g)[i] = q[i]
    BY <2>1, <1>1, <1>6, <1>7
  <2>3. Past(g) = q
    BY <2>1, <2>2, <1>1, <1>5, <1>6, SeqEqual
  <2> QED BY <2>1, <2>3 DEF q, p
<1>9. CASE n + 1 > Limit
  <2>1. t = Tail(s) /\ Newest(q) = Tail(q)
    BY <1>0, <1>1, <1>5, <1>9 DEF Newest
  <2>2. s # <<>> /\ q # <<>>
    BY <1>1, <1>5, EmptySeq
  <2>3. Len(Tail(s)) = Len(s) - 1 /\ \A i \in 1 .. Len(s) - 1 : Tail(s)[i] = s[i + 1]
    BY <2>2, <1>1, HeadTailProperties
  <2>4. /\ Tail(q) \in Seq(Content) /\ Len(Tail(q)) = Len(q) - 1
        /\ \A i \in 1 .. Len(q) - 1 : Tail(q)[i] = q[i + 1]
    BY <2>2, <1>5, HeadTailProperties
  <2>5. Len(s) - 1 = n /\ Len(q) - 1 = n /\ \A i \in 1 .. n : i + 1 \in 1 .. n + 1
    BY <1>1, <1>5
  <2>6. Len(t) = n /\ Len(Tail(q)) = n
    BY <2>1, <2>3, <2>4, <2>5
  <2>7. \A i \in 1 .. n : Past(g)[i] = Tail(q)[i]
    BY <2>1, <2>3, <2>4, <2>5, <2>6, <1>6, <1>7
  <2>8. Past(g) = Tail(q)
    BY <2>4, <2>6, <2>7, <1>6, SeqEqual
  <2> QED BY <2>1, <2>8 DEF q, p
<1> QED BY <1>8, <1>9

LEMMA LineBack ==
    ASSUME NEW h \in Stacks, h.undo # <<>>, NEW v, Fits(h, v), NEW c, c = Last(h.undo)
    PROVE  /\ Past(h) # <<>> /\ c.before = Past(h)[Len(Past(h))]
           /\ Past(Back(h)) = SubSeq(Past(h), 1, Len(Past(h)) - 1)
           /\ Future(Back(h)) = <<v>> \o Future(h)
<1> DEFINE n == Len(h.undo)  k == Len(h.redo)  b == Back(h)  p == Past(h)  f == Future(h)
           o == <<v>>  fo == o \o f
<1>1. h.undo \in Seq(CommandRecord) /\ h.redo \in Seq(CommandRecord)
  BY DEF Stacks
<1>2. /\ p \in Seq(Content) /\ Len(p) = n /\ \A i \in 1 .. n : p[i] = h.undo[i].before
      /\ f \in Seq(Content) /\ Len(f) = k
      /\ \A i \in 1 .. k : f[i] = h.redo[k + 1 - i].after
      /\ n \in Nat /\ k \in Nat
  BY LineIs
<1>3. /\ n >= 1 /\ \A i \in 1 .. n - 1 : Front(h.undo)[i] = h.undo[i]
      /\ Len(Front(h.undo)) = n - 1
      /\ c = h.undo[n] /\ c \in CommandRecord
  BY <1>1, FrontAndLast
<1>4. c.after = v
  BY FitsMove
<1>5. v \in Content
  BY <1>3, <1>4 DEF CommandRecord
<1>6. b \in Stacks
  BY OnBack
<1>7. b.undo = Front(h.undo) /\ b.redo = Append(h.redo, c)
  BY DEF Back
<1>8. Len(b.redo) = k + 1 /\ (\A i \in 1 .. k : b.redo[i] = h.redo[i]) /\ b.redo[k + 1] = c
  BY <1>1, <1>3, <1>7, AppendProperties
<1> HIDE DEF b
<1>9. /\ Past(b) \in Seq(Content) /\ Len(Past(b)) = Len(b.undo)
      /\ \A i \in 1 .. Len(b.undo) : Past(b)[i] = b.undo[i].before
  BY <1>6, LineIs
<1>10. /\ Future(b) \in Seq(Content) /\ Len(Future(b)) = Len(b.redo)
       /\ \A i \in 1 .. Len(b.redo) : Future(b)[i] = b.redo[Len(b.redo) + 1 - i].after
  BY <1>6, LineIs
<1> HIDE DEF n, k, p, f
<1>11. p # <<>> /\ c.before = p[n]
  <2>1. n \in 1 .. n /\ n # 0
    BY <1>2, <1>3
  <2> QED BY <2>1, <1>2, <1>3, EmptySeq
<1>12. Past(b) = SubSeq(p, 1, n - 1)
  <2> DEFINE m == 1  l == n - 1  q == SubSeq(p, m, l)
  <2>1. m \in 1 .. Len(p) + 1 /\ l \in (m - 1) .. Len(p) /\ l - m + 1 = n - 1
        /\ \A i \in 1 .. n - 1 : m + i - 1 = i /\ i \in 1 .. n
    BY <1>2, <1>3
  <2> HIDE DEF m, l
  <2>2. q \in Seq(Content) /\ Len(q) = l - m + 1 /\ \A i \in 1 .. (l - m + 1) : q[i] = p[m + i - 1]
    BY <2>1, <1>2, SubSeqElements
  <2> HIDE DEF q
  <2>3. \A i \in 1 .. n - 1 : Past(b)[i] = q[i]
    <3> TAKE i \in 1 .. n - 1
    <3>1. Past(b)[i] = h.undo[i].before
      BY <1>3, <1>7, <1>9
    <3>2. q[i] = p[i] /\ i \in 1 .. n
      BY <2>1, <2>2
    <3> QED BY <3>1, <3>2, <1>2
  <2>4. Past(b) = q
    BY <2>1, <2>2, <2>3, <1>3, <1>7, <1>9, SeqEqual
  <2> QED BY <2>4 DEF q, m, l
<1>13. o \in Seq(Content) /\ Len(o) = 1 /\ o[1] = v
  BY <1>5
<1> HIDE DEF o
<1>14. fo \in Seq(Content) /\ Len(fo) = 1 + k
       /\ \A i \in 1 .. 1 + k : fo[i] = IF i <= 1 THEN o[i] ELSE f[i - 1]
  <2>1. /\ o \o f \in Seq(Content) /\ Len(o \o f) = Len(o) + Len(f)
        /\ \A i \in 1 .. Len(o) + Len(f) :
                (o \o f)[i] = IF i <= Len(o) THEN o[i] ELSE f[i - Len(o)]
    BY <1>2, <1>13, ConcatProperties
  <2> QED BY <2>1, <1>2, <1>13
<1> HIDE DEF fo
<1>15. \A i \in 1 .. k + 1 : Future(b)[i] = fo[i]
  <2> TAKE i \in 1 .. k + 1
  <2>0. Future(b)[i] = b.redo[k + 1 + 1 - i].after /\ i \in 1 .. 1 + k
    BY <1>2, <1>8, <1>10
  <2>1. CASE i = 1
    <3>1. k + 1 + 1 - i = k + 1 /\ i <= 1
      BY <2>1, <1>2
    <3> QED BY <3>1, <2>0, <2>1, <1>4, <1>8, <1>13, <1>14
  <2>2. CASE i # 1
    <3> DEFINE j == i - 1  l == k + 1 - j
    <3>1. j \in 1 .. k /\ ~(i <= 1) /\ k + 1 + 1 - i = l /\ l \in 1 .. k
      BY <2>2, <1>2
    <3>2. fo[i] = f[j]
      BY <3>1, <2>0, <1>14
    <3>3. f[j] = h.redo[l].after
      BY <3>1, <1>2
    <3> HIDE DEF j, l
    <3>4. b.redo[l] = h.redo[l]
      BY <3>1, <1>8
    <3> QED BY <3>1, <3>2, <3>3, <3>4, <2>0
  <2> QED BY <2>1, <2>2
<1>16. Len(fo) = k + 1
  BY <1>14, <1>2
<1>17. Future(b) = fo
  BY <1>8, <1>10, <1>14, <1>15, <1>16, SeqEqual
<1>18. Len(p) = n
  BY <1>2
<1> QED BY <1>11, <1>12, <1>17, <1>18 DEF p, f, b, fo, o

LEMMA LineForth ==
    ASSUME NEW h \in Stacks, h.redo # <<>>, NEW v, Fits(h, v), NEW c, c = Last(h.redo)
    PROVE  /\ Future(h) # <<>> /\ c.after = Head(Future(h))
           /\ Future(Forth(h)) = Tail(Future(h))
           /\ Past(Forth(h)) = Append(Past(h), v)
<1> DEFINE n == Len(h.undo)  k == Len(h.redo)  b == Forth(h)  p == Past(h)  f == Future(h)
           q == Append(p, v)
<1>1. h.undo \in Seq(CommandRecord) /\ h.redo \in Seq(CommandRecord)
  BY DEF Stacks
<1>2. /\ p \in Seq(Content) /\ Len(p) = n /\ \A i \in 1 .. n : p[i] = h.undo[i].before
      /\ f \in Seq(Content) /\ Len(f) = k
      /\ \A i \in 1 .. k : f[i] = h.redo[k + 1 - i].after
      /\ n \in Nat /\ k \in Nat
  BY LineIs
<1>3. /\ k >= 1 /\ \A i \in 1 .. k - 1 : Front(h.redo)[i] = h.redo[i]
      /\ Len(Front(h.redo)) = k - 1
      /\ c = h.redo[k] /\ c \in CommandRecord
  BY <1>1, FrontAndLast
<1>4. c.before = v
  BY FitsMove
<1>5. v \in Content
  BY <1>3, <1>4 DEF CommandRecord
<1>6. b \in Stacks
  BY OnForth
<1>7. b.redo = Front(h.redo) /\ b.undo = Append(h.undo, c)
  BY DEF Forth
<1>8. Len(b.undo) = n + 1 /\ (\A i \in 1 .. n : b.undo[i] = h.undo[i]) /\ b.undo[n + 1] = c
  BY <1>1, <1>3, <1>7, AppendProperties
<1> HIDE DEF b
<1>9. /\ Past(b) \in Seq(Content) /\ Len(Past(b)) = Len(b.undo)
      /\ \A i \in 1 .. Len(b.undo) : Past(b)[i] = b.undo[i].before
  BY <1>6, LineIs
<1>10. /\ Future(b) \in Seq(Content) /\ Len(Future(b)) = Len(b.redo)
       /\ \A i \in 1 .. Len(b.redo) : Future(b)[i] = b.redo[Len(b.redo) + 1 - i].after
  BY <1>6, LineIs
<1> HIDE DEF n, k, p, f
<1>11. q \in Seq(Content) /\ Len(q) = n + 1 /\ (\A i \in 1 .. n : q[i] = p[i]) /\ q[n + 1] = v
  BY <1>2, <1>5, AppendProperties
<1> HIDE DEF q
<1>12. Past(b) = q
  <2>1. \A i \in 1 .. n + 1 : Past(b)[i] = q[i]
    <3> TAKE i \in 1 .. n + 1
    <3>1. CASE i = n + 1
      BY <3>1, <1>4, <1>8, <1>9, <1>11
    <3>2. CASE i # n + 1
      <4>1. i \in 1 .. n
        BY <3>2, <1>2
      <4> QED BY <4>1, <1>2, <1>8, <1>9, <1>11
    <3> QED BY <3>1, <3>2
  <2> QED BY <2>1, <1>8, <1>9, <1>11, SeqEqual
<1>13. f # <<>> /\ Head(f) = f[1] /\ Tail(f) \in Seq(Content) /\ Len(Tail(f)) = k - 1
       /\ \A i \in 1 .. k - 1 : Tail(f)[i] = f[i + 1]
  <2>1. f # <<>>
    BY <1>2, <1>3, EmptySeq
  <2> QED BY <2>1, <1>2, HeadTailProperties
<1>14. c.after = f[1]
  <2>1. 1 \in 1 .. k /\ k + 1 - 1 = k
    BY <1>2, <1>3
  <2> QED BY <2>1, <1>2, <1>3
<1>15. Future(b) = Tail(f)
  <2>1. \A i \in 1 .. k - 1 : Future(b)[i] = Tail(f)[i]
    <3> TAKE i \in 1 .. k - 1
    <3> DEFINE l == k - i  j == i + 1
    <3>1. l \in 1 .. k - 1 /\ (k - 1) + 1 - i = l /\ j \in 1 .. k /\ k + 1 - j = l
      BY <1>2
    <3>2. Future(b)[i] = b.redo[l].after
      BY <3>1, <1>3, <1>7, <1>10
    <3>3. Tail(f)[i] = f[j]
      BY <1>13
    <3>4. f[j] = h.redo[l].after
      BY <3>1, <1>2
    <3> HIDE DEF l, j
    <3>5. b.redo[l] = h.redo[l]
      BY <3>1, <1>3, <1>7
    <3> QED BY <3>2, <3>3, <3>4, <3>5
  <2> DEFINE w == Tail(f)
  <2>2. w \in Seq(Content) /\ Len(w) = k - 1 /\ \A i \in 1 .. k - 1 : Future(b)[i] = w[i]
    BY <2>1, <1>13
  <2>3. Future(b) \in Seq(Content) /\ Len(Future(b)) = k - 1
    BY <1>3, <1>7, <1>10
  <2> HIDE DEF w
  <2>4. Future(b) = w
    BY <2>2, <2>3, SeqEqual
  <2> QED BY <2>4 DEF w
<1> QED BY <1>12, <1>13, <1>14, <1>15 DEF p, f, b, q

-----------------------------------------------------------------------------
(* What every step must show *)

\* The numbers that are used up, and the one that a plan is given, may change so.
Onward ==
    /\ made' \in Nat /\ made <= made' /\ (torn => torn')
    /\ \/ Reserved(agent') = 0
       \/ Reserved(agent') = Reserved(agent)
       \/ Reserved(agent') \in made + 1 .. made'

LEMMA SoundStays ==
    ASSUME HistoryInv, Onward
    PROVE  \A h : SoundNow(h) => /\ Sound(h, made', Reserved(agent'), torn)
                                 /\ Sound(h, made', Reserved(agent'), torn')
<1> DEFINE m == made  n == made'  r == Reserved(agent)  q == Reserved(agent')
<1>1. m \in Nat /\ n \in Nat /\ m <= n /\ (q = 0 \/ q = r \/ q \in m + 1 .. n)
  BY DEF HistoryInv, Values, Onward
<1>2. \A h : SoundNow(h) <=> Sound(h, m, r, torn)
  BY DEF SoundNow
<1> HIDE DEF m, n, q, r
<1>3. ASSUME NEW h, Sound(h, m, r, torn)
      PROVE  Sound(h, n, q, torn) /\ Sound(h, n, q, torn')
  <2>1. Held(h, m, r) /\ (torn \/ Lined(h))
    BY <1>3 DEF Sound
  <2>2. Held(h, n, q)
    BY <2>1, <1>1, HeldLater
  <2> QED BY <2>1, <2>2 DEF Sound, Onward
<1> QED BY <1>2, <1>3 DEF n, q

LEMMA KeptStays ==
    ASSUME HistoryInv, Onward, kept' = kept
    PROVE  SoundNow(kept)' /\ AcceptedHistory(kept)'
<1>1. SoundNow(kept) /\ AcceptedHistory(kept)
  BY DEF HistoryInv
<1>2. Sound(kept, made', Reserved(agent'), torn')
  BY <1>1, SoundStays
<1> QED BY <1>1, <1>2 DEF SoundNow

\* A step of the stacks, which the page hands over to be saved.
LEMMA StacksStep ==
    ASSUME HistoryInv, Values', Onward, TouchHistory, kept' = kept,
           Sound(stacks', made', Reserved(agent'), torn'),
           torn' \/ Fits(stacks', value')
    PROVE  HistoryInv'
<1>1. queue \in Seq(Stacks) /\ Len(queue) < MaxQueue /\ queue' = Append(queue, stacks')
  BY DEF HistoryInv, Waiting, TouchHistory
<1>2. stacks' \in Stacks
  BY DEF Sound, Held
<1>3. /\ queue' \in Seq(Stacks) /\ Len(queue') = Len(queue) + 1 /\ Len(queue) \in Nat
      /\ \A i \in 1 .. Len(queue) : queue'[i] = queue[i]
      /\ queue'[Len(queue) + 1] = stacks'
  BY <1>1, <1>2, AppendProperties, LenProperties
<1>4. \A i \in 1 .. Len(queue') : Sound(queue'[i], made', Reserved(agent'), torn')
  <2> TAKE i \in 1 .. Len(queue')
  <2>1. CASE i = Len(queue) + 1
    BY <2>1, <1>3
  <2>2. CASE i # Len(queue) + 1
    <3>1. i \in 1 .. Len(queue)
      BY <2>2, <1>3
    <3>2. SoundNow(queue[i])
      BY <3>1 DEF HistoryInv, Waiting
    <3> QED BY <3>1, <3>2, <1>3, SoundStays
  <2> QED BY <2>1, <2>2
<1>5. Waiting'
  <2>1. Len(queue') <= MaxQueue
    BY <1>1, <1>3, HistoryAssumption
  <2> QED BY <2>1, <1>3, <1>4 DEF Waiting, SoundNow
<1>6. Caught'
  <2>1. queue' # <<>>
    BY <1>3, EmptySeq
  <2>2. Last(queue') = stacks'
    BY <1>3 DEF Last
  <2> QED BY <2>1, <2>2 DEF Caught
<1>7. SoundNow(kept)' /\ AcceptedHistory(kept)'
  BY KeptStays
<1>8. SoundNow(stacks)'
  BY DEF SoundNow
<1> QED BY <1>5, <1>6, <1>7, <1>8 DEF HistoryInv

\* A step of the files and of the plan.
LEMMA RestStep ==
    ASSUME HistoryInv, Values', Onward, UNCHANGED <<value, stacks, kept, queue, failed, torn>>
    PROVE  HistoryInv'
<1>1. SoundNow(kept)' /\ AcceptedHistory(kept)'
  BY KeptStays
<1>2. Sound(stacks, made', Reserved(agent'), torn')
  BY SoundStays DEF HistoryInv
<1>3. SoundNow(stacks)'
  BY <1>2 DEF SoundNow
<1>4. \A i \in 1 .. Len(queue) : Sound(queue[i], made', Reserved(agent'), torn')
  BY SoundStays DEF HistoryInv, Waiting
<1>5. queue \in Seq(Stacks) /\ Len(queue) <= MaxQueue
  BY DEF HistoryInv, Waiting
<1>6. Waiting'
  BY <1>4, <1>5 DEF Waiting, SoundNow
<1>7. Caught'
  BY DEF HistoryInv, Caught
<1>8. (torn \/ Fits(stacks, value))'
  BY DEF HistoryInv
<1> QED BY <1>1, <1>3, <1>6, <1>7, <1>8 DEF HistoryInv

\* Its steps as steps of UndoLine.
LineStep == [Line!Next]_(Line!vars)

LEMMA LineRests ==
    ASSUME HistoryInv, stacks' \in Stacks, Alike(stacks.undo, stacks'.undo),
           Alike(stacks.redo, stacks'.redo), UNCHANGED <<value, opened, torn>>
    PROVE  LineStep
<1>1. stacks \in Stacks
  BY DEF HistoryInv, SoundNow, Sound, Held
<1>2. Past(stacks') = Past(stacks) /\ Future(stacks') = Future(stacks)
  BY <1>1, LineAlike
<1> QED BY <1>2 DEF LineStep, Line!vars, Past, Future

LEMMA LineTears ==
    ASSUME torn'
    PROVE  LineStep
BY DEF LineStep, Line!Next

LEMMA LineEdits ==
    ASSUME Past(stacks') = Newest(Append(Past(stacks), value)), Future(stacks') = <<>>,
           opened' = opened, torn' = torn
    PROVE  LineStep
<1>1. Line!Edit
  BY DEF Line!Edit, Line!Newest, Newest, Past, Future
<1> QED BY <1>1 DEF LineStep, Line!Next

LEMMA LineUndoes ==
    ASSUME Past(stacks) # <<>>, value' = Past(stacks)[Len(Past(stacks))],
           Past(stacks') = SubSeq(Past(stacks), 1, Len(Past(stacks)) - 1),
           Future(stacks') = <<value>> \o Future(stacks),
           opened' = opened, torn' = torn
    PROVE  LineStep
<1>1. Line!Undo
  BY DEF Line!Undo, Past, Future
<1> QED BY <1>1 DEF LineStep, Line!Next

LEMMA LineRedoes ==
    ASSUME Future(stacks) # <<>>, value' = Head(Future(stacks)),
           Future(stacks') = Tail(Future(stacks)),
           Past(stacks') = Append(Past(stacks), value),
           opened' = opened, torn' = torn
    PROVE  LineStep
<1>1. Line!Redo
  BY DEF Line!Redo, Past, Future
<1> QED BY <1>1 DEF LineStep, Line!Next

LEMMA LineClears ==
    ASSUME Past(stacks') = <<>>, Future(stacks') = <<>>, UNCHANGED <<value, opened, torn>>
    PROVE  LineStep
<1>1. Line!Clear
  BY DEF Line!Clear, Past, Future
<1> QED BY <1>1 DEF LineStep, Line!Next

LEMMA LineOpens ==
    ASSUME opened' = opened + 1, Len(Past(stacks')) <= Limit, torn' = torn
    PROVE  LineStep
BY DEF LineStep, Line!Next, Past

-----------------------------------------------------------------------------
(* The steps of the stacks *)

\* The number that a plan under way is given is used up.
LEMMA ReservedRange ==
    ASSUME Values
    PROVE  Reserved(agent) \in 0 .. made
<1>1. made \in Nat /\ (agent.at \in {"mark", "answer"} => agent.project.n \in 1 .. made)
  BY DEF Values
<1>2. CASE agent.at \in {"mark", "answer"}
  <2>1. Reserved(agent) = agent.project.n
    BY <1>2 DEF Reserved
  <2> QED BY <2>1, <1>1, <1>2
<1>3. CASE agent.at \notin {"mark", "answer"}
  <2>1. Reserved(agent) = 0
    BY <1>3 DEF Reserved
  <2> QED BY <2>1, <1>1
<1> QED BY <1>2, <1>3

\* A new content takes the next number.
LEMMA FreshContent ==
    ASSUME made \in Nat, NEW s \in Nat, NEW o \in BOOLEAN, o => s >= 1
    PROVE  Fresh(s, o) \in Content /\ Fresh(s, o).n = made + 1
BY DEF Fresh, Content

\* A new command, known or marked in no other way.
LEMMA CommandIs ==
    ASSUME made \in Nat, NEW b \in Content, NEW a \in Content, NEW g \in BOOLEAN, NEW e \in Nat
    PROVE  LET c == Command(b, a, g, e) IN
           /\ c \in CommandRecord /\ c.id = made + 1 /\ c.before = b /\ c.after = a
           /\ ~c.pinned /\ ~c.undone /\ c.agents = g /\ c.effect = e
BY DEF Command, CommandRecord

LEMMA CommitStep ==
    ASSUME HistoryInv, NEW v \in Content, Commit(v)
    PROVE  HistoryInv' /\ LineStep
<1> DEFINE f == FALSE  z == 0  c == Command(value, v, f, z)  r == Reserved(agent)  h == stacks
<1>1. /\ made' = made + 1 /\ made \in Nat
      /\ h' = Push(h, c) /\ torn' = (torn \/ Hole(Append(h.undo, c)))
      /\ value' = v /\ TouchHistory
      /\ UNCHANGED <<file, kept, applied, agent, failed, opened>>
  BY DEF Commit, Make, stored, HistoryInv, Values
<1>2. f \in BOOLEAN /\ z \in Nat /\ value \in Content
  BY DEF HistoryInv, Values
<1>3. /\ c \in CommandRecord /\ c.id = made + 1 /\ c.before = value /\ c.after = v
      /\ ~c.pinned /\ ~c.undone /\ c.effect = z
  <2> HIDE DEF f, z
  <2> QED BY <1>1, <1>2, CommandIs
<1>4. c.effect = 0
  BY <1>3
<1> HIDE DEF c, z
<1>5. r \in 0 .. made
  BY ReservedRange DEF HistoryInv
<1>6. Values'
  <2>1. torn' \in BOOLEAN
    BY <1>1 DEF HistoryInv, Values
  <2>2. agent.at \in {"mark", "answer"} => agent.project.n \in 1 .. made + 1
    BY <1>1 DEF HistoryInv, Values
  <2>3. made + 1 \in Nat
    BY <1>1
  <2> QED BY <2>1, <2>2, <2>3, <1>1 DEF HistoryInv, Values
<1>7. Onward
  <2>1. torn => torn'
    BY <1>1
  <2>2. made' \in Nat /\ made <= made'
    BY <1>1
  <2>3. Reserved(agent') = Reserved(agent)
    BY <1>1
  <2> QED BY <2>1, <2>2, <2>3 DEF Onward
<1>8. Sound(h, made, r, torn) /\ Sound(h, made', r, torn)
  BY <1>1, <1>7, SoundStays DEF HistoryInv, SoundNow
<1>9. c.id \in 1 .. made' /\ c.id # r /\ c.id > made /\ made' \in Nat
  BY <1>1, <1>3, <1>5
<1> HIDE DEF h
<1>10. New(h, c)
  BY <1>1, <1>3, <1>8, <1>9, NewCommand DEF Sound
<1>11. torn \/ Fits(h, c.before)
  BY <1>3 DEF HistoryInv, h
<1> DEFINE g == Push(h, c)  t == torn  t1 == torn'
<1>12. t \in BOOLEAN /\ t1 = (t \/ Hole(Append(h.undo, c))) /\ Sound(h, made', r, t)
       /\ (t \/ Fits(h, c.before))
  BY <1>1, <1>8, <1>11 DEF HistoryInv, Values
<1> HIDE DEF t, t1
<1>13. /\ Sound(g, made', r, t1) /\ (t1 \/ Fits(g, c.after))
       /\ t1 \/ g.undo = Newest(Append(h.undo, c))
       /\ g.redo = <<>>
  BY <1>3, <1>4, <1>9, <1>10, <1>12, SoundPush
<1>14. stacks' = g
  BY <1>1 DEF h
<1> HIDE DEF g
<1>15. HistoryInv'
  <2>1. Sound(stacks', made', Reserved(agent'), torn')
    BY <1>1, <1>13, <1>14 DEF r, t1
  <2>2. torn' \/ Fits(stacks', value')
    BY <1>1, <1>3, <1>13, <1>14 DEF t1
  <2> QED BY <2>1, <2>2, <1>1, <1>6, <1>7, StacksStep
<1>16. LineStep
  <2>1. CASE torn'
    BY <2>1, LineTears
  <2>2. CASE ~torn'
    <3>1. g.undo = Newest(Append(h.undo, c)) /\ g.redo = <<>>
      BY <2>2, <1>13 DEF t1
    <3>2. h \in Stacks /\ g \in Stacks
      BY <1>8, <1>13 DEF Sound, Held
    <3> DEFINE u == h.undo
    <3>3. u \in Seq(CommandRecord) /\ Alike(h.undo, u) /\ g.undo = Newest(Append(u, c))
      BY <3>1, <3>2 DEF Stacks, Alike
    <3> HIDE DEF u
    <3>4. Past(g) = Newest(Append(Past(h), c.before))
      BY <3>2, <3>3, <1>3, PastPush
    <3>5. Future(g) = <<>>
      BY <3>1, <3>2, LineIs
    <3>6. torn' = torn
      BY <2>2, <1>1 DEF HistoryInv, Values
    <3> QED BY <3>4, <3>5, <3>6, <1>1, <1>3, <1>14, LineEdits DEF h
  <2> QED BY <2>1, <2>2
<1> QED BY <1>15, <1>16

LEMMA EditStep ==
    ASSUME HistoryInv, Edit
    PROVE  HistoryInv' /\ LineStep
<1> DEFINE s == value.scope  o == value.ops
<1>1. made \in Nat /\ s \in Nat /\ o \in BOOLEAN /\ (o => s >= 1)
  BY DEF HistoryInv, Values, Content
<1>2. Commit(Fresh(s, o))
  BY DEF Edit
<1> HIDE DEF s, o
<1>3. Fresh(s, o) \in Content
  BY <1>1, FreshContent
<1> QED BY <1>2, <1>3, CommitStep

\* What any command of the stacks was about is a content.
LEMMA CommandsKnown ==
    ASSUME NEW h \in Stacks
    PROVE  Commands(h) \subseteq CommandRecord
BY DEF Stacks, Commands, Elements

LEMMA RestoreStep ==
    ASSUME HistoryInv, RestoreCommand
    PROVE  HistoryInv' /\ LineStep
<1>1. PICK c \in Commands(stacks), v \in {"before", "after"} :
        Commit(IF v = "before" THEN c.before ELSE c.after)
  BY DEF RestoreCommand
<1>2. stacks \in Stacks
  BY DEF HistoryInv, SoundNow, Sound, Held
<1>3. c \in CommandRecord
  BY <1>2, CommandsKnown
<1>4. c.before \in Content /\ c.after \in Content
  BY <1>3 DEF CommandRecord
<1> DEFINE w == IF v = "before" THEN c.before ELSE c.after
<1>5. w \in Content
  BY <1>4
<1>6. Commit(w)
  BY <1>1
<1> HIDE DEF w
<1> QED BY <1>5, <1>6, CommitStep

LEMMA PatchedStep ==
    ASSUME HistoryInv, CommitPatched
    PROVE  HistoryInv' /\ LineStep
<1> DEFINE p == agent.project  f == TRUE  z == 0  d == Command(value, p, f, z)
           c == [d EXCEPT !.id = p.n]
           r == Reserved(agent)  q == Reserved(agent')  h == stacks
<1>1. /\ agent.at = "answer" /\ agent' = NoAgent
      /\ h' = Push(h, c) /\ torn' = (torn \/ Hole(Append(h.undo, c)))
      /\ value' = p /\ TouchHistory
      /\ UNCHANGED <<file, kept, applied, failed, made, opened>>
  BY DEF CommitPatched, stored
<1>2. /\ made \in Nat /\ value \in Content /\ p \in Content /\ p.n \in 1 .. made
      /\ f \in BOOLEAN /\ z \in Nat /\ torn \in BOOLEAN
  BY <1>1 DEF HistoryInv, Values, Agent
<1>3. /\ d \in CommandRecord /\ d.before = value /\ d.after = p
      /\ ~d.pinned /\ ~d.undone /\ d.effect = z
  <2> HIDE DEF f, z, p
  <2> QED BY <1>2, CommandIs
<1> HIDE DEF d
<1>4. /\ c \in CommandRecord /\ c.id = p.n /\ c.before = value /\ c.after = p
      /\ ~c.pinned /\ ~c.undone /\ c.effect = z
  BY <1>2, <1>3 DEF CommandRecord
<1>5. c.effect = 0
  BY <1>4
<1> HIDE DEF c, z
<1>6. r = p.n /\ q = 0
  BY <1>1 DEF Reserved, NoAgent
<1> HIDE DEF p
<1>7. Values'
  <2>1. NoAgent \in Agent /\ NoAgent.at \notin {"mark", "answer"}
    BY DEF NoAgent, Agent, First, Content
  <2> QED BY <2>1, <1>1, <1>2 DEF HistoryInv, Values
<1>8. Onward
  BY <1>1, <1>2, <1>6 DEF Onward
<1>9. Sound(h, made, r, torn) /\ Sound(h, made', q, torn)
  BY <1>8, SoundStays DEF HistoryInv, SoundNow
<1>10. c.id \in 1 .. made' /\ c.id # q /\ c.id = r /\ c.id # 0 /\ made' \in Nat
  BY <1>1, <1>2, <1>4, <1>6
<1> HIDE DEF h
<1>11. New(h, c)
  BY <1>2, <1>4, <1>9, <1>10, NewCommand DEF Sound
<1> DEFINE g == Push(h, c)  t == torn  t1 == torn'
<1>12. t \in BOOLEAN /\ t1 = (t \/ Hole(Append(h.undo, c))) /\ Sound(h, made', q, t)
       /\ (t \/ Fits(h, c.before))
  BY <1>1, <1>2, <1>4, <1>9 DEF HistoryInv, h
<1> HIDE DEF t, t1, q
<1>13. /\ Sound(g, made', q, t1) /\ (t1 \/ Fits(g, c.after))
       /\ t1 \/ g.undo = Newest(Append(h.undo, c))
       /\ g.redo = <<>>
  BY <1>4, <1>5, <1>10, <1>11, <1>12, SoundPush
<1>14. stacks' = g
  BY <1>1 DEF h
<1> HIDE DEF g
<1>15. HistoryInv'
  <2>1. Sound(stacks', made', Reserved(agent'), torn')
    BY <1>13, <1>14 DEF q, t1
  <2>2. torn' \/ Fits(stacks', value')
    BY <1>1, <1>4, <1>13, <1>14 DEF t1
  <2> QED BY <2>1, <2>2, <1>1, <1>7, <1>8, StacksStep
<1>16. LineStep
  <2>1. CASE torn'
    BY <2>1, LineTears
  <2>2. CASE ~torn'
    <3>1. g.undo = Newest(Append(h.undo, c)) /\ g.redo = <<>>
      BY <2>2, <1>13 DEF t1
    <3>2. h \in Stacks /\ g \in Stacks
      BY <1>9, <1>13 DEF Sound, Held
    <3> DEFINE u == h.undo
    <3>3. u \in Seq(CommandRecord) /\ Alike(h.undo, u) /\ g.undo = Newest(Append(u, c))
      BY <3>1, <3>2 DEF Stacks, Alike
    <3> HIDE DEF u
    <3>4. Past(g) = Newest(Append(Past(h), c.before))
      BY <3>2, <3>3, <1>4, PastPush
    <3>5. Future(g) = <<>>
      BY <3>1, <3>2, LineIs
    <3>6. torn' = torn
      BY <2>2, <1>1, <1>2
    <3> QED BY <3>4, <3>5, <3>6, <1>1, <1>4, <1>14, LineEdits DEF h
  <2> QED BY <2>1, <2>2
<1> QED BY <1>15, <1>16

LEMMA UndoCategoryStep ==
    ASSUME HistoryInv, UndoCategory
    PROVE  HistoryInv' /\ LineStep
<1>1. PICK i \in 1 .. Len(stacks.undo) :
        LET c == stacks.undo[i]  v == RestoreCategory(c)  e == Command(value, v, FALSE, c.id) IN
        /\ c.agents /\ ~c.undone /\ Make
        /\ stacks' = Push(Mark(stacks, c.id, TRUE), e)
        /\ torn' = (torn \/ Hole(Append(stacks.undo, e)))
        /\ value' = v
        /\ dirty' = TRUE
        /\ TouchHistory
        /\ UNCHANGED <<stored, agent, failed, events, opened>>
  BY DEF UndoCategory
<1> DEFINE h == stacks  s == h.undo[i]  v == RestoreCategory(s)  f == FALSE  z == s.id
           c == Command(value, v, f, z)  r == Reserved(agent)
<1>2. /\ ~s.undone /\ made' = made + 1 /\ made \in Nat
      /\ h' = Push(Mark(h, z, TRUE), c) /\ torn' = (torn \/ Hole(Append(h.undo, c)))
      /\ value' = v /\ TouchHistory
      /\ UNCHANGED <<file, kept, applied, agent, failed, opened>>
  BY <1>1 DEF Make, stored, HistoryInv, Values
<1>3. h \in Stacks /\ SoundNow(h)
  BY DEF HistoryInv, SoundNow, Sound, Held
<1>4. s \in CommandRecord
  BY <1>3 DEF Stacks
<1>5. z \in Nat /\ v \in Content
  <2> DEFINE x == s.before.scope
  <2>1. s.id \in Nat /\ x \in Nat
    BY <1>4 DEF CommandRecord, Content
  <2>2. v = Fresh(x, FALSE)
    BY DEF RestoreCategory
  <2> HIDE DEF x, v
  <2>3. v \in Content
    BY <2>1, <2>2, <1>2, FreshContent
  <2> QED BY <2>1, <2>3
<1> HIDE DEF v
<1>6. f \in BOOLEAN /\ value \in Content
  BY DEF HistoryInv, Values
<1>7. /\ c \in CommandRecord /\ c.id = made + 1 /\ c.before = value /\ c.after = v
      /\ ~c.pinned /\ ~c.undone /\ c.effect = z
  <2> HIDE DEF f, z
  <2> QED BY <1>2, <1>5, <1>6, CommandIs
<1> HIDE DEF c
<1>8. r \in 0 .. made
  BY ReservedRange DEF HistoryInv
<1>9. Values'
  <2>1. torn' \in BOOLEAN
    BY <1>2 DEF HistoryInv, Values
  <2>2. agent.at \in {"mark", "answer"} => agent.project.n \in 1 .. made + 1
    BY <1>2 DEF HistoryInv, Values
  <2>3. made + 1 \in Nat
    BY <1>2
  <2> QED BY <2>1, <2>2, <2>3, <1>2, <1>5 DEF HistoryInv, Values
<1>10. Onward
  <2>1. torn => torn'
    BY <1>2
  <2>2. made' \in Nat /\ made <= made'
    BY <1>2
  <2>3. Reserved(agent') = Reserved(agent)
    BY <1>2
  <2> QED BY <2>1, <2>2, <2>3 DEF Onward
<1>11. Sound(h, made, r, torn) /\ Sound(h, made', r, torn)
  BY <1>2, <1>3, <1>10, SoundStays DEF SoundNow
<1>12. c.id \in 1 .. made' /\ c.id # r /\ c.id > made /\ made' \in Nat
  BY <1>2, <1>7, <1>8
<1>13. z = h.undo[i].id /\ ~h.undo[i].undone /\ i \in 1 .. Len(h.undo) /\ c.effect = h.undo[i].id
  BY <1>2, <1>7
<1> HIDE DEF h, z
<1>14. New(h, c)
  BY <1>2, <1>7, <1>11, <1>12, NewCommand DEF Sound
<1> DEFINE k == Mark(h, c.effect, TRUE)  g == Push(k, c)  t == torn  t1 == torn'
<1>15. t \in BOOLEAN /\ t1 = (t \/ Hole(Append(h.undo, c))) /\ Sound(h, made', r, t)
       /\ (t \/ Fits(h, c.before))
  BY <1>2, <1>7, <1>11 DEF HistoryInv, Values, h
<1> HIDE DEF t, t1
<1>16. /\ Sound(g, made', r, t1) /\ (t1 \/ Fits(g, c.after))
       /\ t1 \/ g.undo = Newest(Append(k.undo, c))
       /\ Alike(h.undo, k.undo) /\ k.undo \in Seq(CommandRecord)
       /\ g.redo = <<>>
  <2> DEFINE m == made'
  <2>1. m \in Nat /\ c.id \in 1 .. m /\ c.id # r /\ Sound(h, m, r, t)
    BY <1>12, <1>15
  <2>2. c \in CommandRecord /\ ~c.pinned /\ ~c.undone
    BY <1>7
  <2>6. k = Undone(h, c.effect) /\ g = Push(k, c)
    BY DEF Undone
  <2> HIDE DEF r, m, k, g
  <2>3. /\ Sound(g, m, r, t1) /\ (t1 \/ Fits(g, c.after))
        /\ t1 \/ g.undo = Newest(Append(k.undo, c))
        /\ Alike(h.undo, k.undo) /\ k.undo \in Seq(CommandRecord)
        /\ g.redo = <<>>
    BY <2>1, <2>2, <1>13, <1>14, <1>15, <2>6, SoundMarkPush, SMTT(90)
  <2> QED BY <2>3 DEF m
<1>17. stacks' = g
  BY <1>2, <1>7 DEF h
<1> HIDE DEF k, g
<1>18. HistoryInv'
  <2>1. Sound(stacks', made', Reserved(agent'), torn')
    BY <1>2, <1>16, <1>17 DEF r, t1
  <2>2. torn' \/ Fits(stacks', value')
    BY <1>2, <1>7, <1>16, <1>17 DEF t1
  <2> QED BY <2>1, <2>2, <1>2, <1>9, <1>10, StacksStep
<1>19. LineStep
  <2>1. CASE torn'
    BY <2>1, LineTears
  <2>2. CASE ~torn'
    <3> DEFINE u == k.undo
    <3>1. g.undo = Newest(Append(u, c)) /\ g.redo = <<>>
      BY <2>2, <1>16 DEF t1
    <3>2. h \in Stacks /\ g \in Stacks
      BY <1>11, <1>16 DEF Sound, Held
    <3>3. u \in Seq(CommandRecord) /\ Alike(h.undo, u)
      BY <1>16
    <3> HIDE DEF u
    <3>4. Past(g) = Newest(Append(Past(h), c.before))
      BY <3>1, <3>2, <3>3, <1>7, PastPush
    <3>5. Future(g) = <<>>
      BY <3>1, <3>2, LineIs
    <3>6. torn' = torn
      BY <2>2, <1>2 DEF HistoryInv, Values
    <3> QED BY <3>4, <3>5, <3>6, <1>2, <1>7, <1>17, LineEdits DEF h
  <2> QED BY <2>1, <2>2
<1> QED BY <1>18, <1>19

LEMMA UndoStep ==
    ASSUME HistoryInv, Undo
    PROVE  HistoryInv' /\ LineStep
<1> DEFINE h == stacks  c == Last(h.undo)  r == Reserved(agent)  v == value  t == torn
           k == Back(h)  g == Unmark(k, c)
<1>1. h \in Stacks /\ SoundNow(h) /\ made \in Nat /\ (t \/ Fits(h, v))
  BY DEF HistoryInv, SoundNow, Sound, Held, Values
<1>2. /\ h.undo # <<>>
      /\ h' = Unmark([h EXCEPT !.undo = Front(@), !.redo = Append(@, c)], c)
      /\ value' = c.before /\ TouchHistory
      /\ UNCHANGED <<file, kept, applied, agent, failed, made, opened, torn>>
  BY DEF Undo, stored, bounds
<1>3. h' = g
  <2> DEFINE a == c
  <2>1. a = Last(h.undo)
    OBVIOUS
  <2> HIDE DEF a
  <2>2. [h EXCEPT !.undo = Front(@), !.redo = Append(@, a)] = Back(h)
    BY <2>1, <1>1, Moves
  <2> QED BY <2>2, <1>2 DEF a
<1>4. Sound(h, made, r, t)
  BY <1>1 DEF SoundNow
<1>5. h' = stacks' /\ c = Last(h.undo)
  OBVIOUS
<1> HIDE DEF h, c, v, t
<1>6. /\ Sound(g, made, r, t) /\ (t \/ Fits(g, c.before))
      /\ Alike(k.undo, g.undo) /\ Alike(k.redo, g.redo)
      /\ k \in Stacks /\ c.before \in Content
  BY <1>1, <1>2, <1>4, <1>5, SoundUndo
<1> HIDE DEF g, k
<1>7. Values'
  BY <1>2, <1>6 DEF HistoryInv, Values
<1>8. Onward
  BY <1>1, <1>2 DEF Onward
<1>9. HistoryInv'
  <2>1. Sound(stacks', made', Reserved(agent'), torn')
    BY <1>2, <1>3, <1>5, <1>6 DEF r, t
  <2>2. torn' \/ Fits(stacks', value')
    BY <1>2, <1>3, <1>5, <1>6 DEF t
  <2> QED BY <2>1, <2>2, <1>2, <1>7, <1>8, StacksStep
<1>10. LineStep
  <2>1. CASE torn'
    BY <2>1, LineTears
  <2>2. CASE ~torn'
    <3>1. Fits(h, v)
      BY <2>2, <1>1, <1>2 DEF t
    <3>2. /\ Past(h) # <<>> /\ c.before = Past(h)[Len(Past(h))]
          /\ Past(k) = SubSeq(Past(h), 1, Len(Past(h)) - 1)
          /\ Future(k) = <<v>> \o Future(h)
      BY <3>1, <1>1, <1>2, <1>5, LineBack DEF k
    <3>3. g \in Stacks
      BY <1>6 DEF Sound, Held
    <3>4. Past(g) = Past(k) /\ Future(g) = Future(k)
      BY <3>3, <1>6, LineAlike
    <3>5. stacks' = g
      BY <1>3, <1>5
    <3> QED BY <3>2, <3>4, <3>5, <1>2, LineUndoes DEF h, v
  <2> QED BY <2>1, <2>2
<1> QED BY <1>9, <1>10

LEMMA RedoStep ==
    ASSUME HistoryInv, Redo
    PROVE  HistoryInv' /\ LineStep
<1> DEFINE h == stacks  c == Last(h.redo)  r == Reserved(agent)  v == value  t == torn
           k == Forth(h)  g == Remark(k, c)
<1>1. h \in Stacks /\ SoundNow(h) /\ made \in Nat /\ (t \/ Fits(h, v))
  BY DEF HistoryInv, SoundNow, Sound, Held, Values
<1>2. /\ h.redo # <<>>
      /\ h' = Remark([h EXCEPT !.redo = Front(@), !.undo = Append(@, c)], c)
      /\ value' = c.after /\ TouchHistory
      /\ UNCHANGED <<file, kept, applied, agent, failed, made, opened, torn>>
  BY DEF Redo, stored, bounds
<1>3. h' = g
  <2> DEFINE a == c
  <2>1. a = Last(h.redo)
    OBVIOUS
  <2> HIDE DEF a
  <2>2. [h EXCEPT !.redo = Front(@), !.undo = Append(@, a)] = Forth(h)
    BY <2>1, <1>1, Moves
  <2> QED BY <2>2, <1>2 DEF a
<1>4. Sound(h, made, r, t)
  BY <1>1 DEF SoundNow
<1>5. h' = stacks' /\ c = Last(h.redo)
  OBVIOUS
<1> HIDE DEF h, c, v, t
<1>6. /\ Sound(g, made, r, t) /\ (t \/ Fits(g, c.after))
      /\ Alike(k.undo, g.undo) /\ Alike(k.redo, g.redo)
      /\ k \in Stacks /\ c.after \in Content
  <2>1. made \in Nat /\ h.redo # <<>> /\ (t \/ Fits(h, v))
    BY <1>1, <1>2
  <2>2. c = Last(h.redo)
    BY <1>5
  <2> HIDE DEF r
  <2> DEFINE m == made
  <2>3. m \in Nat /\ Sound(h, m, r, t)
    BY <2>1, <1>4
  <2> HIDE DEF m
  <2>4. k = Forth(h) /\ g = Remark(k, c)
    OBVIOUS
  <2> HIDE DEF k, g
  <2>5. /\ Sound(g, m, r, t) /\ (t \/ Fits(g, c.after))
        /\ Alike(k.undo, g.undo) /\ Alike(k.redo, g.redo)
        /\ k \in Stacks /\ c.after \in Content
    BY <2>1, <2>2, <2>3, <2>4, SoundRedo, SMTT(60)
  <2> QED BY <2>5 DEF m
<1> HIDE DEF g, k
<1>7. Values'
  BY <1>2, <1>6 DEF HistoryInv, Values
<1>8. Onward
  BY <1>1, <1>2 DEF Onward
<1>9. HistoryInv'
  <2>1. Sound(stacks', made', Reserved(agent'), torn')
    BY <1>2, <1>3, <1>5, <1>6 DEF r, t
  <2>2. torn' \/ Fits(stacks', value')
    BY <1>2, <1>3, <1>5, <1>6 DEF t
  <2> QED BY <2>1, <2>2, <1>2, <1>7, <1>8, StacksStep
<1>10. LineStep
  <2>1. CASE torn'
    BY <2>1, LineTears
  <2>2. CASE ~torn'
    <3>1. Fits(h, v)
      BY <2>2, <1>1, <1>2 DEF t
    <3>2. /\ Future(h) # <<>> /\ c.after = Head(Future(h))
          /\ Future(k) = Tail(Future(h))
          /\ Past(k) = Append(Past(h), v)
      BY <3>1, <1>1, <1>2, <1>5, LineForth DEF k
    <3>3. g \in Stacks
      BY <1>6 DEF Sound, Held
    <3>4. Past(g) = Past(k) /\ Future(g) = Future(k)
      BY <3>3, <1>6, LineAlike
    <3>5. stacks' = g
      BY <1>3, <1>5
    <3> QED BY <3>2, <3>4, <3>5, <1>2, LineRedoes DEF h, v
  <2> QED BY <2>1, <2>2
<1> QED BY <1>9, <1>10

LEMMA PinStep ==
    ASSUME HistoryInv, ToggleCommandPinned
    PROVE  HistoryInv' /\ LineStep
<1>1. PICK c \in Commands(stacks) :
        /\ stacks' = Trimmed(EachStack(stacks, LAMBDA s : TogglePin(s, c.id)))
        /\ TouchHistory
        /\ UNCHANGED <<value, dirty, stored, agent, failed, made, opened, torn>>
  BY DEF ToggleCommandPinned
<1> DEFINE h == stacks  id == c.id  r == Reserved(agent)  t == torn  g == Pin(h, id)
<1>2. /\ TouchHistory
      /\ UNCHANGED <<value, file, kept, applied, agent, failed, made, opened, torn>>
  BY <1>1 DEF stored
<1>3. Held(h, made, r) /\ Sound(h, made, r, t) /\ h \in Stacks /\ made \in Nat
      /\ (t \/ Fits(h, value))
  BY DEF HistoryInv, SoundNow, Sound, Held, Values
<1>4. stacks' = Trimmed(EachStack(h, LAMBDA s : TogglePin(s, id)))
  BY <1>1
<1> HIDE DEF id, h, t
<1>5. Held(g, made, r) /\ Trimmed(EachStack(h, LAMBDA s : TogglePin(s, id))) = g
  BY <1>3, HeldPin
<1>6. stacks' = g
  BY <1>4, <1>5
<1>7. g.undo = TogglePin(h.undo, id) /\ g.redo = TogglePin(h.redo, id)
  BY DEF Pin
<1>8. Alike(h.undo, g.undo) /\ Alike(h.redo, g.redo)
  <2>1. h.undo \in Seq(CommandRecord) /\ h.redo \in Seq(CommandRecord)
    BY <1>3 DEF Stacks
  <2> QED BY <2>1, <1>7, PinAlike
<1>9. t \/ Lined(g)
  BY <1>3, LinedPin DEF Sound
<1> HIDE DEF g
<1>10. t \/ Fits(g, value)
  BY <1>3, <1>8, FitsAlike
<1>11. Values'
  BY <1>2 DEF HistoryInv, Values
<1>12. Onward
  BY <1>2, <1>3 DEF Onward
<1>13. HistoryInv'
  <2>1. Sound(stacks', made', Reserved(agent'), torn')
    BY <1>2, <1>5, <1>6, <1>9 DEF Sound, r, t
  <2>2. torn' \/ Fits(stacks', value')
    BY <1>2, <1>6, <1>10 DEF t
  <2> QED BY <2>1, <2>2, <1>2, <1>11, <1>12, StacksStep
<1>14. LineStep
  <2>1. g \in Stacks
    BY <1>5 DEF Held
  <2> QED BY <2>1, <1>2, <1>6, <1>8, LineRests DEF h
<1> QED BY <1>13, <1>14

LEMMA ClearStep ==
    ASSUME HistoryInv, ClearUnpinnedHistory
    PROVE  HistoryInv' /\ LineStep
<1> DEFINE h == stacks  r == Reserved(agent)  g == Cleared(h)
<1>1. /\ stacks' = g /\ TouchHistory
      /\ UNCHANGED <<value, file, kept, applied, agent, failed, made, opened, torn>>
  BY DEF ClearUnpinnedHistory, Cleared, stored, bounds
<1>2. Held(h, made, r) /\ made \in Nat
  BY DEF HistoryInv, SoundNow, Sound, Values
<1> HIDE DEF h
<1>3. Held(g, made, r) /\ g.undo = <<>> /\ g.redo = <<>>
  BY <1>2, HeldCleared
<1> HIDE DEF g
<1>4. g \in Stacks
  BY <1>3 DEF Held
<1>5. InLine(g.undo) /\ Fits(g, value)
  BY <1>3 DEF InLine, Fits
<1>6. Lined(g)
  BY <1>3, <1>4, <1>5, InLineStack
<1>7. Values'
  BY <1>1 DEF HistoryInv, Values
<1>8. Onward
  BY <1>1, <1>2 DEF Onward
<1>9. HistoryInv'
  <2>1. Sound(stacks', made', Reserved(agent'), torn')
    BY <1>1, <1>3, <1>6 DEF Sound, r
  <2>2. torn' \/ Fits(stacks', value')
    BY <1>1, <1>5
  <2> QED BY <2>1, <2>2, <1>1, <1>7, <1>8, StacksStep
<1>10. LineStep
  <2>1. Past(g) = <<>> /\ Future(g) = <<>>
    BY <1>3, <1>4, LineIs
  <2> QED BY <2>1, <1>1, LineClears
<1> QED BY <1>9, <1>10

-----------------------------------------------------------------------------
(* The steps of the files and of the plan *)

LEMMA NothingOfThePage ==
    ASSUME HistoryInv, Values', Onward,
           UNCHANGED <<value, stacks, kept, queue, failed, torn, opened>>
    PROVE  HistoryInv' /\ LineStep
<1>1. HistoryInv'
  BY RestStep
<1>2. stacks' \in Stacks
  BY <1>1 DEF HistoryInv, SoundNow, Sound, Held
<1>3. Alike(stacks.undo, stacks'.undo) /\ Alike(stacks.redo, stacks'.redo)
  BY DEF Alike
<1>4. LineStep
  BY <1>2, <1>3, LineRests
<1> QED BY <1>1, <1>4

LEMMA NoPlan == NoAgent \in Agent /\ Reserved(NoAgent) = 0 /\ NoAgent.at = "idle"
BY DEF NoAgent, Agent, First, Content, Reserved

LEMMA AutosaveStep ==
    ASSUME HistoryInv, Save
    PROVE  HistoryInv' /\ LineStep
<1>1. /\ file' = value
      /\ UNCHANGED <<value, stacks, kept, applied, queue, agent, failed, made, opened, torn>>
  BY DEF Save, underway, bounds
<1>2. Values'
  BY <1>1 DEF HistoryInv, Values
<1>3. Onward
  BY <1>1 DEF HistoryInv, Values, Onward
<1> QED BY <1>1, <1>2, <1>3, NothingOfThePage

LEMMA PlanStep ==
    ASSUME HistoryInv, ApplyAgentPlan
    PROVE  HistoryInv' /\ LineStep
<1> DEFINE at == IF dirty THEN "save" ELSE "apply"
<1>1. /\ agent' = [at |-> at, project |-> value]
      /\ UNCHANGED <<value, file, stacks, kept, applied, queue, failed, made, opened, torn>>
  BY DEF ApplyAgentPlan, page, stored, bounds
<1>2. at \in {"save", "apply"}
  OBVIOUS
<1> HIDE DEF at
<1>3. agent' \in Agent /\ agent'.at \in {"save", "apply"}
  BY <1>1, <1>2 DEF HistoryInv, Values, Agent
<1>4. Reserved(agent') = 0
  BY <1>3 DEF Reserved
<1>5. Values'
  BY <1>1, <1>3 DEF HistoryInv, Values
<1>6. Onward
  BY <1>1, <1>4 DEF HistoryInv, Values, Onward
<1> QED BY <1>1, <1>5, <1>6, NothingOfThePage

LEMMA AgentSavesStep ==
    ASSUME HistoryInv, AgentSaves
    PROVE  HistoryInv' /\ LineStep
<1>1. /\ agent.at = "save" /\ agent \in Agent
      /\ UNCHANGED <<value, stacks, kept, applied, queue, failed, made, opened, torn>>
  BY DEF AgentSaves, HistoryInv, Values
<1>2. /\ agent' \in Agent /\ agent'.at \in {"apply", "idle"}
      /\ file' \in {file, agent.project}
  <2>1. CASE AgentAt("apply") /\ file' = agent.project
    BY <2>1, <1>1 DEF AgentAt, Agent
  <2>2. CASE agent' = NoAgent /\ file' = file
    BY <2>2, NoPlan
  <2> QED BY <2>1, <2>2 DEF AgentSaves
<1>3. agent.project \in Content
  BY <1>1 DEF Agent
<1>4. Reserved(agent') = 0
  BY <1>2 DEF Reserved
<1>5. Values'
  BY <1>1, <1>2, <1>3 DEF HistoryInv, Values
<1>6. Onward
  BY <1>1, <1>4 DEF HistoryInv, Values, Onward
<1> QED BY <1>1, <1>5, <1>6, NothingOfThePage

LEMMA SavePatchedStep ==
    ASSUME HistoryInv, SavePatched
    PROVE  HistoryInv' /\ LineStep
<1>1. /\ agent.at = "apply" /\ agent \in Agent /\ made \in Nat
      /\ UNCHANGED <<value, stacks, kept, applied, queue, failed, opened, torn>>
  BY DEF SavePatched, page, HistoryInv, Values
<1>2. CASE /\ Make /\ file' = Patched
           /\ agent' = [agent EXCEPT !.at = "mark", !.project = file']
  <2> DEFINE s == made + 1  o == TRUE
  <2>1. s \in Nat /\ o \in BOOLEAN /\ s >= 1 /\ made' = s
    BY <1>1, <1>2 DEF Make
  <2>2. file' = Fresh(s, o)
    BY <1>2 DEF Patched
  <2>3. s = made + 1
    OBVIOUS
  <2> HIDE DEF s, o
  <2>4. file' \in Content /\ file'.n = s
    BY <1>1, <2>1, <2>2, <2>3, FreshContent
  <2>5. agent' = [at |-> "mark", project |-> file']
    BY <1>1, <1>2 DEF Agent
  <2>6. agent' \in Agent /\ agent'.at = "mark" /\ agent'.project.n = s
    BY <2>4, <2>5 DEF Agent
  <2>7. Reserved(agent') = s
    BY <2>6 DEF Reserved
  <2>8. s \in 1 .. made' /\ s \in made + 1 .. made' /\ made <= made' /\ made' \in Nat
    BY <1>1, <2>1, <2>3
  <2>9. Values'
    BY <1>1, <2>4, <2>6, <2>8 DEF HistoryInv, Values
  <2>10. Onward
    BY <1>1, <2>7, <2>8 DEF Onward
  <2> QED BY <1>1, <2>9, <2>10, NothingOfThePage
<1>3. CASE agent' = NoAgent /\ file' = file /\ made' = made
  <2>1. Values'
    BY <1>1, <1>3, NoPlan DEF HistoryInv, Values
  <2>2. Onward
    BY <1>1, <1>3, NoPlan DEF HistoryInv, Values, Onward
  <2> QED BY <1>1, <2>1, <2>2, NothingOfThePage
<1> QED BY <1>2, <1>3 DEF SavePatched

LEMMA RefuseStep ==
    ASSUME HistoryInv, RefusePatch
    PROVE  HistoryInv' /\ LineStep
<1>1. /\ agent' = NoAgent
      /\ UNCHANGED <<value, file, stacks, kept, applied, queue, failed, made, opened, torn>>
  BY DEF RefusePatch, page, stored, bounds
<1>2. Values'
  BY <1>1, NoPlan DEF HistoryInv, Values
<1>3. Onward
  BY <1>1, NoPlan DEF HistoryInv, Values, Onward
<1> QED BY <1>1, <1>2, <1>3, NothingOfThePage

LEMMA MarkAppliedStep ==
    ASSUME HistoryInv, MarkPatchApplied
    PROVE  HistoryInv' /\ LineStep
<1>1. /\ agent.at = "mark" /\ agent \in Agent /\ agent.project.n \in 1 .. made
      /\ UNCHANGED <<value, file, stacks, kept, queue, failed, made, opened, torn>>
  BY DEF MarkPatchApplied, page, HistoryInv, Values
<1>2. applied' \in {"file", "memory"}
  BY DEF MarkPatchApplied
<1>3. CASE AgentAt("answer")
  <2>1. agent' \in Agent /\ agent'.at = "answer" /\ agent'.project = agent.project
    BY <1>1, <1>3 DEF AgentAt, Agent
  <2>2. Reserved(agent') = Reserved(agent)
    BY <1>1, <2>1 DEF Reserved
  <2>3. Values'
    BY <1>1, <1>2, <2>1 DEF HistoryInv, Values
  <2>4. Onward
    BY <1>1, <2>2 DEF HistoryInv, Values, Onward
  <2> QED BY <1>1, <2>3, <2>4, NothingOfThePage
<1>4. CASE agent' = NoAgent
  <2>1. Values'
    BY <1>1, <1>2, <1>4, NoPlan DEF HistoryInv, Values
  <2>2. Onward
    BY <1>1, <1>4, NoPlan DEF HistoryInv, Values, Onward
  <2> QED BY <1>1, <2>1, <2>2, NothingOfThePage
<1> QED BY <1>3, <1>4 DEF MarkPatchApplied

\* The next of the queue is in the file, or lost, or refused.
LEMMA SaveHistoryStep ==
    ASSUME HistoryInv, SaveCommandHistory
    PROVE  HistoryInv' /\ LineStep
<1>1. /\ queue # <<>> /\ queue' = Tail(queue) /\ queue \in Seq(Stacks)
      /\ UNCHANGED <<value, stacks, file, applied, agent, made, opened, torn>>
  BY DEF SaveCommandHistory, page, HistoryInv, Waiting
<1>2. \/ /\ kept' = IF AcceptedHistory(Head(queue)) THEN Head(queue) ELSE kept
         /\ ~failed'
      \/ failed' /\ kept' = kept
  BY DEF SaveCommandHistory
<1> DEFINE q == queue  n == Len(queue)
<1>3. /\ n \in Nat /\ n >= 1 /\ Head(q) = q[1]
      /\ queue' \in Seq(Stacks) /\ Len(queue') = n - 1
      /\ \A i \in 1 .. n - 1 : queue'[i] = q[i + 1]
  BY <1>1
<1>4. /\ n <= MaxQueue /\ \A i \in 1 .. n : SoundNow(q[i])
  BY DEF HistoryInv, Waiting
<1>5. \A h : SoundNow(h) => Sound(h, made', Reserved(agent'), torn')
  BY <1>1 DEF SoundNow
<1>6. q[n] = stacks
  BY <1>1 DEF HistoryInv, Caught, Last
<1> HIDE DEF q, n
<1>7. Waiting'
  <2>1. Len(queue') <= MaxQueue
    BY <1>3, <1>4, HistoryAssumption
  <2>2. \A i \in 1 .. n - 1 : i + 1 \in 1 .. n
    BY <1>3
  <2>3. \A i \in 1 .. Len(queue') : Sound(queue'[i], made', Reserved(agent'), torn')
    BY <2>2, <1>3, <1>4, <1>5
  <2> QED BY <2>1, <2>3, <1>3 DEF Waiting, SoundNow
<1>8. Sound(kept', made', Reserved(agent'), torn') /\ AcceptedHistory(kept')
  <2>1. SoundNow(kept) /\ AcceptedHistory(kept)
    BY DEF HistoryInv
  <2>2. SoundNow(q[1]) /\ Head(queue) = q[1]
    BY <1>3, <1>4 DEF q
  <2> QED BY <2>1, <2>2, <1>2, <1>5
<1>9. Caught'
  <2>1. ASSUME queue' # <<>> PROVE Last(queue') = stacks'
    <3>1. n - 1 >= 1
      BY <2>1, <1>3, EmptySeq
    <3>2. queue'[n - 1] = q[n]
      BY <3>1, <1>3
    <3> QED BY <3>2, <1>1, <1>3, <1>6 DEF Last
  <2>2. ASSUME queue' = <<>>, ~failed', AcceptedHistory(stacks') PROVE kept' = stacks'
    <3>1. n - 1 = 0
      BY <2>2, <1>3
    <3>2. Head(queue) = stacks
      BY <3>1, <1>3, <1>6 DEF q
    <3> QED BY <3>2, <2>2, <1>1, <1>2
  <2> QED BY <2>1, <2>2 DEF Caught
<1>10. Values'
  BY <1>1 DEF HistoryInv, Values
<1>11. SoundNow(stacks)' /\ (torn \/ Fits(stacks, value))'
  BY <1>1 DEF HistoryInv, SoundNow
<1>12. HistoryInv'
  BY <1>7, <1>8, <1>9, <1>10, <1>11 DEF HistoryInv, SoundNow
<1>13. LineStep
  <2>1. stacks' \in Stacks
    BY <1>12 DEF HistoryInv, SoundNow, Sound, Held
  <2>2. Alike(stacks.undo, stacks'.undo) /\ Alike(stacks.redo, stacks'.redo)
    BY <1>1 DEF Alike
  <2> QED BY <2>1, <2>2, <1>1, LineRests
<1> QED BY <1>12, <1>13

\* There is nothing to undo.
LEMMA NoneSound ==
    ASSUME NEW m, NEW r, NEW t, NEW v
    PROVE  Sound(NoStacks, m, r, t) /\ Fits(NoStacks, v) /\ AcceptedHistory(NoStacks)
<1> DEFINE h == NoStacks
<1>1. Held(h, m, r)
  BY HeldNone
<1>2. h \in Stacks /\ h.undo = <<>> /\ h.redo = <<>> /\ h.archive = <<>>
  BY <1>1 DEF Held, NoStacks
<1> HIDE DEF h
<1>3. InLine(h.undo) /\ Fits(h, v)
  BY <1>2 DEF InLine, Fits
<1>4. Lined(h)
  BY <1>2, <1>3, InLineStack
<1>5. AcceptedHistory(h)
  BY <1>2, HistoryAssumption DEF AcceptedHistory
<1> QED BY <1>1, <1>3, <1>4, <1>5 DEF Sound, h

\* The project opened again, with its history or without.
LEMMA OpenStep ==
    ASSUME HistoryInv, Open
    PROVE  HistoryInv' /\ LineStep
<1> DEFINE h == stacks'
<1>1. /\ opened' = opened + 1 /\ value' = file /\ stacks' \in {Trimmed(kept), NoStacks}
      /\ torn' = (torn \/ ~Fits(h, file)) /\ queue' = <<h>> /\ agent' = NoAgent
      /\ applied' = (IF applied = "memory" THEN "no" ELSE applied)
      /\ file' = file /\ kept' = kept /\ made' = made
  BY DEF Open
<1>2. torn \in BOOLEAN /\ made \in Nat /\ file \in Content
  BY DEF HistoryInv, Values
<1>3. torn' \in BOOLEAN /\ (torn => torn') /\ (torn' \/ Fits(h, value'))
  BY <1>1, <1>2
<1>4. applied' \in {"no", "memory", "file"}
  BY <1>1 DEF HistoryInv, Values
<1>5. Values'
  BY <1>1, <1>2, <1>3, <1>4, NoPlan DEF HistoryInv, Values
<1>6. Onward
  BY <1>1, <1>2, <1>3, NoPlan DEF Onward
<1>7. SoundNow(kept)' /\ AcceptedHistory(kept)'
  BY <1>1, <1>6, KeptStays
<1>8. Sound(h, made', Reserved(agent'), torn')
  <2>1. Sound(kept, made', Reserved(agent'), torn')
    BY <1>1, <1>7 DEF SoundNow
  <2>2. kept \in Stacks /\ AcceptedHistory(kept)
    BY DEF HistoryInv, SoundNow, Sound, Held
  <2>3. Trimmed(kept) = kept
    BY <2>2, TrimmedIs
  <2>4. Sound(NoStacks, made', Reserved(agent'), torn')
    BY NoneSound
  <2> QED BY <2>1, <2>3, <2>4, <1>1
<1>9. h \in Stacks /\ Size(h) <= Limit
  BY <1>8 DEF Sound, Held
<1>10. h = stacks'
  OBVIOUS
<1> HIDE DEF h
<1>11. /\ queue' \in Seq(Stacks) /\ Len(queue') = 1 /\ queue'[1] = h /\ queue' # <<>>
  BY <1>1, <1>9
<1>12. Waiting'
  <2>1. Len(queue') <= MaxQueue
    BY <1>11, HistoryAssumption
  <2>2. \A i \in 1 .. Len(queue') : Sound(queue'[i], made', Reserved(agent'), torn')
    BY <1>8, <1>11
  <2> QED BY <2>1, <2>2, <1>11 DEF Waiting, SoundNow
<1>13. Caught'
  BY <1>10, <1>11 DEF Caught, Last
<1>14. HistoryInv'
  BY <1>3, <1>5, <1>7, <1>8, <1>10, <1>12, <1>13 DEF HistoryInv, SoundNow
<1>15. LineStep
  <2>1. CASE torn'
    BY <2>1, LineTears
  <2>2. CASE ~torn'
    <3>1. torn' = torn
      BY <2>2, <1>2, <1>3
    <3> DEFINE n == Len(h.undo)  k == Len(h.redo)  p == Len(Past(h))
    <3>2. n \in Nat /\ k \in Nat /\ p = n
      BY <1>9, LineIs
    <3>4. n + k <= Limit
      BY <1>9 DEF Size
    <3>5. p <= Limit
      <4> HIDE DEF n, k, p
      <4> QED BY <3>2, <3>4, HistoryAssumption
    <3>3. Len(Past(h)) <= Limit
      BY <3>5
    <3> QED BY <3>1, <3>3, <1>1, <1>10, LineOpens
  <2> QED BY <2>1, <2>2
<1> QED BY <1>14, <1>15

LEMMA HistoryStarts ==
    ASSUME HistoryInit
    PROVE  HistoryInv /\ Line!Init
<1>1. /\ value = First /\ file = First /\ stacks = NoStacks /\ kept = NoStacks
      /\ queue = <<>> /\ agent = NoAgent /\ applied = "no" /\ ~failed /\ torn = FALSE
      /\ made = 0 /\ opened = 0
  BY DEF HistoryInit
<1>2. First \in Content
  BY DEF First, Content
<1>3. Values
  BY <1>1, <1>2, NoPlan DEF Values
<1>4. Waiting
  BY <1>1, HistoryAssumption DEF Waiting
<1>5. Caught
  BY <1>1 DEF Caught
<1>6. /\ Sound(stacks, made, Reserved(agent), torn) /\ Sound(kept, made, Reserved(agent), torn)
      /\ AcceptedHistory(kept) /\ Fits(stacks, value)
  BY <1>1, NoneSound
<1>7. HistoryInv
  BY <1>3, <1>4, <1>5, <1>6 DEF HistoryInv, SoundNow
<1>8. NoStacks.undo = <<>> /\ NoStacks.redo = <<>> /\ NoStacks \in Stacks
  BY <1>1, <1>6 DEF NoStacks, Sound, Held
<1>9. Past(stacks) = <<>> /\ Future(stacks) = <<>>
  BY <1>1, <1>8, LineIs
<1>10. Line!Init
  BY <1>1, <1>9 DEF Line!Init, Past, Future
<1> QED BY <1>7, <1>10
-----------------------------------------------------------------------------
(* The theorems *)

LEMMA HistorySteps ==
    ASSUME HistoryInv, [HistoryNext]_commandHistory
    PROVE  HistoryInv' /\ LineStep
<1>1. CASE Edit
  BY <1>1, EditStep
<1>2. CASE RestoreCommand
  BY <1>2, RestoreStep
<1>3. CASE Undo
  BY <1>3, UndoStep
<1>4. CASE Redo
  BY <1>4, RedoStep
<1>5. CASE UndoCategory
  BY <1>5, UndoCategoryStep
<1>6. CASE ToggleCommandPinned
  BY <1>6, PinStep
<1>7. CASE ClearUnpinnedHistory
  BY <1>7, ClearStep
<1>8. CASE SaveCommandHistory
  BY <1>8, SaveHistoryStep
<1>9. CASE Save
  BY <1>9, AutosaveStep
<1>10. CASE Open
  BY <1>10, OpenStep
<1>11. CASE ApplyAgentPlan
  BY <1>11, PlanStep
<1>12. CASE AgentSaves
  BY <1>12, AgentSavesStep
<1>13. CASE SavePatched
  BY <1>13, SavePatchedStep
<1>14. CASE RefusePatch
  BY <1>14, RefuseStep
<1>15. CASE MarkPatchApplied
  BY <1>15, MarkAppliedStep
<1>16. CASE CommitPatched
  BY <1>16, PatchedStep
<1>17. CASE UNCHANGED commandHistory
  <2>1. UNCHANGED <<value, stacks, file, kept, applied, queue, agent, failed, made, opened, torn>>
    BY <1>17 DEF commandHistory, page, stored, underway, bounds
  <2>2. Values'
    BY <2>1 DEF HistoryInv, Values
  <2>3. Onward
    BY <2>1 DEF HistoryInv, Values, Onward
  <2> QED BY <2>1, <2>2, <2>3, NothingOfThePage
<1> QED BY <1>1, <1>2, <1>3, <1>4, <1>5, <1>6, <1>7, <1>8, <1>9, <1>10, <1>11, <1>12,
           <1>13, <1>14, <1>15, <1>16, <1>17 DEF HistoryNext, HistoryStep

\* The histories of the page, of the queue and of the file are sound, and the
\* last one on its way to the file is that of the page (useCommandHistory,
\* persistCommandHistory, save_command_history).
THEOREM HistoryFollowed == HistorySpec => []HistoryInv
<1>1. HistoryInit => HistoryInv
  BY HistoryStarts
<1>2. HistoryInv /\ [HistoryNext]_commandHistory => HistoryInv'
  BY HistorySteps
<1> QED BY <1>1, <1>2, PTL DEF HistorySpec

\* Undo and redo walk a line of contents and lose none of it: every step of the
\* history is one of UndoLine's (useCommandHistory commit, undo, redo,
\* undoCategory, restoreHistory).
THEOREM UndoWalksLine == HistorySpec => UndoIsLine
<1>1. HistoryInit => HistoryInv /\ Line!Init
  BY HistoryStarts
<1>2. HistoryInv /\ [HistoryNext]_commandHistory => HistoryInv' /\ LineStep
  BY HistorySteps
<1> QED BY <1>1, <1>2, PTL DEF HistorySpec, UndoIsLine, Line!Spec, LineStep

\* No command is in two places, the two stacks are within the limit and so is
\* the queue of what is to be saved (useCommandHistory).
THEOREM HistoryTypes == HistorySpec => []HistoryTypeOK
<1>1. ASSUME HistoryInv PROVE HistoryTypeOK
  <2>1. Held(stacks, made, Reserved(agent)) /\ stacks \in Stacks
    BY <1>1 DEF HistoryInv, SoundNow, Sound, Held
  <2>2. \A c, d \in Commands(stacks) : c.id = d.id => c = d
    <3>1. /\ \A c, d \in Elements(stacks.undo) : c.id = d.id => c = d
          /\ \A c, d \in Elements(stacks.redo) : c.id = d.id => c = d
          /\ \A c, d \in Elements(stacks.archive) : c.id = d.id => c = d
      BY <2>1 DEF Held, Distinct, Different, Elements
    <3>2. /\ \A c \in Elements(stacks.undo), d \in Elements(stacks.redo) : c.id # d.id
          /\ \A c \in Elements(stacks.undo), d \in Elements(stacks.archive) : c.id # d.id
          /\ \A c \in Elements(stacks.redo), d \in Elements(stacks.archive) : c.id # d.id
      BY <2>1 DEF Held, Distinct, Apart
    <3> QED BY <3>1, <3>2 DEF Commands
  <2>3. Len(stacks.undo) + Len(stacks.redo) <= Limit
    BY <2>1 DEF Held, Size
  <2>4. Len(queue) <= MaxQueue
    BY <1>1 DEF HistoryInv, Waiting
  <2>5. /\ agent.at \in {"idle", "save", "apply", "mark", "answer"}
        /\ applied \in {"no", "memory", "file"}
    BY <1>1 DEF HistoryInv, Values, Agent
  <2> QED BY <2>2, <2>3, <2>4, <2>5 DEF HistoryTypeOK
<1> QED BY <1>1, HistoryFollowed, PTL

\* A category is marked as undone exactly while the command that undid it is
\* applied, as long as the line is whole (undoCategory, onUndo, onRedo).
THEOREM MarksFollow == HistorySpec => []CategoryMarks
<1>1. ASSUME HistoryInv PROVE CategoryMarks
  <2> SUFFICES ASSUME ~torn
               PROVE  /\ \A c \in Elements(stacks.undo) :
                            c.undone <=> \E e \in Elements(stacks.undo) : e.effect = c.id
                      /\ \A c \in Elements(stacks.redo) : ~c.undone
    BY DEF CategoryMarks
  <2>1. stacks \in Stacks /\ Lined(stacks)
    BY <1>1 DEF HistoryInv, SoundNow, Sound, Held
  <2>2. InLine(stacks.undo)
    BY <2>1, InLineUndo
  <2>3. \A c \in Elements(stacks.undo) :
            c.undone <=> \E e \in Elements(stacks.undo) : e.effect = c.id
    BY <2>2 DEF InLine, Elements
  <2>4. \A c \in Elements(stacks.redo) : ~c.undone
    <3> DEFINE n == Len(stacks.undo)  k == Len(stacks.redo)  z == Size(stacks)
    <3> SUFFICES ASSUME NEW j \in 1 .. k PROVE ~stacks.redo[j].undone
      BY DEF Elements
    <3>1. n \in Nat /\ k \in Nat /\ z = n + k
      BY <2>1, OnIs
    <3> DEFINE i == z + 1 - j
    <3>2. On(stacks, i) = IF i <= n THEN stacks.undo[i] ELSE stacks.redo[z + 1 - i]
      BY DEF On
    <3>3. \A m \in 1 .. z : On(stacks, m).undone => m <= n
      BY <2>1 DEF Lined, MarksHold
    <3> HIDE DEF n, k, z
    <3>4. i \in 1 .. z /\ ~(i <= n) /\ z + 1 - i = j
      BY <3>1
    <3> QED BY <3>2, <3>3, <3>4
  <2> QED BY <2>3, <2>4
<1> QED BY <1>1, HistoryFollowed, PTL

\* With fewer commands pinned than a stack may hold, none is too long.
LEMMA PinnedFit ==
    ASSUME NEW m, NEW r, NEW h, Held(h, m, r),
           Cardinality({c \in Commands(h) : c.pinned}) <= Limit
    PROVE  AcceptedHistory(h)
<1> DEFINE P == {c \in Commands(h) : c.pinned}  s == h.archive  n == Len(s)
<1>1. h \in Stacks /\ Size(h) <= Limit /\ Bounded(s) /\ Different(s)
  BY DEF Held, Distinct
<1>2. s \in Seq(CommandRecord) /\ n \in Nat
  BY <1>1 DEF Stacks
<1>3. IsFiniteSet(P)
  <2>1. IsFiniteSet(Elements(h.undo)) /\ IsFiniteSet(Elements(h.redo)) /\ IsFiniteSet(Elements(s))
    <3>1. \A t \in Seq(CommandRecord) : IsFiniteSet(Elements(t))
      <4> TAKE t \in Seq(CommandRecord)
      <4>1. IsFiniteSet(1 .. Len(t))
        BY FS_Interval, LenProperties
      <4> DEFINE n1 == 1 .. Len(t)  f == [i \in n1 |-> t[i]]
      <4>2. f \in Surjection(n1, Elements(t))
        BY DEF Elements, Surjection
      <4> HIDE DEF f
      <4> QED BY <4>1, <4>2, FS_Surjection
    <3> QED BY <3>1, <1>1 DEF Stacks
  <2>2. IsFiniteSet(Commands(h))
    BY <2>1, FS_Union DEF Commands
  <2> QED BY <2>2, FS_Subset
<1>4. n <= Limit
  <2>1. CASE n <= Limit
    BY <2>1
  <2>2. CASE \A i \in 1 .. n : s[i].pinned
    <3> DEFINE f == [i \in 1 .. n |-> s[i]]
    <3>1. f \in Injection(1 .. n, P)
      <4>1. \A i \in 1 .. n : s[i] \in P
        BY <2>2 DEF Commands, Elements
      <4>2. \A i, j \in 1 .. n : s[i] = s[j] => i = j
        BY <1>1 DEF Different
      <4> HIDE DEF P, s, n
      <4> QED BY <4>1, <4>2 DEF Injection, IsInjective
    <3>2. Cardinality(1 .. n) <= Cardinality(P)
      BY <3>1, <1>3, FS_Injection
    <3>3. Cardinality(1 .. n) = n
      BY <1>2, FS_Interval
    <3>4. Cardinality(P) <= Limit /\ Cardinality(P) \in Nat
      BY <1>3, FS_CardinalityType
    <3> HIDE DEF P, n
    <3> QED BY <3>2, <3>3, <3>4, <1>2, HistoryAssumption
  <2> QED BY <1>1, <2>1, <2>2 DEF Bounded
<1>5. Len(h.undo) <= Limit /\ Len(h.redo) <= Limit
  <2> DEFINE a == Len(h.undo)  b == Len(h.redo)
  <2>1. a \in Nat /\ b \in Nat /\ a + b <= Limit
    BY <1>1, OnIs DEF Size
  <2> HIDE DEF a, b
  <2>2. a <= Limit /\ b <= Limit
    BY <2>1, HistoryAssumption
  <2> QED BY <2>2 DEF a, b
<1> QED BY <1>4, <1>5 DEF AcceptedHistory

\* With nothing under way the file has the history of the page, unless the last
\* save failed or more is pinned than a stack may hold (persistCommandHistory,
\* _validate_command_history).
THEOREM HistoryCatches == HistorySpec => []HistoryCatchesUp
<1>1. ASSUME HistoryInv PROVE HistoryCatchesUp
  <2>1. Held(stacks, made, Reserved(agent)) /\ Caught
    BY <1>1 DEF HistoryInv, SoundNow, Sound
  <2>2. ASSUME Cardinality({c \in Commands(stacks) : c.pinned}) <= Limit
        PROVE  AcceptedHistory(stacks)
    BY <2>1, <2>2, PinnedFit
  <2> QED BY <2>1, <2>2 DEF HistoryCatchesUp, Caught
<1> QED BY <1>1, HistoryFollowed, PTL

-----------------------------------------------------------------------------
(* The plan lands once *)

NoOps(s) == \A x \in Elements(s) : ~x.before.ops /\ ~x.after.ops
Bare(h) == NoOps(h.undo) /\ NoOps(h.redo) /\ NoOps(h.archive)

\* Nothing that is kept, or may come back, has the operations of the plan.
Nowhere ==
    /\ ~value.ops /\ ~file.ops /\ ~agent.project.ops
    /\ Bare(stacks) /\ Bare(kept)
    /\ \A i \in 1 .. Len(queue) : Bare(queue[i])

\* As long as no patch was saved without its mark, they are nowhere before they
\* are marked.
LandInv ==
    /\ opened \in Nat
    /\ agent.at = "answer" => applied # "no"
    /\ unmarked \/ applied # "no" \/ agent.at = "mark" \/ Nowhere

LEMMA NoOpsAlike ==
    ASSUME NEW s, NEW t, Alike(s, t), NoOps(s)
    PROVE  NoOps(t)
BY DEF Alike, NoOps, Elements

LEMMA NoOpsAppend ==
    ASSUME NEW s \in Seq(CommandRecord), NEW c \in CommandRecord, NoOps(s),
           ~c.before.ops, ~c.after.ops
    PROVE  Append(s, c) \in Seq(CommandRecord) /\ NoOps(Append(s, c))
BY AppendElements DEF NoOps

LEMMA BareMark ==
    ASSUME NEW h \in Stacks, NEW id, NEW b \in BOOLEAN, Bare(h)
    PROVE  Mark(h, id, b) \in Stacks /\ Bare(Mark(h, id, b))
<1>1. h.undo \in Seq(CommandRecord) /\ h.redo \in Seq(CommandRecord)
      /\ h.archive \in Seq(CommandRecord)
  BY DEF Stacks
<1>2. /\ MarkIn(h.undo, id, b) \in Seq(CommandRecord) /\ NoOps(MarkIn(h.undo, id, b))
      /\ MarkIn(h.redo, id, b) \in Seq(CommandRecord) /\ NoOps(MarkIn(h.redo, id, b))
      /\ MarkIn(h.archive, id, b) \in Seq(CommandRecord) /\ NoOps(MarkIn(h.archive, id, b))
  BY <1>1, MarkAlike, NoOpsAlike DEF Bare
<1> QED BY <1>2, MarkIs DEF Stacks, Bare

LEMMA BareTrimmed ==
    ASSUME NEW h \in Stacks, Bare(h)
    PROVE  Bare(Trimmed(h))
<1>1. h.undo \in Seq(CommandRecord) /\ h.redo \in Seq(CommandRecord)
      /\ h.archive \in Seq(CommandRecord)
  BY DEF Stacks
<1>2. /\ NoOps(TrimHistory(h.undo)) /\ NoOps(TrimHistory(h.redo))
      /\ NoOps(TrimHistory(h.archive))
  BY <1>1, TrimPart DEF Bare, NoOps
<1> QED BY <1>2, TrimmedIs DEF Bare

LEMMA BarePush ==
    ASSUME NEW h \in Stacks, NEW c \in CommandRecord, Bare(h),
           ~c.before.ops, ~c.after.ops
    PROVE  Bare(Push(h, c))
<1>1. h.undo \in Seq(CommandRecord) /\ h.redo \in Seq(CommandRecord)
      /\ h.archive \in Seq(CommandRecord)
  BY DEF Stacks
<1>2. Append(h.undo, c) \in Seq(CommandRecord) /\ NoOps(Append(h.undo, c))
  BY <1>1, NoOpsAppend DEF Bare
<1>3. NoOps(TrimHistory(Append(h.undo, c)))
  BY <1>2, TrimPart DEF NoOps
<1>4. Pinned(h.redo) \in Seq(CommandRecord) /\ NoOps(Pinned(h.redo))
  BY <1>1, PinnedPart DEF Bare, NoOps
<1> DEFINE p == Pinned(h.redo)  a == h.archive \o p
<1>5. a \in Seq(CommandRecord) /\ NoOps(a)
  <2> HIDE DEF p
  <2> QED BY <1>1, <1>4, ConcatElements DEF Bare, NoOps, p
<1>6. NoOps(TrimHistory(a))
  <2> HIDE DEF a
  <2> QED BY <1>5, TrimPart DEF NoOps
<1>7. NoOps(<<>>)
  BY DEF NoOps, Elements
<1> QED BY <1>3, <1>6, <1>7 DEF Bare, Push, ArchivePinnedRedo

LEMMA BareNone == Bare(NoStacks)
BY DEF Bare, NoStacks, NoOps, Elements

\* What is undone or redone is bare, and so are the stacks after it.
LEMMA BareMoves ==
    ASSUME NEW h \in Stacks, Bare(h)
    PROVE  /\ h.undo # <<>> =>
              LET c == Last(h.undo)
                  k == [h EXCEPT !.undo = Front(@), !.redo = Append(@, c)]
              IN  c \in CommandRecord /\ ~c.before.ops /\ k \in Stacks /\ Bare(k)
           /\ h.redo # <<>> =>
              LET c == Last(h.redo)
                  k == [h EXCEPT !.redo = Front(@), !.undo = Append(@, c)]
              IN  c \in CommandRecord /\ ~c.after.ops /\ k \in Stacks /\ Bare(k)
<1>1. h.undo \in Seq(CommandRecord) /\ h.redo \in Seq(CommandRecord)
      /\ h.archive \in Seq(CommandRecord)
  BY DEF Stacks
<1>2. \A s \in Seq(CommandRecord) : s # <<>> /\ NoOps(s) =>
          /\ Front(s) \in Seq(CommandRecord) /\ NoOps(Front(s))
          /\ Last(s) \in CommandRecord /\ ~Last(s).before.ops /\ ~Last(s).after.ops
  BY FrontAndLast DEF NoOps
<1>3. ASSUME h.undo # <<>>
      PROVE  LET c == Last(h.undo)
                 k == [h EXCEPT !.undo = Front(@), !.redo = Append(@, c)]
             IN  c \in CommandRecord /\ ~c.before.ops /\ k \in Stacks /\ Bare(k)
  <2>1. /\ Front(h.undo) \in Seq(CommandRecord) /\ NoOps(Front(h.undo))
        /\ Last(h.undo) \in CommandRecord
        /\ ~Last(h.undo).before.ops /\ ~Last(h.undo).after.ops
    BY <1>1, <1>2, <1>3 DEF Bare
  <2>2. /\ Append(h.redo, Last(h.undo)) \in Seq(CommandRecord)
        /\ NoOps(Append(h.redo, Last(h.undo)))
    BY <1>1, <2>1, NoOpsAppend DEF Bare
  <2> QED BY <1>1, <2>1, <2>2 DEF Bare, Stacks
<1>4. ASSUME h.redo # <<>>
      PROVE  LET c == Last(h.redo)
                 k == [h EXCEPT !.redo = Front(@), !.undo = Append(@, c)]
             IN  c \in CommandRecord /\ ~c.after.ops /\ k \in Stacks /\ Bare(k)
  <2>1. /\ Front(h.redo) \in Seq(CommandRecord) /\ NoOps(Front(h.redo))
        /\ Last(h.redo) \in CommandRecord
        /\ ~Last(h.redo).before.ops /\ ~Last(h.redo).after.ops
    BY <1>1, <1>2, <1>4 DEF Bare
  <2>2. /\ Append(h.undo, Last(h.redo)) \in Seq(CommandRecord)
        /\ NoOps(Append(h.undo, Last(h.redo)))
    BY <1>1, <2>1, NoOpsAppend DEF Bare
  <2> QED BY <1>1, <2>1, <2>2 DEF Bare, Stacks
<1> QED BY <1>3, <1>4

\* Bare stacks join those that wait to be saved.
LEMMA BareQueue ==
    ASSUME HistoryInv, HistoryInv', TouchHistory, Bare(stacks'),
           \A i \in 1 .. Len(queue) : Bare(queue[i])
    PROVE  \A i \in 1 .. Len(queue') : Bare(queue'[i])
<1>1. queue \in Seq(Stacks) /\ stacks' \in Stacks
  BY DEF HistoryInv, Waiting, SoundNow, Sound, Held
<1>2. /\ Len(queue') = Len(queue) + 1 /\ Len(queue) \in Nat
      /\ \A i \in 1 .. Len(queue) : queue'[i] = queue[i]
      /\ queue'[Len(queue) + 1] = stacks'
  BY <1>1, AppendProperties, LenProperties DEF TouchHistory
<1>3. \A i \in 1 .. Len(queue) + 1 : i \in 1 .. Len(queue) \/ i = Len(queue) + 1
  BY <1>2
<1> QED BY <1>2, <1>3

\* A step of the page.
LEMMA PageBare ==
    ASSUME HistoryInv, HistoryInv', Nowhere, TouchHistory, Bare(stacks'), ~value'.ops,
           file' = file, kept' = kept, ~agent'.project.ops
    PROVE  Nowhere'
BY BareQueue DEF Nowhere

LEMMA CommitBare ==
    ASSUME HistoryInv, HistoryInv', Nowhere, NEW v \in Content, ~v.ops, Commit(v)
    PROVE  Nowhere'
<1> DEFINE f == FALSE  z == 0  c == Command(value, v, f, z)
<1>1. /\ stacks' = Push(stacks, c) /\ value' = v /\ TouchHistory
      /\ UNCHANGED <<file, kept, agent>>
  BY DEF Commit, stored
<1>2. f \in BOOLEAN /\ z \in Nat /\ value \in Content /\ made \in Nat
  BY DEF HistoryInv, Values
<1>3. c \in CommandRecord /\ c.before = value /\ c.after = v
  <2> HIDE DEF f, z
  <2> QED BY <1>2, CommandIs
<1> HIDE DEF c
<1>4. stacks \in Stacks /\ Bare(stacks) /\ ~value.ops
  BY DEF HistoryInv, SoundNow, Sound, Held, Nowhere
<1>5. Bare(stacks')
  BY <1>1, <1>3, <1>4, BarePush
<1> QED BY <1>1, <1>5, PageBare DEF Nowhere

LEMMA EditBare ==
    ASSUME HistoryInv, HistoryInv', Nowhere, Edit
    PROVE  Nowhere'
<1> DEFINE s == value.scope  o == value.ops
<1>1. made \in Nat /\ s \in Nat /\ o = FALSE
  BY DEF HistoryInv, Values, Content, Nowhere
<1>2. Commit(Fresh(s, o))
  BY DEF Edit
<1> HIDE DEF s, o
<1>3. Fresh(s, o) \in Content /\ ~Fresh(s, o).ops
  BY <1>1, FreshContent DEF Fresh
<1> QED BY <1>2, <1>3, CommitBare

LEMMA RestoreBare ==
    ASSUME HistoryInv, HistoryInv', Nowhere, RestoreCommand
    PROVE  Nowhere'
<1>1. PICK c \in Commands(stacks), v \in {"before", "after"} :
        Commit(IF v = "before" THEN c.before ELSE c.after)
  BY DEF RestoreCommand
<1>2. c \in CommandRecord
  BY CommandsKnown DEF HistoryInv, SoundNow, Sound, Held
<1>3. ~c.before.ops /\ ~c.after.ops
  BY DEF Nowhere, Bare, NoOps, Commands
<1> DEFINE w == IF v = "before" THEN c.before ELSE c.after
<1>4. w \in Content /\ ~w.ops
  BY <1>2, <1>3 DEF CommandRecord
<1>5. Commit(w)
  BY <1>1
<1> HIDE DEF w
<1> QED BY <1>4, <1>5, CommitBare

LEMMA UndoBare ==
    ASSUME HistoryInv, HistoryInv', Nowhere, Undo
    PROVE  Nowhere'
<1> DEFINE h == stacks  c == Last(h.undo)
           k == [h EXCEPT !.undo = Front(@), !.redo = Append(@, c)]
<1>1. /\ h.undo # <<>> /\ stacks' = Unmark(k, c) /\ value' = c.before
      /\ TouchHistory /\ UNCHANGED <<file, kept, agent>>
  BY DEF Undo, stored
<1>2. h \in Stacks /\ Bare(h)
  BY DEF HistoryInv, SoundNow, Sound, Held, Nowhere
<1>3. c \in CommandRecord /\ ~c.before.ops /\ k \in Stacks /\ Bare(k)
  <2> HIDE DEF h
  <2> QED BY <1>1, <1>2, BareMoves
<1> HIDE DEF k, c
<1>4. Bare(Mark(k, c.effect, FALSE))
  BY <1>3, BareMark
<1>5. Bare(stacks')
  BY <1>1, <1>3, <1>4 DEF Unmark
<1> QED BY <1>1, <1>3, <1>5, PageBare DEF Nowhere

LEMMA RedoBare ==
    ASSUME HistoryInv, HistoryInv', Nowhere, Redo
    PROVE  Nowhere'
<1> DEFINE h == stacks  c == Last(h.redo)
           k == [h EXCEPT !.redo = Front(@), !.undo = Append(@, c)]
<1>1. /\ h.redo # <<>> /\ stacks' = Remark(k, c) /\ value' = c.after
      /\ TouchHistory /\ UNCHANGED <<file, kept, agent>>
  BY DEF Redo, stored
<1>2. h \in Stacks /\ Bare(h)
  BY DEF HistoryInv, SoundNow, Sound, Held, Nowhere
<1>3. c \in CommandRecord /\ ~c.after.ops /\ k \in Stacks /\ Bare(k)
  <2> HIDE DEF h
  <2> QED BY <1>1, <1>2, BareMoves
<1> HIDE DEF k, c
<1>4. Bare(Mark(k, c.effect, TRUE))
  BY <1>3, BareMark
<1>5. Bare(stacks')
  BY <1>1, <1>3, <1>4 DEF Remark
<1> QED BY <1>1, <1>3, <1>5, PageBare DEF Nowhere

LEMMA UndoCategoryBare ==
    ASSUME HistoryInv, HistoryInv', Nowhere, UndoCategory
    PROVE  Nowhere'
<1> DEFINE h == stacks
<1>0. PICK i \in 1 .. Len(h.undo) :
        LET s == h.undo[i]  w == RestoreCategory(s)  e == Command(value, w, FALSE, s.id) IN
        /\ stacks' = Push(Mark(h, s.id, TRUE), e) /\ value' = w
        /\ TouchHistory /\ UNCHANGED <<file, kept, agent>>
  BY DEF UndoCategory, stored
<1> DEFINE s == h.undo[i]  z == s.id  v == RestoreCategory(s)  f == FALSE
           c == Command(value, v, f, z)
<1>1. /\ stacks' = Push(Mark(h, z, TRUE), c) /\ value' = v
      /\ TouchHistory /\ UNCHANGED <<file, kept, agent>>
  BY <1>0
<1>2. h \in Stacks /\ Bare(h) /\ value \in Content /\ ~value.ops /\ made \in Nat
  BY DEF HistoryInv, Values, SoundNow, Sound, Held, Nowhere
<1>3. s \in CommandRecord /\ z \in Nat /\ s.before.scope \in Nat
  <2>1. s \in CommandRecord
    BY <1>2 DEF Stacks
  <2> QED BY <2>1 DEF CommandRecord, Content
<1>4. v \in Content /\ ~v.ops /\ f \in BOOLEAN
  <2> DEFINE x == s.before.scope
  <2>1. v = Fresh(x, FALSE) /\ x \in Nat
    BY <1>3 DEF RestoreCategory
  <2> HIDE DEF x, v
  <2> QED BY <2>1, <1>2, FreshContent DEF Fresh
<1> HIDE DEF z, v, f
<1>5. c \in CommandRecord /\ c.before = value /\ c.after = v
  BY <1>2, <1>3, <1>4, CommandIs
<1> HIDE DEF c, h
<1>6. Mark(h, z, TRUE) \in Stacks /\ Bare(Mark(h, z, TRUE))
  BY <1>2, BareMark
<1>7. Bare(stacks')
  BY <1>1, <1>2, <1>4, <1>5, <1>6, BarePush
<1> QED BY <1>1, <1>4, <1>7, PageBare DEF Nowhere

LEMMA PinBare ==
    ASSUME HistoryInv, HistoryInv', Nowhere, ToggleCommandPinned
    PROVE  Nowhere'
<1>1. PICK c \in Commands(stacks) :
        /\ stacks' = Trimmed(EachStack(stacks, LAMBDA s : TogglePin(s, c.id)))
        /\ TouchHistory /\ UNCHANGED <<value, file, kept, agent>>
  BY DEF ToggleCommandPinned, stored
<1> DEFINE h == stacks  id == c.id  k == EachStack(h, LAMBDA s : TogglePin(s, id))
<1>2. h.undo \in Seq(CommandRecord) /\ h.redo \in Seq(CommandRecord)
      /\ h.archive \in Seq(CommandRecord) /\ Bare(h)
  BY DEF HistoryInv, SoundNow, Sound, Held, Stacks, Nowhere
<1>3. k = [undo |-> TogglePin(h.undo, id), redo |-> TogglePin(h.redo, id),
           archive |-> TogglePin(h.archive, id)]
  BY DEF EachStack
<1>4. stacks' = Trimmed(k)
  BY <1>1
<1> HIDE DEF h, id, k
<1>5. /\ TogglePin(h.undo, id) \in Seq(CommandRecord) /\ NoOps(TogglePin(h.undo, id))
      /\ TogglePin(h.redo, id) \in Seq(CommandRecord) /\ NoOps(TogglePin(h.redo, id))
      /\ TogglePin(h.archive, id) \in Seq(CommandRecord) /\ NoOps(TogglePin(h.archive, id))
  BY <1>2, PinAlike, NoOpsAlike DEF Bare
<1>6. k \in Stacks /\ Bare(k)
  BY <1>3, <1>5 DEF Stacks, Bare
<1>7. Bare(stacks')
  BY <1>4, <1>6, BareTrimmed
<1> QED BY <1>1, <1>7, PageBare DEF Nowhere

LEMMA ClearBare ==
    ASSUME HistoryInv, HistoryInv', Nowhere, ClearUnpinnedHistory
    PROVE  Nowhere'
<1> DEFINE h == stacks  a == h.undo \o h.redo  b == a \o h.archive
<1>1. /\ stacks' = Cleared(h)
      /\ TouchHistory /\ UNCHANGED <<value, file, kept, agent>>
  BY DEF ClearUnpinnedHistory, Cleared, stored
<1>2. h.undo \in Seq(CommandRecord) /\ h.redo \in Seq(CommandRecord)
      /\ h.archive \in Seq(CommandRecord) /\ Bare(h)
  BY DEF HistoryInv, SoundNow, Sound, Held, Stacks, Nowhere
<1>3. Cleared(h) = [undo |-> <<>>, redo |-> <<>>, archive |-> TrimHistory(Pinned(b))]
  BY DEF Cleared, NoStacks
<1> HIDE DEF h
<1>4. a \in Seq(CommandRecord) /\ NoOps(a)
  BY <1>2, ConcatElements DEF Bare, NoOps
<1> HIDE DEF a
<1>5. b \in Seq(CommandRecord) /\ NoOps(b)
  BY <1>2, <1>4, ConcatElements DEF Bare, NoOps
<1> HIDE DEF b
<1>6. Pinned(b) \in Seq(CommandRecord) /\ NoOps(Pinned(b))
  BY <1>5, PinnedPart DEF NoOps
<1>7. NoOps(TrimHistory(Pinned(b)))
  BY <1>6, TrimPart DEF NoOps
<1>8. NoOps(<<>>)
  BY DEF NoOps, Elements
<1>9. Bare(stacks')
  BY <1>1, <1>3, <1>7, <1>8 DEF Bare
<1> QED BY <1>1, <1>9, PageBare DEF Nowhere

LEMMA SaveHistoryBare ==
    ASSUME HistoryInv, Nowhere, SaveCommandHistory
    PROVE  Nowhere'
<1>1. /\ queue # <<>> /\ queue' = Tail(queue) /\ queue \in Seq(Stacks)
      /\ kept' \in {kept, Head(queue)}
      /\ UNCHANGED <<value, stacks, file, agent>>
  BY DEF SaveCommandHistory, page, HistoryInv, Waiting
<1> DEFINE n == Len(queue)
<1>2. /\ n \in Nat /\ n >= 1 /\ Head(queue) = queue[1] /\ Len(queue') = n - 1
      /\ \A i \in 1 .. n - 1 : queue'[i] = queue[i + 1]
  BY <1>1
<1> HIDE DEF n
<1>3. /\ 1 \in 1 .. n /\ \A i \in 1 .. n - 1 : i + 1 \in 1 .. n
  BY <1>2
<1>4. \A i \in 1 .. n : Bare(queue[i])
  BY DEF Nowhere, n
<1>5. Bare(kept')
  BY <1>1, <1>2, <1>3, <1>4 DEF Nowhere
<1>6. \A i \in 1 .. Len(queue') : Bare(queue'[i])
  BY <1>2, <1>3, <1>4
<1> QED BY <1>1, <1>5, <1>6 DEF Nowhere

LEMMA OpenBare ==
    ASSUME HistoryInv, Nowhere, Open
    PROVE  Nowhere'
<1>1. /\ value' = file /\ stacks' \in {Trimmed(kept), NoStacks} /\ queue' = <<stacks'>>
      /\ agent' = NoAgent /\ UNCHANGED <<file, kept>>
  BY DEF Open
<1>2. kept \in Stacks /\ Bare(kept) /\ ~file.ops
  BY DEF HistoryInv, SoundNow, Sound, Held, Nowhere
<1>3. Bare(stacks')
  BY <1>1, <1>2, BareTrimmed, BareNone
<1>4. \A i \in 1 .. Len(queue') : Bare(queue'[i])
  <2> DEFINE s == stacks'
  <2>1. queue' = <<s>> /\ Bare(s)
    BY <1>1, <1>3
  <2> HIDE DEF s
  <2> QED BY <2>1
<1>5. ~agent'.project.ops
  BY <1>1 DEF NoAgent, First
<1> QED BY <1>1, <1>2, <1>3, <1>4, <1>5 DEF Nowhere

LEMMA LandStep ==
    ASSUME HistoryInv, LandInv, [HistoryNext]_commandHistory
    PROVE  LandInv'
<1>0. HistoryInv' /\ opened \in Nat /\ agent \in Agent
  BY HistorySteps DEF LandInv, HistoryInv, Values
<1>1. CASE UNCHANGED commandHistory
  BY <1>1 DEF LandInv, Nowhere, commandHistory, page, stored, underway, bounds
<1>2. CASE HistoryNext
  <2>0. HistoryStep /\ unmarked' = (unmarked \/ EndsUnmarked)
    BY <1>2 DEF HistoryNext
  <2>1. opened' = opened \/ Open
    BY <2>0 DEF HistoryStep, Edit, RestoreCommand, Commit, Undo, Redo, UndoCategory,
        ToggleCommandPinned, ClearUnpinnedHistory, SaveCommandHistory, Save,
        ApplyAgentPlan, AgentSaves, SavePatched, RefusePatch, MarkPatchApplied,
        CommitPatched, bounds
  <2>2. Open => opened' = opened + 1 /\ agent' = NoAgent
                /\ applied' = IF applied = "memory" THEN "no" ELSE applied
    BY DEF Open
  <2>3. opened' \in Nat
    BY <1>0, <2>1, <2>2
  <2>4. applied' = applied \/ Open \/ MarkPatchApplied
    BY <2>0 DEF HistoryStep, Edit, RestoreCommand, Commit, Undo, Redo, UndoCategory,
        ToggleCommandPinned, ClearUnpinnedHistory, SaveCommandHistory, Save,
        ApplyAgentPlan, AgentSaves, SavePatched, RefusePatch, CommitPatched, stored
  <2>5. MarkPatchApplied => applied' # "no"
    BY DEF MarkPatchApplied
  <2>6. agent' = agent \/ agent'.at # "answer" \/ MarkPatchApplied
    <3>1. CASE AgentSaves
      BY <1>0, <3>1, NoPlan DEF AgentSaves, AgentAt, Agent
    <3>2. CASE SavePatched
      <4>1. agent' = NoAgent \/ agent' = [at |-> "mark", project |-> file']
        BY <1>0, <3>2 DEF SavePatched, Agent
      <4> QED BY <4>1, NoPlan
    <3>3. CASE ApplyAgentPlan
      BY <3>3 DEF ApplyAgentPlan
    <3> QED BY <2>0, <3>1, <3>2, <3>3, NoPlan DEF HistoryStep, Edit, RestoreCommand,
        Commit, Undo, Redo, UndoCategory, ToggleCommandPinned, ClearUnpinnedHistory,
        SaveCommandHistory, Save, Open, RefusePatch, CommitPatched, underway
  <2>7. agent'.at = "answer" => applied' # "no"
    BY <2>2, <2>4, <2>5, <2>6, NoPlan DEF LandInv
  <2>8. ASSUME ~unmarked', applied' = "no", agent'.at # "mark"
        PROVE  Nowhere'
    <3>1. ~EndsUnmarked /\ ~unmarked
      BY <2>0, <2>8
    <3>2. applied = "no" /\ (Open => agent.at # "mark")
      BY <1>0, <2>2, <2>4, <2>5, <2>8, <3>1 DEF EndsUnmarked
    <3>3. ~MarkPatchApplied /\ ~CommitPatched
      BY <2>5, <2>8, <3>2 DEF CommitPatched, LandInv
    <3>4. agent' = agent \/ Open \/ agent.at # "mark"
      BY <2>0, <3>3, NoPlan DEF HistoryStep, Edit, RestoreCommand, Commit, Undo, Redo,
          UndoCategory, ToggleCommandPinned, ClearUnpinnedHistory, SaveCommandHistory,
          Save, ApplyAgentPlan, AgentSaves, SavePatched, RefusePatch, underway
    <3>5. Nowhere
      BY <2>8, <3>1, <3>2, <3>4 DEF LandInv
    <3>6. CASE Edit \/ RestoreCommand \/ Undo \/ Redo \/ UndoCategory
               \/ ToggleCommandPinned \/ ClearUnpinnedHistory
      BY <1>0, <3>5, <3>6, EditBare, RestoreBare, UndoBare, RedoBare, UndoCategoryBare,
         PinBare, ClearBare
    <3>7. CASE SaveCommandHistory
      BY <3>5, <3>7, SaveHistoryBare
    <3>8. CASE Save
      BY <3>5, <3>8 DEF Save, Nowhere, underway
    <3>9. CASE Open
      BY <3>5, <3>9, OpenBare
    <3>10. CASE ApplyAgentPlan
      BY <3>5, <3>10 DEF ApplyAgentPlan, Nowhere, page, stored
    <3>11. CASE AgentSaves
      <4>1. agent'.project = agent.project \/ agent' = NoAgent
        BY <1>0, <3>11 DEF AgentSaves, AgentAt, Agent
      <4>2. ~agent'.project.ops
        BY <3>5, <4>1 DEF Nowhere, NoAgent, First
      <4> QED BY <3>5, <3>11, <4>2 DEF AgentSaves, Nowhere
    <3>12. CASE SavePatched
      <4>1. agent' = NoAgent /\ file' = file
        BY <1>0, <2>8, <3>12 DEF SavePatched, Agent
      <4> QED BY <3>5, <3>12, <4>1 DEF SavePatched, Nowhere, NoAgent, First, page
    <3>13. CASE RefusePatch
      BY <3>5, <3>13 DEF RefusePatch, Nowhere, NoAgent, First, page, stored
    <3> QED BY <2>0, <3>3, <3>6, <3>7, <3>8, <3>9, <3>10, <3>11, <3>12, <3>13
        DEF HistoryStep
  <2> QED BY <2>3, <2>7, <2>8 DEF LandInv
<1> QED BY <1>1, <1>2

\* The operations of a plan are not applied to a project that has them, unless
\* the application ended between a patch and its mark and their scopes tell
\* nothing (apply_patch_to_project, mark_patch_applied, _operation_scopes).
THEOREM PatchLands == HistorySpec => PatchLandsOnce
<1>1. HistoryInit => LandInv
  <2>1. Bare(NoStacks) /\ Len(<<>>) = 0
    BY BareNone
  <2> QED BY <2>1 DEF HistoryInit, LandInv, Nowhere, NoAgent, First
<1>2. HistoryInv /\ LandInv /\ [HistoryNext]_commandHistory => LandInv'
  BY LandStep
<1>3. ASSUME HistoryInv, LandInv, [HistoryNext]_commandHistory,
             agent.at = "apply", agent'.at = "mark"
      PROVE  ~agent.project.ops \/ (unmarked /\ ~compared)
  <2>1. agent \in Agent /\ agent.project \in Content
    BY <1>3 DEF HistoryInv, Values, Agent
  <2>2. SavePatched
    <3>1. agent' # agent /\ agent' # NoAgent
      BY <1>3, NoPlan
    <3>2. ~(Edit \/ RestoreCommand \/ Undo \/ Redo \/ UndoCategory
            \/ ToggleCommandPinned \/ ClearUnpinnedHistory)
      BY <3>1 DEF Edit, RestoreCommand, Commit, Undo, Redo, UndoCategory,
                  ToggleCommandPinned, ClearUnpinnedHistory
    <3>3. ~(SaveCommandHistory \/ Save \/ Open \/ RefusePatch \/ CommitPatched)
      BY <3>1 DEF SaveCommandHistory, Save, Open, RefusePatch, CommitPatched, underway
    <3>4. ~(ApplyAgentPlan \/ AgentSaves \/ MarkPatchApplied)
      BY <1>3, NoPlan DEF ApplyAgentPlan, AgentSaves, MarkPatchApplied
    <3>5. ~UNCHANGED commandHistory
      BY <3>1 DEF commandHistory, underway
    <3> QED BY <1>3, <3>2, <3>3, <3>4, <3>5 DEF HistoryNext, HistoryStep
  <2>3. Applicable(agent.project)
    BY <2>2, <1>3, NoPlan DEF SavePatched
  <2>4. CASE compared
    <3>1. agent.project.scope = 0
      BY <2>3, <2>4 DEF Applicable, First
    <3> QED BY <2>1, <3>1 DEF Content
  <2>5. CASE ~unmarked
    BY <2>3, <2>5, <1>3 DEF Applicable, LandInv, Nowhere
  <2> QED BY <2>4, <2>5
<1>4. HistoryInv /\ LandInv /\ [HistoryNext]_commandHistory
        => (agent.at = "apply" /\ agent'.at = "mark" =>
              ~agent.project.ops \/ (unmarked /\ ~compared))
  BY <1>3
<1> QED BY <1>1, <1>2, <1>4, HistoryFollowed, PTL DEF HistorySpec, PatchLandsOnce
=============================================================================
