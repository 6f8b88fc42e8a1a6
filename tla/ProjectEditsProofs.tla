--------------------------- MODULE ProjectEditsProofs ---------------------------
(***************************************************************************)
(* Theorems of ProjectEdits: the project of the editor can always be saved, *)
(* and its jumps land, for any number of identifiers, commands and tabs.   *)
(*                                                                         *)
(* The inductive invariant says it of every project the history holds as   *)
(* well, and says of a handler that waits, for the user or the clipboard,  *)
(* that what it relies on was so when it was called: when it goes on it is *)
(* still so, or the handler was crossed.                                   *)
(***************************************************************************)
EXTENDS ProjectEdits, ListsProofs

ChapterRecord == [id : Nat, entry : BOOLEAN, fragments : Seq(Nat)]
Draft == [chapters : Seq(ChapterRecord), scripts : SUBSET Nat, jumps : SUBSET (Nat \X Nat),
          timelines : SUBSET Nat, active : Nat]

\* The first chapter is the entry, it is not empty, and no two have one identifier;
\* identifiers are used up to n.
Numbered(cs, n) ==
    /\ cs \in Seq(ChapterRecord)
    /\ cs # <<>> /\ cs[1].id = 1 /\ cs[1].fragments # <<>>
    /\ \A c \in Elements(cs) : c.id <= n /\ (c.entry <=> (c.id = 1))
    /\ \A c, d \in Elements(cs) : c.id = d.id => c = d

Landing(p) == \A e \in p.jumps : e[2] \in Fragments(p)

\* A project that can be saved; its jumps land unless some need not.
Good(p, n, some) ==
    /\ p \in Draft
    /\ Numbered(p.chapters, n)
    /\ Saveable(p)
    /\ some \/ Landing(p)

Goods(n, some) == {p \in Draft : Good(p, n, some)}
Commands(n, some) == [before : Goods(n, some), after : Goods(n, some)]

Load == [kind : {"chapter", "fragment"}, fragments : Seq(Nat), jumps : SUBSET (Nat \X Nat)]
GoodLoad(load) == load \in Load /\ (load.kind = "fragment" => Len(load.fragments) = 1)

JobRecord == [kind : {"chapter", "fragment", "remove", "cut", "paste"}, chapter : Nat,
              fragments : Seq(Nat), seen : BOOLEAN]

\* A handler that waits had seen what it relies on; it leaves the first chapter.
GoodJob(j) ==
    /\ j \in JobRecord
    /\ j.seen
    /\ j.kind \in {"remove", "cut"} => j.chapter # 1
    /\ j.kind = "remove" => Len(j.fragments) = 1

HistoryInv == undo \in Seq(Commands(ids, pasted)) /\ redo \in Seq(Commands(ids, pasted))
HandlersInv == (job = NoJob \/ GoodJob(job)) /\ \A j \in waiting : GoodJob(j)
ClipsInv == \A load \in clips : GoodLoad(load)

Followed ==
    /\ ids \in Nat /\ ids >= 1
    /\ Good(draft, ids, pasted)
    /\ HistoryInv /\ HandlersInv /\ ClipsInv

\* Of what was crossed or stale nothing else is said.
Left == stale /\ (pasted \/ Landing(draft))

EditsInv == crossed \/ Left \/ Followed

-----------------------------------------------------------------------------
(* Chapters *)

LEMMA SeqOver ==
    ASSUME NEW S, NEW T, NEW s \in Seq(S), NEW t \in [1 .. Len(s) -> T]
    PROVE  t \in Seq(T) /\ Len(t) = Len(s)
<1>1. Len(s) \in Nat
    OBVIOUS
<1> QED BY <1>1

LEMMA FragmentsAre ==
    ASSUME NEW p, NEW f
    PROVE  f \in Fragments(p) <=> \E c \in Elements(p.chapters) : f \in Elements(c.fragments)
BY DEF Fragments

LEMMA FirstIsElement ==
    ASSUME NEW S, NEW s \in Seq(S), s # <<>>
    PROVE  Len(s) \in Nat /\ 1 \in 1 .. Len(s) /\ s[1] \in Elements(s) /\ s[1] \in S
<1>1. Len(s) \in Nat /\ Len(s) # 0
    BY EmptySeq
<1>2. 1 \in 1 .. Len(s)
    BY <1>1
<1> QED BY <1>1, <1>2 DEF Elements

\* The first fragment of the first chapter is one of the project.
LEMMA FirstFragmentIs ==
    ASSUME NEW p, NEW n, Numbered(p.chapters, n)
    PROVE  /\ FirstFragment(p) = p.chapters[1].fragments[1]
           /\ p.chapters[1].fragments[1] \in Fragments(p)
<1> DEFINE cs == p.chapters
           Empty(i) == cs[i].fragments = <<>>
           IsFirst(i) == ~Empty(i) /\ \A j \in 1 .. (i - 1) : Empty(j)
<1>1. cs \in Seq(ChapterRecord) /\ cs # <<>> /\ cs[1].fragments # <<>>
    BY DEF Numbered
<1>2. Len(cs) \in Nat /\ 1 \in 1 .. Len(cs) /\ cs[1] \in Elements(cs) /\ cs[1] \in ChapterRecord
    BY <1>1, FirstIsElement
<1>3. DOMAIN cs = 1 .. Len(cs)
    BY <1>1
<1>4. IsFirst(1)
    BY <1>1
<1>5. \A i \in DOMAIN cs : IsFirst(i) => i = 1
    <2>1. \A i \in 1 .. Len(cs) : i # 1 => 1 \in 1 .. (i - 1)
        BY <1>2
    <2> QED BY <2>1, <1>1, <1>3
<1> HIDE DEF IsFirst
<1>6. (CHOOSE i \in DOMAIN cs : IsFirst(i)) = 1
    BY <1>2, <1>3, <1>4, <1>5
<1>7. FirstFragment(p) = cs[1].fragments[1]
    BY <1>6 DEF FirstFragment, IsFirst
<1>8. cs[1].fragments \in Seq(Nat)
    BY <1>2 DEF ChapterRecord
<1>9. cs[1].fragments[1] \in Elements(cs[1].fragments)
    BY <1>1, <1>8, FirstIsElement
<1> QED BY <1>2, <1>7, <1>9, FragmentsAre

\* Chapters whose fragments alone change.
LEMMA MappedNumbered ==
    ASSUME NEW cs, NEW n \in Nat, Numbered(cs, n), NEW m \in Nat, n <= m,
           NEW ds \in [1 .. Len(cs) -> ChapterRecord],
           \A i \in 1 .. Len(cs) : ds[i].id = cs[i].id /\ ds[i].entry = cs[i].entry,
           \A i, j \in 1 .. Len(cs) : cs[i] = cs[j] => ds[i] = ds[j],
           ds[1].fragments # <<>>
    PROVE  Numbered(ds, m) /\ Len(ds) = Len(cs) /\ Elements(ds) = {ds[i] : i \in 1 .. Len(cs)}
<1>1. cs \in Seq(ChapterRecord) /\ cs # <<>> /\ cs[1].id = 1
    BY DEF Numbered
<1>2. Len(cs) \in Nat /\ 1 \in 1 .. Len(cs)
    BY <1>1, FirstIsElement
<1>3. ds \in Seq(ChapterRecord) /\ Len(ds) = Len(cs)
    BY <1>1, SeqOver
<1>4. ds # <<>> /\ ds[1].id = 1
    BY <1>1, <1>2, <1>3
<1>5. \A i \in 1 .. Len(cs) : cs[i] \in Elements(cs) /\ cs[i] \in ChapterRecord
    BY <1>1 DEF Elements
<1>6. \A i \in 1 .. Len(cs) : ds[i].id <= m /\ (ds[i].entry <=> (ds[i].id = 1))
    <2> TAKE i \in 1 .. Len(cs)
    <2>1. cs[i].id <= n /\ (cs[i].entry <=> (cs[i].id = 1))
        BY <1>5 DEF Numbered
    <2>2. cs[i].id \in Nat
        BY <1>5 DEF ChapterRecord
    <2>3. ds[i].id <= m
        BY <2>1, <2>2
    <2> QED BY <2>1, <2>3
<1>7. \A i, j \in 1 .. Len(cs) : ds[i].id = ds[j].id => ds[i] = ds[j]
    <2> TAKE i, j \in 1 .. Len(cs)
    <2>1. cs[i].id = cs[j].id => cs[i] = cs[j]
        BY <1>5 DEF Numbered
    <2> QED BY <2>1
<1>8. Elements(ds) = {ds[i] : i \in 1 .. Len(cs)}
    BY <1>3 DEF Elements
<1> QED BY <1>3, <1>4, <1>6, <1>7, <1>8 DEF Numbered

LEMMA WithFragments ==
    ASSUME NEW d \in ChapterRecord, NEW fs \in Seq(Nat)
    PROVE  /\ [d EXCEPT !.fragments = fs] \in ChapterRecord
           /\ [d EXCEPT !.fragments = fs].id = d.id
           /\ [d EXCEPT !.fragments = fs].entry = d.entry
           /\ [d EXCEPT !.fragments = fs].fragments = fs
BY DEF ChapterRecord

LEMMA FragmentsAt ==
    ASSUME NEW p, p.chapters \in Seq(ChapterRecord), NEW f
    PROVE  f \in Fragments(p)
             <=> \E i \in 1 .. Len(p.chapters) : f \in Elements(p.chapters[i].fragments)
BY FragmentsAre DEF Elements

\* A fragment added to a chapter that there is.
LEMMA AddedChapters ==
    ASSUME NEW p \in Draft, ids \in Nat, Numbered(p.chapters, ids), NEW m \in Nat, ids <= m, NEW c
    PROVE  /\ Numbered(Added(p, c).chapters, m)
           /\ Fragments(p) \subseteq Fragments(Added(p, c))
           /\ (\E d \in Elements(p.chapters) : d.id = c) => New \in Fragments(Added(p, c))
<1> DEFINE cs == p.chapters
           More(d) == [d EXCEPT !.fragments = Append(d.fragments, New)]
           ds == [i \in 1 .. Len(cs) |-> IF cs[i].id = c THEN More(cs[i]) ELSE cs[i]]
<1>1. cs \in Seq(ChapterRecord) /\ cs # <<>> /\ cs[1].fragments # <<>> /\ New \in Nat
    BY DEF Numbered, New
<1>2. Len(cs) \in Nat /\ 1 \in 1 .. Len(cs) /\ DOMAIN cs = 1 .. Len(cs)
    BY <1>1, FirstIsElement
<1>3. Added(p, c).chapters = ds
    <2>1. Added(p, c) = [p EXCEPT !.chapters = ds]
      <3> DEFINE es == [i \in DOMAIN cs |->
                          IF cs[i].id = c THEN [cs[i] EXCEPT !.fragments = Append(@, New)] ELSE cs[i]]
      <3>1. Added(p, c) = [p EXCEPT !.chapters = es]
        BY DEF Added
      <3>2. es = ds
        BY <1>2
      <3> QED BY <3>1, <3>2
    <2> HIDE DEF ds
    <2> QED BY <2>1 DEF Draft
<1> HIDE DEF cs
<1>4. \A d \in ChapterRecord :
        /\ More(d) \in ChapterRecord /\ More(d).id = d.id /\ More(d).entry = d.entry
        /\ Elements(More(d).fragments) = Elements(d.fragments) \cup {New}
        /\ More(d).fragments # <<>>
    <2> TAKE d \in ChapterRecord
    <2>1. d.fragments \in Seq(Nat)
        BY DEF ChapterRecord
    <2> DEFINE fs == Append(d.fragments, New)
    <2>2. fs \in Seq(Nat) /\ Elements(fs) = Elements(d.fragments) \cup {New}
        BY <2>1, <1>1, AppendElements
    <2>3. fs # <<>>
      <3>1. Elements(<<>>) = {}
        BY DEF Elements
      <3> HIDE DEF fs
      <3> QED BY <2>2, <3>1
    <2>4. [d EXCEPT !.fragments = fs] = More(d)
        OBVIOUS
    <2> HIDE DEF fs, More
    <2>5. /\ [d EXCEPT !.fragments = fs] \in ChapterRecord
          /\ [d EXCEPT !.fragments = fs].id = d.id
          /\ [d EXCEPT !.fragments = fs].entry = d.entry
          /\ [d EXCEPT !.fragments = fs].fragments = fs
        BY <2>2, WithFragments
    <2> QED BY <2>2, <2>3, <2>4, <2>5
<1> HIDE DEF More
<1>5. \A i \in 1 .. Len(cs) : cs[i] \in ChapterRecord
    BY <1>1
<1>6. ds \in [1 .. Len(cs) -> ChapterRecord]
    BY <1>4, <1>5
<1>7. /\ \A i \in 1 .. Len(cs) : ds[i] = IF cs[i].id = c THEN More(cs[i]) ELSE cs[i]
    OBVIOUS
<1> HIDE DEF ds
<1>8. \A i \in 1 .. Len(cs) : ds[i].id = cs[i].id /\ ds[i].entry = cs[i].entry
    BY <1>4, <1>5, <1>7
<1>9. \A i, j \in 1 .. Len(cs) : cs[i] = cs[j] => ds[i] = ds[j]
    BY <1>7
<1>10. ds[1].fragments # <<>>
    BY <1>1, <1>2, <1>4, <1>5, <1>7
<1>11. Numbered(cs, ids)
    BY DEF cs
<1>12. Numbered(ds, m) /\ Len(ds) = Len(cs)
    BY <1>6, <1>8, <1>9, <1>10, <1>11, MappedNumbered
<1>13. \A f : f \in Fragments(p) <=> \E i \in 1 .. Len(cs) : f \in Elements(cs[i].fragments)
    BY <1>1, FragmentsAt DEF cs
<1>14. \A f : f \in Fragments(Added(p, c)) <=> \E i \in 1 .. Len(cs) : f \in Elements(ds[i].fragments)
    <2>1. ds \in Seq(ChapterRecord)
        BY <1>12 DEF Numbered
    <2> QED BY <2>1, <1>3, <1>12, FragmentsAt
<1>15. \A i \in 1 .. Len(cs) : Elements(cs[i].fragments) \subseteq Elements(ds[i].fragments)
    BY <1>4, <1>5, <1>7
<1>16. ASSUME NEW d \in Elements(p.chapters), d.id = c
       PROVE  New \in Fragments(Added(p, c))
    <2>1. PICK i \in 1 .. Len(cs) : cs[i] = d
        BY <1>16 DEF Elements, cs
    <2>2. New \in Elements(ds[i].fragments)
        BY <2>1, <1>4, <1>5, <1>7, <1>16
    <2> QED BY <2>2, <1>14
<1> QED BY <1>3, <1>12, <1>13, <1>14, <1>15, <1>16

\* A chapter put after another, or at the end.
LEMMA InsertedChapter ==
    ASSUME NEW p \in Draft, NEW n \in Nat, n >= 1, Numbered(p.chapters, n),
           NEW at \in 1 .. Len(p.chapters), NEW m \in Nat, n < m,
           NEW d \in ChapterRecord, d.id = n + 1, d.entry = FALSE,
           NEW q, q.chapters = SubSeq(p.chapters, 1, at) \o <<d>>
                                 \o SubSeq(p.chapters, at + 1, Len(p.chapters))
    PROVE  /\ Numbered(q.chapters, m)
           /\ \A f : f \in Fragments(q) <=> f \in Fragments(p) \/ f \in Elements(d.fragments)
<1> DEFINE cs == p.chapters
           one == <<d>>
           k == Len(cs)
           front == SubSeq(cs, 1, at)
           back == SubSeq(cs, at + 1, k)
           ds == (front \o one) \o back
<1>1. cs \in Seq(ChapterRecord) /\ cs # <<>> /\ cs[1].id = 1 /\ cs[1].fragments # <<>>
      /\ one \in Seq(ChapterRecord)
    BY DEF Numbered
<1>2. k \in Nat /\ at \in Nat /\ at >= 1 /\ at <= k
    BY <1>1
<1>3. q.chapters = ds
    OBVIOUS
<1>4. Elements(one) = {d}
    BY DEF Elements
<1>5. \A e : e \in Elements(cs) <=> \E i \in 1 .. k : e = cs[i]
    BY DEF Elements
<1>6. Numbered(cs, n)
    OBVIOUS
<1> HIDE DEF cs, one, k
<1>7. /\ front \in Seq(ChapterRecord) /\ Len(front) = at
      /\ front[1] = cs[1]
      /\ \A e : e \in Elements(front) <=> \E i \in 1 .. at : e = cs[i]
    <2> DEFINE a == 1
    <2>1. a \in 1 .. Len(cs) + 1 /\ at \in (a - 1) .. Len(cs)
        BY <1>2 DEF k
    <2> HIDE DEF a
    <2>2. /\ SubSeq(cs, a, at) \in Seq(ChapterRecord)
          /\ Len(SubSeq(cs, a, at)) = at - a + 1
          /\ \A i \in 1 .. (at - a + 1) : SubSeq(cs, a, at)[i] = cs[a + i - 1]
          /\ Elements(SubSeq(cs, a, at)) = {cs[i] : i \in a .. at}
        BY <2>1, <1>1, SubSeqElements
    <2> USE DEF a
    <2>3. at - a + 1 = at /\ 1 \in 1 .. at /\ a + 1 - 1 = 1
        BY <1>2
    <2> QED BY <2>2, <2>3
<1>8. /\ back \in Seq(ChapterRecord)
      /\ \A e : e \in Elements(back) <=> \E i \in (at + 1) .. k : e = cs[i]
    <2> DEFINE b == at + 1
    <2>1. b \in 1 .. Len(cs) + 1 /\ k \in (b - 1) .. Len(cs)
        BY <1>2 DEF k
    <2> HIDE DEF b
    <2>2. /\ SubSeq(cs, b, k) \in Seq(ChapterRecord)
          /\ Elements(SubSeq(cs, b, k)) = {cs[i] : i \in b .. k}
        BY <2>1, <1>1, SubSeqElements
    <2> USE DEF b
    <2> QED BY <2>2
<1> HIDE DEF front, back
<1>9. /\ front \o one \in Seq(ChapterRecord)
      /\ Elements(front \o one) = Elements(front) \cup {d}
      /\ (front \o one)[1] = cs[1] /\ Len(front \o one) >= 1
    <2>1. /\ front \o one \in Seq(ChapterRecord)
          /\ Elements(front \o one) = Elements(front) \cup {d}
        BY <1>1, <1>4, <1>7, ConcatElements
    <2>2. Len(front \o one) = at + 1 /\ (front \o one)[1] = front[1]
        BY <1>1, <1>2, <1>7 DEF one
    <2> QED BY <2>1, <2>2, <1>2, <1>7
<1>10. /\ ds \in Seq(ChapterRecord)
       /\ Elements(ds) = (Elements(front) \cup {d}) \cup Elements(back)
       /\ ds[1] = cs[1] /\ ds # <<>>
    <2> DEFINE fo == front \o one
    <2>0. fo \in Seq(ChapterRecord) /\ Len(fo) >= 1 /\ back \in Seq(ChapterRecord)
        BY <1>8, <1>9
    <2> HIDE DEF fo
    <2>1. /\ fo \o back \in Seq(ChapterRecord)
          /\ Elements(fo \o back) = Elements(fo) \cup Elements(back)
        BY <2>0, ConcatElements
    <2>2. (fo \o back)[1] = fo[1] /\ fo \o back # <<>>
        BY <2>0
    <2> QED BY <2>1, <2>2, <1>9 DEF fo
<1> HIDE DEF ds
<1>11. \A e : e \in Elements(ds) <=> e \in Elements(cs) \/ e = d
    <2>1. \A i : i \in 1 .. k <=> i \in 1 .. at \/ i \in (at + 1) .. k
        BY <1>2
    <2> QED BY <2>1, <1>5, <1>7, <1>8, <1>10, SMTT(30)
<1>12. \A e \in Elements(cs) : e.id <= n /\ (e.entry <=> (e.id = 1)) /\ e.id \in Nat
    <2>1. \A e \in Elements(cs) : e \in ChapterRecord
        BY <1>1 DEF Elements
    <2> QED BY <1>6, <2>1 DEF Numbered, ChapterRecord
<1>13. \A e \in Elements(ds) : e.id <= m /\ (e.entry <=> (e.id = 1))
    <2>1. \A e \in Elements(cs) : e.id <= m
        BY <1>12
    <2>2. d.id <= m /\ d.id # 1
        OBVIOUS
    <2> QED BY <2>1, <2>2, <1>11, <1>12
<1>14. \A e, g \in Elements(ds) : e.id = g.id => e = g
    <2>1. \A e \in Elements(cs) : e.id # d.id
        BY <1>12
    <2>2. \A e, g \in Elements(cs) : e.id = g.id => e = g
        BY <1>6 DEF Numbered
    <2> QED BY <2>1, <2>2, <1>11
<1>15. Numbered(ds, m)
    BY <1>1, <1>10, <1>13, <1>14 DEF Numbered
<1>16. \A f : f \in Fragments(q) <=> f \in Fragments(p) \/ f \in Elements(d.fragments)
    BY <1>3, <1>11, FragmentsAre DEF cs
<1> QED BY <1>3, <1>15, <1>16

\* A fragment taken out of a chapter that is not the first.
LEMMA RemovedChapters ==
    ASSUME NEW p \in Draft, NEW n \in Nat, Numbered(p.chapters, n), NEW c, c # 1, NEW f,
           NEW q, q.chapters = ChaptersWithout(p, c, f)
    PROVE  /\ Numbered(q.chapters, n)
           /\ q.chapters[1].fragments = p.chapters[1].fragments
           /\ Fragments(p) \ {f} \subseteq Fragments(q)
<1> DEFINE cs == p.chapters
           Less(d) == [d EXCEPT !.fragments = Without(d.fragments, {f})]
           ds == [i \in 1 .. Len(cs) |-> IF cs[i].id = c THEN Less(cs[i]) ELSE cs[i]]
<1>1. cs \in Seq(ChapterRecord) /\ cs # <<>> /\ cs[1].id = 1 /\ cs[1].fragments # <<>>
    BY DEF Numbered
<1>2. Len(cs) \in Nat /\ 1 \in 1 .. Len(cs) /\ DOMAIN cs = 1 .. Len(cs)
    BY <1>1, FirstIsElement
<1>3. q.chapters = ds
    BY <1>2 DEF ChaptersWithout
<1>11. Numbered(cs, n)
    OBVIOUS
<1> HIDE DEF cs
<1>4. \A d \in ChapterRecord :
        /\ Less(d) \in ChapterRecord /\ Less(d).id = d.id /\ Less(d).entry = d.entry
        /\ Elements(Less(d).fragments) = Elements(d.fragments) \ {f}
    <2> TAKE d \in ChapterRecord
    <2>1. d.fragments \in Seq(Nat)
        BY DEF ChapterRecord
    <2> DEFINE gone == {f}
               fs == Without(d.fragments, gone)
    <2> HIDE DEF gone
    <2>2. fs \in Seq(Nat) /\ Elements(fs) = Elements(d.fragments) \ gone
        BY <2>1, WithoutElements
    <2>4. [d EXCEPT !.fragments = fs] = Less(d)
        BY DEF gone
    <2> HIDE DEF fs, Less
    <2>5. /\ [d EXCEPT !.fragments = fs] \in ChapterRecord
          /\ [d EXCEPT !.fragments = fs].id = d.id
          /\ [d EXCEPT !.fragments = fs].entry = d.entry
          /\ [d EXCEPT !.fragments = fs].fragments = fs
        BY <2>2, WithFragments
    <2> QED BY <2>2, <2>4, <2>5 DEF gone
<1> HIDE DEF Less
<1>5. \A i \in 1 .. Len(cs) : cs[i] \in ChapterRecord
    BY <1>1
<1>6. ds \in [1 .. Len(cs) -> ChapterRecord]
    BY <1>4, <1>5
<1>7. \A i \in 1 .. Len(cs) : ds[i] = IF cs[i].id = c THEN Less(cs[i]) ELSE cs[i]
    OBVIOUS
<1> HIDE DEF ds
<1>8. \A i \in 1 .. Len(cs) : ds[i].id = cs[i].id /\ ds[i].entry = cs[i].entry
    BY <1>4, <1>5, <1>7
<1>9. \A i, j \in 1 .. Len(cs) : cs[i] = cs[j] => ds[i] = ds[j]
    BY <1>7
<1>10. ds[1] = cs[1]
    BY <1>1, <1>2, <1>7
<1>12. Numbered(ds, n) /\ Len(ds) = Len(cs)
    <2>1. ds[1].fragments # <<>> /\ n <= n
        BY <1>1, <1>10
    <2> QED BY <2>1, <1>6, <1>8, <1>9, <1>11, MappedNumbered
<1>13. \A g : g \in Fragments(p) <=> \E i \in 1 .. Len(cs) : g \in Elements(cs[i].fragments)
    BY <1>1, FragmentsAt DEF cs
<1>14. \A g : g \in Fragments(q) <=> \E i \in 1 .. Len(cs) : g \in Elements(ds[i].fragments)
    <2>1. ds \in Seq(ChapterRecord)
        BY <1>12 DEF Numbered
    <2> QED BY <2>1, <1>3, <1>12, FragmentsAt
<1>15. \A i \in 1 .. Len(cs) : \A g : g \in Elements(cs[i].fragments) /\ g # f
                                        => g \in Elements(ds[i].fragments)
    BY <1>4, <1>5, <1>7
<1> QED BY <1>3, <1>10, <1>12, <1>13, <1>14, <1>15 DEF cs

\* A chapter taken out that is not the first.
LEMMA CutChapters ==
    ASSUME NEW p \in Draft, NEW n \in Nat, Numbered(p.chapters, n), NEW c, c # 1,
           NEW q, q.chapters = Without(p.chapters, Chapter(p, c))
    PROVE  /\ Numbered(q.chapters, n)
           /\ q.chapters[1] = p.chapters[1]
           /\ \A d \in Elements(p.chapters) : d.id # c => Elements(d.fragments) \subseteq Fragments(q)
<1> DEFINE cs == p.chapters
           gone == Chapter(p, c)
           ds == Without(cs, gone)
<1>1. cs \in Seq(ChapterRecord) /\ cs # <<>> /\ cs[1].id = 1 /\ cs[1].fragments # <<>>
    BY DEF Numbered
<1>2. q.chapters = ds
    OBVIOUS
<1>3. \A d : d \in gone <=> d \in Elements(cs) /\ d.id = c
    BY DEF Chapter
<1>4. Numbered(cs, n)
    OBVIOUS
<1> HIDE DEF cs, gone
<1>5. cs[1] \notin gone
    BY <1>1, <1>3
<1>6. /\ ds \in Seq(ChapterRecord)
      /\ Elements(ds) = Elements(cs) \ gone
      /\ Len(ds) >= 1 /\ ds[1] = cs[1]
    BY <1>1, <1>5, WithoutElements
<1> HIDE DEF ds
<1>7. ds # <<>>
    BY <1>6
<1>8. Numbered(ds, n)
    BY <1>1, <1>4, <1>6, <1>7 DEF Numbered
<1>9. \A d \in Elements(cs) : d.id # c => d \in Elements(ds)
    BY <1>3, <1>6
<1> QED BY <1>2, <1>6, <1>8, <1>9, FragmentsAre DEF cs

\* What both leave of the project.
LEMMA DroppedGood ==
    ASSUME NEW p, NEW n \in Nat, NEW some, Good(p, n, some), NEW cs, Numbered(cs, n),
           NEW gone, NEW next \in Nat,
           next \in Fragments(Dropped(p, cs, gone, next)),
           Fragments(p) \ gone \subseteq Fragments(Dropped(p, cs, gone, next)),
           \A e \in p.jumps : e[2] \notin gone
    PROVE  Good(Dropped(p, cs, gone, next), n, some)
<1> DEFINE q == Dropped(p, cs, gone, next)
<1>1. /\ p \in Draft /\ Saveable(p)
      /\ some \/ Landing(p)
    BY DEF Good
<1>2. /\ q.chapters = cs /\ q.scripts = p.scripts \ gone
      /\ q.jumps = {e \in p.jumps : e[1] \notin gone} /\ q.timelines = p.timelines \ gone
      /\ q.active = IF p.active \in gone THEN next ELSE p.active
    BY DEF Dropped
<1>3. q \in Draft
  <2>1. cs \in Seq(ChapterRecord)
    BY DEF Numbered
  <2>2. /\ p.scripts \ gone \in SUBSET Nat /\ p.timelines \ gone \in SUBSET Nat
        /\ {e \in p.jumps : e[1] \notin gone} \in SUBSET (Nat \X Nat)
        /\ (IF p.active \in gone THEN next ELSE p.active) \in Nat
    BY <1>1 DEF Draft
  <2> QED BY <2>1, <2>2 DEF Dropped, Draft
<1> HIDE DEF q
<1>4. next \in Fragments(q) /\ \A g \in Fragments(p) : g \in gone \/ g \in Fragments(q)
    BY DEF q
<1>5. Saveable(q)
    BY <1>1, <1>2, <1>4 DEF Saveable
<1>6. Landing(p) => Landing(q)
    BY <1>2, <1>4 DEF Landing
<1> QED BY <1>1, <1>2, <1>3, <1>5, <1>6 DEF Good, q

-----------------------------------------------------------------------------
(* The project and its history *)

LEMMA GoodGrows ==
    ASSUME NEW p, NEW n \in Nat, NEW some, NEW m \in Nat, n <= m, NEW more, some => more,
           Good(p, n, some)
    PROVE  Good(p, m, more)
<1>1. /\ p \in Draft /\ Numbered(p.chapters, n) /\ Saveable(p)
      /\ more \/ Landing(p)
    BY DEF Good
<1>2. \A c \in Elements(p.chapters) : c.id \in Nat
    <2>1. p.chapters \in Seq(ChapterRecord)
        BY <1>1 DEF Numbered
    <2>2. \A c \in Elements(p.chapters) : c \in ChapterRecord
        BY <2>1 DEF Elements
    <2> QED BY <2>2 DEF ChapterRecord
<1>3. Numbered(p.chapters, m)
    BY <1>1, <1>2 DEF Numbered
<1> QED BY <1>1, <1>3 DEF Good

LEMMA CommandsGrow ==
    ASSUME NEW n \in Nat, NEW some, NEW m \in Nat, n <= m, NEW more, some => more
    PROVE  Seq(Commands(n, some)) \subseteq Seq(Commands(m, more))
<1>1. \A p : Good(p, n, some) => Good(p, m, more)
    BY GoodGrows
<1>2. Goods(n, some) \subseteq Goods(m, more)
    BY <1>1 DEF Goods
<1>3. Commands(n, some) \subseteq Commands(m, more)
    BY <1>2 DEF Commands
<1> QED BY <1>3

LEMMA GoodIn ==
    ASSUME NEW p, NEW n, NEW some
    PROVE  p \in Goods(n, some) <=> Good(p, n, some)
BY DEF Goods, Good

\* A command of the history leads from a good project to a good one.
LEMMA CommitKeeps ==
    ASSUME Followed, ids' \in Nat, ids <= ids', pasted => pasted', Good(draft', ids', pasted'),
           \/ UNCHANGED history
           \/ undo' = Append(undo, [before |-> draft, after |-> draft']) /\ redo' = <<>>
    PROVE  HistoryInv'
<1> DEFINE S == Commands(ids, pasted)
           T == Commands(ids', pasted')
<1>1. ids \in Nat /\ Good(draft, ids, pasted) /\ undo \in Seq(S) /\ redo \in Seq(S)
    BY DEF Followed, HistoryInv
<1>2. Seq(S) \subseteq Seq(T)
    BY <1>1, CommandsGrow
<1>3. draft \in Goods(ids', pasted') /\ draft' \in Goods(ids', pasted')
    BY <1>1, GoodGrows, GoodIn
<1> DEFINE x == [before |-> draft, after |-> draft']
<1>4. x \in T
    BY <1>3 DEF Commands
<1>5. T = Commands(ids, pasted)'
    OBVIOUS
<1> HIDE DEF x, S, T
<1>6. undo \in Seq(T) /\ redo \in Seq(T) /\ Append(undo, x) \in Seq(T) /\ <<>> \in Seq(T)
    BY <1>1, <1>2, <1>4
<1>7. undo' \in Seq(T) /\ redo' \in Seq(T)
    BY <1>6 DEF history, x
<1> QED BY <1>7 DEF HistoryInv, T

\* What is left to show of an action.
LEMMA FollowedFrom ==
    ASSUME Followed, ids' \in Nat, ids <= ids', pasted => pasted', Good(draft', ids', pasted'),
           \/ UNCHANGED history
           \/ undo' = Append(undo, [before |-> draft, after |-> draft']) /\ redo' = <<>>,
           job' \in {NoJob, job} \/ GoodJob(job'),
           \A j \in waiting' : j \in waiting \/ GoodJob(j),
           \A load \in clips' : load \in clips \/ GoodLoad(load)
    PROVE  Followed'
<1>1. HistoryInv'
    BY CommitKeeps
<1>2. ids' >= 1
    BY DEF Followed
<1>3. HandlersInv'
    BY DEF Followed, HandlersInv
<1>4. ClipsInv'
    BY DEF Followed, ClipsInv
<1> QED BY <1>1, <1>2, <1>3, <1>4 DEF Followed

LEMMA ShownGood ==
    ASSUME NEW p, NEW n, NEW some, Good(p, n, some), NEW f \in Fragments(p)
    PROVE  /\ Good([p EXCEPT !.active = f], n, some)
           /\ [p EXCEPT !.active = f].chapters = p.chapters
           /\ [p EXCEPT !.active = f].jumps = p.jumps
<1> DEFINE q == [p EXCEPT !.active = f]
<1>1. /\ p \in Draft /\ Numbered(p.chapters, n) /\ Saveable(p)
      /\ some \/ Landing(p)
    BY DEF Good
<1>2. f \in Nat
    <2>1. PICK c \in Elements(p.chapters) : f \in Elements(c.fragments)
        BY FragmentsAre
    <2>2. c \in ChapterRecord
        BY <1>1, <2>1 DEF Numbered, Elements
    <2> QED BY <2>1, <2>2 DEF ChapterRecord, Elements
<1>3. q \in Draft /\ q.chapters = p.chapters /\ q.jumps = p.jumps /\ q.timelines = p.timelines
      /\ q.active = f
    BY <1>1, <1>2 DEF Draft
<1> HIDE DEF q
<1>4. Fragments(q) = Fragments(p)
    BY <1>3 DEF Fragments
<1>5. Saveable(q)
    BY <1>1, <1>3, <1>4 DEF Saveable
<1>6. Landing(p) => Landing(q)
    BY <1>3, <1>4 DEF Landing
<1>7. Good(q, n, some)
    BY <1>1, <1>3, <1>5, <1>6 DEF Good
<1> QED BY <1>3, <1>7 DEF q

LEMMA ExtendedGood ==
    ASSUME NEW p, NEW n, NEW some, Good(p, n, some), NEW q \in Draft, NEW m, NEW more,
           Numbered(q.chapters, m), Fragments(p) \subseteq Fragments(q),
           q.active \in Fragments(q),
           \A f \in q.timelines : f \in p.timelines \/ f \in Fragments(q),
           some => more,
           more \/ \A e \in q.jumps : e \in p.jumps \/ e[2] \in Fragments(q)
    PROVE  Good(q, m, more)
<1>1. Saveable(p) /\ (some \/ Landing(p))
    BY DEF Good
<1>2. Saveable(q)
    BY <1>1 DEF Saveable
<1>3. more \/ Landing(q)
    BY <1>1 DEF Landing
<1> QED BY <1>2, <1>3 DEF Good

\* A change of jumps or timelines alone.
LEMMA ScriptsGood ==
    ASSUME NEW p, NEW n, NEW some, Good(p, n, some), NEW js \in SUBSET (Nat \X Nat),
           NEW ts \in SUBSET Nat, NEW q, q = [p EXCEPT !.jumps = js, !.timelines = ts],
           \A f \in ts : f \in p.timelines \/ f \in Fragments(p),
           \A e \in js : e \in p.jumps \/ e[2] \in Fragments(p)
    PROVE  Good(q, n, some)
<1>1. p \in Draft /\ Numbered(p.chapters, n) /\ Saveable(p)
    BY DEF Good
<1>2. q \in Draft /\ q.chapters = p.chapters /\ q.active = p.active /\ q.timelines = ts /\ q.jumps = js
    BY <1>1 DEF Draft
<1>3. Fragments(q) = Fragments(p)
    BY <1>2 DEF Fragments
<1>4. /\ Numbered(q.chapters, n) /\ Fragments(p) \subseteq Fragments(q)
      /\ q.active \in Fragments(q)
      /\ \A f \in q.timelines : f \in p.timelines \/ f \in Fragments(q)
      /\ \A e \in q.jumps : e \in p.jumps \/ e[2] \in Fragments(q)
    BY <1>1, <1>2, <1>3 DEF Saveable
<1>5. some \/ Landing(p)
    BY DEF Good
<1>6. some \/ Landing(q)
    BY <1>4, <1>5, <1>3 DEF Landing
<1>7. Saveable(q)
    BY <1>1, <1>4, <1>3 DEF Saveable
<1> QED BY <1>2, <1>4, <1>6, <1>7 DEF Good

-----------------------------------------------------------------------------
(* Steps that ask nobody *)

LEMMA Typed ==
    ASSUME Followed
    PROVE  /\ ids \in Nat /\ ids >= 1 /\ Good(draft, ids, pasted)
           /\ draft \in Draft /\ Numbered(draft.chapters, ids) /\ Saveable(draft)
BY DEF Followed, Good

LEMMA FragmentsNat ==
    ASSUME Followed
    PROVE  \A f \in Fragments(draft) : f \in Nat
<1> TAKE f \in Fragments(draft)
<1>1. PICK c \in Elements(draft.chapters) : f \in Elements(c.fragments)
    BY FragmentsAre
<1>2. draft.chapters \in Seq(ChapterRecord)
    BY Typed DEF Numbered
<1>3. c \in ChapterRecord
    BY <1>1, <1>2 DEF Elements
<1> QED BY <1>1, <1>3 DEF ChapterRecord, Elements

LEMMA ChangeStep ==
    ASSUME Followed, NEW p, Change(p), Good(p, ids, pasted)
    PROVE  Followed'
<1>1. /\ draft' = p /\ ids' = ids /\ pasted' = pasted /\ UNCHANGED <<clips, handlers>>
      /\ undo' = Append(undo, [before |-> draft, after |-> p]) /\ redo' = <<>>
    BY DEF Change, Commit, flags
<1>2. ids' \in Nat /\ ids <= ids' /\ (pasted => pasted') /\ Good(draft', ids', pasted')
    BY <1>1, Typed
<1>3. /\ undo' = Append(undo, [before |-> draft, after |-> draft']) /\ redo' = <<>>
      /\ job' = job /\ waiting' = waiting /\ clips' = clips
    BY <1>1 DEF handlers
<1> QED BY <1>2, <1>3, FollowedFrom

LEMMA ConnectStep ==
    ASSUME Followed, Connect
    PROVE  Followed'
<1>1. PICK s, t \in Fragments(draft) : Change([draft EXCEPT !.jumps = @ \cup {<<s, t>>}])
    BY DEF Connect
<1> DEFINE js == draft.jumps \cup {<<s, t>>}
           ts == draft.timelines
           q == [draft EXCEPT !.jumps = js, !.timelines = ts]
<1>2. draft \in Draft /\ Good(draft, ids, pasted) /\ s \in Nat /\ t \in Nat
    BY Typed, FragmentsNat
<1>3. js \in SUBSET (Nat \X Nat) /\ ts \in SUBSET Nat
    BY <1>2 DEF Draft
<1>4. \A e \in js : e \in draft.jumps \/ e[2] \in Fragments(draft)
    OBVIOUS
<1>5. q = [draft EXCEPT !.jumps = js]
    BY <1>2 DEF Draft
<1>6. Change(q)
    BY <1>1, <1>5
<1>7. \A f \in ts : f \in draft.timelines \/ f \in Fragments(draft)
    OBVIOUS
<1> HIDE DEF js, ts
<1>8. Good(q, ids, pasted)
    BY <1>2, <1>3, <1>4, <1>7, ScriptsGood
<1> QED BY <1>6, <1>8, ChangeStep

LEMMA DetachStep ==
    ASSUME Followed, DetachEdge
    PROVE  Followed'
<1>1. PICK e \in draft.jumps : Change([draft EXCEPT !.jumps = @ \ {e}])
    BY DEF DetachEdge
<1> DEFINE js == draft.jumps \ {e}
           ts == draft.timelines
           q == [draft EXCEPT !.jumps = js, !.timelines = ts]
<1>2. draft \in Draft /\ Good(draft, ids, pasted)
    BY Typed
<1>3. js \in SUBSET (Nat \X Nat) /\ ts \in SUBSET Nat
    BY <1>2 DEF Draft
<1>4. \A d \in js : d \in draft.jumps \/ d[2] \in Fragments(draft)
    OBVIOUS
<1>5. q = [draft EXCEPT !.jumps = js]
    BY <1>2 DEF Draft
<1>6. Change(q)
    BY <1>1, <1>5
<1>7. \A f \in ts : f \in draft.timelines \/ f \in Fragments(draft)
    OBVIOUS
<1> HIDE DEF js, ts
<1>8. Good(q, ids, pasted)
    BY <1>2, <1>3, <1>4, <1>7, ScriptsGood
<1> QED BY <1>6, <1>8, ChangeStep

LEMMA StageStep ==
    ASSUME Followed, Stage
    PROVE  Followed'
<1> DEFINE js == draft.jumps
           ts == draft.timelines \cup {draft.active}
           q == [draft EXCEPT !.jumps = js, !.timelines = ts]
<1>2. draft \in Draft /\ Good(draft, ids, pasted) /\ draft.active \in Fragments(draft)
    BY Typed DEF Saveable
<1>3. js \in SUBSET (Nat \X Nat) /\ ts \in SUBSET Nat
    BY <1>2 DEF Draft
<1>4. \A d \in js : d \in draft.jumps \/ d[2] \in Fragments(draft)
    OBVIOUS
<1>5. q = [draft EXCEPT !.timelines = ts]
    BY <1>2 DEF Draft
<1>6. Change(q)
    BY <1>5 DEF Stage
<1>7. \A f \in ts : f \in draft.timelines \/ f \in Fragments(draft)
    BY <1>2
<1> HIDE DEF js, ts
<1>8. Good(q, ids, pasted)
    BY <1>2, <1>3, <1>4, <1>7, ScriptsGood
<1> QED BY <1>6, <1>8, ChangeStep

LEMMA NothingStep ==
    ASSUME Followed, UNCHANGED <<draft, history, ids, pasted>>,
           job' \in {NoJob, job} \/ GoodJob(job'),
           \A j \in waiting' : j \in waiting \/ GoodJob(j),
           \A load \in clips' : load \in clips \/ GoodLoad(load)
    PROVE  Followed'
<1>1. ids' = ids /\ pasted' = pasted /\ draft' = draft /\ UNCHANGED history
    OBVIOUS
<1>2. ids' \in Nat /\ ids <= ids' /\ (pasted => pasted') /\ Good(draft', ids', pasted')
    BY <1>1, Typed
<1> QED BY <1>1, <1>2, FollowedFrom

\* The project goes back or forth.
LEMMA WalkStep ==
    ASSUME Followed, Good(draft', ids, pasted), undo' \in Seq(Commands(ids, pasted)),
           redo' \in Seq(Commands(ids, pasted)), UNCHANGED <<ids, pasted, clips, handlers>>
    PROVE  Followed'
<1>1. HistoryInv'
    BY DEF HistoryInv
<1>2. HandlersInv'
    BY DEF Followed, HandlersInv, handlers
<1>3. ClipsInv'
    BY DEF Followed, ClipsInv
<1> QED BY <1>1, <1>2, <1>3 DEF Followed

LEMMA LastOf ==
    ASSUME NEW S, NEW s \in Seq(S), s # <<>>
    PROVE  Last(s) \in S /\ Front(s) \in Seq(S)
<1>1. Len(s) \in Nat /\ Len(s) >= 1
    BY EmptySeq
<1> QED BY <1>1 DEF Last, Front

LEMMA UndoStep ==
    ASSUME Followed, Undo
    PROVE  Followed'
<1> DEFINE S == Commands(ids, pasted)
           x == Last(undo)
<1>1. undo \in Seq(S) /\ redo \in Seq(S)
    BY DEF Followed, HistoryInv
<1>2. undo # <<>> /\ draft' = x.before /\ undo' = Front(undo) /\ redo' = Append(redo, x)
      /\ UNCHANGED <<ids, pasted, clips, handlers>>
    BY DEF Undo, flags
<1>3. x \in S /\ Front(undo) \in Seq(S)
    BY <1>1, <1>2, LastOf
<1>4. Good(x.before, ids, pasted)
    BY <1>3, GoodIn DEF Commands
<1> HIDE DEF x, S
<1>5. undo' \in Seq(S) /\ redo' \in Seq(S)
    BY <1>1, <1>2, <1>3
<1>6. Good(draft', ids, pasted)
    BY <1>2, <1>4
<1> QED BY <1>2, <1>5, <1>6, WalkStep DEF S

LEMMA RedoStep ==
    ASSUME Followed, Redo
    PROVE  Followed'
<1> DEFINE S == Commands(ids, pasted)
           x == Last(redo)
<1>1. undo \in Seq(S) /\ redo \in Seq(S)
    BY DEF Followed, HistoryInv
<1>2. redo # <<>> /\ draft' = x.after /\ redo' = Front(redo) /\ undo' = Append(undo, x)
      /\ UNCHANGED <<ids, pasted, clips, handlers>>
    BY DEF Redo, flags
<1>3. x \in S /\ Front(redo) \in Seq(S)
    BY <1>1, <1>2, LastOf
<1>4. Good(x.after, ids, pasted)
    BY <1>3, GoodIn DEF Commands
<1> HIDE DEF x, S
<1>5. undo' \in Seq(S) /\ redo' \in Seq(S)
    BY <1>1, <1>2, <1>3
<1>6. Good(draft', ids, pasted)
    BY <1>2, <1>4
<1> QED BY <1>2, <1>5, <1>6, WalkStep DEF S

\* A handler begins to wait: it has just seen the project.
LEMMA AskStep ==
    ASSUME Followed, NEW j, GoodJob(j), Ask(j)
    PROVE  Followed'
BY NothingStep DEF Ask, flags

LEMMA ChapterTyped ==
    ASSUME Followed, NEW c \in Elements(draft.chapters)
    PROVE  /\ c \in ChapterRecord /\ c.id \in Nat /\ c.fragments \in Seq(Nat)
           /\ c.id <= ids /\ (c.entry <=> (c.id = 1))
           /\ \A d \in Elements(draft.chapters) : d.id = c.id => d = c
           /\ \A f \in Elements(c.fragments) : f \in Nat /\ <<f>> \in Seq(Nat)
<1>1. Numbered(draft.chapters, ids)
    BY Typed
<1>2. c \in ChapterRecord
    BY <1>1 DEF Numbered, Elements
<1>3. c.id \in Nat /\ c.fragments \in Seq(Nat)
    BY <1>2 DEF ChapterRecord
<1>4. \A f \in Elements(c.fragments) : f \in Nat
    BY <1>3 DEF Elements
<1> QED BY <1>1, <1>2, <1>3, <1>4 DEF Numbered

LEMMA AskSteps ==
    ASSUME Followed, AskChapter \/ AskFragment \/ AskRemove
    PROVE  Followed'
<1>1. CASE AskChapter
  <2> DEFINE j == Job("chapter", 0, <<>>)
  <2>1. GoodJob(j)
    BY DEF Job, JobRecord, GoodJob, So
  <2> HIDE DEF j
  <2> QED BY <1>1, <2>1, AskStep DEF AskChapter, j
<1>2. CASE AskFragment
  <2>1. PICK c \in Elements(draft.chapters) : Ask(Job("fragment", c.id, <<>>))
    BY <1>2 DEF AskFragment
  <2> DEFINE j == Job("fragment", c.id, <<>>)
  <2>2. c.id \in Nat /\ c \in Chapter(draft, c.id)
    BY <2>1, ChapterTyped DEF Chapter
  <2>3. GoodJob(j)
    BY <2>2 DEF Job, JobRecord, GoodJob, So
  <2> HIDE DEF j
  <2> QED BY <2>1, <2>3, AskStep DEF j
<1>3. CASE AskRemove
  <2>0. PICK c \in Elements(draft.chapters) : \E f \in Elements(c.fragments) :
            ~c.entry /\ ~Referenced({f}) /\ Ask(Job("remove", c.id, <<f>>))
    BY <1>3 DEF AskRemove
  <2>1. PICK f \in Elements(c.fragments) :
            ~c.entry /\ ~Referenced({f}) /\ Ask(Job("remove", c.id, <<f>>))
    BY <2>0
  <2> DEFINE one == <<f>>
             j == Job("remove", c.id, one)
  <2>2. one \in Seq(Nat) /\ Len(one) = 1 /\ Elements(one) = {f}
    BY ChapterTyped DEF Elements
  <2> HIDE DEF one
  <2>3. c.id \in Nat /\ c.id # 1
    BY <2>1, ChapterTyped
  <2>4. So("remove", c.id, one)
    BY <2>1, <2>2 DEF So, Referenced
  <2>5. GoodJob(j)
    BY <2>2, <2>3, <2>4 DEF Job, JobRecord, GoodJob
  <2>6. Ask(j)
    BY <2>1 DEF one
  <2> HIDE DEF j
  <2> QED BY <2>5, <2>6, AskStep
<1> QED BY <1>1, <1>2, <1>3

-----------------------------------------------------------------------------
(* Steps of a handler the user has answered *)

LEMMA ResumedJob ==
    ASSUME Followed, NEW kind, Resumed(kind)
    PROVE  /\ GoodJob(job) /\ job.kind = kind /\ job' = NoJob /\ waiting' = waiting
           /\ crossed' \/ So(job.kind, job.chapter, job.fragments)
<1>1. /\ job # NoJob /\ job' = NoJob /\ waiting' = waiting /\ Crosses(job)
      /\ job.kind = kind
    BY DEF Resumed
<1>2. GoodJob(job)
    BY <1>1 DEF Followed, HandlersInv
<1> QED BY <1>1, <1>2 DEF Crosses, GoodJob

\* A commit of such a handler, which makes one identifier or none.
LEMMA ResumedStep ==
    ASSUME Followed, NEW kind, Resumed(kind), NEW p, Commit(p), UNCHANGED <<clips, pasted>>,
           ids' = ids \/ ids' = ids + 1, Good(p, ids', pasted)
    PROVE  Followed'
<1>1. ids \in Nat
    BY Typed
<1>2. ids' \in Nat /\ ids <= ids'
    BY <1>1
<1>3. /\ draft' = p /\ undo' = Append(undo, [before |-> draft, after |-> draft']) /\ redo' = <<>>
      /\ job' = NoJob /\ waiting' = waiting /\ clips' = clips
    BY ResumedJob DEF Commit
<1>4. Good(draft', ids', pasted')
    BY <1>3
<1> QED BY <1>2, <1>3, <1>4, FollowedFrom

LEMMA OpenedGood ==
    ASSUME Followed, NEW cs, Numbered(cs, ids + 1),
           Fragments(draft) \subseteq Fragments([draft EXCEPT !.chapters = cs]),
           New \in Fragments([draft EXCEPT !.chapters = cs])
    PROVE  Good(Opened([draft EXCEPT !.chapters = cs]), ids + 1, pasted)
<1> DEFINE d == [draft EXCEPT !.chapters = cs]
           q == Opened(d)
<1>1. ids \in Nat /\ New \in Nat /\ draft \in Draft /\ Good(draft, ids, pasted)
    BY Typed DEF New
<1>2. cs \in Seq(ChapterRecord)
    BY DEF Numbered
<1>3. /\ d \in Draft /\ d.chapters = cs /\ d.jumps = draft.jumps /\ d.timelines = draft.timelines
    BY <1>1, <1>2 DEF Draft
<1> HIDE DEF d
<1>4. /\ q \in Draft /\ q.chapters = cs /\ q.jumps = draft.jumps /\ q.timelines = draft.timelines
      /\ q.active = New
    BY <1>1, <1>3 DEF Opened, Draft
<1>5. Fragments(q) = Fragments(d)
    BY <1>3, <1>4 DEF Opened, Fragments
<1> HIDE DEF q
<1>6. Fragments(draft) \subseteq Fragments(q) /\ q.active \in Fragments(q)
    BY <1>4, <1>5 DEF d
<1>7. /\ \A f \in q.timelines : f \in draft.timelines \/ f \in Fragments(q)
      /\ \A e \in q.jumps : e \in draft.jumps \/ e[2] \in Fragments(q)
      /\ Numbered(q.chapters, ids + 1)
    BY <1>4
<1>8. Good(q, ids + 1, pasted)
    BY <1>1, <1>4, <1>6, <1>7, ExtendedGood
<1> QED BY <1>8 DEF q, d

LEMMA AddChapterStep ==
    ASSUME Followed, AddChapter
    PROVE  Followed'
<1> DEFINE one == <<New>>
           c == [id |-> New, entry |-> FALSE, fragments |-> one]
           cs == draft.chapters
           ds == Append(cs, c)
           q == [draft EXCEPT !.chapters = ds]
<1>1. /\ Resumed("chapter") /\ ids' = ids + 1 /\ Commit(Opened(q)) /\ UNCHANGED <<clips, pasted>>
    BY DEF AddChapter, Make
<1>2. /\ ids \in Nat /\ ids >= 1 /\ draft \in Draft /\ Numbered(cs, ids)
      /\ New \in Nat /\ New = ids + 1
    BY Typed DEF New
<1>3. one \in Seq(Nat) /\ New \in Elements(one)
    BY <1>2 DEF Elements
<1>4. cs \in Seq(ChapterRecord) /\ cs # <<>>
    BY <1>2 DEF Numbered
<1>5. q.chapters = ds
    BY <1>2 DEF Draft
<1>6. c \in ChapterRecord /\ c.id = ids + 1 /\ c.entry = FALSE /\ c.fragments = one
    BY <1>2, <1>3 DEF ChapterRecord
<1> DEFINE at == Len(cs)
<1>7. at \in 1 .. Len(cs) /\ at \in Nat
    BY <1>4, FirstIsElement
<1>8. ds = SubSeq(cs, 1, at) \o <<c>> \o SubSeq(cs, at + 1, Len(cs))
    <2> HIDE DEF cs, c
    <2>1. SubSeq(cs, at + 1, Len(cs)) = <<>>
        BY <1>4, <1>7
    <2>2. SubSeq(cs, 1, at) = cs
        BY <1>4, <1>7
    <2>3. cs \o <<c>> = ds
        BY <1>4, <1>6
    <2>4. (cs \o <<c>>) \o <<>> = cs \o <<c>>
        <3>1. cs \o <<c>> \in Seq(ChapterRecord)
            BY <1>4, <1>6
        <3> DEFINE u == cs \o <<c>>
        <3> HIDE DEF u
        <3>2. u \o <<>> = u
            BY <3>1 DEF u
        <3> QED BY <3>2 DEF u
    <2> QED BY <2>1, <2>2, <2>3, <2>4
<1>9. q.chapters = SubSeq(draft.chapters, 1, at) \o <<c>> \o SubSeq(draft.chapters, at + 1, Len(draft.chapters))
    BY <1>5, <1>8
<1>10. ids < ids + 1 /\ ids + 1 \in Nat
    BY <1>2
<1> HIDE DEF q, c, ds, at
<1>11. /\ Numbered(q.chapters, ids + 1)
       /\ \A f : f \in Fragments(q) <=> f \in Fragments(draft) \/ f \in Elements(c.fragments)
    BY <1>2, <1>6, <1>7, <1>9, <1>10, InsertedChapter
<1>12. Numbered(ds, ids + 1) /\ Fragments(draft) \subseteq Fragments(q) /\ New \in Fragments(q)
    BY <1>3, <1>5, <1>6, <1>11
<1>13. Good(Opened(q), ids + 1, pasted)
    BY <1>12, OpenedGood DEF q
<1>14. Good(Opened(q), ids', pasted)
    BY <1>1, <1>13
<1> QED BY <1>1, <1>14, ResumedStep

LEMMA AddFragmentStep ==
    ASSUME Followed, AddFragment
    PROVE  crossed' \/ Followed'
<1>1. /\ Resumed("fragment") /\ ids' = ids + 1 /\ Commit(Opened(Added(draft, job.chapter)))
      /\ UNCHANGED <<clips, pasted>>
    BY DEF AddFragment, Make
<1> DEFINE q == Added(draft, job.chapter)
<1>2. ids \in Nat /\ draft \in Draft /\ Numbered(draft.chapters, ids) /\ ids + 1 \in Nat /\ ids <= ids + 1
    BY Typed
<1> SUFFICES ASSUME ~crossed'
             PROVE  Followed'
    OBVIOUS
<1>3. \E c \in Elements(draft.chapters) : c.id = job.chapter
    BY <1>1, ResumedJob DEF So, Chapter
<1>4. /\ Numbered(q.chapters, ids + 1) /\ Fragments(draft) \subseteq Fragments(q)
      /\ New \in Fragments(q)
    BY <1>2, <1>3, AddedChapters
<1>5. q = [draft EXCEPT !.chapters = q.chapters]
    <2> DEFINE cs == draft.chapters
               ds == [i \in DOMAIN cs |-> IF cs[i].id = job.chapter
                        THEN [cs[i] EXCEPT !.fragments = Append(@, New)] ELSE cs[i]]
    <2>1. q = [draft EXCEPT !.chapters = ds]
        BY DEF Added
    <2> HIDE DEF ds, q
    <2>2. q.chapters = ds
        BY <2>1, <1>2 DEF Draft
    <2> QED BY <2>1, <2>2
<1> DEFINE cs == q.chapters
<1>6. q = [draft EXCEPT !.chapters = cs]
    BY <1>5
<1> HIDE DEF q, cs
<1>7. /\ Numbered(cs, ids + 1) /\ Fragments(draft) \subseteq Fragments([draft EXCEPT !.chapters = cs])
      /\ New \in Fragments([draft EXCEPT !.chapters = cs])
    BY <1>4, <1>6 DEF cs
<1>8. Good(Opened([draft EXCEPT !.chapters = cs]), ids + 1, pasted)
    BY <1>7, OpenedGood
<1>9. Good(Opened(q), ids', pasted)
    BY <1>1, <1>6, <1>8
<1>10. Commit(Opened(q))
    BY <1>1 DEF q
<1> QED BY <1>1, <1>9, <1>10, ResumedStep

\* The first fragment of good chapters is there to be shown.
LEMMA NextShown ==
    ASSUME NEW cs, NEW n, Numbered(cs, n), NEW q, q.chapters = cs
    PROVE  /\ FirstFragment(q) = cs[1].fragments[1] /\ cs[1].fragments[1] \in Nat
           /\ cs[1].fragments[1] \in Fragments(q)
<1>1. /\ FirstFragment(q) = cs[1].fragments[1]
      /\ cs[1].fragments[1] \in Fragments(q)
    BY FirstFragmentIs
<1>2. cs \in Seq(ChapterRecord) /\ cs # <<>> /\ cs[1].fragments # <<>>
    BY DEF Numbered
<1>3. cs[1] \in ChapterRecord
    BY <1>2, FirstIsElement
<1>4. cs[1].fragments \in Seq(Nat)
    BY <1>3 DEF ChapterRecord
<1>5. cs[1].fragments[1] \in Nat
    BY <1>2, <1>4, FirstIsElement
<1> QED BY <1>1, <1>5

LEMMA RemoveStep ==
    ASSUME Followed, RemoveFragment
    PROVE  crossed' \/ Followed'
<1> DEFINE f == job.fragments[1]
           c == job.chapter
           cs == ChaptersWithout(draft, c, f)
           gone == {f}
           d == [draft EXCEPT !.chapters = cs]
           next == FirstFragment(d)
           q == Dropped(draft, cs, gone, next)
<1>1. /\ Resumed("remove") /\ UNCHANGED <<clips, pasted, ids>>
      /\ Commit(q)
    BY DEF RemoveFragment, Removed
<1>2. ids \in Nat /\ draft \in Draft /\ Numbered(draft.chapters, ids) /\ Good(draft, ids, pasted)
    BY Typed
<1> SUFFICES ASSUME ~crossed'
             PROVE  Followed'
    OBVIOUS
<1>3. /\ job \in JobRecord /\ c # 1 /\ Len(job.fragments) = 1
      /\ \A e \in draft.jumps : e[2] \notin Elements(job.fragments)
    BY <1>1, ResumedJob DEF So, GoodJob
<1>4. f \in Elements(job.fragments)
    <2>1. 1 \in 1 .. Len(job.fragments)
        BY <1>3
    <2> QED BY <2>1 DEF Elements
<1>5. \A e \in draft.jumps : e[2] \notin gone
    BY <1>3, <1>4
<1>6. d.chapters = cs
    <2> HIDE DEF cs
    <2> QED BY <1>2 DEF Draft
<1>7. q.chapters = cs
    BY DEF Dropped
<1>8. Numbered(cs, ids) /\ Fragments(draft) \ {f} \subseteq Fragments(d)
    <2>1. d.chapters = ChaptersWithout(draft, c, f)
        BY <1>6
    <2> HIDE DEF d, cs, c, f
    <2>2. Numbered(d.chapters, ids) /\ Fragments(draft) \ {f} \subseteq Fragments(d)
        BY <1>2, <1>3, <2>1, RemovedChapters
    <2> QED BY <1>6, <2>2
<1> HIDE DEF cs
<1>9. Fragments(d) = Fragments(q)
    BY <1>6, <1>7 DEF Fragments
<1> HIDE DEF d
<1>10. next \in Nat /\ next \in Fragments(d)
    BY <1>6, <1>8, NextShown
<1> HIDE DEF next
<1>11. /\ next \in Fragments(Dropped(draft, cs, gone, next))
       /\ Fragments(draft) \ gone \subseteq Fragments(Dropped(draft, cs, gone, next))
    BY <1>8, <1>9, <1>10
<1> HIDE DEF gone
<1>12. Good(Dropped(draft, cs, gone, next), ids, pasted)
    BY <1>2, <1>5, <1>8, <1>10, <1>11, DroppedGood
<1> HIDE DEF q
<1>13. Good(q, ids', pasted)
    BY <1>1, <1>12 DEF q
<1> QED BY <1>1, <1>13, ResumedStep

LEMMA CutStep ==
    ASSUME Followed, CutChapter
    PROVE  crossed' \/ Followed'
<1> DEFINE c == job.chapter
           cs == Without(draft.chapters, Chapter(draft, c))
           gone == Elements(job.fragments)
           next == cs[1].fragments[1]
           q == Dropped(draft, cs, gone, next)
<1>1. /\ Resumed("cut") /\ UNCHANGED <<clips, pasted, ids>>
      /\ Commit(q)
    BY DEF CutChapter
<1>2. ids \in Nat /\ draft \in Draft /\ Numbered(draft.chapters, ids) /\ Good(draft, ids, pasted)
    BY Typed
<1> SUFFICES ASSUME ~crossed'
             PROVE  Followed'
    OBVIOUS
<1>3. /\ job \in JobRecord /\ c # 1
      /\ \A e \in draft.jumps : e[2] \notin gone
      /\ \A d \in Elements(draft.chapters) : d.id = c => Elements(d.fragments) \subseteq gone
    BY <1>1, ResumedJob DEF So, GoodJob, Chapter
<1>4. q.chapters = cs /\ q.chapters = Without(draft.chapters, Chapter(draft, c))
    BY DEF Dropped
<1> HIDE DEF cs, c, q, gone, next
<1>5. /\ Numbered(q.chapters, ids)
      /\ \A d \in Elements(draft.chapters) : d.id # c => Elements(d.fragments) \subseteq Fragments(q)
    BY <1>2, <1>3, <1>4, CutChapters
<1>6. Fragments(draft) \ gone \subseteq Fragments(q)
    BY <1>3, <1>5, FragmentsAre
<1>7. next \in Nat /\ next \in Fragments(q)
    BY <1>4, <1>5, NextShown DEF next
<1>8. /\ next \in Fragments(Dropped(draft, cs, gone, next))
      /\ Fragments(draft) \ gone \subseteq Fragments(Dropped(draft, cs, gone, next))
      /\ Numbered(cs, ids)
    BY <1>4, <1>5, <1>6, <1>7 DEF q
<1>9. Good(Dropped(draft, cs, gone, next), ids, pasted)
    BY <1>2, <1>3, <1>7, <1>8, DroppedGood
<1>10. Good(q, ids', pasted)
    BY <1>1, <1>9 DEF q
<1> QED BY <1>1, <1>10, ResumedStep

-----------------------------------------------------------------------------
(* The clipboard *)

LEMMA PayloadsGood ==
    ASSUME Followed, NEW x \in Payloads
    PROVE  /\ x.chapter \in Elements(draft.chapters) /\ GoodLoad(x.load)
           /\ x.load.kind = "chapter" => x.load.fragments = x.chapter.fragments
<1>1. draft \in Draft
    BY Typed
<1>2. \A fs : {e \in draft.jumps : e[1] \in Elements(fs)} \in SUBSET (Nat \X Nat)
    BY <1>1 DEF Draft
<1>3. PICK c \in Elements(draft.chapters) :
          \/ x = [chapter |-> c, load |-> Payload("chapter", c.fragments)]
          \/ \E f \in Elements(c.fragments) :
                x = [chapter |-> c, load |-> Payload("fragment", <<f>>)]
    BY DEF Payloads
<1>4. c.fragments \in Seq(Nat) /\ \A f \in Elements(c.fragments) : <<f>> \in Seq(Nat)
    BY ChapterTyped
<1>5. CASE x = [chapter |-> c, load |-> Payload("chapter", c.fragments)]
  <2> DEFINE js == {e \in draft.jumps : e[1] \in Elements(c.fragments)}
  <2>1. js \in SUBSET (Nat \X Nat)
    BY <1>2
  <2>2. x = [chapter |-> c, load |-> [kind |-> "chapter", fragments |-> c.fragments, jumps |-> js]]
    BY <1>5 DEF Payload
  <2> HIDE DEF js
  <2> QED BY <1>4, <2>1, <2>2 DEF GoodLoad, Load
<1>6. ASSUME NEW f \in Elements(c.fragments),
             x = [chapter |-> c, load |-> Payload("fragment", <<f>>)]
      PROVE  /\ x.chapter \in Elements(draft.chapters) /\ GoodLoad(x.load)
             /\ x.load.kind # "chapter"
  <2> DEFINE one == <<f>>
             js == {e \in draft.jumps : e[1] \in Elements(one)}
  <2>1. js \in SUBSET (Nat \X Nat)
    BY <1>2
  <2>2. x = [chapter |-> c, load |-> [kind |-> "fragment", fragments |-> one, jumps |-> js]]
    BY <1>6 DEF Payload
  <2>3. one \in Seq(Nat) /\ Len(one) = 1
    BY <1>4
  <2> HIDE DEF js, one
  <2> QED BY <2>1, <2>2, <2>3 DEF GoodLoad, Load
<1> QED BY <1>3, <1>5, <1>6

LEMMA CopyStep ==
    ASSUME Followed, Copy
    PROVE  Followed'
<1>1. PICK x \in Payloads : Copied(x.load) /\ UNCHANGED <<draft, history, handlers, ids, flags>>
    BY DEF Copy
<1>2. \A load \in clips' : load \in clips \/ GoodLoad(load)
    BY <1>1, PayloadsGood DEF Copied
<1> QED BY <1>1, <1>2, NothingStep DEF flags, handlers

LEMMA CutStructureStep ==
    ASSUME Followed, CutStructure
    PROVE  Followed'
<1> DEFINE Kind(x) == IF x.load.kind = "chapter" THEN "cut" ELSE "remove"
<1>1. PICK x \in Payloads :
        /\ Copied(x.load)
        /\ IF x.chapter.entry \/ Referenced(Elements(x.load.fragments)) THEN UNCHANGED waiting
           ELSE Await(Job(Kind(x), x.chapter.id, x.load.fragments))
        /\ UNCHANGED <<draft, history, job, ids, flags>>
    BY DEF CutStructure
<1>2. /\ x.chapter \in Elements(draft.chapters) /\ GoodLoad(x.load)
      /\ x.load.kind = "chapter" => x.load.fragments = x.chapter.fragments
    BY PayloadsGood
<1>3. \A load \in clips' : load \in clips \/ GoodLoad(load)
    BY <1>1, <1>2 DEF Copied
<1> DEFINE kind == Kind(x)
           j == Job(kind, x.chapter.id, x.load.fragments)
<1>4. ASSUME ~x.chapter.entry, ~Referenced(Elements(x.load.fragments))
      PROVE  GoodJob(j)
  <2>1. /\ x.chapter.id \in Nat /\ x.chapter.id # 1
        /\ \A d \in Elements(draft.chapters) : d.id = x.chapter.id => d = x.chapter
    BY <1>2, <1>4, ChapterTyped
  <2>2. /\ x.load.fragments \in Seq(Nat) /\ kind \in {"cut", "remove"}
        /\ kind = "remove" => Len(x.load.fragments) = 1
        /\ kind = "cut" => x.load.fragments = x.chapter.fragments
    BY <1>2 DEF GoodLoad, Load
  <2> HIDE DEF kind
  <2>3. So(kind, x.chapter.id, x.load.fragments)
    BY <1>4, <2>1, <2>2 DEF So, Referenced, Chapter
  <2> QED BY <2>1, <2>2, <2>3 DEF Job, JobRecord, GoodJob
<1>5. \A k \in waiting' : k \in waiting \/ GoodJob(k)
  <2>1. CASE x.chapter.entry \/ Referenced(Elements(x.load.fragments))
    BY <1>1, <2>1
  <2>2. CASE ~(x.chapter.entry \/ Referenced(Elements(x.load.fragments)))
    <3>1. waiting' = waiting \cup {j}
        BY <1>1, <2>2 DEF Await
    <3> HIDE DEF j
    <3> QED BY <1>4, <2>2, <3>1
  <2> QED BY <2>1, <2>2
<1> HIDE DEF j, kind, Kind
<1> QED BY <1>1, <1>3, <1>5, NothingStep DEF flags

\* A handler that waited for the clipboard asks.
LEMMA AskCutStep ==
    ASSUME Followed, AskCut
    PROVE  Followed'
<1>1. PICK j \in waiting :
        job' = j /\ waiting' = waiting \ {j} /\ UNCHANGED <<draft, history, clips, ids, flags>>
    BY DEF AskCut
<1>2. GoodJob(j)
    BY DEF Followed, HandlersInv
<1> QED BY <1>1, <1>2, NothingStep DEF flags

LEMMA NewIdsTyped ==
    ASSUME ids \in Nat, NEW load, GoodLoad(load)
    PROVE  /\ NewIds(load) \in Seq(Nat) /\ Elements(NewIds(load)) \subseteq Nat
           /\ Len(load.fragments) # 0 => ids + 1 \in Elements(NewIds(load))
           /\ load.kind = "fragment" => Elements(NewIds(load)) = {ids + 1}
<1>1. load.fragments \in Seq(Nat) /\ (load.kind = "fragment" => Len(load.fragments) = 1)
    BY DEF GoodLoad, Load
<1> DEFINE k == Len(load.fragments)
<1>2. k \in Nat /\ (k # 0 => 1 \in 1 .. k) /\ DOMAIN load.fragments = 1 .. k
    BY <1>1
<1>3. NewIds(load) = [i \in 1 .. k |-> ids + i]
    BY <1>2 DEF NewIds
<1>4. \A i \in 1 .. k : ids + i \in Nat
    BY <1>2
<1> HIDE DEF k
<1>5. NewIds(load) \in [1 .. k -> Nat]
    BY <1>3, <1>4
<1>6. NewIds(load) \in Seq(Nat) /\ Len(NewIds(load)) = k
    BY <1>1, <1>5, SeqOver DEF k
<1>7. \A i \in 1 .. k : NewIds(load)[i] = ids + i
    BY <1>3
<1>8. (k # 0 => ids + 1 \in Elements(NewIds(load))) /\ Elements(NewIds(load)) \subseteq Nat
    BY <1>2, <1>4, <1>6, <1>7 DEF Elements
<1>10. ASSUME load.kind = "fragment"
       PROVE  Elements(NewIds(load)) = {ids + 1}
  <2>1. k = 1
    BY <1>1, <1>10 DEF k
  <2> QED BY <2>1, <1>6, <1>7 DEF Elements
<1> QED BY <1>6, <1>8, <1>10 DEF k

LEMMA RenamedTyped ==
    ASSUME ids \in Nat, NEW load, GoodLoad(load), NEW f \in Nat
    PROVE  Renamed(load, f) \in Nat
<1>1. load.fragments \in Seq(Nat)
    BY DEF GoodLoad, Load
<1>2. CASE \E i \in DOMAIN load.fragments : load.fragments[i] = f
  <2> DEFINE i0 == CHOOSE i \in DOMAIN load.fragments : load.fragments[i] = f
  <2>1. i0 \in DOMAIN load.fragments
    BY <1>2
  <2>2. Renamed(load, f) = ids + i0
    BY <1>2 DEF Renamed
  <2> HIDE DEF i0
  <2>3. i0 \in Nat
    BY <1>1, <2>1
  <2> QED BY <2>2, <2>3
<1>3. CASE ~ \E i \in DOMAIN load.fragments : load.fragments[i] = f
    BY <1>3 DEF Renamed
<1> QED BY <1>2, <1>3

\* The chapters after a paste: what was there is there, and so is what is new.
LEMMA PastedNumbered ==
    ASSUME Followed, NEW c, Chapter(draft, c) # {}, NEW load, GoodLoad(load),
           NEW m \in Nat, ids < m, NEW q, q.chapters = Pasted(c, load)
    PROVE  /\ Numbered(q.chapters, m)
           /\ Fragments(draft) \subseteq Fragments(q)
           /\ Elements(NewIds(load)) \subseteq Fragments(q)
<1>1. ids \in Nat /\ ids >= 1 /\ draft \in Draft /\ Numbered(draft.chapters, ids)
    BY Typed
<1>2. /\ NewIds(load) \in Seq(Nat)
      /\ load.kind = "fragment" => Elements(NewIds(load)) = {ids + 1}
    BY <1>1, NewIdsTyped
<1>3. CASE load.kind = "fragment"
  <2>1. q.chapters = Added(draft, c).chapters
    BY <1>3 DEF Pasted
  <2>2. ids <= m
    BY <1>1
  <2>3. \E d \in Elements(draft.chapters) : d.id = c
    BY DEF Chapter
  <2>4. /\ Numbered(Added(draft, c).chapters, m)
        /\ Fragments(draft) \subseteq Fragments(Added(draft, c))
        /\ New \in Fragments(Added(draft, c))
    BY <1>1, <2>2, <2>3, AddedChapters
  <2>5. Fragments(q) = Fragments(Added(draft, c))
    BY <2>1 DEF Fragments
  <2> QED BY <2>1, <2>4, <2>5, <1>2, <1>3 DEF New
<1>4. CASE load.kind # "fragment"
  <2> DEFINE cs == draft.chapters
             at == Position(c)
             new == [id |-> New, entry |-> FALSE, fragments |-> NewIds(load)]
  <2>1. q.chapters = SubSeq(cs, 1, at) \o <<new>> \o SubSeq(cs, at + 1, Len(cs))
    BY <1>4 DEF Pasted
  <2>2. cs \in Seq(ChapterRecord)
    BY <1>1 DEF Numbered
  <2>3. at \in 1 .. Len(cs)
    <3>1. \E i \in DOMAIN cs : cs[i].id = c
        BY <2>2 DEF Elements, Chapter
    <3>2. at \in DOMAIN cs
        BY <3>1 DEF Position
    <3> QED BY <2>2, <3>2
  <2>4. new \in ChapterRecord /\ new.id = ids + 1 /\ new.entry = FALSE /\ new.fragments = NewIds(load)
    BY <1>1, <1>2 DEF ChapterRecord, New
  <2> HIDE DEF at, new
  <2>5. /\ Numbered(q.chapters, m)
        /\ \A f : f \in Fragments(q) <=> f \in Fragments(draft) \/ f \in Elements(new.fragments)
    BY <1>1, <2>1, <2>3, <2>4, InsertedChapter
  <2> QED BY <2>4, <2>5
<1> QED BY <1>3, <1>4

LEMMA PasteKeeps ==
    ASSUME Followed, NEW c, Chapter(draft, c) # {}, NEW load, GoodLoad(load),
           PasteInto(c, load), job' = job, waiting' \subseteq waiting, clips' = clips
    PROVE  Followed'
<1> DEFINE n == Len(load.fragments)
           js == {<<Renamed(load, e[1]), Renamed(load, e[2])>> : e \in load.jumps}
           cs == Pasted(c, load)
           fresh == Elements(NewIds(load))
           shown == IF n = 0 THEN draft.active ELSE New
           q == [draft EXCEPT !.chapters = cs, !.jumps = @ \cup js,
                    !.scripts = @ \cup fresh, !.active = shown]
           m == ids + (IF n = 0 THEN 1 ELSE n)
<1>1. /\ ids' = m
      /\ Commit([draft EXCEPT !.chapters = cs, !.jumps = @ \cup js, !.scripts = @ \cup fresh,
                              !.active = IF n = 0 THEN @ ELSE New])
      /\ pasted' = (pasted \/ ~ \A e \in js : e[2] \in Fragments(draft) \cup fresh)
    BY DEF PasteInto
<1>2. ids \in Nat /\ draft \in Draft /\ Good(draft, ids, pasted)
      /\ draft.active \in Fragments(draft)
    BY Typed DEF Saveable
<1>3. n \in Nat
    BY DEF GoodLoad, Load
<1>4. m \in Nat /\ ids < m /\ ids <= m
  <2> HIDE DEF n
  <2> QED BY <1>2, <1>3
<1>5. fresh \subseteq Nat /\ New \in Nat /\ (n # 0 => New \in fresh)
    BY <1>2, NewIdsTyped DEF New
<1>6. js \in SUBSET (Nat \X Nat)
  <2>1. load.jumps \in SUBSET (Nat \X Nat)
    BY DEF GoodLoad, Load
  <2>2. \A e \in load.jumps : <<Renamed(load, e[1]), Renamed(load, e[2])>> \in Nat \X Nat
    <3> TAKE e \in load.jumps
    <3>1. e[1] \in Nat /\ e[2] \in Nat
        BY <2>1
    <3>2. Renamed(load, e[1]) \in Nat /\ Renamed(load, e[2]) \in Nat
        BY <1>2, <3>1, RenamedTyped
    <3> QED BY <3>2
  <2> QED BY <2>2
<1>7. Commit(q)
    BY <1>1
<1> HIDE DEF cs, fresh, js, n, m
<1>8. q.chapters = cs /\ q.active = shown /\ q.jumps = draft.jumps \cup js
      /\ q.timelines = draft.timelines
    BY <1>2 DEF Draft
<1>9. /\ Numbered(q.chapters, m)
      /\ Fragments(draft) \subseteq Fragments(q)
      /\ fresh \subseteq Fragments(q)
  <2>1. q.chapters = Pasted(c, load)
    BY <1>8 DEF cs
  <2> HIDE DEF q
  <2> QED BY <2>1, <1>4, PastedNumbered DEF fresh
<1>10. q \in Draft
  <2>1. cs \in Seq(ChapterRecord)
    BY <1>8, <1>9 DEF Numbered
  <2>2. draft.scripts \cup fresh \in SUBSET Nat /\ draft.jumps \cup js \in SUBSET (Nat \X Nat)
    BY <1>2, <1>5, <1>6 DEF Draft
  <2>3. shown \in Nat
    BY <1>2, <1>5 DEF Draft
  <2> HIDE DEF shown
  <2> QED BY <1>2, <2>1, <2>2, <2>3 DEF Draft
<1>11. shown \in Fragments(q)
    BY <1>2, <1>5, <1>9
<1> HIDE DEF q, shown
<1>12. /\ q.active \in Fragments(q)
       /\ \A f \in q.timelines : f \in draft.timelines \/ f \in Fragments(q)
    BY <1>8, <1>11
<1>13. pasted' \/ \A e \in q.jumps : e \in draft.jumps \/ e[2] \in Fragments(q)
  <2>1. pasted' \/ \A e \in js : e[2] \in Fragments(draft) \cup fresh
    BY <1>1
  <2> QED BY <2>1, <1>8, <1>9
<1>14. pasted => pasted'
    BY <1>1
<1>15. Good(q, m, pasted')
    BY <1>2, <1>9, <1>10, <1>12, <1>13, <1>14, ExtendedGood
<1>16. /\ draft' = q /\ Good(draft', ids', pasted') /\ ids' \in Nat /\ ids <= ids'
       /\ undo' = Append(undo, [before |-> draft, after |-> draft']) /\ redo' = <<>>
    BY <1>1, <1>4, <1>7, <1>15 DEF Commit
<1> QED BY <1>14, <1>16, FollowedFrom

\* A paste goes on: it makes a fragment of the chapter it was called for, or is crossed.
LEMMA PasteStep ==
    ASSUME Followed, Paste
    PROVE  crossed' \/ Followed'
<1>1. PICK j \in waiting : \E load \in clips :
        /\ j.kind = "paste" /\ PasteInto(j.chapter, load) /\ Crosses(j)
        /\ waiting' = waiting \ {j} /\ UNCHANGED <<job, clips, stale>>
    BY DEF Paste
<1>2. PICK load \in clips :
        /\ j.kind = "paste" /\ PasteInto(j.chapter, load) /\ Crosses(j)
        /\ waiting' = waiting \ {j} /\ UNCHANGED <<job, clips, stale>>
    BY <1>1
<1>3. GoodJob(j) /\ GoodLoad(load)
    BY DEF Followed, HandlersInv, ClipsInv
<1>4. crossed' \/ Chapter(draft, j.chapter) # {}
    BY <1>2, <1>3 DEF Crosses, So, GoodJob
<1>5. job' = job /\ waiting' \subseteq waiting /\ clips' = clips
    BY <1>2
<1> QED BY <1>2, <1>3, <1>4, <1>5, PasteKeeps

LEMMA AskPasteStep ==
    ASSUME Followed, AskPaste
    PROVE  Followed'
<1>1. PICK c \in Elements(draft.chapters) :
        Await(Job("paste", c.id, <<>>)) /\ UNCHANGED <<draft, history, job, clips, ids, flags>>
    BY DEF AskPaste
<1> DEFINE j == Job("paste", c.id, <<>>)
<1>2. c.id \in Nat /\ c \in Chapter(draft, c.id)
    BY ChapterTyped DEF Chapter
<1>3. GoodJob(j)
    BY <1>2 DEF Job, JobRecord, GoodJob, So
<1>4. waiting' = waiting \cup {j}
    BY <1>1 DEF Await
<1> HIDE DEF j
<1> QED BY <1>1, <1>3, <1>4, NothingStep DEF flags

LEMMA PasteNothingStep ==
    ASSUME Followed, PasteNothing
    PROVE  Followed'
<1>1. waiting' \subseteq waiting /\ UNCHANGED <<draft, history, job, clips, ids, flags>>
    BY DEF PasteNothing
<1> QED BY <1>1, NothingStep DEF flags

LEMMA DuplicateStep ==
    ASSUME Followed, Duplicate
    PROVE  Followed'
<1>1. PICK x \in Payloads :
        PasteInto(x.chapter.id, x.load) /\ UNCHANGED <<handlers, clips, crossed, stale>>
    BY DEF Duplicate
<1>2. GoodLoad(x.load) /\ x.chapter \in Chapter(draft, x.chapter.id)
    BY <1>1, PayloadsGood DEF Chapter
<1>3. job' = job /\ waiting' \subseteq waiting /\ clips' = clips
    BY <1>1 DEF handlers
<1> QED BY <1>1, <1>2, <1>3, PasteKeeps

-----------------------------------------------------------------------------
(* Tabs *)

\* What is shown is a fragment, or a tab of one that is gone was activated.
LEMMA ShowKeeps ==
    ASSUME Followed, NEW f, Show(f), UNCHANGED <<handlers, clips, ids, pasted>>
    PROVE  Left' \/ Followed'
<1>1. /\ draft' = [draft EXCEPT !.active = f] /\ UNCHANGED history
      /\ stale' = (stale \/ f \notin Fragments(draft))
    BY DEF Show, Replace
<1>2. CASE f \notin Fragments(draft)
  <2>1. draft \in Draft /\ (pasted \/ Landing(draft))
    BY Typed DEF Good
  <2>2. draft'.chapters = draft.chapters /\ draft'.jumps = draft.jumps
    BY <1>1, <2>1 DEF Draft
  <2>3. Fragments(draft') = Fragments(draft)
    BY <2>2 DEF Fragments
  <2>4. pasted' \/ Landing(draft')
    BY <2>1, <2>2, <2>3 DEF Landing
  <2> QED BY <1>1, <1>2, <2>4 DEF Left
<1>3. CASE f \in Fragments(draft)
  <2>1. Good(draft, ids, pasted) /\ ids \in Nat
    BY Typed
  <2>2. /\ Good([draft EXCEPT !.active = f], ids, pasted)
        /\ [draft EXCEPT !.active = f].chapters = draft.chapters
        /\ [draft EXCEPT !.active = f].jumps = draft.jumps
    BY <1>3, <2>1, ShownGood
  <2>3. Good(draft', ids', pasted')
    BY <1>1, <2>2
  <2>4. ids' \in Nat /\ ids <= ids' /\ (pasted => pasted')
    BY <2>1
  <2>5. job' = job /\ waiting' = waiting /\ clips' = clips
    BY DEF handlers
  <2> QED BY <1>1, <2>3, <2>4, <2>5, FollowedFrom
<1> QED BY <1>2, <1>3

LEMMA TabSteps ==
    ASSUME Followed, Activate \/ CloseFragment \/ CloseOtherFragments \/ CloseAllFragments \/ Reopen
    PROVE  Left' \/ Followed'
<1>1. CASE Activate
    BY <1>1, ShowKeeps DEF Activate
<1>2. CASE CloseFragment
  <2>1. PICK fallback :
          /\ \/ Show(fallback)
             \/ UNCHANGED <<draft, history, commands, stale>>
          /\ UNCHANGED <<handlers, clips, ids, crossed, pasted>>
    BY <1>2 DEF CloseFragment
  <2>2. CASE Show(fallback)
    BY <2>1, <2>2, ShowKeeps
  <2>3. CASE UNCHANGED <<draft, history, commands, stale>>
    BY <2>1, <2>3, NothingStep DEF handlers
  <2> QED BY <2>1, <2>2, <2>3
<1>3. CASE CloseOtherFragments
    BY <1>3, NothingStep DEF CloseOtherFragments, flags, handlers
<1>4. CASE CloseAllFragments
    BY <1>4, ShowKeeps DEF CloseAllFragments
<1>5. CASE Reopen
    BY <1>5, NothingStep DEF Reopen, flags, handlers
<1> QED BY <1>1, <1>2, <1>3, <1>4, <1>5

-----------------------------------------------------------------------------
(* The theorems *)

LEMMA EditsInitInv ==
    ASSUME EditsInit
    PROVE  EditsInv
<1> DEFINE one == <<1>>
           c == [id |-> 1, entry |-> TRUE, fragments |-> one]
           cs == <<c>>
<1>1. /\ draft = [chapters |-> cs, scripts |-> {1}, jumps |-> {}, timelines |-> {}, active |-> 1]
      /\ undo = <<>> /\ redo = <<>> /\ job = NoJob /\ waiting = {} /\ clips = {} /\ ids = 1
    BY DEF EditsInit, FirstDraft, EntryChapter
<1>2. one \in Seq(Nat) /\ one # <<>> /\ 1 \in Elements(one)
    BY DEF Elements
<1> HIDE DEF one
<1>3. c \in ChapterRecord /\ c.id = 1 /\ c.entry = TRUE /\ c.fragments = one
    BY <1>2 DEF ChapterRecord
<1> HIDE DEF c
<1>4. cs \in Seq(ChapterRecord) /\ cs # <<>> /\ cs[1] = c /\ Elements(cs) = {c}
    BY <1>3 DEF Elements
<1> HIDE DEF cs
<1>5. Numbered(cs, 1)
    BY <1>2, <1>3, <1>4 DEF Numbered
<1>6. draft \in Draft /\ draft.chapters = cs /\ draft.jumps = {} /\ draft.timelines = {} /\ draft.active = 1
    BY <1>1, <1>4 DEF Draft
<1>7. 1 \in Fragments(draft)
    BY <1>2, <1>3, <1>4, <1>6, FragmentsAre
<1>8. Saveable(draft) /\ Landing(draft)
    BY <1>6, <1>7 DEF Saveable, Landing
<1>9. Good(draft, ids, pasted)
    BY <1>1, <1>5, <1>6, <1>8 DEF Good
<1>10. HistoryInv /\ HandlersInv /\ ClipsInv
    BY <1>1 DEF HistoryInv, HandlersInv, ClipsInv
<1> QED BY <1>1, <1>9, <1>10 DEF EditsInv, Followed

LEMMA EditsStep ==
    ASSUME EditsInv, [EditsNext]_edits
    PROVE  EditsInv'
<1>1. CASE UNCHANGED edits
  <2>1. /\ UNCHANGED <<draft, history, job, waiting, clips, ids>>
        /\ crossed' = crossed /\ stale' = stale /\ pasted' = pasted
    BY <1>1 DEF edits, flags, handlers
  <2>2. CASE crossed \/ Left
    BY <2>1, <2>2 DEF EditsInv, Left
  <2>3. CASE Followed
    BY <2>1, <2>3, NothingStep DEF EditsInv
  <2> QED BY <2>2, <2>3 DEF EditsInv
<1>2. CASE EditsNext
  <2>1. ~crossed /\ ~stale /\ Followed
    BY <1>2 DEF EditsNext, EditsInv, Left
  <2>2. CASE Undo
    BY <2>1, <2>2, UndoStep DEF EditsInv
  <2>3. CASE Redo
    BY <2>1, <2>3, RedoStep DEF EditsInv
  <2>4. CASE Dismiss
    BY <2>1, <2>4, NothingStep DEF EditsInv, Dismiss, flags
  <2>5. CASE Connect \/ DetachEdge \/ Stage
    BY <2>1, <2>5, ConnectStep, DetachStep, StageStep DEF EditsInv
  <2>6. CASE AskChapter \/ AskFragment \/ AskRemove
    BY <2>1, <2>6, AskSteps DEF EditsInv
  <2>7. CASE AddChapter \/ AddFragment \/ RemoveFragment \/ CutChapter
    BY <2>1, <2>7, AddChapterStep, AddFragmentStep, RemoveStep, CutStep DEF EditsInv
  <2>8. CASE Copy \/ CutStructure \/ AskCut
    BY <2>1, <2>8, CopyStep, CutStructureStep, AskCutStep DEF EditsInv
  <2>10. CASE AskPaste \/ Paste \/ PasteNothing \/ Duplicate
    BY <2>1, <2>10, AskPasteStep, PasteStep, PasteNothingStep, DuplicateStep DEF EditsInv
  <2>9. CASE Activate \/ CloseFragment \/ CloseOtherFragments \/ CloseAllFragments \/ Reopen
    BY <2>1, <2>9, TabSteps DEF EditsInv
  <2> QED BY <1>2, <2>2, <2>3, <2>4, <2>5, <2>6, <2>7, <2>8, <2>9, <2>10 DEF EditsNext
<1> QED BY <1>1, <1>2

\* The invariant of the edits of a project and of the handlers that wait for the
\* user, with every project the history can bring back (App.tsx, useCommandHistory).
THEOREM EditsFollowed == EditsSpec => []EditsInv
<1>1. EditsInit => EditsInv
    BY EditsInitInv
<1>2. EditsInv /\ [EditsNext]_edits => EditsInv'
    BY EditsStep
<1> QED BY <1>1, <1>2, PTL DEF EditsSpec

\* Whatever is cut, pasted, undone and closed, for any number of chapters, commands
\* and tabs, and of handlers that wait for the clipboard: the backend accepts the
\* project (_validate), unless what a handler had seen was no longer so when it went
\* on or a tab of a fragment that is gone was clicked.
THEOREM ProjectStaysSaveable == EditsSpec => []StaysSaveable
<1>1. EditsInv => StaysSaveable
    BY DEF EditsInv, Left, Followed, Good, StaysSaveable
<1> QED BY <1>1, EditsFollowed, PTL

\* Removing and cutting leave no jump to what is gone (referenced in App.tsx).
THEOREM ProjectJumpsLand == EditsSpec => []JumpsLand
<1>1. EditsInv => JumpsLand
    BY DEF EditsInv, Left, Followed, Good, Landing, JumpsLand
<1> QED BY <1>1, EditsFollowed, PTL

================================================================================
