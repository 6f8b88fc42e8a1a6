---------------------------- MODULE ProjectEdits ----------------------------
(***************************************************************************)
(* The structure of a project in the editor: chapters, fragments, what     *)
(* jumps where, the fragment that is edited, and its tabs (App.tsx,        *)
(* NarrativeMap.tsx, EditorTabBar.tsx).                                    *)
(*                                                                         *)
(* Most handlers ask the user first, or wait for the clipboard, or both.   *)
(* What they saw of the project is that of the render they were called in, *)
(* what they change is the project of the moment they go on: meanwhile the *)
(* keyboard still undoes, redoes and closes tabs, and while the clipboard  *)
(* answers everything else goes on as well.                                *)
(***************************************************************************)
EXTENDS Lists

CONSTANTS
    NoJob,
    MaxIds,     \* identifiers of chapters and fragments
    MaxCommands, \* changes of the history
    MaxTabs,    \* open tabs
    MaxWaiting, \* handlers at the clipboard
    MaxClips    \* structures in the clipboard

VARIABLES
    draft,    \* chapters, jumps, timelines, activeFragmentId
    undo, redo, \* before and after of each command
    tabs,       \* openFragmentIds
    job,        \* the handler of the dialog that is open
    waiting,    \* the handlers that wait for the clipboard
    clips,      \* the clipboard: the structures that may be read from it
    ids, commands,
    crossed,    \* history: what a handler saw was not so any more when it went on
    stale,      \* history: a tab of a fragment that is gone was activated
    pasted      \* history: a paste brought a jump to a fragment that is gone

history == <<undo, redo>>
flags == <<crossed, stale, pasted>>
handlers == <<job, waiting>>
edits == <<draft, history, tabs, handlers, clips, ids, commands, flags>>

Last(s) == s[Len(s)]
Front(s) == SubSeq(s, 1, Len(s) - 1)

EntryChapter == [id |-> 1, entry |-> TRUE, fragments |-> <<1>>]
FirstDraft == [chapters |-> <<EntryChapter>>, scripts |-> {1}, jumps |-> {}, timelines |-> {}, active |-> 1]

Fragments(p) == UNION {Elements(c.fragments) : c \in Elements(p.chapters)}
Chapter(p, id) == {c \in Elements(p.chapters) : c.id = id}
\* The first fragment of the first chapter that has one.
FirstFragment(p) ==
    LET Empty(i) == p.chapters[i].fragments = <<>>
        first == CHOOSE i \in DOMAIN p.chapters : ~Empty(i) /\ \A j \in 1..(i - 1) : Empty(j)
    IN p.chapters[first].fragments[1]

\* What the backend accepts (_validate in project_store.py): every save of the
\* project is refused when it does not hold.
Saveable(p) == p.active \in Fragments(p) /\ p.timelines \subseteq Fragments(p)

-----------------------------------------------------------------------------
(* The project and its history *)

Commit(p) ==
    /\ commands < MaxCommands
    /\ commands' = commands + 1
    /\ draft' = p
    /\ undo' = Append(undo, [before |-> draft, after |-> p])
    /\ redo' = <<>>
Replace(p) == draft' = p /\ UNCHANGED <<history, commands>>

\* The page shows a dialog over everything: no other handler is called.
Idle == job = NoJob

\* What a handler relies on: its chapter is there, and nothing jumps to what it
\* removes, which is all of its chapter if that is cut.
So(kind, chapter, fragments) ==
    /\ kind \in {"fragment", "paste"} => Chapter(draft, chapter) # {}
    /\ kind \in {"remove", "cut"} =>
        \A e \in draft.jumps : e[2] \notin Elements(fragments)
    /\ kind = "cut" => \A c \in Chapter(draft, chapter) :
        Elements(c.fragments) \subseteq Elements(fragments)
Job(kind, chapter, fragments) ==
    [kind |-> kind, chapter |-> chapter, fragments |-> fragments,
     seen |-> So(kind, chapter, fragments)]

\* Of the bound: nothing begins that could not end in a commit.
Begins == commands < MaxCommands
Ask(j) ==
    /\ Idle /\ Begins
    /\ job' = j
    /\ UNCHANGED <<draft, history, tabs, waiting, clips, ids, commands, flags>>
Await(j) ==
    /\ Cardinality(waiting) < MaxWaiting
    /\ waiting' = waiting \cup {j}

\* The handler goes on.
Crosses(j) == crossed' = (crossed \/ (j.seen /\ ~So(j.kind, j.chapter, j.fragments)))
Resumed(kind) ==
    /\ job # NoJob /\ job.kind = kind
    /\ job' = NoJob /\ Crosses(job) /\ UNCHANGED waiting

Undo ==
    /\ undo # <<>> /\ commands < MaxCommands
    /\ commands' = commands + 1
    /\ draft' = Last(undo).before
    /\ undo' = Front(undo) /\ redo' = Append(redo, Last(undo))
    /\ UNCHANGED <<tabs, handlers, clips, ids, flags>>
Redo ==
    /\ redo # <<>> /\ commands < MaxCommands
    /\ commands' = commands + 1
    /\ draft' = Last(redo).after
    /\ redo' = Front(redo) /\ undo' = Append(undo, Last(redo))
    /\ UNCHANGED <<tabs, handlers, clips, ids, flags>>

Dismiss == job # NoJob /\ job' = NoJob
           /\ UNCHANGED <<draft, history, tabs, waiting, clips, ids, commands, flags>>

-----------------------------------------------------------------------------
(* Scripts: the map connects and detaches, the stage gives a timeline *)

Change(p) == Idle /\ Commit(p) /\ UNCHANGED <<tabs, handlers, clips, ids, flags>>
Connect == Idle /\ Begins /\ \E s, t \in Fragments(draft) :
    s # t /\ Change([draft EXCEPT !.jumps = @ \cup {<<s, t>>}])
DetachEdge == \E e \in draft.jumps : Change([draft EXCEPT !.jumps = @ \ {e}])
Stage == Change([draft EXCEPT !.timelines = @ \cup {draft.active}])

-----------------------------------------------------------------------------
(* Chapters and fragments *)

New == ids + 1
Added(p, c) ==
    LET cs == p.chapters
    IN  [p EXCEPT !.chapters = [i \in DOMAIN cs |->
            IF cs[i].id = c THEN [cs[i] EXCEPT !.fragments = Append(@, New)] ELSE cs[i]]]
Opened(p) == [p EXCEPT !.active = New, !.scripts = @ \cup {New}]

Make == ids < MaxIds /\ ids' = ids + 1

AskChapter == Ask(Job("chapter", 0, <<>>))
AddChapter ==
    /\ Resumed("chapter") /\ Make
    /\ Commit(Opened([draft EXCEPT !.chapters =
                Append(@, [id |-> New, entry |-> FALSE, fragments |-> <<New>>])]))
    /\ UNCHANGED <<tabs, clips, stale, pasted>>

AskFragment == \E c \in Elements(draft.chapters) : Ask(Job("fragment", c.id, <<>>))
AddFragment ==
    /\ Resumed("fragment") /\ Make
    /\ Commit(Opened(Added(draft, job.chapter)))
    /\ UNCHANGED <<tabs, clips, stale, pasted>>

ReferencedNever(gone) == FALSE
Referenced(gone) == \E e \in draft.jumps : e[2] \in gone

Dropped(p, chapters, gone, next) ==
    [chapters |-> chapters, scripts |-> p.scripts \ gone,
     jumps |-> {e \in p.jumps : e[1] \notin gone}, timelines |-> p.timelines \ gone,
     active |-> IF p.active \in gone THEN next ELSE p.active]

\* The button is not there in the first chapter.
AskRemove == \E c \in Elements(draft.chapters) : \E f \in Elements(c.fragments) :
    /\ ~c.entry /\ ~Referenced({f})
    /\ Ask(Job("remove", c.id, <<f>>))

ChaptersWithout(p, c, f) ==
    [i \in DOMAIN p.chapters |-> IF p.chapters[i].id = c
        THEN [p.chapters[i] EXCEPT !.fragments = Without(@, {f})] ELSE p.chapters[i]]

\* The mutant leaves the fragment open.
RemovedButOpen(p, c, f) == Dropped(p, ChaptersWithout(p, c, f), {f}, p.active)
Removed(p, c, f) ==
    LET chapters == ChaptersWithout(p, c, f)
    IN  Dropped(p, chapters, {f}, FirstFragment([p EXCEPT !.chapters = chapters]))
RemoveFragment ==
    /\ Resumed("remove")
    /\ Commit(Removed(draft, job.chapter, job.fragments[1]))
    /\ UNCHANGED <<tabs, clips, ids, stale, pasted>>

-----------------------------------------------------------------------------
(* structureAction *)

\* A fragment or a chapter with its fragments, and their jumps.
Payload(kind, fragments) ==
    [kind |-> kind, fragments |-> fragments,
     jumps |-> {e \in draft.jumps : e[1] \in Elements(fragments)}]
Payloads ==
    UNION {{[chapter |-> c, load |-> Payload("chapter", c.fragments)]}
             \cup {[chapter |-> c, load |-> Payload("fragment", <<f>>)] :
                     f \in Elements(c.fragments)} : c \in Elements(draft.chapters)}

\* The clipboard of the desktop is written and read with a limit of time, and behind
\* it are that of the page and a value in the browser: until a copy has reached them
\* all, one that was made before may still be read.
Copied(load) ==
    /\ clips' \in {{load}, clips \cup {load}}
    /\ Cardinality(clips') <= MaxClips

Copy == Idle /\ Begins /\ \E x \in Payloads :
    /\ Copied(x.load)
    /\ UNCHANGED <<draft, history, tabs, handlers, ids, commands, flags>>

\* Cutting copies, and then refuses the first chapter and what is a target, from
\* inside too, in the project of the call; only then it asks, in place of a dialog
\* that was opened meanwhile.
CutStructure == Idle /\ Begins /\ \E x \in Payloads :
    /\ Copied(x.load)
    /\ IF x.chapter.entry \/ Referenced(Elements(x.load.fragments)) THEN UNCHANGED waiting
       ELSE Await(Job(IF x.load.kind = "chapter" THEN "cut" ELSE "remove",
                      x.chapter.id, x.load.fragments))
    /\ UNCHANGED <<draft, history, tabs, job, ids, commands, flags>>
AskCut == \E j \in waiting :
    /\ j.kind \in {"cut", "remove"}
    /\ job' = j
    /\ waiting' = waiting \ {j}
    /\ UNCHANGED <<draft, history, tabs, clips, ids, commands, flags>>

CutChapter ==
    /\ Resumed("cut")
    /\ LET chapters == Without(draft.chapters, Chapter(draft, job.chapter))
       IN  Commit(Dropped(draft, chapters, Elements(job.fragments),
                          chapters[1].fragments[1]))
    /\ UNCHANGED <<tabs, clips, ids, stale, pasted>>

\* Everything pasted gets a new identifier, and jumps within it follow.
NewIds(load) == [i \in DOMAIN load.fragments |-> ids + i]
Renamed(load, f) ==
    IF \E i \in DOMAIN load.fragments : load.fragments[i] = f
    THEN ids + (CHOOSE i \in DOMAIN load.fragments : load.fragments[i] = f)
    ELSE f
\* findIndex: 0 if there is no such chapter.
Position(c) ==
    IF Chapter(draft, c) = {} THEN 0
    ELSE CHOOSE i \in DOMAIN draft.chapters : draft.chapters[i].id = c
Pasted(c, load) ==
    IF load.kind = "fragment" THEN Added(draft, c).chapters
    ELSE SubSeq(draft.chapters, 1, Position(c))
           \o <<[id |-> New, entry |-> FALSE, fragments |-> NewIds(load)]>>
           \o SubSeq(draft.chapters, Position(c) + 1, Len(draft.chapters))
\* What is pasted is opened, if it has a fragment.
PasteInto(c, load) ==
    LET n == Len(load.fragments)
        new == Elements(NewIds(load))
        jumps == {<<Renamed(load, e[1]), Renamed(load, e[2])>> : e \in load.jumps}
    IN /\ ids' = ids + (IF n = 0 THEN 1 ELSE n)
       /\ ids' <= MaxIds
       /\ Commit([draft EXCEPT !.chapters = Pasted(c, load), !.jumps = @ \cup jumps,
                    !.scripts = @ \cup new, !.active = IF n = 0 THEN @ ELSE New])
       /\ IF n = 0 THEN UNCHANGED tabs
          ELSE Len(tabs) < MaxTabs /\ tabs' = Append(tabs, New)
       /\ pasted' = (pasted \/ ~ \A e \in jumps : e[2] \in Fragments(draft) \cup new)

AskPaste == Idle /\ Begins /\ \E c \in Elements(draft.chapters) :
    /\ Await(Job("paste", c.id, <<>>))
    /\ UNCHANGED <<draft, history, tabs, job, clips, ids, commands, flags>>
Paste == \E j \in waiting : \E load \in clips :
    /\ j.kind = "paste"
    /\ PasteInto(j.chapter, load)
    /\ Crosses(j)
    /\ waiting' = waiting \ {j}
    /\ UNCHANGED <<job, clips, stale>>
PasteNothing == \E j \in waiting :
    /\ j.kind = "paste"
    /\ waiting' = waiting \ {j}
    /\ UNCHANGED <<draft, history, tabs, job, clips, ids, commands, flags>>
Duplicate == Idle /\ Begins /\ \E x \in Payloads :
    /\ PasteInto(x.chapter.id, x.load)
    /\ UNCHANGED <<handlers, clips, crossed, stale>>

-----------------------------------------------------------------------------
(* Tabs *)

Show(f) ==
    /\ Replace([draft EXCEPT !.active = f])
    /\ stale' = (stale \/ f \notin Fragments(draft))

\* activate, of the tree, the map, a problem found, or of a tab.
Activate == \E f \in Fragments(draft) \cup Elements(tabs) :
    /\ Idle
    /\ f # draft.active
    /\ f \in Elements(tabs) \/ Len(tabs) < MaxTabs
    /\ Show(f)
    /\ tabs' = IF f \in Elements(tabs) THEN tabs ELSE Append(tabs, f)
    /\ UNCHANGED <<handlers, clips, ids, crossed, pasted>>

Least(a, b) == IF a < b THEN a ELSE b
\* The button of a tab, or Ctrl+W, which a dialog does not hold back.
CloseFragment == \E i \in DOMAIN tabs :
    LET f == tabs[i]
        next == Without(tabs, {f})
        fallback == IF next = <<>> THEN FirstFragment(draft) ELSE next[Least(i, Len(next))]
    IN /\ Idle \/ f = draft.active
       /\ tabs' = IF next = <<>> THEN <<fallback>> ELSE next
       /\ IF f = draft.active THEN Show(fallback)
          ELSE UNCHANGED <<draft, history, commands, stale>>
       /\ UNCHANGED <<handlers, clips, ids, crossed, pasted>>
CloseOtherFragments ==
    /\ Idle
    /\ draft.active \in Elements(tabs)
    /\ tabs' = <<draft.active>>
    /\ UNCHANGED <<draft, history, handlers, clips, ids, commands, flags>>
CloseAllFragments ==
    /\ Idle
    /\ tabs' = <<FirstFragment(draft)>>
    /\ Show(FirstFragment(draft))
    /\ UNCHANGED <<handlers, clips, ids, crossed, pasted>>

\* resetProject: the project is opened again, from the disk, with the tabs that the
\* session in the browser still names and whose fragments are there.
Reopen ==
    LET saved == Without(tabs, Elements(tabs) \ Fragments(draft))
    IN /\ Idle
       /\ Saveable(draft)
       /\ tabs' = IF saved = <<>> THEN <<draft.active>> ELSE saved
       /\ UNCHANGED <<draft, history, handlers, clips, ids, commands, flags>>

-----------------------------------------------------------------------------

EditsInit ==
    /\ draft = FirstDraft
    /\ undo = <<>> /\ redo = <<>>
    /\ tabs = <<1>>
    /\ job = NoJob /\ waiting = {} /\ clips = {}
    /\ ids = 1 /\ commands = 0
    /\ crossed = FALSE /\ stale = FALSE /\ pasted = FALSE

\* Of what was crossed or stale nothing is said: it is not followed further.
EditsNext ==
    /\ ~crossed /\ ~stale
    /\ \/ Undo \/ Redo \/ Dismiss
       \/ Connect \/ DetachEdge \/ Stage
       \/ AskChapter \/ AddChapter \/ AskFragment \/ AddFragment
       \/ AskRemove \/ RemoveFragment
       \/ Copy \/ CutStructure \/ AskCut \/ CutChapter
       \/ AskPaste \/ Paste \/ PasteNothing \/ Duplicate
       \/ Activate \/ CloseFragment \/ CloseOtherFragments \/ CloseAllFragments
       \/ Reopen

EditsSpec == EditsInit /\ [][EditsNext]_edits

\* Whatever is cut, pasted, undone and closed, in any order, the project can be
\* saved: unless what a handler had seen was no longer so when it went on, or a
\* tab of a fragment that is gone was clicked.
StaysSaveable == crossed \/ stale \/ Saveable(draft)

\* And no jump leads to a fragment that is gone, unless one was pasted.
JumpsLand == crossed \/ pasted \/ \A e \in draft.jumps : e[2] \in Fragments(draft)
=============================================================================
