------------------------------- MODULE MCStory -------------------------------
(* The game of MCStoryEngine, the exploration of the branches of small       *)
(* stories and the seek cache of the preview, for TLC: they use one engine   *)
(* and share no state, and Init chooses which a behaviour is about.          *)
EXTENDS MCStoryEngine, Simulation, SeekCache, ProjectEdits

VARIABLE part

\* What the first and the second fragment of a story are made of.
To(target) == [op |-> "jump", target |-> target]
Calls(target) == [op |-> "call", target |-> target]
Offers(targets) == [op |-> "branch", options |-> targets]
Set(value) == [op |-> "set", var |-> "n", value |-> value]
IsOne(yes) == [op |-> "test", var |-> "n", value |-> 1, yes |-> yes, no |-> Unset]

Openings == {Line, Set(1), Count, IsOne("side"), Calls("side"),
             Offers({"start", "side"}), Offers({"side", "gone"}), Offers({})}
Sides == {Line, Count, IsOne("start"), Offers({"start", "side"}), To("start"),
          To("gone"), [op |-> "return"]}
UpTo(n, S) == UNION {[1..k -> S] : k \in 0..n}

SmallStories ==
    {[start |-> a \o b, side |-> c] :
        a \in UpTo(2, Openings), b \in {<<>>, <<Line>>}, c \in UpTo(2, Sides)}

\* A project to preview: lines by twos, a call whose lines end a search, a
\* second lap that the variable ends and that passes more checkpoints than are
\* kept, and what an edit may make of it: it may loop for ever.
Drafts ==
    LET start == <<Line, Offers({"side"}), Count, Line>>
        side == <<Calls("loop"), Line>>
        loop == <<Line, Count, Line, IsOne(Unset), Line,
                  [op |-> "test", var |-> "n", value |-> 2,
                   yes |-> Unset, no |-> "loop"], Line>>
        whole == [start |-> start, side |-> side, loop |-> loop]
    IN  {[scripts |-> whole, variables |-> [key |-> 0, n |-> n]] : n \in {0, 1}}
          \cup {[scripts |-> [whole EXCEPT !.loop[2] = Scene],
                 variables |-> [key |-> 0, n |-> 0]]}

Untold == story = [start |-> <<>>, side |-> <<>>]

StoryInit ==
    /\ Init /\ SimulationInit /\ SeekInit /\ EditsInit
    /\ project.variables.n = 0 /\ project.scripts.loop[2] = Count
    /\ \/ part = "game" /\ Untold
       \/ part = "simulation" /\ scripts = Twice
       \/ part \in {"seek", "edits"} /\ scripts = Twice /\ Untold

StoryNext ==
    /\ part' = part
    /\ \/ part = "game" /\ Next /\ UNCHANGED <<simulation, seekCache, edits>>
       \/ part = "simulation" /\ SimulationNext /\ UNCHANGED <<vars, seekCache, edits>>
       \/ part = "seek" /\ SeekNext /\ UNCHANGED <<vars, simulation, edits>>
       \/ part = "edits" /\ EditsNext /\ UNCHANGED <<vars, simulation, seekCache>>

StorySpec == StoryInit /\ [][StoryNext]_<<part, simulation, seekCache, vars, edits>>
=============================================================================
