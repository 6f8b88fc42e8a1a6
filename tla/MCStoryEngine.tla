---------------------------- MODULE MCStoryEngine ----------------------------
(* Instances of StoryEngine for TLC: releases of a small game.              *)
EXTENDS StoryEngine

Line == [op |-> "line", voiced |-> FALSE]
Voiced == [op |-> "line", voiced |-> TRUE]
Scene == [op |-> "effect", value |-> 1]
Unlock == [op |-> "set", var |-> "key", value |-> 1]
Count == [op |-> "add", var |-> "n", by |-> 1]

\* Calls, a branch with a missing target, a loop the player ends and one the
\* step limit ends.
Tour ==
    [start |-> <<Scene, Voiced, [op |-> "call", target |-> "side"],
                 [op |-> "branch", options |-> {"loop", "side", "gone"}]>>,
     side |-> <<Unlock, Line>>,
     loop |-> <<Count, [op |-> "test", var |-> "n", value |-> 2,
                        yes |-> "spin", no |-> Unset],
                [op |-> "jump", target |-> "start"]>>,
     spin |-> <<[op |-> "jump", target |-> "spin"]>>]

\* A release with a shorter start, a return that has no frame and a call of a
\* missing fragment.
Cut ==
    [start |-> <<Line, Scene, [op |-> "branch", options |-> {"side", "loop"}]>>,
     side |-> <<Voiced, [op |-> "return"]>>,
     loop |-> <<[op |-> "call", target |-> "spin"]>>]

\* A call that returns by a return block, called from two places.
Twice ==
    [start |-> <<[op |-> "call", target |-> "side"], Line,
                 [op |-> "call", target |-> "side"]>>,
     side |-> <<Count, Voiced, Scene, [op |-> "return"]>>]

\* One line and an unlock.
Short == [start |-> <<Line, Unlock, Line>>]

Three == {Tour, Cut, Twice}
One == {Short}
=============================================================================
