---------------------------- MODULE SlotRegister ----------------------------
(***************************************************************************)
(* What a save slot promises to a game that uses it one routine at a time  *)
(* on a storage that does not fail: it holds the newest save game and the  *)
(* one before it.  A save keeps the old value as the spare before the new  *)
(* one takes its place; a damaged record costs that one save, no more; only *)
(* a deletion takes away anything else.  Saves are numbered in the order   *)
(* they are made, 0 is no save.  SaveSlots implements it.                  *)
(***************************************************************************)
EXTENDS Naturals

VARIABLES
    value,      \* the save a load finds
    spare,      \* the save it finds when the first is damaged
    deleting,   \* a deletion is under way
    damage,     \* records damaged so far
    exclusive   \* one routine at a time, no storage failure, no deletion cut off

slot == <<value, spare>>
vars == <<value, spare, deleting, damage, exclusive>>

Init ==
    /\ value \in Nat
    /\ spare = 0
    /\ deleting = FALSE
    /\ damage = 0
    /\ exclusive \in BOOLEAN

\* The value becomes the spare as well (a value damaged meanwhile returns).
Keep == value' >= value /\ spare' = value'

Save == value = spare /\ value' > value /\ UNCHANGED spare

Damage ==
    /\ damage' = damage + 1
    /\ value' = spare
    /\ UNCHANGED spare

\* Until a deletion is done anything may be left, an older copy included.
Drop == deleting

\* A deletion starts, ends, or is cut off by the end of the page.
Delete == deleting' = ~deleting /\ UNCHANGED slot

Next ==
    \/ /\ Damage
       /\ exclusive
       /\ UNCHANGED <<deleting, exclusive>>
    \/ /\ Keep \/ Save
       /\ exclusive
       /\ UNCHANGED <<deleting, damage, exclusive>>
    \/ /\ Drop
       /\ exclusive
       /\ deleting' \in {deleting, FALSE}
       /\ UNCHANGED <<damage, exclusive>>
    \/ /\ Delete
       /\ UNCHANGED <<damage, exclusive>>
    \/ ~(exclusive /\ exclusive')      \* no promise

Spec == Init /\ [][Next]_vars
=============================================================================
