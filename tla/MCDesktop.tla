------------------------------ MODULE MCDesktop ------------------------------
(***************************************************************************)
(* Three parts of the desktop application, checked in one run: the         *)
(* routines that save the project, the save slots of a game, and the       *)
(* updates.  They share no state; a behaviour is one of one of them,       *)
(* chosen at the start.                                                    *)
(***************************************************************************)
EXTENDS EditorSave, SaveSlots, UpdateService, TLC

VARIABLE part

\* The one initial state of the editor that the other parts need.
Unswapped == \A p \in Path : disk[p].id = p

DesktopInit ==
    /\ Init /\ SlotInit /\ UpdateInit
    /\ \/ part = "editor" /\ exes = <<>> /\ desktop = FALSE /\ serial = 0
       \/ part = "updates" /\ desktop = FALSE /\ serial = 0 /\ Unswapped
       \/ part = "slots" /\ exes = <<>> /\ Unswapped

Editor == part = "editor" /\ Next /\ UNCHANGED <<part, slots, updates>>
Slots == part = "slots" /\ SlotNext /\ UNCHANGED <<part, vars, updates>>
Updates == part = "updates" /\ UpdateNext /\ UNCHANGED <<part, vars, slots>>
\* Only the routines of the editor must never be stuck.
Rest == part # "editor" /\ UNCHANGED <<part, vars, slots, updates>>

DesktopSpec ==
    /\ DesktopInit
    /\ [][Editor \/ Slots \/ Updates \/ Rest]_<<part, vars, slots, updates>>

\* The switches are alike, and so are the routines of the game, which bear
\* their names.
Alike == Permutations(Switcher)
==============================================================================
