---------------------------- MODULE MCEditorSave ----------------------------
(* Instances of EditorSave for TLC; the constants are given in the .cfg.    *)
(* The switches are alike.                                                  *)
EXTENDS EditorSave, TLC

Alike == Permutations(Switcher)

=============================================================================
