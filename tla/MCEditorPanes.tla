----------------------------- MODULE MCEditorPanes -----------------------------
(* EditorPanes on a small instance; the tabs are interchangeable. *)
EXTENDS EditorPanes

TabSymmetry == Permutations(Tabs)
=============================================================================
