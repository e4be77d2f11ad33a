---------------------------- MODULE MCDocEditor ----------------------------
(* Instances of DocEditor.                                                 *)
EXTENDS DocEditor
=============================================================================
