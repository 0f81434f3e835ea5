-------------------------- MODULE MCFileLifecycle --------------------------
(* Model values for the files of FileLifecycle. *)
EXTENDS FileLifecycle

CONSTANTS f1, a1, a2
=============================================================================
