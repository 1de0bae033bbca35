-------------------------- MODULE MCVersionWindow --------------------------
(* Model-checking instance of VersionWindow: the configurations choose     *)
(* which of the environment's Features are in use.                         *)
EXTENDS VersionWindow
=============================================================================
