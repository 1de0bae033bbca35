-------------------------- MODULE MCDeployManager --------------------------
(* Small instance of DeployManager: a handful of builds, one or two nodes  *)
(* and at most two goroutines at once.                                     *)
EXTENDS DeployManager
=============================================================================
