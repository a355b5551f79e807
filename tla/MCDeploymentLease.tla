-------------------------- MODULE MCDeploymentLease --------------------------
(***************************************************************************)
(* DeploymentLease for TLC: three deployments of one Stack, none of which  *)
(* crashes or stalls.                                                      *)
(***************************************************************************)
EXTENDS DeploymentLease
=============================================================================
