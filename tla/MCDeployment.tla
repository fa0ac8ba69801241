---------------------------- MODULE MCDeployment ----------------------------
(* One stack, two processes: a failed deployment or enable run followed by   *)
(* another, or two at once, and a restart between any two steps.             *)
EXTENDS Deployment, TLC
=============================================================================
