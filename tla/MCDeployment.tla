---------------------------- MODULE MCDeployment ----------------------------
(***************************************************************************)
(* Deployment for TLC: a release with three files, and an older one with    *)
(* two that is deployed at the same time.                                   *)
(***************************************************************************)
EXTENDS Deployment

CONSTANTS new, old

ReleaseFiles == [d \in Deploys |-> IF d = old THEN 2 ELSE 3]

=============================================================================
