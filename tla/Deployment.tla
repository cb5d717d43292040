----------------------------- MODULE Deployment -----------------------------
(***************************************************************************)
(* compose.yaml and docs/: migrate.py runs to its end before the API of the *)
(* same release is started (depends_on: service_completed_successfully),    *)
(* and other deploys may run at any time.                                   *)
(***************************************************************************)
EXTENDS Migrations, ConnectionPool

CONSTANT release   \* the deploy that the API process belongs to

ASSUME DeploymentAssumption == release \in Deploys

vars == <<migrationVars, poolVars>>

Init == MigrationsInit /\ PoolInit

\* The API starts once its deploy has succeeded.
StartApi == stage[release] = "done" /\ StartProcess

PoolNext == (\E t \in Users : UsePool(t)) \/ Shutdown \/ ClosePool \/ ForgetPool \/ Exit

\* Everything that has to happen has happened.
Rest == /\ process \in {"down", "exited"}
        /\ \A d \in Deploys : stage[d] \in {"done", "failed"}
        /\ UNCHANGED vars

Next == \/ \E d \in Deploys : Migrate(d) /\ UNCHANGED poolVars
        \/ (StartApi \/ PoolNext) /\ UNCHANGED migrationVars
        \/ Rest

\* A deploy and a thread in _connect keep running.
Fairness == /\ \A d \in Deploys : WF_vars(Advance(d) /\ UNCHANGED poolVars)
            /\ \A t \in Users : WF_vars((LockPool(t) \/ CreatePool(t) \/ Borrow(t)) /\ UNCHANGED migrationVars)

Spec == Init /\ [][Next]_vars /\ Fairness

-----------------------------------------------------------------------------
(* Properties.                                                             *)

\* The tables, the deploys, the pool and its threads have their types.
TypeOK == MigrationsTypeOK /\ PoolTypeOK

\* Nobody waits forever: each deploy succeeds or fails although it may have to
\* wait for the lock, the new table or the row of another, and a thread that
\* needs the pool gets past the lock.
WaitsEnd ==
    /\ \A d \in Deploys : <>(stage[d] \in {"done", "failed"})
    /\ \A t \in Users : at[t] = "lock" ~> (at[t] = "idle" \/ process = "exited")

=============================================================================
