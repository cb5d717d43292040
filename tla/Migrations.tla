----------------------------- MODULE Migrations -----------------------------
(***************************************************************************)
(* migrate.py: several deploys apply the numbered SQL files to one          *)
(* database.  Files are numbered 1, 2, ... and a newer release has the      *)
(* files of an older one and more.  A transaction takes effect when it      *)
(* commits; an error, a lost connection or the end of the process rolls it  *)
(* back and ends the deploy, which an operator may start again.             *)
(***************************************************************************)
EXTENDS Naturals, Sequences, FiniteSets

CONSTANTS
    Deploys,    \* runs of migrate.py
    Files,      \* Files[d]: how many migration files the release of d has
    RoleFile,   \* the file that creates the application's role
    MaxRetries, \* bound: how often a failed deploy is started again
    NULL

ASSUME MigrationsAssumption ==
    /\ Files \in [Deploys -> Nat] /\ RoleFile \in Nat /\ MaxRetries \in Nat
    /\ NULL \notin Deploys

VARIABLES
    table,    \* whether applied_migrations exists, and the deploy that is creating it
    holder,   \* the deploy that has the advisory lock
    log,      \* the rows of applied_migrations, in the order of their commits
    known,    \* known[d]: the names that d has read or applied itself
    stage,    \* stage[d]: where deploy d is
    retries   \* how many deploys were started again

migrationVars == <<table, holder, log, known, stage, retries>>

Applied == {log[i] : i \in 1..Len(log)}

Pending(d) == (1..Files[d]) \ known[d]

\* sorted(...): the first of the files that are pending.
File(d) == CHOOSE f \in Pending(d) : \A g \in Pending(d) : f <= g

-----------------------------------------------------------------------------

MigrationsInit ==
    /\ table = [exists |-> FALSE, by |-> NULL]
    /\ holder = NULL
    /\ log = <<>>
    /\ known = [d \in Deploys |-> {}]
    /\ stage = [d \in Deploys |-> "start"]
    /\ retries = 0

At(d, s, next) == stage[d] = s /\ stage' = [stage EXCEPT ![d] = next]

\* CREATE TABLE IF NOT EXISTS, before the advisory lock is taken ...
CreateTable(d) ==
    /\ table.by = NULL
    /\ At(d, "start", "lock")
    /\ table' = IF table.exists THEN table ELSE [exists |-> FALSE, by |-> d]
    /\ UNCHANGED <<holder, log, known, retries>>

\* ... so it may have to wait for another deploy that is creating the table ...
AwaitTable(d) ==
    /\ table.by # NULL
    /\ At(d, "start", "creating")
    /\ UNCHANGED <<table, holder, log, known, retries>>

\* ... and fails when that one commits, with a duplicate key in the catalogue.
TableAppeared(d) ==
    /\ table.by = NULL
    /\ At(d, "creating", IF table.exists THEN "failed" ELSE "lock")
    /\ table' = IF table.exists THEN table ELSE [exists |-> FALSE, by |-> d]
    /\ UNCHANGED <<holder, log, known, retries>>

Lock(d) ==
    /\ holder = NULL
    /\ At(d, "lock", "read")
    /\ holder' = d
    /\ UNCHANGED <<table, log, known, retries>>

\* The names are read, and the commit releases the lock.
ReadApplied(d) ==
    /\ At(d, "read", "next")
    /\ known' = [known EXCEPT ![d] = Applied]
    /\ table' = [exists |-> TRUE, by |-> NULL]
    /\ holder' = NULL
    /\ UNCHANGED <<log, retries>>

\* A transaction for the next pending file: its SQL ...
RunSql(d) ==
    /\ Pending(d) # {}
    /\ At(d, "next", "insert")
    /\ UNCHANGED <<table, holder, log, known, retries>>

\* Another deploy has inserted the same name and has not committed yet.
Contended(d) == \E e \in Deploys \ {d} : stage[e] = "commit" /\ File(e) = File(d)

\* Mutant: ON CONFLICT DO NOTHING.
Insert_IgnoreConflict(d) ==
    /\ At(d, "insert", "commit")
    /\ UNCHANGED <<table, holder, log, known, retries>>

\* ... and its name, which waits for a deploy that is inserting the same name
\* and is refused by the primary key once that one has committed.
Insert(d) ==
    /\ stage[d] = "insert" /\ ~Contended(d)
    /\ At(d, "insert", IF File(d) \in Applied THEN "failed" ELSE "commit")
    /\ UNCHANGED <<table, holder, log, known, retries>>

CommitFile(d) ==
    /\ At(d, "commit", "next")
    /\ log' = Append(log, File(d))
    /\ known' = [known EXCEPT ![d] = @ \cup {File(d)}]
    /\ UNCHANGED <<table, holder, retries>>

\* No file is left; the password is set when the environment has one.
NothingPending(d) ==
    /\ Pending(d) = {}
    /\ At(d, "next", "password") \/ At(d, "next", "done")
    /\ UNCHANGED <<table, holder, log, known, retries>>

\* ALTER ROLE, which fails when the role does not exist.
SetAppPassword(d) ==
    /\ At(d, "password", IF RoleFile \in Applied THEN "done" ELSE "failed")
    /\ UNCHANGED <<table, holder, log, known, retries>>

\* Mutant: the lock is kept by the connection, not by the transaction.
Fail_KeepsLock(d) ==
    /\ stage[d] \notin {"done", "failed"}
    /\ stage' = [stage EXCEPT ![d] = "failed"]
    /\ table' = IF table.by = d THEN [table EXCEPT !.by = NULL] ELSE table
    /\ UNCHANGED <<holder, log, known, retries>>

\* SQL that fails, a lost connection or the end of the process.
Fail(d) ==
    /\ stage[d] \notin {"done", "failed"}
    /\ stage' = [stage EXCEPT ![d] = "failed"]
    /\ table' = IF table.by = d THEN [table EXCEPT !.by = NULL] ELSE table
    /\ holder' = IF holder = d THEN NULL ELSE holder
    /\ UNCHANGED <<log, known, retries>>

Retry(d) ==
    /\ retries < MaxRetries
    /\ At(d, "failed", "start")
    /\ known' = [known EXCEPT ![d] = {}]
    /\ retries' = retries + 1
    /\ UNCHANGED <<table, holder, log>>

\* What a deploy does by itself.
Advance(d) == \/ CreateTable(d) \/ AwaitTable(d) \/ TableAppeared(d) \/ Lock(d)
              \/ ReadApplied(d) \/ RunSql(d) \/ Insert(d) \/ CommitFile(d)
              \/ NothingPending(d) \/ SetAppPassword(d)

Migrate(d) == Advance(d) \/ Fail(d) \/ Retry(d)

-----------------------------------------------------------------------------
(* Properties.                                                             *)

Stages == {"start", "creating", "lock", "read", "next", "insert", "commit", "password",
           "done", "failed"}

\* The lock and the new table belong to a deploy that is in its first
\* transaction, and a deploy that is writing has a file to write.
MigrationsTypeOK ==
    /\ stage \in [Deploys -> Stages]
    /\ known \in [Deploys -> SUBSET Nat]
    /\ holder # NULL => stage[holder] = "read"
    /\ table.by # NULL => ~table.exists /\ stage[table.by] \in {"lock", "read"}
    /\ \A d \in Deploys : stage[d] \in {"insert", "commit"} => Pending(d) # {}

\* However deploys overlap, fail and are started again, every file runs once
\* and in the order of the numbers: the lock does not guarantee it, since it is
\* released before the first file runs; the primary key does.
\* A deploy that reports success has left every file of its release applied.
EachFileOnceInOrder ==
    /\ \A i \in 1..Len(log) : log[i] = i
    /\ \A d \in Deploys : stage[d] = "done" => 1..Files[d] \subseteq Applied

=============================================================================
