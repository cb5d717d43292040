-------------------------- MODULE DeploymentProofs --------------------------
(***************************************************************************)
(* Proofs about migrations and the connection pool, for any deploys with    *)
(* any releases, and any number of request threads.                         *)
(***************************************************************************)
EXTENDS Deployment, TLAPS

-----------------------------------------------------------------------------
(* Migrations.                                                             *)

\* Every name was applied in its turn, and what a deploy knows are the first of
\* the names.  A deploy whose row is inserted knows all of them: this is what
\* the primary key has checked, and it stays true since no other deploy can have
\* inserted a row at the same time.
MigrationsInv ==
    /\ stage \in [Deploys -> Stages]
    /\ log \in Seq(Nat)
    /\ \A i \in 1..Len(log) : log[i] = i
    /\ known \in [Deploys -> SUBSET Nat]
    /\ \A d \in Deploys : \E m \in 0..Len(log) : known[d] = 1..m
    /\ \A d \in Deploys : stage[d] \in {"insert", "commit"} => Pending(d) # {}
    /\ \A d \in Deploys : stage[d] = "commit" => known[d] = 1..Len(log)
    /\ \A d, e \in Deploys : stage[d] = "commit" /\ stage[e] = "commit" => d = e
    /\ \A d \in Deploys : stage[d] \in {"password", "done"} => Pending(d) = {}

\* The lock and the new table belong to a deploy that is in its first transaction.
LocksInv ==
    /\ holder \in Deploys \cup {NULL}
    /\ holder # NULL => stage[holder] = "read"
    /\ table.by \in Deploys \cup {NULL}
    /\ table.by # NULL => ~table.exists /\ stage[table.by] \in {"lock", "read"}

LEMMA AppliedPrefix ==
    ASSUME MigrationsInv
    PROVE  Applied = 1..Len(log) /\ Len(log) \in Nat
  BY DEF MigrationsInv, Applied

\* The next file is the one after the last that is known.
LEMMA NextFile ==
    ASSUME NEW d \in Deploys, NEW m \in Nat, known[d] = 1..m, Pending(d) # {}
    PROVE  File(d) = m + 1 /\ m + 1 <= Files[d] /\ Files[d] \in Nat
  <1>0. Files[d] \in Nat
    BY MigrationsAssumption
  <1>1. Pending(d) = (m+1)..Files[d]
    BY <1>0 DEF Pending
  <1>2. m + 1 \in Pending(d) /\ \A g \in Pending(d) : m + 1 <= g
    BY <1>0, <1>1
  <1>3. \A f \in Pending(d) : (\A g \in Pending(d) : f <= g) => f = m + 1
    BY <1>0, <1>1, <1>2
  <1>4. File(d) = m + 1
    BY <1>2, <1>3 DEF File
  <1> QED BY <1>0, <1>1, <1>2, <1>4

LEMMA MigrateStep ==
    ASSUME MigrationsInv, NEW d \in Deploys, Migrate(d)
    PROVE  MigrationsInv'
  <1>0. Applied = 1..Len(log) /\ Len(log) \in Nat
    BY AppliedPrefix
  <1>k. PICK m \in 0..Len(log) : known[d] = 1..m
    BY DEF MigrationsInv
  \* A step that writes nothing, and ends neither the insert nor the list of files.
  <1>1. ASSUME UNCHANGED <<log, known>>, NEW to \in Stages \ {"insert", "commit", "password", "done"},
               stage' = [stage EXCEPT ![d] = to]
        PROVE  MigrationsInv'
    BY <1>1 DEF MigrationsInv, Pending
  <1>2. ASSUME CreateTable(d) \/ AwaitTable(d) \/ TableAppeared(d) \/ Lock(d) \/ Fail(d)
        PROVE  MigrationsInv'
    <2>1. UNCHANGED <<log, known>>
      BY <1>2 DEF CreateTable, AwaitTable, TableAppeared, Lock, Fail
    <2>2. \E to \in Stages \ {"insert", "commit", "password", "done"} : stage' = [stage EXCEPT ![d] = to]
      BY <1>2 DEF CreateTable, AwaitTable, TableAppeared, Lock, Fail, At, Stages
    <2> QED BY <1>1, <2>1, <2>2
  <1>3. ASSUME ReadApplied(d) PROVE MigrationsInv'
    <2>1. /\ UNCHANGED log /\ known' = [known EXCEPT ![d] = 1..Len(log)]
          /\ stage[d] = "read" /\ stage' = [stage EXCEPT ![d] = "next"]
      BY <1>0, <1>3 DEF ReadApplied, At
    <2>2. 1..Len(log) \in SUBSET Nat /\ Len(log) \in 0..Len(log) /\ "next" \in Stages
      BY <1>0 DEF Stages
    <2> QED BY <2>1, <2>2 DEF MigrationsInv, Pending
  <1>4. ASSUME RunSql(d) PROVE MigrationsInv'
    BY <1>4 DEF RunSql, At, MigrationsInv, Pending, Stages
  <1>5. ASSUME Insert(d) PROVE MigrationsInv'
    <2>1. CASE File(d) \in Applied
      <3>1. UNCHANGED <<log, known>> /\ stage' = [stage EXCEPT ![d] = "failed"]
        BY <1>5, <2>1 DEF Insert, At
      <3> QED BY <1>1, <3>1 DEF Stages
    <2>2. CASE File(d) \notin Applied
      <3>1. /\ UNCHANGED <<log, known>> /\ stage[d] = "insert" /\ ~Contended(d)
            /\ stage' = [stage EXCEPT ![d] = "commit"]
        BY <1>5, <2>2 DEF Insert, At
      <3>2. File(d) = m + 1
        BY <1>0, <1>k, <3>1, NextFile DEF MigrationsInv
      <3>3. m = Len(log)
        BY <1>0, <1>k, <2>2, <3>2
      <3>4. ASSUME NEW e \in Deploys, stage[e] = "commit" PROVE e = d
        <4>1. known[e] = 1..Len(log) /\ Pending(e) # {}
          BY <3>4 DEF MigrationsInv
        <4>2. File(e) = Len(log) + 1
          BY <1>0, <4>1, NextFile
        <4> QED BY <3>1, <3>2, <3>3, <3>4, <4>2 DEF Contended
      <3>5. stage' \in [Deploys -> Stages]
        BY <3>1 DEF MigrationsInv, Stages
      <3> QED BY <1>k, <3>1, <3>3, <3>4, <3>5 DEF MigrationsInv, Pending
    <2> QED BY <2>1, <2>2
  <1>6. ASSUME CommitFile(d) PROVE MigrationsInv'
    <2>1. stage[d] = "commit" /\ known[d] = 1..Len(log) /\ Pending(d) # {}
      BY <1>6 DEF CommitFile, At, MigrationsInv
    <2>2. File(d) = Len(log) + 1
      BY <1>0, <2>1, NextFile
    <2>3. /\ log' = Append(log, Len(log) + 1)
          /\ known' = [known EXCEPT ![d] = 1..(Len(log) + 1)]
          /\ stage' = [stage EXCEPT ![d] = "next"]
      <3>1. known[d] \cup {File(d)} = 1..(Len(log) + 1)
        BY <1>0, <2>1, <2>2
      <3> QED BY <1>6, <2>2, <3>1 DEF CommitFile, At, MigrationsInv
    <2>4. /\ log' \in Seq(Nat) /\ Len(log') = Len(log) + 1
          /\ \A i \in 1..Len(log') : log'[i] = i
      BY <1>0, <2>3 DEF MigrationsInv
    <2>5. /\ stage' \in [Deploys -> Stages]
          /\ known' \in [Deploys -> SUBSET Nat]
      BY <1>0, <2>3 DEF MigrationsInv, Stages
    <2>6. \A e \in Deploys : \E k \in 0..Len(log') : known'[e] = 1..k
      BY <1>0, <2>3, <2>4 DEF MigrationsInv
    <2>7. \A e \in Deploys : stage'[e] # "commit"
      BY <2>1, <2>3 DEF MigrationsInv
    <2>8. \A e \in Deploys : /\ stage'[e] \in {"insert", "commit"} => Pending(e)' # {}
                             /\ stage'[e] \in {"password", "done"} => Pending(e)' = {}
      BY <2>3 DEF MigrationsInv, Pending
    <2> QED BY <2>4, <2>5, <2>6, <2>7, <2>8 DEF MigrationsInv
  <1>7. ASSUME NothingPending(d) \/ SetAppPassword(d) PROVE MigrationsInv'
    <2>1. UNCHANGED <<log, known>>
      BY <1>7 DEF NothingPending, SetAppPassword
    <2>2. Pending(d) = {}
      BY <1>7 DEF NothingPending, SetAppPassword, At, MigrationsInv
    <2>3. \E to \in {"password", "done", "failed"} : stage' = [stage EXCEPT ![d] = to]
      BY <1>7 DEF NothingPending, SetAppPassword, At
    <2> QED BY <2>1, <2>2, <2>3 DEF MigrationsInv, Pending, Stages
  <1>8. ASSUME Retry(d) PROVE MigrationsInv'
    <2>1. /\ UNCHANGED log /\ known' = [known EXCEPT ![d] = {}]
          /\ stage[d] = "failed" /\ stage' = [stage EXCEPT ![d] = "start"]
      BY <1>8 DEF Retry, At
    <2>2. {} = 1..0 /\ 0 \in 0..Len(log) /\ "start" \in Stages
      BY <1>0 DEF Stages
    <2> QED BY <2>1, <2>2 DEF MigrationsInv, Pending
  <1> QED BY <1>2, <1>3, <1>4, <1>5, <1>6, <1>7, <1>8 DEF Migrate, Advance

LEMMA LocksStep ==
    ASSUME MigrationsInv, LocksInv, NEW d \in Deploys, Migrate(d)
    PROVE  LocksInv'
  <1>0. d # NULL /\ stage \in [Deploys -> Stages]
    BY MigrationsAssumption DEF MigrationsInv
  <1>1. ASSUME CreateTable(d) \/ TableAppeared(d) PROVE LocksInv'
    <2>1. /\ table.by = NULL /\ stage[d] \in {"start", "creating"} /\ UNCHANGED holder
          /\ table' = IF table.exists THEN table ELSE [exists |-> FALSE, by |-> d]
      BY <1>1 DEF CreateTable, TableAppeared, At
    <2>2. stage' = [stage EXCEPT ![d] = IF stage[d] = "creating" /\ table.exists THEN "failed" ELSE "lock"]
      BY <1>1 DEF CreateTable, TableAppeared, At
    <2> QED BY <1>0, <2>1, <2>2 DEF LocksInv
  <1>2. ASSUME Lock(d) PROVE LocksInv'
    BY <1>0, <1>2 DEF Lock, At, LocksInv
  <1>3. ASSUME ReadApplied(d) PROVE LocksInv'
    BY <1>0, <1>3 DEF ReadApplied, At, LocksInv
  <1>4. ASSUME Fail(d) PROVE LocksInv'
    BY <1>0, <1>4 DEF Fail, LocksInv
  <1>5. ASSUME \/ AwaitTable(d) \/ RunSql(d) \/ Insert(d) \/ CommitFile(d) \/ NothingPending(d)
               \/ SetAppPassword(d) \/ Retry(d)
        PROVE  LocksInv'
    <2>1. UNCHANGED <<table, holder>> /\ stage[d] \notin {"lock", "read"}
      BY <1>5 DEF AwaitTable, RunSql, Insert, CommitFile, NothingPending, SetAppPassword, Retry, At
    <2>2. \A e \in Deploys \ {d} : stage'[e] = stage[e]
      BY <1>0, <1>5 DEF AwaitTable, RunSql, Insert, CommitFile, NothingPending, SetAppPassword, Retry, At
    <2> QED BY <2>1, <2>2 DEF LocksInv
  <1> QED BY <1>1, <1>2, <1>3, <1>4, <1>5 DEF Migrate, Advance

-----------------------------------------------------------------------------
(* The connection pool.                                                    *)

Phases == {"down", "up", "closing", "closed", "forgotten", "exited"}

\* Until close begins there is no pool or one, which is the first and is open,
\* and who has found it still finds it; afterwards no request is in _connect.
PoolInv ==
    /\ process \in Phases
    /\ created \in Nat
    /\ at \in [Users -> {"idle", "lock", "create", "use"}]
    /\ mutex \in Users \cup {None}
    /\ PoolTypeOK
    /\ process = "down" => created = 0 /\ \A t \in Users : at[t] = "idle"
    /\ process \in {"down", "up", "closing"} =>
          /\ pool = None => created = 0
          /\ created <= 1
          /\ open = {pool} \ {None}
          /\ \A t \in Users : at[t] = "use" => pool # None
    /\ process \in {"closed", "forgotten", "exited"} => \A t \in Requesters : at[t] = "idle"

LEMMA PoolStep ==
    ASSUME PoolInv, StartApi \/ PoolNext
    PROVE  PoolInv'
  <1>0. None \notin Users /\ None \notin Nat
    BY PoolAssumption DEF Users
  <1>1. ASSUME StartApi \/ Shutdown \/ Exit PROVE PoolInv'
    BY <1>1 DEF StartApi, StartProcess, Shutdown, Exit, PoolInv, PoolTypeOK, Phases
  <1>2. ASSUME NEW t \in Users, Connect(t) PROVE PoolInv'
    <2>1. /\ UNCHANGED <<process, pool, created, open, mutex>>
          /\ at[t] = "idle" /\ at' = [at EXCEPT ![t] = IF pool = None THEN "lock" ELSE "use"]
          /\ process # "down" /\ (t \in Requesters => process \in {"up", "closing"})
      BY <1>2, PoolAssumption DEF Connect, Move, PoolInv
    <2> QED BY <2>1 DEF PoolInv, PoolTypeOK, Users
  <1>3. ASSUME NEW t \in Users, LockPool(t) PROVE PoolInv'
    BY <1>0, <1>3 DEF LockPool, Move, PoolInv, PoolTypeOK, Users
  <1>4. ASSUME NEW t \in Users, CreatePool(t) PROVE PoolInv'
    <2>1. /\ UNCHANGED process /\ mutex' = None
          /\ at[t] = "create" /\ at' = [at EXCEPT ![t] = "use"]
          /\ process # "down" /\ mutex = t
          /\ t \in Requesters => process \in {"up", "closing"}
      BY <1>4 DEF CreatePool, Move, PoolInv, PoolTypeOK, Phases
    <2>2. CASE pool # None
      <3>1. UNCHANGED <<pool, created, open>>
        BY <1>4, <2>2 DEF CreatePool
      <3> QED BY <1>0, <2>1, <2>2, <3>1 DEF PoolInv, PoolTypeOK, Users
    <2>3. CASE pool = None
      <3>1. pool' = created + 1 /\ created' = created + 1 /\ open' = open \cup {created + 1}
        BY <1>4, <2>3 DEF CreatePool
      <3>2. created \in Nat /\ created + 1 # None /\ open \subseteq 1..created
        BY <1>0 DEF PoolInv, PoolTypeOK
      <3>3. process \in {"down", "up", "closing"} => created = 0 /\ open = {}
        BY <2>3, <3>2 DEF PoolInv
      <3>4. PoolTypeOK'
        BY <1>0, <2>1, <3>1, <3>2 DEF PoolInv, PoolTypeOK
      <3>5. ASSUME process' \in {"down", "up", "closing"}
            PROVE  created' = 1 /\ open' = {pool'} \ {None}
        <4>1. created = 0 /\ open = {}
          BY <2>1, <3>3, <3>5
        <4>2. created' = 1 /\ pool' = 1 /\ open' = {1} /\ 1 # None
          BY <3>1, <3>2, <4>1
        <4> QED BY <4>2
      <3>6. /\ at' \in [Users -> {"idle", "lock", "create", "use"}]
            /\ process' \in {"closed", "forgotten", "exited"} => \A u \in Requesters : at'[u] = "idle"
        BY <2>1 DEF PoolInv, Users
      <3> QED BY <2>1, <3>1, <3>2, <3>4, <3>5, <3>6 DEF PoolInv
    <2> QED BY <2>2, <2>3
  <1>5. ASSUME NEW t \in Users, Borrow(t) PROVE PoolInv'
    BY <1>5 DEF Borrow, Move, PoolInv, PoolTypeOK, Users
  <1>6. ASSUME ClosePool \/ ForgetPool PROVE PoolInv'
    BY <1>6 DEF ClosePool, ForgetPool, PoolInv, PoolTypeOK, Phases
  <1> QED BY <1>1, <1>2, <1>3, <1>4, <1>5, <1>6 DEF PoolNext, UsePool

-----------------------------------------------------------------------------
(* The theorems.                                                           *)

Inv == MigrationsInv /\ LocksInv /\ PoolInv

LEMMA Initially == Init => Inv
  <1> SUFFICES ASSUME Init PROVE Inv
    OBVIOUS
  <1>1. MigrationsInv
    <2>1. {} = 1..0 /\ "start" \in Stages /\ <<>> \in Seq(Nat) /\ Len(<<>>) = 0
      BY DEF Stages
    <2> QED BY <2>1 DEF Init, MigrationsInit, MigrationsInv
  <1>2. LocksInv
    BY DEF Init, MigrationsInit, LocksInv
  <1>3. PoolInv
    BY PoolAssumption DEF Init, PoolInit, PoolInv, PoolTypeOK, Phases, Users
  <1> QED BY <1>1, <1>2, <1>3 DEF Inv

LEMMA NextStep == Inv /\ [Next]_vars => Inv'
  <1> SUFFICES ASSUME Inv, [Next]_vars PROVE Inv'
    OBVIOUS
  <1>1. ASSUME UNCHANGED migrationVars PROVE MigrationsInv' /\ LocksInv'
    BY <1>1 DEF Inv, MigrationsInv, LocksInv, Pending, migrationVars
  <1>2. ASSUME UNCHANGED poolVars PROVE PoolInv'
    BY <1>2 DEF Inv, PoolInv, PoolTypeOK, poolVars
  <1>3. CASE \E d \in Deploys : Migrate(d) /\ UNCHANGED poolVars
    BY <1>2, <1>3, MigrateStep, LocksStep DEF Inv
  <1>4. CASE (StartApi \/ PoolNext) /\ UNCHANGED migrationVars
    BY <1>1, <1>4, PoolStep DEF Inv
  <1>5. CASE Rest \/ UNCHANGED vars
    BY <1>1, <1>2, <1>5 DEF Rest, vars, Inv
  <1> QED BY <1>3, <1>4, <1>5 DEF Next

LEMMA Invariant == Spec => []Inv
  BY Initially, NextStep, PTL DEF Spec

\* The stages, the lock, the new table, the pool and its lock have their types.
THEOREM TypeCorrect == Spec => []TypeOK
  <1>1. Inv => TypeOK
    BY DEF Inv, MigrationsInv, LocksInv, PoolInv, TypeOK, MigrationsTypeOK
  <1> QED BY <1>1, Invariant, PTL

\* However many deploys of whatever releases overlap, fail and are started
\* again, migrate.py applies every file once and in order, and a deploy that
\* reports success has left every file of its release applied.
THEOREM FilesAppliedInOrder == Spec => []EachFileOnceInOrder
  <1>1. Inv => EachFileOnceInOrder
    <2> SUFFICES ASSUME Inv PROVE EachFileOnceInOrder
      OBVIOUS
    <2>1. Applied = 1..Len(log) /\ Len(log) \in Nat
      BY AppliedPrefix DEF Inv
    <2>2. ASSUME NEW d \in Deploys, stage[d] = "done" PROVE 1..Files[d] \subseteq Applied
      <3>1. PICK m \in 0..Len(log) : known[d] = 1..m
        BY DEF Inv, MigrationsInv
      <3>2. 1..Files[d] \subseteq 1..m
        BY <2>2, <3>1 DEF Inv, MigrationsInv, Pending
      <3> QED BY <2>1, <3>1, <3>2
    <2> QED BY <2>2 DEF Inv, MigrationsInv, EachFileOnceInOrder
  <1> QED BY <1>1, Invariant, PTL

\* However many request threads find no pool at once, _connect creates one, and
\* a request's pool is open when it borrows from it.
THEOREM OnePoolCreated == Spec => []OnePool
  <1>1. Inv => OnePool
    <2> SUFFICES ASSUME Inv PROVE OnePool
      OBVIOUS
    <2>1. ASSUME NEW t \in Requesters, at[t] = "use" PROVE pool \in open
      <3>1. process \in {"up", "closing"}
        BY <2>1 DEF Inv, PoolInv, Phases, Users
      <3> QED BY <2>1, <3>1 DEF Inv, PoolInv, Users
    <2> QED BY <2>1 DEF Inv, PoolInv, OnePool
  <1> QED BY <1>1, Invariant, PTL

=============================================================================
