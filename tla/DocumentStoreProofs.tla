------------------------ MODULE DocumentStoreProofs ------------------------
(***************************************************************************)
(* Proofs about the versions of a document in PostgreSQL, for any number of *)
(* clients, users, groups, contents and uploads.                            *)
(***************************************************************************)
EXTENDS DocumentStore, TLAPS, WellFoundedInduction

-----------------------------------------------------------------------------
(* The highest version.                                                    *)

\* Numbers with an upper bound b have a greatest one: it is the one whose
\* distance from b is the least.
LEMMA Greatest ==
    ASSUME NEW S \in SUBSET Nat, S # {}, NEW b \in Nat, \A n \in S : n <= b
    PROVE  \E m \in S : \A n \in S : n <= m
  <1> DEFINE R == {ss \in Nat \X Nat : ss[1] < ss[2]}
             T == {k \in Nat : b - k \in S}
  <1>1. \A n \in S : n \in Nat /\ b - n \in Nat /\ b - (b - n) = n
    OBVIOUS
  <1>2. T \in SUBSET Nat /\ T # {}
    BY <1>1
  <1>3. IsWellFoundedOn(R, Nat)
    <2>1. R = OpToRel(<, Nat)
      BY DEF OpToRel
    <2> QED BY <2>1, NatLessThanWellFounded
  <1>4. PICK k \in T : \A l \in T : ~(<<l, k>> \in R)
    <2> HIDE DEF R, T
    <2> QED BY <1>2, <1>3, WFMin
  <1>5. b - k \in S /\ k \in Nat
    BY <1>4
  <1>6. ASSUME NEW n \in S PROVE n <= b - k
    <2>1. b - n \in T
      BY <1>1
    <2>2. ~(<<b - n, k>> \in R) /\ b - n \in Nat
      BY <1>4, <2>1
    <2>3. ~(b - n < k)
      BY <1>5, <2>2
    <2> QED BY <1>1, <1>5, <2>2, <2>3
  <1> QED BY <1>5, <1>6

\* Versions do not grow without a bound, whatever many there are.
Bounded == \E b \in Nat : \A c \in Contents : row[c].version <= b

LEMMA MaxVersionIsHighest ==
    ASSUME TypeOK, Bounded, NEW S \in SUBSET Contents
    PROVE  MaxVersion(S) \in Nat /\ \A c \in S : row[c].version <= MaxVersion(S)
  <1> DEFINE V == {row[c].version : c \in S}
  <1>1. \A c \in S : row[c].version \in Nat
    BY DEF TypeOK, Row
  <1>2. CASE S = {}
    BY <1>2 DEF MaxVersion
  <1>3. CASE S # {}
    <2>1. PICK b \in Nat : \A c \in Contents : row[c].version <= b
      BY DEF Bounded
    <2>2. V \in SUBSET Nat /\ V # {} /\ \A n \in V : n <= b
      BY <1>1, <1>3, <2>1
    <2>3. \E m \in V : \A n \in V : n <= m
      <3> HIDE DEF V
      <3> QED BY <2>2, Greatest
    <2>4. \E m \in V : \A c \in S : row[c].version <= m
      BY <2>3
    <2>5. MaxVersion(S) = CHOOSE m \in V : \A c \in S : row[c].version <= m
      BY <1>3 DEF MaxVersion
    <2>6. MaxVersion(S) \in V /\ \A c \in S : row[c].version <= MaxVersion(S)
      BY <2>4, <2>5
    <2> QED BY <1>1, <2>6
  <1> QED BY <1>2, <1>3

-----------------------------------------------------------------------------
(* The invariant.                                                          *)

Places == {"idle", "check", "begun", "locked", "written", "find", "found"}

\* What a request brings along from place to place.
TaskOK(place, t) ==
    /\ place \in {"check", "begun", "locked", "written"} => t.name \in Names
    /\ place \in {"check", "begun"} /\ ~t.inherits => t.acl \in Acls
    /\ place \in {"locked", "written"} => t.acl \in Acls

\* The versions that the user of task t can see, but for its content.
Seen(t) == {c \in Contents \ {t.content} : Exists(c) /\ Visible(t.user, c)}

\* What a transaction has written fits the committed rows until it commits.
WrittenOK(t) ==
    /\ ~Ready(t.content)
    /\ t.inserted = ~Exists(t.content)
    /\ t.supersede = {c \in Seen(t) : Ready(c)}
    /\ t.version \in Nat /\ t.version > 0
    /\ \A c \in Seen(t) : row[c].version < t.version

Locking == {"locked", "written"}

Inv ==
    /\ TypeOK
    /\ Bounded
    /\ \A k \in Clients : TaskOK(pc[k], task[k])
    /\ \A k, l \in Clients : pc[k] \in Locking /\ pc[l] \in Locking => k = l
    /\ \A k \in Clients : pc[k] = "written" => WrittenOK(task[k])

\* A step of client k that changes no row.
LEMMA Moved ==
    ASSUME Inv, NEW k \in Clients, NEW place \in Places, NEW t \in Task \cup {NULL},
           pc' = [pc EXCEPT ![k] = place], task' = [task EXCEPT ![k] = t],
           UNCHANGED row, uploads' \in 0..MaxUploads,
           place # "idle" => t \in Task, TaskOK(place, t),
           place \in Locking => pc[k] = "locked" \/ ~LockHeld,
           place = "written" => WrittenOK(t)
    PROVE  Inv'
  <1>1. /\ pc'[k] = place /\ task'[k] = t
        /\ \A l \in Clients \ {k} : pc'[l] = pc[l] /\ task'[l] = task[l]
    BY DEF Inv, TypeOK
  <1>2. TypeOK'
    BY <1>1 DEF Inv, TypeOK, Places
  <1>3. Bounded'
    BY DEF Inv, Bounded
  <1>4. \A l \in Clients : TaskOK(pc'[l], task'[l])
    BY <1>1 DEF Inv
  <1>5. \A l, m \in Clients : pc'[l] \in Locking /\ pc'[m] \in Locking => l = m
    BY <1>1 DEF Inv, LockHeld, Locking
  <1>6. \A l \in Clients : pc'[l] = "written" => WrittenOK(task[l])'
    <2> TAKE l \in Clients
    <2> HAVE pc'[l] = "written"
    <2>1. CASE l = k
      BY <1>1, <2>1 DEF WrittenOK, Seen, Ready, Exists, Visible
    <2>2. CASE l # k
      BY <1>1, <2>2 DEF Inv, WrittenOK, Seen, Ready, Exists, Visible
    <2> QED BY <2>1, <2>2
  <1> QED BY <1>2, <1>3, <1>4, <1>5, <1>6 DEF Inv, TaskOK

\* A step of client k that changes rows while no other transaction has written.
LEMMA RowsChanged ==
    ASSUME Inv, NEW k \in Clients, Done(k), UNCHANGED uploads,
           row' \in [Contents -> Row], Bounded', \A l \in Clients \ {k} : pc[l] # "written"
    PROVE  Inv'
  <1>1. /\ pc'[k] = "idle" /\ task'[k] = NULL
        /\ \A l \in Clients \ {k} : pc'[l] = pc[l] /\ task'[l] = task[l]
    BY DEF Inv, TypeOK, Done
  <1>2. TypeOK'
    <2>1. pc' \in [Clients -> Places] /\ task' \in [Clients -> Task \cup {NULL}]
      BY DEF Inv, TypeOK, Done, Places
    <2> QED BY <1>1, <2>1 DEF Inv, TypeOK, Places
  <1>3. \A l \in Clients : TaskOK(pc'[l], task'[l])
    BY <1>1 DEF Inv, TaskOK
  <1>4. \A l, m \in Clients : pc'[l] \in Locking /\ pc'[m] \in Locking => l = m
    BY <1>1 DEF Inv, Locking
  <1>5. \A l \in Clients : pc'[l] # "written"
    BY <1>1
  <1> QED BY <1>2, <1>3, <1>4, <1>5 DEF Inv, TaskOK

-----------------------------------------------------------------------------
(* One step.                                                               *)

LEMMA StartStep ==
    ASSUME Inv, NEW k \in Clients, NEW u \in Users, NEW c \in Contents, NEW a \in Acls \cup {NULL},
           NEW n \in Names \cup {NULL},
           (n \in Names /\ Upload(k, u, c, a, n)) \/ Patch(k, u, c, a, n)
    PROVE  Inv'
  <1>1. NewTask(u, c, a, n) \in Task
    BY DEF NewTask, Task
  <1>2. n \in Names => TaskOK("check", NewTask(u, c, a, n))
    BY DEF NewTask, TaskOK
  <1>3. TaskOK("find", NewTask(u, c, a, n))
    BY DEF TaskOK
  <1>4. CASE n \in Names /\ Upload(k, u, c, a, n)
    <2>1. uploads' \in 0..MaxUploads
      BY <1>4, StoreAssumption DEF Upload, Inv, TypeOK
    <2> QED BY <1>1, <1>2, <1>4, <2>1, Moved DEF Upload, Places, Locking
  <1>5. CASE Patch(k, u, c, a, n)
    <2>1. uploads' \in 0..MaxUploads
      BY <1>5 DEF Patch, Inv, TypeOK
    <2> QED BY <1>1, <1>3, <1>5, <2>1, Moved DEF Patch, Places, Locking
  <1> QED BY <1>4, <1>5

LEMMA DoneStep ==
    ASSUME Inv, NEW k \in Clients, Done(k), UNCHANGED <<row, uploads>>
    PROVE  Inv'
  <1>1. TaskOK("idle", NULL)
    BY DEF TaskOK
  <1>2. uploads' \in 0..MaxUploads
    BY DEF Inv, TypeOK
  <1> QED BY <1>1, <1>2, Moved DEF Done, Places, Locking

\* The steps before a transaction writes, and those that only read.
LEMMA ReadStep ==
    ASSUME Inv, NEW k \in Clients,
           Unchanged(k) \/ Changed(k) \/ Lock(k) \/ AlreadyExists(k) \/ Fail(k) \/ Find(k)
    PROVE  Inv'
  <1>0. /\ uploads' \in 0..MaxUploads /\ UNCHANGED <<row, uploads>>
        /\ uploads \in Nat
    BY StoreAssumption DEF Inv, TypeOK, Unchanged, Changed, Lock, AlreadyExists, Fail, Find
  <1>1. ASSUME pc[k] # "idle" PROVE task[k] \in Task /\ TaskOK(pc[k], task[k])
    BY <1>1 DEF Inv, TypeOK
  <1>2. CASE Unchanged(k) /\ ~Done(k)
    <2>1. pc[k] = "check" /\ pc' = [pc EXCEPT ![k] = "find"] /\ task' = [task EXCEPT ![k].acl = NULL]
      BY <1>2 DEF Unchanged
    <2> DEFINE t == [task[k] EXCEPT !.acl = NULL]
    <2>2. t \in Task /\ TaskOK("find", t) /\ task' = [task EXCEPT ![k] = t]
      BY <1>1, <2>1 DEF Task, TaskOK
    <2> HIDE DEF t
    <2> QED BY <1>0, <2>1, <2>2, Moved DEF Places, Locking
  <1>3. CASE Changed(k)
    <2>1. pc[k] = "check" /\ pc' = [pc EXCEPT ![k] = "begun"] /\ task' = [task EXCEPT ![k].created = uploads]
      BY <1>3 DEF Changed
    <2> DEFINE t == [task[k] EXCEPT !.created = uploads]
    <2>2. t \in Task /\ TaskOK("begun", t) /\ task' = [task EXCEPT ![k] = t]
      BY <1>0, <1>1, <2>1 DEF Task, TaskOK
    <2> HIDE DEF t
    <2> QED BY <1>0, <2>1, <2>2, Moved DEF Places, Locking
  <1>4. CASE Lock(k)
    <2>1. PICK a \in IF task[k].inherits THEN InheritedAcl(task[k].user) ELSE {task[k].acl} :
              task' = [task EXCEPT ![k].acl = a]
      BY <1>4 DEF Lock
    <2>2. pc[k] = "begun" /\ ~LockHeld /\ pc' = [pc EXCEPT ![k] = "locked"]
      BY <1>4 DEF Lock
    <2>3. a \in Acls
      <3>1. CASE task[k].inherits
        BY <2>1, <3>1, StoreAssumption DEF InheritedAcl, InheritFrom, Inv, TypeOK, Row
      <3>2. CASE ~task[k].inherits
        BY <1>1, <2>1, <2>2, <3>2 DEF TaskOK
      <3> QED BY <3>1, <3>2
    <2> DEFINE t == [task[k] EXCEPT !.acl = a]
    <2>4. t \in Task /\ TaskOK("locked", t) /\ task' = [task EXCEPT ![k] = t]
      BY <1>1, <2>1, <2>2, <2>3 DEF Task, TaskOK
    <2> HIDE DEF t
    <2> QED BY <1>0, <2>2, <2>4, Moved DEF Places, Locking
  <1>5. CASE Find(k) /\ ~Done(k)
    <2>1. pc[k] = "find" /\ pc' = [pc EXCEPT ![k] = "found"] /\ task' = task
      BY <1>5 DEF Find
    <2>2. task[k] \in Task /\ TaskOK("found", task[k]) /\ task' = [task EXCEPT ![k] = task[k]]
      BY <1>1, <2>1 DEF TaskOK, Inv, TypeOK
    <2> QED BY <1>0, <2>1, <2>2, Moved DEF Places, Locking
  <1>6. CASE Done(k)
    BY <1>0, <1>6, DoneStep
  <1> QED BY <1>2, <1>3, <1>4, <1>5, <1>6 DEF AlreadyExists, Fail

\* What the transaction writes is right for the rows at this moment.
LEMMA WriteStep ==
    ASSUME Inv, NEW k \in Clients, Write(k)
    PROVE  Inv'
  <1> DEFINE others == Seen(task[k])
             t == [task[k] EXCEPT !.inserted = ~Exists(task[k].content),
                                  !.supersede = {c \in others : Ready(c)},
                                  !.version = MaxVersion(others) + 1]
  <1>1. /\ pc[k] = "locked" /\ ~Ready(task[k].content)
        /\ task' = [task EXCEPT ![k] = t] /\ pc' = [pc EXCEPT ![k] = "written"]
        /\ UNCHANGED <<row, uploads>>
    BY DEF Write, Seen
  <1>2. task[k] \in Task /\ TaskOK("locked", task[k])
    BY <1>1 DEF Inv, TypeOK
  <1>3. others \in SUBSET Contents
    BY DEF Seen
  <1>4. MaxVersion(others) \in Nat /\ \A c \in others : row[c].version <= MaxVersion(others)
    <2> HIDE DEF others
    <2> QED BY <1>3, MaxVersionIsHighest DEF Inv
  <1>5. t \in Task
    <2>1. (~Exists(task[k].content)) \in BOOLEAN
      BY DEF Exists
    <2>2. {c \in others : Ready(c)} \in SUBSET Contents
      BY <1>3
    <2>3. MaxVersion(others) + 1 \in Nat
      BY <1>4
    <2> HIDE DEF others
    <2> QED BY <1>2, <2>1, <2>2, <2>3 DEF Task
  <1>6. /\ t.content = task[k].content /\ t.user = task[k].user /\ t.name = task[k].name
        /\ t.acl = task[k].acl
        /\ t.inserted = ~Exists(task[k].content) /\ t.supersede = {c \in others : Ready(c)}
        /\ t.version = MaxVersion(others) + 1
    BY <1>2 DEF Task
  <1>7. TaskOK("written", t)
    BY <1>2, <1>6 DEF TaskOK
  <1>8. Seen(t) = others
    BY <1>6 DEF Seen
  <1>9. WrittenOK(t)
    <2>1. \A c \in others : row[c].version \in Nat
      BY <1>3 DEF Inv, TypeOK, Row
    <2> HIDE DEF t, others
    <2> QED BY <1>1, <1>4, <1>6, <1>8, <2>1 DEF WrittenOK
  <1>10. uploads' \in 0..MaxUploads
    BY <1>1 DEF Inv, TypeOK
  <1> HIDE DEF t
  <1> QED BY <1>1, <1>5, <1>7, <1>9, <1>10, Moved DEF Places, Locking

LEMMA CommitStep ==
    ASSUME Inv, NEW k \in Clients, Commit(k)
    PROVE  Inv'
  <1> DEFINE t == task[k]
  <1>1. /\ pc[k] = "written" /\ row' = [c \in Contents |-> Stored(t, c)] /\ Done(k)
        /\ UNCHANGED uploads
    BY DEF Commit
  <1>2. t \in Task /\ TaskOK("written", t) /\ WrittenOK(t)
    BY <1>1 DEF Inv, TypeOK
  <1>3. ASSUME NEW c \in Contents PROVE Stored(t, c) \in Row
    <2>1. row[c] \in Row
      BY DEF Inv, TypeOK
    <2>2. CASE c = t.content
      BY <1>2, <2>1, <2>2 DEF Stored, TaskOK, Row, Task
    <2>3. CASE c # t.content
      BY <2>1, <2>3 DEF Stored, Row
    <2> QED BY <2>2, <2>3
  <1>4. Bounded'
    <2>1. PICK b \in Nat : \A c \in Contents : row[c].version <= b
      BY DEF Inv, Bounded
    <2>2. t.version \in Nat
      BY <1>2 DEF Task
    <2>3. ASSUME NEW c \in Contents PROVE row'[c].version <= b + t.version
      <3>1. row[c] \in Row
        BY DEF Inv, TypeOK
      <3>2. Stored(t, c).version \in {t.version, row[c].version}
        BY <3>1 DEF Stored, Row
      <3>3. row[c].version \in Nat
        BY <3>1 DEF Row
      <3> QED BY <1>1, <2>1, <2>2, <3>2, <3>3
    <2> QED BY <2>2, <2>3 DEF Bounded
  <1>5. \A l \in Clients \ {k} : pc[l] # "written"
    BY <1>1 DEF Inv, Locking
  <1> HIDE DEF t
  <1> QED BY <1>1, <1>3, <1>4, <1>5, RowsChanged

LEMMA UpdateStep ==
    ASSUME Inv, NEW k \in Clients, Update(k)
    PROVE  Inv'
  <1>1. /\ pc[k] = "found" /\ ~LockHeld /\ Done(k) /\ UNCHANGED uploads
        /\ row' = [c \in Contents |->
                       IF Exists(c) /\ Visible(task[k].user, c)
                       THEN [row[c] EXCEPT !.acl = Coalesce(task[k].acl, @),
                                           !.name = Coalesce(task[k].name, @)]
                       ELSE row[c]]
    BY DEF Update
  <1>2. task[k] \in Task
    BY <1>1 DEF Inv, TypeOK
  <1>3. ASSUME NEW c \in Contents
        PROVE  row'[c] \in Row /\ row'[c].version = row[c].version
    <2>1. row[c] \in Row
      BY DEF Inv, TypeOK
    <2> QED BY <1>1, <1>2, <2>1 DEF Row, Task, Coalesce
  <1>4. row' \in [Contents -> Row] /\ Bounded'
    <2>1. row' \in [Contents -> Row]
      BY <1>1, <1>3
    <2>2. Bounded'
      BY <1>3 DEF Inv, Bounded
    <2> QED BY <2>1, <2>2
  <1>5. \A l \in Clients \ {k} : pc[l] # "written"
    BY <1>1 DEF LockHeld
  <1> QED BY <1>1, <1>4, <1>5, RowsChanged

\* A row that is not locked matters to no transaction that has written.
LEMMA DeleteStep ==
    ASSUME Inv, NEW u \in Users, NEW c \in Contents, Delete(u, c)
    PROVE  Inv'
  <1>1. /\ ~RowLocked(c) /\ row' = [row EXCEPT ![c] = Absent]
        /\ UNCHANGED <<pc, task, uploads>>
    BY DEF Delete
  <1>2. Absent \in Row /\ row'[c] = Absent /\ \A d \in Contents \ {c} : row'[d] = row[d]
    BY <1>1, StoreAssumption DEF Absent, Row, Inv, TypeOK
  <1>3. TypeOK'
    BY <1>1, <1>2 DEF Inv, TypeOK
  <1>4. Bounded'
    BY <1>2 DEF Inv, Bounded, Absent
  <1>5. ASSUME NEW k \in Clients, pc[k] = "written" PROVE WrittenOK(task[k])'
    <2> DEFINE t == task[k]
    <2>1. WrittenOK(t) /\ t.content # c /\ c \notin t.supersede /\ t.content \in Contents
      BY <1>1, <1>5 DEF Inv, RowLocked, TypeOK, Task
    <2>2. Seen(t)' = Seen(t) \ {c} /\ t' = t
      BY <1>1, <1>2 DEF Seen, Exists, Visible, Absent
    <2>3. {d \in Seen(t)' : Ready(d)'} = {d \in Seen(t) : Ready(d)}
      BY <1>2, <2>1, <2>2 DEF WrittenOK, Ready, Seen
    <2>4. Ready(t.content)' = Ready(t.content) /\ Exists(t.content)' = Exists(t.content)
      BY <1>1, <1>2, <2>1 DEF Ready, Exists
    <2>5. \A d \in Seen(t)' : row'[d].version < t.version
      BY <1>2, <2>1, <2>2 DEF WrittenOK, Seen
    <2> QED BY <2>1, <2>2, <2>3, <2>4, <2>5 DEF WrittenOK
  <1> QED BY <1>1, <1>3, <1>4, <1>5 DEF Inv, TaskOK

LEMMA NextStep == Inv /\ [Next]_vars => Inv'
  <1> SUFFICES ASSUME Inv, [Next]_vars PROVE Inv'
    OBVIOUS
  <1>1. CASE UNCHANGED vars
    BY <1>1 DEF vars, Inv, TypeOK, Bounded, TaskOK, WrittenOK, Seen, Exists, Ready, Visible
  <1>2. ASSUME NEW k \in Clients, NEW u \in Users, NEW c \in Contents, NEW a \in Acls \cup {NULL},
               NEW n \in Names, Upload(k, u, c, a, n)
        PROVE  Inv'
    BY <1>2, StartStep
  <1>3. ASSUME NEW k \in Clients, NEW u \in Users, NEW c \in Contents, NEW a \in Acls \cup {NULL},
               NEW n \in Names \cup {NULL}, Patch(k, u, c, a, n)
        PROVE  Inv'
    BY <1>3, StartStep
  <1> QED BY <1>1, <1>2, <1>3, ReadStep, WriteStep, CommitStep, UpdateStep, DeleteStep DEF Next

LEMMA Initially == Init => Inv
  <1> SUFFICES ASSUME Init PROVE Inv
    OBVIOUS
  <1>1. Absent \in Row /\ Absent.version = 0
    BY StoreAssumption DEF Absent, Row
  <1>2. TypeOK
    BY <1>1, StoreAssumption DEF Init, TypeOK
  <1>3. Bounded
    BY <1>1 DEF Init, Bounded
  <1> QED BY <1>2, <1>3 DEF Init, Inv, TaskOK, Locking

LEMMA Invariant == Spec => []Inv
  BY Initially, NextStep, PTL DEF Spec

\* Rows and tasks keep their types; versions stay natural numbers.
THEOREM TypeCorrect == Spec => []TypeOK
  <1>1. Inv => TypeOK
    BY DEF Inv
  <1> QED BY <1>1, Invariant, PTL

-----------------------------------------------------------------------------
(* What a step does to the rows.                                           *)

\* Rows change when an upload commits, and by PATCH and DELETE.
LEMMA RowSteps ==
    ASSUME [Next]_vars
    PROVE  \/ UNCHANGED row
           \/ \E k \in Clients : Commit(k) \/ Update(k)
           \/ \E u \in Users, c \in Contents : Delete(u, c)
  BY DEF Next, vars, Upload, Patch, Unchanged, Changed, Lock, AlreadyExists, Write, Fail, Find

LEMMA CommitRows ==
    ASSUME Inv, NEW k \in Clients, Commit(k)
    PROVE  /\ task[k] \in Task /\ task[k].name \in Names /\ task[k].acl \in Acls
           /\ task[k].content \in Contents /\ task[k].user \in Users
           /\ WrittenOK(task[k])
           /\ LET new == row'[task[k].content]
              IN  /\ new.status = "ready" /\ new.version = task[k].version /\ new.name = task[k].name
                  /\ new.acl = IF Exists(task[k].content) THEN row[task[k].content].acl ELSE task[k].acl
           /\ \A c \in Contents \ {task[k].content} :
                  row'[c] = IF c \in Seen(task[k]) /\ Ready(c)
                            THEN [row[c] EXCEPT !.status = "superseded"] ELSE row[c]
  <1>1. pc[k] = "written" /\ row' = [c \in Contents |-> Stored(task[k], c)]
    BY DEF Commit
  <1>2. task[k] \in Task /\ TaskOK("written", task[k]) /\ WrittenOK(task[k])
    BY <1>1 DEF Inv, TypeOK
  <1>3. task[k].content \in Contents /\ task[k].user \in Users
    BY <1>2 DEF Task
  <1> QED BY <1>1, <1>2, <1>3 DEF Stored, WrittenOK, TaskOK

LEMMA UpdateRows ==
    ASSUME Inv, NEW k \in Clients, Update(k), NEW c \in Contents
    PROVE  /\ row'[c].status = row[c].status /\ row'[c].version = row[c].version
           /\ ~Visible(task[k].user, c) => row'[c] = row[c]
  <1>1. row[c] \in Row
    BY DEF Inv, TypeOK
  <1> QED BY <1>1 DEF Update, Row

\* A failed upload, a PATCH or an upload that supersedes never leaves a document
\* without the current version that it had; only DELETE can.
THEOREM CurrentKept == Spec => CurrentIsKept
  <1>1. ASSUME Inv, [Next]_vars, NEW d \in Contents, Ready(d),
               \A c \in Contents : Exists(c) => Exists(c)'
        PROVE  \E c \in Contents : Ready(c)'
    <2>1. CASE UNCHANGED row
      BY <1>1, <2>1 DEF Ready
    <2>2. ASSUME NEW k \in Clients, Commit(k) PROVE \E c \in Contents : Ready(c)'
      <3>1. task[k].content \in Contents /\ row'[task[k].content].status = "ready"
        BY <1>1, <2>2, CommitRows
      <3> QED BY <3>1 DEF Ready
    <2>3. ASSUME NEW k \in Clients, Update(k) PROVE \E c \in Contents : Ready(c)'
      BY <1>1, <2>3, UpdateRows DEF Ready
    <2>4. ASSUME NEW u \in Users, NEW c \in Contents, Delete(u, c) PROVE FALSE
      BY <1>1, <2>4 DEF Delete, Exists, Absent, Inv, TypeOK
    <2> QED BY <1>1, <2>1, <2>2, <2>3, <2>4, RowSteps
  <1>2. Inv /\ [Next]_vars =>
            [(\E c \in Contents : Ready(c)) /\ (\A c \in Contents : Exists(c) => Exists(c)')
                 => \E c \in Contents : Ready(c)']_vars
    BY <1>1
  <1> QED BY <1>2, Invariant, PTL DEF Spec, CurrentIsKept

\* Whatever groups callers belong to, an upload or a PATCH never changes a
\* current version that its user may not read.
THEOREM HiddenStand == Spec => HiddenVersionsStand
  <1>1. ASSUME Inv, [Next]_vars, NEW k \in Clients, pc'[k] # pc[k], NEW c \in Contents, Ready(c)
        PROVE  Visible(task[k].user, c) \/ row'[c] = row[c]
    <2>1. ASSUME NEW l \in Clients, Commit(l) \/ Update(l) PROVE l = k
      BY <1>1, <2>1 DEF Commit, Update, Done, Inv, TypeOK
    <2>2. CASE Commit(k)
      <3>1. c # task[k].content
        BY <1>1, <2>2, CommitRows DEF WrittenOK
      <3> QED BY <1>1, <2>2, <3>1, CommitRows DEF Seen
    <2>3. CASE Update(k)
      BY <1>1, <2>3, UpdateRows
    <2>4. ASSUME NEW u \in Users, NEW d \in Contents, Delete(u, d) PROVE FALSE
      BY <1>1, <2>4 DEF Delete
    <2> QED BY <1>1, <2>1, <2>2, <2>3, <2>4, RowSteps
  <1>2. Inv /\ [Next]_vars =>
            [\A k \in Clients : pc'[k] # pc[k] =>
                 \A c \in Contents : Ready(c) /\ task[k] # NULL =>
                     Visible(task[k].user, c) \/ row'[c] = row[c]]_vars
    BY <1>1
  <1> QED BY <1>2, Invariant, PTL DEF Spec, HiddenVersionsStand

-----------------------------------------------------------------------------
(* Documents without restrictions.                                         *)

LEMMA NewestStep ==
    ASSUME Acls = {{}}
    PROVE  Inv /\ CurrentIsNewest /\ [Next]_vars => CurrentIsNewest'
  <1> SUFFICES ASSUME Inv, CurrentIsNewest, [Next]_vars,
                      NEW c \in Contents, NEW d \in Contents, Exists(c)', Exists(d)', c # d
               PROVE  /\ row'[c].version # row'[d].version
                      /\ Ready(c)' => row'[c].version > row'[d].version
    BY DEF CurrentIsNewest
  <1>0. \A e \in Contents : /\ row[e] \in Row /\ row[e].acl = {} /\ row[e].version \in Nat
                            /\ \A u \in Users : Visible(u, e)
    BY DEF Inv, TypeOK, Row, Visible
  <1>1. Exists(c) /\ Exists(d) => /\ row[c].version # row[d].version
                                  /\ Ready(c) => row[c].version > row[d].version
                                  /\ Ready(d) => row[d].version > row[c].version
    BY DEF CurrentIsNewest
  <1>2. CASE UNCHANGED row
    BY <1>1, <1>2 DEF Exists, Ready
  <1>3. ASSUME NEW k \in Clients, Commit(k)
        PROVE  /\ row'[c].version # row'[d].version
               /\ Ready(c)' => row'[c].version > row'[d].version
    <2> DEFINE t == task[k]
    <2>1. t \in Task /\ WrittenOK(t) /\ row'[t.content].version = t.version
      BY <1>3, CommitRows
    <2>2. t.content \in Contents /\ t.user \in Users /\ t.version \in Nat
      BY <2>1 DEF Task
    <2>3. ASSUME NEW e \in Contents \ {t.content}, Exists(e)'
          PROVE  /\ Exists(e) /\ row'[e].version = row[e].version
                 /\ row[e].version < t.version /\ ~Ready(e)'
      <3>1. row'[e] = IF e \in Seen(t) /\ Ready(e) THEN [row[e] EXCEPT !.status = "superseded"] ELSE row[e]
        BY <1>3, <2>3, CommitRows
      <3>2. Exists(e)
        BY <1>0, <2>3, <3>1 DEF Exists, Ready, Row
      <3>3. e \in Seen(t)
        BY <1>0, <2>2, <2>3, <3>2 DEF Seen
      <3> QED BY <1>0, <2>1, <3>1, <3>2, <3>3 DEF WrittenOK, Ready, Row
    <2> HIDE DEF t
    <2>4. CASE c = t.content
      BY <1>0, <2>1, <2>2, <2>3, <2>4
    <2>5. CASE d = t.content
      BY <1>0, <2>1, <2>2, <2>3, <2>5
    <2>6. CASE c # t.content /\ d # t.content
      BY <1>1, <2>3, <2>6
    <2> QED BY <2>4, <2>5, <2>6
  <1>4. ASSUME NEW k \in Clients, Update(k)
        PROVE  /\ row'[c].version # row'[d].version
               /\ Ready(c)' => row'[c].version > row'[d].version
    BY <1>1, <1>4, UpdateRows DEF Exists, Ready
  <1>5. ASSUME NEW u \in Users, NEW e \in Contents, Delete(u, e)
        PROVE  /\ row'[c].version # row'[d].version
               /\ Ready(c)' => row'[c].version > row'[d].version
    <2>1. e # c /\ e # d
      BY <1>5 DEF Delete, Exists, Absent, Inv, TypeOK
    <2>2. row'[c] = row[c] /\ row'[d] = row[d]
      BY <1>5, <2>1 DEF Delete, Inv, TypeOK
    <2> QED BY <1>1, <2>2 DEF Exists, Ready
  <1> QED BY <1>2, <1>3, <1>4, <1>5, RowSteps

\* Where no upload or PATCH restricts the document, two versions never have the
\* same number, and at most one is current: the newest.  (Callers who cannot see
\* each other's versions number theirs independently.)
THEOREM CurrentNewest == ASSUME Acls = {{}} PROVE Spec => []CurrentIsNewest
  <1>1. Init => CurrentIsNewest
    BY DEF Init, CurrentIsNewest, Exists, Absent
  <1> QED BY <1>1, NewestStep, Invariant, PTL DEF Spec

-----------------------------------------------------------------------------
(* Refinement.                                                             *)

\* Every step of the store is one of the contract's three, or changes nothing
\* that the contract sees.
LEMMA ContractStep ==
    Inv /\ [Next]_vars =>
        [Contract!Next]_([c \in Contents |-> [status |-> row[c].status, version |-> row[c].version,
                                             acl |-> row[c].acl, name |-> row[c].name]])
  <1> DEFINE abs == [c \in Contents |-> [status |-> row[c].status, version |-> row[c].version,
                                        acl |-> row[c].acl, name |-> row[c].name]]
  <1> SUFFICES ASSUME Inv, [Next]_vars PROVE Contract!Next \/ UNCHANGED abs
    OBVIOUS
  <1>0. \A c \in Contents : /\ row[c] \in Row /\ row'[c] \in Row
                            /\ Contract!Exists(c) <=> Exists(c)
                            /\ Contract!Ready(c) <=> Ready(c)
                            /\ \A u \in Users : Contract!Visible(u, c) <=> Visible(u, c)
    BY NextStep DEF Inv, TypeOK, Contract!Exists, Contract!Ready, Contract!Visible, Exists, Ready,
                    Visible
  <1>1. CASE UNCHANGED row
    BY <1>1
  <1>2. ASSUME NEW k \in Clients, Commit(k) PROVE Contract!Next
    <2> DEFINE t == task[k]
               seen == {d \in Contents \ {t.content} : Contract!Exists(d) /\ Contract!Visible(t.user, d)}
    <2>1. t \in Task /\ t.name \in Names /\ t.acl \in Acls /\ WrittenOK(t)
      BY <1>2, CommitRows
    <2>2. t.content \in Contents /\ t.user \in Users
      BY <2>1 DEF Task
    <2>3. seen = Seen(t)
      BY <1>0, <2>2 DEF Seen
    <2>4. /\ abs'[t.content].status = "ready" /\ abs'[t.content].name \in Names
          /\ abs'[t.content].acl \in IF Contract!Exists(t.content) THEN {abs[t.content].acl} ELSE Acls
          /\ abs'[t.content].version = t.version
      BY <1>0, <1>2, <2>1, <2>2, CommitRows
    <2>5. \A d \in seen : abs[d].version < t.version
      BY <2>1, <2>3 DEF WrittenOK, Seen
    <2>6. ASSUME NEW d \in Contents \ {t.content}
          PROVE  abs'[d] = IF d \in seen /\ Contract!Ready(d)
                           THEN [abs[d] EXCEPT !.status = "superseded"] ELSE abs[d]
      <3>1. row'[d] = IF d \in Seen(t) /\ Ready(d) THEN [row[d] EXCEPT !.status = "superseded"] ELSE row[d]
        BY <1>2, <2>6, CommitRows
      <3>2. row[d] \in Row /\ (Contract!Ready(d) <=> Ready(d))
        BY <1>0
      <3>3. CASE d \in Seen(t) /\ Ready(d)
        <4>1. /\ row'[d].status = "superseded" /\ row'[d].version = row[d].version
              /\ row'[d].acl = row[d].acl /\ row'[d].name = row[d].name
          BY <3>1, <3>2, <3>3 DEF Row
        <4> QED BY <2>3, <3>2, <3>3, <4>1
      <3>4. CASE ~(d \in Seen(t) /\ Ready(d))
        BY <2>3, <3>1, <3>2, <3>4
      <3> QED BY <3>3, <3>4
    <2>p. PICK u \in Users, c \in Contents : u = t.user /\ c = t.content
      BY <2>2
    <2>7. Contract!Persist(u, c)
      <3>1. ~Contract!Ready(t.content) /\ t.version \in Nat /\ t.version > 0
        BY <1>0, <2>1, <2>2 DEF WrittenOK
      <3>2. abs' = [d \in Contents |-> IF d = t.content THEN abs'[t.content]
                                       ELSE IF d \in seen /\ Contract!Ready(d)
                                       THEN [abs[d] EXCEPT !.status = "superseded"] ELSE abs[d]]
        BY <2>2, <2>6
      <3> QED BY <2>p, <2>4, <2>5, <3>1, <3>2 DEF Contract!Persist
    <2> QED BY <2>7 DEF Contract!Next
  <1>3. ASSUME NEW k \in Clients, Update(k) PROVE Contract!Next
    <2>1. task[k] \in Task
      BY <1>3 DEF Update, Inv, TypeOK
    <2>2. /\ task[k].user \in Users /\ task[k].acl \in Acls \cup {NULL}
          /\ task[k].name \in Names \cup {NULL}
      BY <2>1 DEF Task
    <2>3. ASSUME NEW c \in Contents
          PROVE  abs'[c] = IF Contract!Exists(c) /\ Contract!Visible(task[k].user, c)
                           THEN [abs[c] EXCEPT !.acl = IF task[k].acl = NULL THEN @ ELSE task[k].acl,
                                               !.name = IF task[k].name = NULL THEN @ ELSE task[k].name]
                           ELSE abs[c]
      <3>1. row'[c] = IF Exists(c) /\ Visible(task[k].user, c)
                      THEN [row[c] EXCEPT !.acl = Coalesce(task[k].acl, @),
                                          !.name = Coalesce(task[k].name, @)]
                      ELSE row[c]
        BY <1>3 DEF Update
      <3>2. row[c] \in Row /\ (Contract!Exists(c) <=> Exists(c))
            /\ (Contract!Visible(task[k].user, c) <=> Visible(task[k].user, c))
        BY <1>0, <2>2
      <3>3. CASE Exists(c) /\ Visible(task[k].user, c)
        <4>1. /\ row'[c].status = row[c].status /\ row'[c].version = row[c].version
              /\ row'[c].acl = Coalesce(task[k].acl, row[c].acl)
              /\ row'[c].name = Coalesce(task[k].name, row[c].name)
          BY <3>1, <3>2, <3>3 DEF Row
        <4> QED BY <3>2, <3>3, <4>1 DEF Coalesce
      <3>4. CASE ~(Exists(c) /\ Visible(task[k].user, c))
        BY <3>1, <3>2, <3>4
      <3> QED BY <3>3, <3>4
    <2>p. PICK u \in Users, a \in Acls \cup {NULL}, n \in Names \cup {NULL} :
              u = task[k].user /\ a = task[k].acl /\ n = task[k].name
      BY <2>2
    <2>4. Contract!Update(u, a, n)
      BY <2>p, <2>3 DEF Contract!Update
    <2> QED BY <2>4 DEF Contract!Next
  <1>4. ASSUME NEW u \in Users, NEW c \in Contents, Delete(u, c) PROVE Contract!Next
    <2>1. Contract!Exists(c) /\ Contract!Visible(u, c)
      BY <1>0, <1>4 DEF Delete
    <2>2. row'[c] = Absent /\ \A d \in Contents \ {c} : row'[d] = row[d]
      BY <1>4 DEF Delete, Inv, TypeOK
    <2>3. abs' = [abs EXCEPT ![c] = Contract!Absent]
      <3>1. abs'[c] = Contract!Absent
        BY <2>2 DEF Absent, Contract!Absent
      <3>2. \A d \in Contents \ {c} : abs'[d] = abs[d]
        BY <2>2
      <3> HIDE DEF Contract!Absent
      <3> QED BY <3>1, <3>2
    <2> QED BY <2>1, <2>3 DEF Contract!Next, Contract!Delete
  <1> QED BY <1>1, <1>2, <1>3, <1>4, RowSteps

\* For any callers, groups and interleaving of transactions, the PostgreSQL
\* store changes the versions of a document only as the contract allows.
THEOREM VersionsImplemented == Spec => ImplementsVersions
  <1>1. Init => Contract!Init
    BY DEF Init, Absent, Contract!Init, Contract!Absent
  <1> QED BY <1>1, ContractStep, Invariant, PTL DEF Spec, ImplementsVersions, Contract!Spec

=============================================================================
