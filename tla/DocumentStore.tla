--------------------------- MODULE DocumentStore ---------------------------
(***************************************************************************)
(* One logical document - a (tenant_id, source_system, source_id) - in the  *)
(* PostgreSQL store: persistence.PostgresPersistence as api.py uses it to   *)
(* upload (_ingest_document and _unchanged), PATCH and DELETE documents.    *)
(*                                                                          *)
(* The content is unique within a logical document and document_id is a     *)
(* hash of source identity and bytes, so a row is named by its content.     *)
(* Uploads and PATCHes run on clients (request threads or workers).  An     *)
(* upload reads the current version in one transaction and stores in        *)
(* another; that one holds an advisory lock on the logical document, and    *)
(* its writes are seen by others when it commits.  DELETE and the reads     *)
(* take no advisory lock.                                                   *)
(*                                                                          *)
(* Not modelled: source_version (uploads here carry no change marker),      *)
(* last_checked_at, chunks and embeddings (written and deleted with their   *)
(* row).                                                                    *)
(***************************************************************************)
EXTENDS Naturals, FiniteSets

CONSTANTS
    Clients,     \* threads that run an upload or a PATCH
    Users,       \* the callers
    GroupsOf,    \* GroupsOf[u]: the groups of user u
    Contents,    \* the different bytes that are uploaded
    Names,       \* the file names they are uploaded under
    Acls,        \* the values of allowed_groups that requests send
    MaxUploads,  \* bound: how many uploads are started
    NULL         \* Python's None: a field that was omitted

ASSUME StoreAssumption == /\ NULL \notin Acls /\ NULL \notin Names
                          /\ {} \in Acls
                          /\ MaxUploads \in Nat

VARIABLES
    row,       \* row[c]: the row of documents that holds content c
    pc,        \* pc[k]: where client k is
    task,      \* task[k]: the request it serves, with its local variables
    uploads    \* how many uploads were started; orders created_at

vars == <<row, pc, task, uploads>>

Row == [status : {"absent", "ready", "superseded"}, version : Nat, acl : Acls,
        name : Names \cup {NULL}, created : Nat]

Task == [user : Users, content : Contents, acl : Acls \cup {NULL},
         name : Names \cup {NULL}, inherits : BOOLEAN, created : Nat,
         inserted : BOOLEAN, supersede : SUBSET Contents, version : Nat]

Absent == [status |-> "absent", version |-> 0, acl |-> {}, name |-> NULL, created |-> 0]

Exists(c) == row[c].status # "absent"
Ready(c)  == row[c].status = "ready"

\* ACL_FILTER.
Visible(u, c) == row[c].acl = {} \/ row[c].acl \cap GroupsOf[u] # {}

\* The client whose transaction holds the advisory lock.
LockHeld == \E k \in Clients : pc[k] \in {"locked", "written"}

\* The rows that a transaction has written and not yet committed.
RowLocked(c) == \E k \in Clients :
    pc[k] = "written" /\ (c = task[k].content \/ c \in task[k].supersede)

-----------------------------------------------------------------------------

Init == /\ row = [c \in Contents |-> Absent]
        /\ pc = [k \in Clients |-> "idle"]
        /\ task = [k \in Clients |-> NULL]
        /\ uploads = 0

NewTask(u, c, a, n) ==
    [user |-> u, content |-> c, acl |-> a, name |-> n, inherits |-> (a = NULL),
     created |-> 0, inserted |-> FALSE, supersede |-> {}, version |-> 0]

\* A request to upload content c starts (_document_job).
Upload(k, u, c, a, n) ==
    /\ pc[k] = "idle"
    /\ uploads < MaxUploads
    /\ uploads' = uploads + 1
    /\ task' = [task EXCEPT ![k] = NewTask(u, c, a, n)]
    /\ pc' = [pc EXCEPT ![k] = "check"]
    /\ UNCHANGED row

Done(k) == /\ pc' = [pc EXCEPT ![k] = "idle"]
           /\ task' = [task EXCEPT ![k] = NULL]

\* current_version: the first of the visible ready rows, newest created_at
\* first.  Rows of transactions that began between the same two uploads are tied
\* here, and either may come first.
CurrentFor(u) == {c \in Contents :
    /\ Ready(c) /\ Visible(u, c)
    /\ \A d \in Contents : Ready(d) /\ Visible(u, d) => row[d].created <= row[c].created}

\* The bytes are those of the current version: _unchanged leaves everything as
\* it is, except that another file name is passed on to update_document.
Unchanged(k) ==
    /\ pc[k] = "check"
    /\ task[k].content \in CurrentFor(task[k].user)
    /\ IF task[k].name = row[task[k].content].name
       THEN Done(k)
       ELSE /\ pc' = [pc EXCEPT ![k] = "find"]
            /\ task' = [task EXCEPT ![k].acl = NULL]
    /\ UNCHANGED <<row, uploads>>

\* They are not: parse, chunk and embed, then start persist's transaction,
\* whose now() becomes created_at.
Changed(k) ==
    /\ pc[k] = "check"
    /\ CurrentFor(task[k].user) # {task[k].content}
    /\ pc' = [pc EXCEPT ![k] = "begun"]
    /\ task' = [task EXCEPT ![k].created = uploads]
    /\ UNCHANGED <<row, uploads>>

\* The visible ready row with the highest version.
InheritFrom(u) == {c \in Contents :
    /\ Ready(c) /\ Visible(u, c)
    /\ \A d \in Contents : Ready(d) /\ Visible(u, d) => row[d].version <= row[c].version}

InheritedAcl(u) == IF InheritFrom(u) = {} THEN {{}}
                   ELSE {row[c].acl : c \in InheritFrom(u)}

\* Mutant: an upload does not wait for another one's transaction.
Lock_NoWait(k) ==
    /\ pc[k] = "begun"
    /\ \E a \in IF task[k].inherits THEN InheritedAcl(task[k].user) ELSE {task[k].acl} :
           task' = [task EXCEPT ![k].acl = a]
    /\ pc' = [pc EXCEPT ![k] = "locked"]
    /\ UNCHANGED <<row, uploads>>

\* pg_advisory_xact_lock, and the SELECT that resolves allowed_groups = None.
Lock(k) ==
    /\ pc[k] = "begun"
    /\ ~LockHeld
    /\ \E a \in IF task[k].inherits THEN InheritedAcl(task[k].user) ELSE {task[k].acl} :
           task' = [task EXCEPT ![k].acl = a]
    /\ pc' = [pc EXCEPT ![k] = "locked"]
    /\ UNCHANGED <<row, uploads>>

\* The INSERT meets a ready row with the same bytes: nothing else to do.
AlreadyExists(k) ==
    /\ pc[k] = "locked"
    /\ Ready(task[k].content)
    /\ Done(k)
    /\ UNCHANGED <<row, uploads>>

\* coalesce(max(version), 0).
MaxVersion(S) == IF S = {} THEN 0
                 ELSE CHOOSE n \in {row[c].version : c \in S} :
                          \A c \in S : row[c].version <= n

\* The INSERT adds the row or meets a superseded one.  The siblings that the
\* uploader can see are superseded, and the new version is one above them.
Write(k) ==
    LET t == task[k]
        others == {c \in Contents \ {t.content} : Exists(c) /\ Visible(t.user, c)}
    IN  /\ pc[k] = "locked"
        /\ ~Ready(t.content)
        /\ task' = [task EXCEPT ![k] = [t EXCEPT !.inserted = ~Exists(t.content),
                                                 !.supersede = {c \in others : Ready(c)},
                                                 !.version = MaxVersion(others) + 1]]
        /\ pc' = [pc EXCEPT ![k] = "written"]
        /\ UNCHANGED <<row, uploads>>

\* What the transaction has made of row c when it commits.  A row that was
\* there before keeps its ACL and its created_at.
Stored(t, c) ==
    IF c = t.content
    THEN [status |-> "ready", version |-> t.version, name |-> t.name,
          acl |-> IF t.inserted THEN t.acl ELSE row[c].acl,
          created |-> IF t.inserted THEN t.created ELSE row[c].created]
    ELSE IF c \in t.supersede THEN [row[c] EXCEPT !.status = "superseded"]
    ELSE row[c]

\* The transaction commits and the advisory lock is released.
Commit(k) ==
    /\ pc[k] = "written"
    /\ row' = [c \in Contents |-> Stored(task[k], c)]
    /\ Done(k)
    /\ UNCHANGED uploads

\* Mutant: what a failed request has superseded stays superseded.
Fail_Partial(k) ==
    /\ pc[k] # "idle"
    /\ row' = [c \in Contents |-> IF c \in task[k].supersede
                                  THEN [row[c] EXCEPT !.status = "superseded"] ELSE row[c]]
    /\ Done(k)
    /\ UNCHANGED uploads

\* The request fails: a parse error, an embedding error, or a database error,
\* which rolls the transaction back.
Fail(k) ==
    /\ pc[k] # "idle"
    /\ Done(k)
    /\ UNCHANGED <<row, uploads>>

\* A PATCH names a version and sends an ACL, a display name or both.
Patch(k, u, c, a, n) ==
    /\ pc[k] = "idle"
    /\ a # NULL \/ n # NULL
    /\ task' = [task EXCEPT ![k] = NewTask(u, c, a, n)]
    /\ pc' = [pc EXCEPT ![k] = "find"]
    /\ UNCHANGED <<row, uploads>>

\* update_document looks the version up: 404 unless the caller can see it.
Find(k) ==
    /\ pc[k] = "find"
    /\ IF Exists(task[k].content) /\ Visible(task[k].user, task[k].content)
       THEN pc' = [pc EXCEPT ![k] = "found"] /\ UNCHANGED task
       ELSE Done(k)
    /\ UNCHANGED <<row, uploads>>

\* coalesce(new, old).
Coalesce(new, old) == IF new = NULL THEN old ELSE new

\* Mutant: the UPDATE has no ACL_FILTER.
Update_AllVersions(k) ==
    /\ pc[k] = "found"
    /\ ~LockHeld
    /\ row' = [c \in Contents |->
                   IF Exists(c)
                   THEN [row[c] EXCEPT !.acl = Coalesce(task[k].acl, @),
                                       !.name = Coalesce(task[k].name, @)]
                   ELSE row[c]]
    /\ Done(k)
    /\ UNCHANGED uploads

\* With the advisory lock, every version that the caller can see is updated.
Update(k) ==
    /\ pc[k] = "found"
    /\ ~LockHeld
    /\ row' = [c \in Contents |->
                   IF Exists(c) /\ Visible(task[k].user, c)
                   THEN [row[c] EXCEPT !.acl = Coalesce(task[k].acl, @),
                                       !.name = Coalesce(task[k].name, @)]
                   ELSE row[c]]
    /\ Done(k)
    /\ UNCHANGED uploads

\* DELETE of one version; it waits for a row that a transaction has written.
Delete(u, c) ==
    /\ Exists(c) /\ Visible(u, c)
    /\ ~RowLocked(c)
    /\ row' = [row EXCEPT ![c] = Absent]
    /\ UNCHANGED <<pc, task, uploads>>

-----------------------------------------------------------------------------

Next ==
    \/ \E k \in Clients :
           \/ \E u \in Users, c \in Contents, a \in Acls \cup {NULL}, n \in Names :
                  Upload(k, u, c, a, n)
           \/ \E u \in Users, c \in Contents, a \in Acls \cup {NULL},
                 n \in Names \cup {NULL} : Patch(k, u, c, a, n)
           \/ Unchanged(k) \/ Changed(k) \/ Lock(k) \/ AlreadyExists(k) \/ Write(k)
           \/ Commit(k) \/ Fail(k) \/ Find(k) \/ Update(k)
    \/ \E u \in Users, c \in Contents : Delete(u, c)

Spec == Init /\ [][Next]_vars

-----------------------------------------------------------------------------
(* Properties.                                                             *)

\* Rows and tasks have their types.
TypeOK == /\ row \in [Contents -> Row]
          /\ pc \in [Clients -> {"idle", "check", "begun", "locked", "written", "find",
                                 "found"}]
          /\ task \in [Clients -> Task \cup {NULL}]
          /\ \A k \in Clients : pc[k] # "idle" => task[k] \in Task
          /\ uploads \in 0..MaxUploads

\* The versions of a logical document have different numbers, and a current
\* one has the highest: no two are current at once, since the advisory lock
\* makes one upload see what the other has stored, and a reinstated version
\* moves ahead of the others.
CurrentIsNewest ==
    \A c, d \in Contents : Exists(c) /\ Exists(d) /\ c # d =>
        /\ row[c].version # row[d].version
        /\ Ready(c) => row[c].version > row[d].version

\* A document that has a current version keeps one unless a version is
\* deleted: neither a failed upload nor a PATCH can leave it with none.
CurrentIsKept ==
    [][(\E c \in Contents : Ready(c)) /\ (\A c \in Contents : Exists(c) => Exists(c)')
           => \E c \in Contents : Ready(c)']_vars

\* An upload or PATCH cannot supersede, rename or re-permit a current version
\* that its user cannot read.
HiddenVersionsStand ==
    [][\A k \in Clients : pc'[k] # pc[k] =>
           \A c \in Contents : Ready(c) /\ task[k] # NULL =>
               Visible(task[k].user, c) \/ row'[c] = row[c]]_vars

\* The transactions of uploads, PATCHes and DELETEs, with the reads before them
\* and in whatever order they run, change the versions only in the three ways of
\* the contract that the in-memory store is held to as well.
Contract == INSTANCE VersionContract WITH
    row <- [c \in Contents |-> [status |-> row[c].status, version |-> row[c].version,
                                acl |-> row[c].acl, name |-> row[c].name]]
ImplementsVersions == Contract!Spec

\* "A new version inherits the current version's groups when the upload omits
\* allowed_groups."
OmittedAclIsInherited ==
    [][\A k \in Clients : pc[k] = "written" /\ row' # row /\ pc'[k] = "idle" /\ task[k].inherits
           => row'[task[k].content].acl = task[k].acl]_vars

=============================================================================
