-------------------------- MODULE VersionContract --------------------------
(***************************************************************************)
(* What both document stores promise about the versions of one logical      *)
(* document ("same contract as PostgresPersistence", memory_store.py): the  *)
(* three ways in which a request may change them, each in one step.  Rows   *)
(* are named by their content, which is unique within a logical document.   *)
(*                                                                          *)
(* The contract leaves open how far a new version is ahead of the others,   *)
(* and which ACL a new row is given: the stores differ there when a DELETE  *)
(* runs between the statements of an upload.                                *)
(***************************************************************************)
EXTENDS Naturals

CONSTANTS
    Users,     \* the callers
    GroupsOf,  \* GroupsOf[u]: the groups of user u
    Contents,  \* the different bytes that are uploaded
    Names,     \* display names
    Acls,      \* the values of allowed_groups
    NULL       \* a field that a request leaves alone

VARIABLE row   \* row[c]: status, version, ACL and name of the version with content c

Absent == [status |-> "absent", version |-> 0, acl |-> {}, name |-> NULL]

Exists(c) == row[c].status # "absent"
Ready(c)  == row[c].status = "ready"
Visible(u, c) == row[c].acl = {} \/ row[c].acl \cap GroupsOf[u] # {}

Init == row = [c \in Contents |-> Absent]

\* Content c becomes current, ahead of every version that its uploader can see;
\* the current ones among those are superseded.  A version that comes back keeps
\* its ACL.  What the uploader cannot see stays as it is.
Persist(u, c) ==
    LET seen == {d \in Contents \ {c} : Exists(d) /\ Visible(u, d)}
        new == row'[c]
    IN  /\ ~Ready(c)
        /\ new.status = "ready" /\ new.name \in Names
        /\ new.acl \in IF Exists(c) THEN {row[c].acl} ELSE Acls
        /\ new.version \in Nat /\ new.version > 0
        /\ \A d \in seen : row[d].version < new.version
        /\ row' = [d \in Contents |->
                       IF d = c THEN new
                       ELSE IF d \in seen /\ Ready(d) THEN [row[d] EXCEPT !.status = "superseded"]
                       ELSE row[d]]

\* Every version that the caller can see gets the ACL, the name or both.
Update(u, a, n) ==
    row' = [c \in Contents |->
                IF Exists(c) /\ Visible(u, c)
                THEN [row[c] EXCEPT !.acl = IF a = NULL THEN @ ELSE a,
                                    !.name = IF n = NULL THEN @ ELSE n]
                ELSE row[c]]

Delete(u, c) == /\ Exists(c) /\ Visible(u, c)
                /\ row' = [row EXCEPT ![c] = Absent]

Next == \E u \in Users :
            \/ \E c \in Contents : Persist(u, c) \/ Delete(u, c)
            \/ \E a \in Acls \cup {NULL}, n \in Names \cup {NULL} : Update(u, a, n)

Spec == Init /\ [][Next]_row

=============================================================================
