-------------------------- MODULE MCDocumentStore --------------------------
(***************************************************************************)
(* Instances of DocumentStore for TLC: a document without restrictions, and *)
(* one that a member of the group hr and a user without groups share.       *)
(***************************************************************************)
EXTENDS DocumentStore, TLC

CONSTANTS member, outsider, hr

OpenGroups == [u \in Users |-> {}]
OpenAcls == {{}}

HrGroups == [u \in Users |-> IF u = member THEN {hr} ELSE {}]
HrAcls == {{}, {hr}}

\* Sound for safety: clients and contents are interchangeable.
Symmetry == Permutations(Clients) \cup Permutations(Contents)

=============================================================================
