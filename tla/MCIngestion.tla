---------------------------- MODULE MCIngestion ----------------------------
(***************************************************************************)
(* Ingestion for TLC: a member of hr and an outsider upload two versions of *)
(* a document and a PDF without text, inline and as jobs.                   *)
(***************************************************************************)
EXTENDS Ingestion

CONSTANTS member, outsider, hr, c1, c2, c3, n1, n2

HrGroups == [u \in Users |-> IF u = member THEN {hr} ELSE {}]
HrAcls == {{}, {hr}}
Kind == [c \in Contents |-> IF c = c3 THEN "pdf" ELSE "text"]
Text == [c \in Contents |-> c # c3]
Extension == [n \in Names |-> IF n = n1 THEN "text" ELSE NULL]

Request(u, c, a, n, m, d) ==
    [user |-> u, content |-> c, acl |-> a, name |-> n, marker |-> m, declared |-> d]

\* A first version with the source's marker, a restricted one, both again by
\* a user who cannot see restricted versions, a text that claims to be a PDF,
\* and a PDF without text.
MCUploads == {Request(member, c1, NULL, n1, "rev1", NULL),
              Request(member, c2, {hr}, n1, NULL, "markdown"),
              Request(outsider, c1, NULL, n2, NULL, NULL),
              Request(outsider, c2, NULL, n1, "rev1", "pdf"),
              Request(outsider, c3, {}, n2, NULL, "pdf")}

MCPatches == {[acl |-> {hr}, name |-> NULL], [acl |-> {}, name |-> n1]}

=============================================================================
