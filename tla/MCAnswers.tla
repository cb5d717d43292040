----------------------------- MODULE MCAnswers -----------------------------
(***************************************************************************)
(* Answers for TLC: one session whose client waits for each answer, one     *)
(* whose client does not and brings a key, and questions of no session.     *)
(***************************************************************************)
EXTENDS Answers, TLC

CONSTANTS a, b

WaitingClients == {a}
MCRequests == {[session |-> a, own |-> FALSE], [session |-> b, own |-> TRUE],
               [session |-> NULL, own |-> FALSE]}

Symmetry == Permutations(Threads) \cup Permutations(Sources)

=============================================================================
