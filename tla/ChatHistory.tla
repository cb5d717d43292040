---------------------------- MODULE ChatHistory ----------------------------
(***************************************************************************)
(* ChatHistoryStore (history.py), which is what PostgresChatHistory says it *)
(* implements ("Same contract as ChatHistoryStore"): an answered question   *)
(* is added to its session as two turns in one step, and a session keeps    *)
(* its newest turns only.  clear is not modelled: no route calls it.        *)
(***************************************************************************)
EXTENDS Naturals, Sequences

CONSTANTS
    Sessions,     \* the sessions of a user
    MaxMessages,  \* max_messages: twice max_turns
    Exchanges     \* the pairs of turns that answers consist of

VARIABLE messages  \* messages[s]: the turns of session s, oldest first

\* messages[-n:].
Newest(s, n) == SubSeq(s, IF Len(s) > n THEN Len(s) - n + 1 ELSE 1, Len(s))

Init == messages = [s \in Sessions |-> <<>>]

Add(s, x) ==
    messages' = [messages EXCEPT ![s] = Newest(@ \o x, MaxMessages)]

Next == /\ messages' # messages
        /\ \E s \in Sessions, x \in Exchanges : Add(s, x)

Spec == Init /\ [][Next]_messages

=============================================================================
