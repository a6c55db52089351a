------------------------------ MODULE Channel ------------------------------
(***************************************************************************)
(* What session.h promises of send_reliable(): each side gets the messages *)
(* the other has sent, whole, once each and in the order they were sent.   *)
(***************************************************************************)
EXTENDS Sequences, Naturals

CONSTANTS Nodes, Other(_)

VARIABLES
    sent,  \* the messages each node has given to send_reliable()
    got    \* the messages it has got from read()

Init == sent = [n \in Nodes |-> <<>>] /\ got = [n \in Nodes |-> <<>>]

Send(n) ==
    /\ Len(sent'[n]) = Len(sent[n]) + 1
    /\ SubSeq(sent'[n], 1, Len(sent[n])) = sent[n]
    /\ \A m \in Nodes \ {n} : sent'[m] = sent[m]
    /\ UNCHANGED got

Deliver(n) ==
    /\ Len(got[n]) < Len(sent[Other(n)])
    /\ got' = [got EXCEPT ![n] = Append(@, sent[Other(n)][Len(@) + 1])]
    /\ UNCHANGED sent

Next == \E n \in Nodes : Send(n) \/ Deliver(n)

Spec == Init /\ [][Next]_<<sent, got>>
=============================================================================
