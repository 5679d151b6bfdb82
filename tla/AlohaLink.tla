----------------------------- MODULE AlohaLink -----------------------------
(***************************************************************************)
(* What ALOHA interfaces promise to the network layers above them: packets *)
(* of one node leave in the order in which they were offered and are       *)
(* delivered to another node at most once and in that order; a packet      *)
(* reported as acknowledged has been delivered; every packet is settled.   *)
(* A packet reported as dropped may or may not have been delivered.        *)
(***************************************************************************)
EXTENDS Naturals, Sequences

CONSTANTS Nodes, Broadcast

VARIABLES
    offered,    \* offered[n]: destinations of the packets n's network layer sent
    outcome,    \* outcome[n]: what n's interface says of its first packets
    received    \* received[n]: [from, id] of the packets delivered to n

linkVars == <<offered, outcome, received>>

Init ==
    /\ offered = [n \in Nodes |-> <<>>]
    /\ outcome = [n \in Nodes |-> <<>>]
    /\ received = [n \in Nodes |-> <<>>]

ReceivedFrom(n, s) == {received[n][i].id : i \in {j \in DOMAIN received[n] : received[n][j].from = s}}

Offer(n) ==
    /\ \E to \in (Nodes \cup {Broadcast}) \ {n} : offered' = [offered EXCEPT ![n] = Append(@, to)]
    /\ UNCHANGED <<outcome, received>>

\* n gets packet id of s, which is in service or was before.
Deliver(n, s, id) ==
    /\ id \in 1 .. Len(offered[s])
    /\ id <= Len(outcome[s]) + 1
    /\ offered[s][id] \in {n, Broadcast}
    /\ \A earlier \in ReceivedFrom(n, s) : earlier < id
    /\ received' = [received EXCEPT ![n] = Append(@, [from |-> s, id |-> id])]
    /\ UNCHANGED <<offered, outcome>>

MaySettle(n, how) ==
    LET id == Len(outcome[n]) + 1 IN
    /\ id <= Len(offered[n])
    /\ \/ how = "sent" /\ offered[n][id] = Broadcast
       \/ how = "dropped" /\ offered[n][id] # Broadcast
       \/ /\ how = "acked"
          /\ offered[n][id] # Broadcast
          /\ id \in ReceivedFrom(offered[n][id], n)

Settle(n) ==
    /\ \E how \in {"sent", "dropped", "acked"} :
          MaySettle(n, how) /\ outcome' = [outcome EXCEPT ![n] = Append(@, how)]
    /\ UNCHANGED <<offered, received>>

Next ==
    \E n \in Nodes :
        \/ Offer(n)
        \/ Settle(n)
        \/ \E s \in Nodes \ {n} : \E id \in 1 .. Len(offered[s]) : Deliver(n, s, id)

Spec == Init /\ [][Next]_linkVars /\ \A n \in Nodes : WF_linkVars(Settle(n))
=============================================================================
