------------------------------ MODULE Delivery ------------------------------
(***************************************************************************)
(* What the client's outbox and the server promise together, without       *)
(* batches, requests, answers, faults or processes: snapshots of a session *)
(* are offered one after the other, each newer than the last; the store    *)
(* only grows; the offer is settled only when the store has that very      *)
(* snapshot or it can never be stored; and only a settled one is           *)
(* forgotten.  Delivery is at least once.                                  *)
(***************************************************************************)
EXTENDS Naturals

CONSTANTS
    Sessions,       \* session keys
    Contents,       \* what a snapshot can hold
    NoContent,      \* the content of a session without an offer
    Deliverable,    \* contents the store can take
    Rejectable      \* contents it refuses for good

VARIABLES
    queue,          \* the newest offer of each session
    store           \* the snapshots that arrived

deliveryVars == <<queue, store>>

NoOffer == [status |-> "absent", rev |-> 0, content |-> NoContent]

Offered(s) == [key |-> s, rev |-> queue[s].rev, content |-> queue[s].content]

DeliveryInit ==
    /\ queue = [s \in Sessions |-> NoOffer]
    /\ store = {}

\* A newer snapshot takes the place of the one before.
Offer(s) ==
    /\ queue'[s] \in [status : {"pending"}, rev : Nat, content : Contents]
    /\ queue'[s].rev > queue[s].rev
    /\ queue' = [queue EXCEPT ![s] = queue'[s]]
    /\ UNCHANGED store

\* Any snapshots that can be stored arrive, in any order and any number of
\* times.
Arrive ==
    /\ store \subseteq store'
    /\ \A x \in store' \ store : x.content \in Deliverable
    /\ UNCHANGED queue

Settle(settled) ==
    /\ \A s \in settled : /\ queue[s].status = "pending"
                          /\ Offered(s) \in store \/ queue[s].content \in Rejectable
    /\ queue' = [s \in Sessions |->
           IF s \in settled THEN [queue[s] EXCEPT !.status = "acknowledged"] ELSE queue[s]]
    /\ UNCHANGED store

Forget(old) ==
    /\ \A s \in old : queue[s].status = "acknowledged"
    /\ queue' = [s \in Sessions |-> IF s \in old THEN NoOffer ELSE queue[s]]
    /\ UNCHANGED store

DeliveryNext ==
    \/ \E s \in Sessions : Offer(s)
    \/ Arrive
    \/ \E settled \in SUBSET Sessions : Settle(settled)
    \/ \E old \in SUBSET Sessions : Forget(old)

DeliverySpec == DeliveryInit /\ [][DeliveryNext]_deliveryVars

=============================================================================
