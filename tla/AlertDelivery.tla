---------------------------- MODULE AlertDelivery ----------------------------
(***************************************************************************)
(* What alert delivery promises, without processes, rows or requests.      *)
(*                                                                         *)
(* An alert is delivered at least once before it is marked notified, and   *)
(* every delivery after the first answers for a send whose outcome the     *)
(* sender never learned ("a rare duplicate alert beats a silently missing  *)
(* one", ingest/jobs.py, notify_anomalies).  NotifyJob implements this     *)
(* specification.                                                          *)
(***************************************************************************)
EXTENDS Naturals

CONSTANT Anomaly            \* the anomalies that may be detected

VARIABLES
    explained,              \* anomalies whose explanation row is committed
    notified,               \* anomalies whose notified_at is committed
    delivered,              \* delivered[a]: messages the chat received for a
    doubt                   \* doubt[a]: sends of a whose outcome was lost

vars == <<explained, notified, delivered, doubt>>

TypeOK ==
    /\ explained \subseteq Anomaly
    /\ notified \subseteq explained
    /\ delivered \in [Anomaly -> Nat]
    /\ doubt \in [Anomaly -> Nat]

Init ==
    /\ explained = {}
    /\ notified = {}
    /\ delivered = [a \in Anomaly |-> 0]
    /\ doubt = [a \in Anomaly |-> 0]

\* The explain job commits the "why" of a: a enters the delivery queue.
Explain(a) ==
    /\ a \notin explained
    /\ explained' = explained \cup {a}
    /\ UNCHANGED <<notified, delivered, doubt>>

\* The chat receives a message for a: the first one, or one that a lost
\* outcome already accounts for.
Deliver(a) ==
    /\ a \in explained
    /\ delivered[a] <= doubt[a]
    /\ delivered' = [delivered EXCEPT ![a] = @ + 1]
    /\ UNCHANGED <<explained, notified, doubt>>

\* The sender gives up on a send of a without knowing whether it was received.
LoseTrack(a) ==
    /\ a \in explained \ notified
    /\ doubt' = [doubt EXCEPT ![a] = @ + 1]
    /\ UNCHANGED <<explained, notified, delivered>>

\* A delivered alert leaves the queue for good.
Acknowledge(a) ==
    /\ a \in explained \ notified
    /\ delivered[a] >= 1
    /\ notified' = notified \cup {a}
    /\ UNCHANGED <<explained, delivered, doubt>>

Next == \E a \in Anomaly : Explain(a) \/ Deliver(a) \/ LoseTrack(a) \/ Acknowledge(a)

Spec == Init /\ [][Next]_vars
=============================================================================
