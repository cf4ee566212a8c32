----------------------------- MODULE Explanations -----------------------------
(***************************************************************************)
(* What explaining an anomaly promises, without processes, rows or calls.  *)
(*                                                                         *)
(* An LLM is shown stored articles about the anomaly's asset, published    *)
(* before its bar closed, and cites some of them ("the LLM cannot mint     *)
(* evidence", domain/explanation.py).  One of the replies paid for an      *)
(* anomaly becomes its explanation, with the evidence of that reply, for   *)
(* good ("re-explaining is a no-op, not an overwrite",                     *)
(* store/repositories.py).  ExplainJob implements this specification.      *)
(***************************************************************************)
EXTENDS Naturals, Sequences

CONSTANTS
    Anomaly,        \* the anomalies that may be detected
    Article,        \* the articles that may be published
    Relevant        \* Relevant[a]: articles about a's asset from a's window

VARIABLES
    detected,       \* anomalies on record
    stored,         \* articles on record
    replies,        \* replies[a]: what each reply for a was shown, and what it cites
    explanation,    \* explanation[a]: the number of the reply on record, or 0
    evidence        \* evidence[a]: the articles cited on record

vars == <<detected, stored, replies, explanation, evidence>>

TypeOK ==
    /\ detected \subseteq Anomaly
    /\ stored \subseteq Article
    /\ replies \in [Anomaly -> Seq([shown : SUBSET Article, cites : SUBSET Article])]
    /\ explanation \in [Anomaly -> Nat]
    /\ evidence \in [Anomaly -> SUBSET Article]

Init ==
    /\ detected = {}
    /\ stored = {}
    /\ replies = [a \in Anomaly |-> <<>>]
    /\ explanation = [a \in Anomaly |-> 0]
    /\ evidence = [a \in Anomaly |-> {}]

Detect(a) ==
    /\ a \notin detected
    /\ detected' = detected \cup {a}
    /\ UNCHANGED <<stored, replies, explanation, evidence>>

Publish(n) ==
    /\ n \notin stored
    /\ stored' = stored \cup {n}
    /\ UNCHANGED <<detected, replies, explanation, evidence>>

\* The model is shown what is stored and relevant, and cites what it was shown.
\* A reply may come too late to matter, so a may be explained already.
Reply(a, shown, cites) ==
    /\ replies' = [replies EXCEPT ![a] = Append(@, [shown |-> shown, cites |-> cites])]
    /\ UNCHANGED <<detected, stored, explanation, evidence>>

Record(a, k) ==
    /\ explanation[a] = 0
    /\ k \in DOMAIN replies[a]
    /\ explanation' = [explanation EXCEPT ![a] = k]
    /\ evidence' = [evidence EXCEPT ![a] = replies[a][k].cites]
    /\ UNCHANGED <<detected, stored, replies>>

Next ==
    \/ \E a \in Anomaly : Detect(a)
    \/ \E n \in Article : Publish(n)
    \/ \E a \in detected : \E shown \in SUBSET (stored \cap Relevant[a]) :
            \E cites \in SUBSET shown : Reply(a, shown, cites)
    \/ \E a \in Anomaly : \E k \in DOMAIN replies[a] : Record(a, k)

Spec == Init /\ [][Next]_vars
=============================================================================
