---------------------------- MODULE Serving_proofs ----------------------------
(***************************************************************************)
(* Theorems about the update poller, by itself and in the served process,  *)
(* for any number of updates, stops and failures, any allowlist, any       *)
(* poisoned, malformed and id-less updates and any recurring jobs.         *)
(***************************************************************************)
EXTENDS Serving, FiniteSetTheorems, TLAPS

(***************************************************************************)
(* The inductive invariant of the poller.                                  *)
(***************************************************************************)

Busy == pc \in {"loop", "reply", "send"}

\* The batch was sent, and is not behind the offset.
BatchAhead == \A u \in batch : u <= sent /\ (Busy => offset <= u)

InHand(u) == pc \in {"reply", "send"} /\ u = cur

\* What Telegram keeps between the offset and the end of the batch is in the batch,
\* dealt with (an update without an id leaves the offset behind it) or in hand: the
\* offset can pass an update only by way of the batch.
BatchComplete ==
    Busy => \A u \in pending, v \in batch :
                offset <= u /\ u <= v => u \in batch \/ u \in handled \/ InHand(u)

\* What a living task's offset has passed is dealt with, or in its hands.
Passed ==
    /\ offset <= sent + 1
    /\ pc \notin {"dead", "stopped"} =>
          \A u \in 1..sent : u < offset => u \in handled \/ InHand(u)

PInv == TypeOK /\ BatchAhead /\ BatchComplete /\ Passed /\ NeverLost

(***************************************************************************)
(* The inductive invariant of the served process.                          *)
(***************************************************************************)

\* A job waiting for the inference thread, or using it, is in a forward pass.
LaneInfers ==
    sched # "stopped" =>
        /\ \A i \in DOMAIN lane : lane[i] # Http => tick[lane[i]] = "infer"
        /\ \A j \in Jobs : tick[j] # "cancelled"

\* Once the scheduler has stopped, no tick goes on.
StoppedIsQuiet == sched = "stopped" => \A j \in Jobs : tick[j] \in {"idle", "cancelled"}

\* Resources are closed after the task, the scheduler and the thread are done.
ClosedIsLast ==
    app = "closed" => pc \in {"stopped", "dead"} /\ sched = "stopped" /\ lane = <<>>

HInv == PInv /\ HostTypeOK /\ LaneInfers /\ StoppedIsQuiet /\ ClosedIsLast

(***************************************************************************)
(* The poller's invariant is inductive.                                    *)
(***************************************************************************)

LEMMA PInvInit == Init => PInv
<1> SUFFICES ASSUME Init PROVE PInv
  OBVIOUS
<1>1. TypeOK
  BY UpdatesAssumption DEF Init, TypeOK, NoOffset
<1> QED BY <1>1 DEF Init, PInv, BatchAhead, BatchComplete, Passed, InHand, NeverLost, Busy, NoOffset

\* The numbers: updates, offsets and counts are integers.
LEMMA PollerNumbers ==
    ASSUME TypeOK
    PROVE  /\ sent \in Nat /\ NUpdates \in Nat /\ sent <= NUpdates
           /\ offset \in Nat /\ pending \subseteq 1..sent
           /\ \A u \in Update : u \in Nat /\ u >= 1
           /\ batch \subseteq Update
  BY UpdatesAssumption DEF TypeOK, Update, NoOffset

\* Fewer updates are kept, each of those let go being behind the offset of a task
\* that has nothing in hand.
LEMMA ConfirmFact ==
    ASSUME PInv, pc = "poll"
    PROVE  \A u \in 1..sent : u \notin Unconfirmed => u \in handled
<1> SUFFICES ASSUME NEW u \in 1..sent, u \notin Unconfirmed PROVE u \in handled
  OBVIOUS
<1>1. u \in Int /\ offset \in Int
  BY PollerNumbers DEF PInv
<1>2. CASE u \notin pending
  BY <1>2 DEF PInv, NeverLost
<1>3. CASE u < offset
  BY <1>3 DEF PInv, Passed, InHand
<1> QED BY <1>1, <1>2, <1>3 DEF Unconfirmed

LEMMA PollPInv ==
    ASSUME PInv, Poll
    PROVE  PInv'
<1>1. TypeOK'
  <2>1. Unconfirmed \subseteq pending /\ pending \subseteq Update
    BY PollerNumbers DEF PInv, Unconfirmed, Update
  <2> QED BY <2>1 DEF PInv, TypeOK, Poll
<1>2. \A u \in Unconfirmed : u \in pending /\ u <= sent /\ offset <= u
  BY PollerNumbers DEF Unconfirmed, NoOffset, PInv
<1>3. BatchAhead'
  BY <1>2 DEF PInv, BatchAhead, Poll, Busy
<1>4. BatchComplete'
  BY DEF PInv, BatchComplete, Poll
<1>5. Passed'
  BY DEF PInv, Passed, InHand, Poll
<1>6. NeverLost'
  BY ConfirmFact DEF PInv, NeverLost, Poll
<1> QED BY <1>1, <1>3, <1>4, <1>5, <1>6 DEF PInv

LEMMA TakePInv ==
    ASSUME PInv, Take
    PROVE  PInv'
<1>1. PICK u \in batch :
      /\ pc = "loop" /\ \A v \in batch : u <= v
      /\ batch' = batch \ {u} /\ (offset' = u + 1 \/ (u \in NoId /\ offset' = offset))
      /\ UNCHANGED <<sent, pending, app, replies, stops, faults>>
      /\ \/ pc' = "reply" /\ cur' = u /\ UNCHANGED handled
         \/ handled' = handled \cup {u} /\ UNCHANGED <<pc, cur>>
  BY DEF Take, IsNext, Acknowledge, telegram
<1>2. u \in Update /\ batch \subseteq Update
  BY PollerNumbers DEF PInv
<1>3. u <= sent /\ offset <= u
  BY <1>1 DEF PInv, BatchAhead, Busy
<1>4. u \in Nat /\ u >= 1 /\ offset \in Nat /\ sent \in Nat
  BY <1>2, PollerNumbers DEF PInv
<1>5. TypeOK'
  <2>1. offset' \in {NoOffset} \cup {v + 1 : v \in Update}
    BY <1>1, <1>2 DEF PInv, TypeOK
  <2>2. /\ cur' \in Update \cup {0}
        /\ pc' \in {"reply", "send"} => cur' \in 1..sent' /\ (cur' \notin NoId => offset' = cur' + 1)
    BY <1>1, <1>2, <1>3, <1>4 DEF PInv, TypeOK
  <2>3. handled' \subseteq 1..sent'
    <3>1. u \in 1..sent /\ sent' = sent
      BY <1>1, <1>3, <1>4
    <3>2. handled \subseteq 1..sent
      BY DEF PInv, TypeOK
    <3> QED BY <1>1, <3>1, <3>2
  <2>4. batch' \subseteq Update
    BY <1>1, <1>2
  <2>5. pc' \in {"poll", "loop", "reply", "send", "backoff", "dead", "stopped"}
    BY <1>1
  <2> QED BY <1>1, <2>1, <2>2, <2>3, <2>4, <2>5 DEF PInv, TypeOK
<1>6. \A v \in batch \ {u} : v <= sent /\ u + 1 <= v
  <2> SUFFICES ASSUME NEW v \in batch \ {u} PROVE v <= sent /\ u + 1 <= v
    OBVIOUS
  <2>1. v \in Nat /\ u <= v /\ v # u /\ v <= sent
    BY <1>1, <1>2, PollerNumbers DEF PInv, BatchAhead
  <2> QED BY <1>4, <2>1
<1>7. BatchAhead'
  <2>1. \A v \in batch \ {u} : v <= sent /\ offset' <= v
    <3> SUFFICES ASSUME NEW v \in batch \ {u} PROVE v <= sent /\ offset' <= v
      OBVIOUS
    <3>1. v \in Nat /\ v <= sent /\ u + 1 <= v /\ offset <= v
      BY <1>1, <1>2, <1>6, PollerNumbers DEF PInv, BatchAhead, Busy
    <3> QED BY <1>1, <3>1
  <2> QED BY <1>1, <2>1 DEF BatchAhead
<1>8. BatchComplete'
  <2> SUFFICES ASSUME NEW w \in pending, NEW v \in batch \ {u}, offset' <= w, w <= v
               PROVE  w \in batch \ {u} \/ w \in handled' \/ InHand(w)'
    BY <1>1 DEF BatchComplete
  <2>1. w \in Nat /\ offset <= w
    BY <1>1, <1>3, <1>4, PollerNumbers DEF PInv
  <2>2. w \in batch \/ w \in handled
    BY <1>1, <2>1 DEF PInv, BatchComplete, Busy, InHand
  <2>3. w = u => w \in handled' \/ InHand(w)'
    BY <1>1 DEF InHand
  <2>4. w \in handled => w \in handled'
    BY <1>1
  <2> QED BY <2>2, <2>3, <2>4
<1>9. \A v \in 1..sent : v < u => v \in handled
  <2> SUFFICES ASSUME NEW v \in 1..sent, v < u PROVE v \in handled
    OBVIOUS
  <2>1. CASE v < offset
    BY <1>1, <2>1 DEF PInv, Passed, InHand
  <2>2. CASE v \notin pending
    BY <2>2 DEF PInv, NeverLost
  <2>3. CASE offset <= v /\ v \in pending
    <3>1. v \in batch \/ v \in handled
      BY <1>1, <1>4, <2>3 DEF PInv, BatchComplete, Busy, InHand
    <3> QED BY <1>1, <1>4, <3>1
  <2> QED BY <1>4, <2>1, <2>2, <2>3
<1>10. Passed'
  <2>1. offset' <= sent' + 1
    BY <1>1, <1>3, <1>4
  <2>2. \A v \in 1..sent : v < offset' => v \in handled' \/ InHand(v)'
    <3> SUFFICES ASSUME NEW v \in 1..sent, v < offset' PROVE v \in handled' \/ InHand(v)'
      OBVIOUS
    <3>1. v < u \/ v = u
      BY <1>1, <1>3, <1>4
    <3> QED BY <1>1, <1>9, <3>1 DEF InHand
  <2> QED BY <1>1, <2>1, <2>2 DEF Passed
<1>11. NeverLost'
  BY <1>1 DEF PInv, NeverLost
<1> QED BY <1>5, <1>7, <1>8, <1>10, <1>11 DEF PInv

LEMMA SendPInv ==
    ASSUME PInv, Send
    PROVE  PInv'
<1> USE PollerNumbers DEF PInv
<1>1. /\ sent < NUpdates /\ sent' = sent + 1 /\ pending' = pending \cup {sent + 1}
      /\ UNCHANGED <<pc, offset, batch, cur, app, handled, replies, stops, faults>>
  BY DEF Send, task, history
<1>2. TypeOK'
  <2>1. sent + 1 \in 1..NUpdates /\ 1..sent \subseteq 1..(sent + 1)
    BY <1>1, UpdatesAssumption
  <2>2. pc \in {"reply", "send"} => cur \in 1..(sent + 1) /\ (cur \notin NoId => offset = cur + 1)
    BY <2>1 DEF TypeOK
  <2> QED BY <1>1, <2>1, <2>2, UpdatesAssumption DEF TypeOK, Update
<1>3. BatchAhead'
  <2>1. \A u \in batch : u <= sent + 1
    BY DEF BatchAhead
  <2> QED BY <1>1, <2>1 DEF BatchAhead, Busy
<1>4. BatchComplete'
  <2>1. \A u \in batch : ~(sent + 1 <= u)
    BY DEF BatchAhead
  <2> QED BY <1>1, <2>1 DEF BatchComplete, Busy, InHand
<1>5. Passed'
  BY <1>1 DEF Passed, InHand
<1>6. NeverLost'
  BY <1>1 DEF NeverLost
<1> QED BY <1>2, <1>3, <1>4, <1>5, <1>6

\* What ends the handling of an update leaves it handled.
LEMMA HandledPInv ==
    ASSUME PInv, pc \in {"reply", "send"}, Handled, replies' \in [Update -> Nat],
           faults' \in 0..MaxFaults, UNCHANGED <<sent, pending, offset, batch, app, stops>>
    PROVE  PInv'
<1>1. cur \in 1..sent
  BY DEF PInv, TypeOK
<1>2. TypeOK'
  BY <1>1 DEF PInv, TypeOK, Handled
<1>3. BatchAhead' /\ BatchComplete'
  BY DEF PInv, BatchAhead, BatchComplete, Busy, InHand, Handled
<1>4. Passed' /\ NeverLost'
  BY DEF PInv, Passed, InHand, NeverLost, Handled
<1> QED BY <1>2, <1>3, <1>4 DEF PInv

LEMMA DeliveredType ==
    ASSUME TypeOK, pc = "send", Delivered
    PROVE  replies' \in [Update -> Nat]
<1>1. cur \in Update
  BY PollerNumbers DEF TypeOK, Update
<1> QED BY <1>1 DEF TypeOK, Delivered

LEMMA PInvNext == PInv /\ [Next]_vars => PInv'
<1> SUFFICES ASSUME PInv, [Next]_vars PROVE PInv'
  OBVIOUS
<1> USE DEF telegram, task, history, Fault, Stop
<1>1. CASE UNCHANGED vars
  BY <1>1 DEF vars, PInv, TypeOK, BatchAhead, BatchComplete, Passed, InHand, NeverLost, Busy
<1>2. CASE Send
  BY <1>2, SendPInv
<1>3. CASE Poll
  BY <1>3, PollPInv
<1>4. CASE PollFails
  <2>1. pending' \in SUBSET pending /\ \A u \in 1..sent : u \notin pending' => u \in handled
    BY <1>4, ConfirmFact DEF PollFails, Unconfirmed, PInv, NeverLost
  <2>2. TypeOK'
    BY <1>4, <2>1, UpdatesAssumption DEF PollFails, PInv, TypeOK
  <2> QED BY <1>4, <2>1, <2>2
          DEF PollFails, PInv, BatchAhead, BatchComplete, Passed, InHand, NeverLost, Busy
<1>5. CASE EndBackoff
  BY <1>5 DEF EndBackoff, PInv, TypeOK, BatchAhead, BatchComplete, Passed, InHand, NeverLost, Busy
<1>6. CASE TakeMalformed
  BY <1>6 DEF TakeMalformed, PInv, TypeOK, BatchAhead, BatchComplete, Passed, InHand, NeverLost, Busy
<1>7. CASE Take
  BY <1>7, TakePInv
<1>8. CASE EndBatch
  BY <1>8 DEF EndBatch, PInv, TypeOK, BatchAhead, BatchComplete, Passed, InHand, NeverLost, Busy
<1>9. CASE BuildReply
  BY <1>9 DEF BuildReply, PInv, TypeOK, BatchAhead, BatchComplete, Passed, InHand, NeverLost, Busy
<1>10. CASE SendReply
  BY <1>10, HandledPInv, DeliveredType DEF SendReply, PInv, TypeOK
<1>11. CASE AnswerLost
  <2>1. replies' \in [Update -> Nat] /\ faults' \in 0..MaxFaults
    BY <1>11, DeliveredType, UpdatesAssumption DEF AnswerLost, PInv, TypeOK
  <2> QED BY <1>11, <2>1
          DEF AnswerLost, PInv, TypeOK, BatchAhead, BatchComplete, Passed, InHand, NeverLost, Busy
<1>12. CASE ReplyFails
  <2>1. replies' \in [Update -> Nat] /\ faults' \in 0..MaxFaults
    BY <1>12, UpdatesAssumption DEF ReplyFails, PInv, TypeOK
  <2> QED BY <1>12, <2>1, HandledPInv DEF ReplyFails
<1>13. CASE Unwind
  <2>1. replies' \in [Update -> Nat]
    BY <1>13, DeliveredType DEF Unwind, PInv, TypeOK
  <2> QED BY <1>13, <2>1
          DEF Unwind, PInv, TypeOK, BatchAhead, BatchComplete, Passed, InHand, NeverLost, Busy
<1>14. CASE Shutdown
  BY <1>14, UpdatesAssumption
     DEF Shutdown, PInv, TypeOK, BatchAhead, BatchComplete, Passed, InHand, NeverLost, Busy
<1>15. CASE Close
  BY <1>15 DEF Close, PInv, TypeOK, BatchAhead, BatchComplete, Passed, InHand, NeverLost, Busy
<1>16. CASE Crash
  <2>1. replies' \in [Update -> Nat] /\ stops' \in 0..MaxStops
    BY <1>16, DeliveredType, UpdatesAssumption DEF Crash, PInv, TypeOK
  <2> QED BY <1>16, <2>1
          DEF Crash, PInv, TypeOK, BatchAhead, BatchComplete, Passed, InHand, NeverLost, Busy
<1>17. CASE Start
  <2>1. TypeOK'
    BY <1>17 DEF Start, PInv, TypeOK
  <2> QED BY <1>17, <2>1, PollerNumbers
          DEF Start, PInv, BatchAhead, BatchComplete, Passed, InHand, NeverLost, Busy, NoOffset
<1> QED
  BY <1>1, <1>2, <1>3, <1>4, <1>5, <1>6, <1>7, <1>8, <1>9, <1>10, <1>11, <1>12, <1>13, <1>14,
     <1>15, <1>16, <1>17 DEF Next, TaskStep

(***************************************************************************)
(* Answers beyond the first.                                               *)
(***************************************************************************)

\* An update that has been answered, and that the task may answer again without a
\* failure: it is not behind the offset, or it is in hand.
MayAnswerAgain ==
    {u \in Update \ NoId : /\ replies[u] >= 1
                           /\ pc \notin {"dead", "stopped"}
                           /\ u >= offset \/ InHand(u)}

\* A process that is down or on its way there may, once started again, answer
\* everything again; the stop has paid for that.
NextLife == IF app = "up" THEN 0 ELSE NUpdates

ExtraAllowed ==
    /\ IsFiniteSet(ExtraReplies)
    /\ Cardinality(ExtraReplies) + Cardinality(MayAnswerAgain) + NextLife
         <= faults + stops * NUpdates

LEMMA ExtraMembers ==
    \A z : z \in ExtraReplies <=> \E u \in Update \ NoId : \E k \in 2..replies[u] : z = <<u, k>>
  BY DEF ExtraReplies

LEMMA ExtraNumbers ==
    ASSUME TypeOK
    PROVE  /\ faults \in Nat /\ stops \in Nat /\ NUpdates \in Nat /\ stops * NUpdates \in Nat
           /\ NextLife \in Nat
           /\ IsFiniteSet(MayAnswerAgain) /\ Cardinality(MayAnswerAgain) \in Nat
<1>1. faults \in Nat /\ stops \in Nat /\ NUpdates \in Nat
  BY UpdatesAssumption DEF TypeOK
<1>2. IsFiniteSet(Update)
  BY <1>1, FS_Interval DEF Update
<1>3. MayAnswerAgain \in SUBSET Update
  BY DEF MayAnswerAgain, InHand
<1>4. stops * NUpdates \in Nat /\ NextLife \in Nat
  BY <1>1 DEF NextLife
<1> QED BY <1>1, <1>2, <1>3, <1>4, FS_Subset, FS_CardinalityType

\* A delivered answer is the first one to its update, or one that was allowed.
LEMMA DeliveredFact ==
    ASSUME PInv, IsFiniteSet(ExtraReplies), pc = "send", Delivered
    PROVE  /\ IsFiniteSet(ExtraReplies') /\ Cardinality(ExtraReplies') \in Nat
           /\ Cardinality(ExtraReplies) \in Nat
           /\ \/ Cardinality(ExtraReplies') = Cardinality(ExtraReplies)
              \/ /\ Cardinality(ExtraReplies') = Cardinality(ExtraReplies) + 1
                 /\ cur \in MayAnswerAgain
<1> DEFINE n == replies[cur]
           one == <<cur, n + 1>>
<1>1. cur \in Update /\ n \in Nat
      /\ replies' = [replies EXCEPT ![cur] = IF cur \in NoId THEN 1 ELSE n + 1]
  BY PollerNumbers DEF PInv, TypeOK, Update, Delivered
<1> HIDE DEF n
<1>2. /\ cur \notin NoId => replies'[cur] = n + 1
      /\ \A u \in Update : u # cur => replies'[u] = replies[u]
  BY <1>1 DEF PInv, TypeOK
<1>6. CASE cur \in NoId
  <2>1. ExtraReplies' = ExtraReplies
    BY <1>2, <1>6 DEF ExtraReplies
  <2> QED BY <2>1, FS_CardinalityType
<1>3. \A z : z \in ExtraReplies' <=> \E u \in Update \ NoId : \E k \in 2..replies'[u] : z = <<u, k>>
  BY DEF ExtraReplies
<1>4. CASE n = 0 /\ cur \notin NoId
  <2>1. 2..replies'[cur] = {} /\ 2..replies[cur] = {}
    BY <1>1, <1>2, <1>4 DEF n
  <2>2. \A u \in Update : 2..replies'[u] = 2..replies[u]
    BY <1>2, <2>1
  <2>3. ExtraReplies' = ExtraReplies
    BY <2>2 DEF ExtraReplies
  <2> QED BY <2>3, FS_CardinalityType
<1>5. CASE n # 0 /\ cur \notin NoId
  <2>1. \A k : k \in 2..replies'[cur] <=> k \in 2..n \/ k = n + 1
    BY <1>1, <1>2, <1>5
  <2>2. one \notin ExtraReplies
    BY <1>1, ExtraMembers DEF n
  <2>3. ExtraReplies' = ExtraReplies \cup {one}
    <3>1. ASSUME NEW z \in ExtraReplies' PROVE z \in ExtraReplies \cup {one}
      <4>1. PICK u \in Update \ NoId : \E k \in 2..replies'[u] : z = <<u, k>>
        BY <1>3, <3>1
      <4>2. CASE u # cur
        BY <1>2, <4>1, <4>2, ExtraMembers
      <4>3. CASE u = cur
        BY <2>1, <4>1, <4>3, ExtraMembers DEF n
      <4> QED BY <4>2, <4>3
    <3>2. one \in ExtraReplies'
      BY <1>1, <1>2, <1>3, <1>5, <2>1
    <3>3. ASSUME NEW z \in ExtraReplies PROVE z \in ExtraReplies'
      <4>1. PICK u \in Update \ NoId : \E k \in 2..replies[u] : z = <<u, k>>
        BY <3>3, ExtraMembers
      <4>2. \A k \in 2..replies[u] : k \in 2..replies'[u]
        BY <1>2, <2>1 DEF n
      <4> QED BY <1>3, <4>1, <4>2
    <3> HIDE DEF one
    <3> QED BY <3>1, <3>2, <3>3
  <2>4. cur \in MayAnswerAgain
    BY <1>1, <1>5 DEF MayAnswerAgain, InHand, n
  <2> HIDE DEF one
  <2> QED BY <2>2, <2>3, <2>4, FS_AddElement, FS_CardinalityType
<1> QED BY <1>1, <1>4, <1>5, <1>6

\* Nothing can be answered again that could not before.
LEMMA FewerMayAnswer ==
    ASSUME TypeOK, MayAnswerAgain' \subseteq MayAnswerAgain
    PROVE  /\ Cardinality(MayAnswerAgain') \in Nat
           /\ Cardinality(MayAnswerAgain') <= Cardinality(MayAnswerAgain)
  BY ExtraNumbers, FS_Subset, FS_CardinalityType

\* Steps that deliver nothing, and stop nothing.
LEMMA QuietStep ==
    ASSUME PInv, PInv', ExtraAllowed, UNCHANGED <<replies, stops, NextLife>>, faults' >= faults,
           MayAnswerAgain' \subseteq MayAnswerAgain
    PROVE  ExtraAllowed'
<1>1. ExtraReplies' = ExtraReplies /\ stops' * NUpdates = stops * NUpdates
  BY DEF ExtraReplies
<1>2. Cardinality(ExtraReplies) \in Nat
  BY FS_CardinalityType DEF ExtraAllowed
<1>3. /\ Cardinality(MayAnswerAgain') \in Nat
      /\ Cardinality(MayAnswerAgain') <= Cardinality(MayAnswerAgain)
  BY FewerMayAnswer DEF PInv
<1>4. faults' \in Nat
  BY UpdatesAssumption DEF PInv, TypeOK
<1> QED BY <1>1, <1>2, <1>3, <1>4, ExtraNumbers DEF ExtraAllowed, PInv

\* Steps that deliver an answer and are done with the update.
LEMMA AnswerStep ==
    ASSUME PInv, PInv', ExtraAllowed, pc = "send", Delivered, UNCHANGED <<faults, stops, NextLife>>,
           MayAnswerAgain' \subseteq MayAnswerAgain \ {cur}
    PROVE  ExtraAllowed'
<1>1. /\ IsFiniteSet(ExtraReplies') /\ Cardinality(ExtraReplies') \in Nat
      /\ Cardinality(ExtraReplies) \in Nat
      /\ \/ Cardinality(ExtraReplies') = Cardinality(ExtraReplies)
         \/ /\ Cardinality(ExtraReplies') = Cardinality(ExtraReplies) + 1
            /\ cur \in MayAnswerAgain
  BY DeliveredFact DEF ExtraAllowed
<1>2. stops' * NUpdates = stops * NUpdates
  OBVIOUS
<1>3. IsFiniteSet(MayAnswerAgain) /\ Cardinality(MayAnswerAgain) \in Nat
  BY ExtraNumbers DEF PInv
<1>4. /\ Cardinality(MayAnswerAgain') \in Nat
      /\ Cardinality(MayAnswerAgain') <= Cardinality(MayAnswerAgain)
      /\ cur \in MayAnswerAgain =>
            Cardinality(MayAnswerAgain') <= Cardinality(MayAnswerAgain) - 1
  <2>1. IsFiniteSet(MayAnswerAgain \ {cur}) /\ MayAnswerAgain \ {cur} \in SUBSET MayAnswerAgain
    BY <1>3, FS_Subset
  <2>2. /\ Cardinality(MayAnswerAgain') \in Nat
        /\ Cardinality(MayAnswerAgain') <= Cardinality(MayAnswerAgain \ {cur})
    BY <2>1, FS_Subset, FS_CardinalityType
  <2>3. Cardinality(MayAnswerAgain \ {cur}) \in Nat
        /\ Cardinality(MayAnswerAgain \ {cur}) <= Cardinality(MayAnswerAgain)
    BY <1>3, <2>1, FS_Subset, FS_CardinalityType
  <2>4. cur \in MayAnswerAgain =>
            Cardinality(MayAnswerAgain \ {cur}) = Cardinality(MayAnswerAgain) - 1
    BY <1>3, FS_RemoveElement
  <2> QED BY <1>3, <2>2, <2>3, <2>4
<1> QED BY <1>1, <1>2, <1>3, <1>4, ExtraNumbers DEF ExtraAllowed, PInv

\* An answer whose delivery the poller does not learn of: the next try is allowed
\* by the failure.
LEMMA LostStep ==
    ASSUME PInv, PInv', ExtraAllowed, AnswerLost
    PROVE  ExtraAllowed'
<1>1. /\ IsFiniteSet(ExtraReplies') /\ Cardinality(ExtraReplies') \in Nat
      /\ Cardinality(ExtraReplies) \in Nat
      /\ \/ Cardinality(ExtraReplies') = Cardinality(ExtraReplies)
         \/ /\ Cardinality(ExtraReplies') = Cardinality(ExtraReplies) + 1
            /\ cur \in MayAnswerAgain
  BY DeliveredFact DEF ExtraAllowed, AnswerLost
<1>2. /\ stops' * NUpdates = stops * NUpdates /\ NextLife' = NextLife /\ faults' = faults + 1
  BY DEF AnswerLost, NextLife, Fault
<1>3. IsFiniteSet(MayAnswerAgain) /\ Cardinality(MayAnswerAgain) \in Nat
  BY ExtraNumbers DEF PInv
<1>4. MayAnswerAgain' \subseteq MayAnswerAgain \cup {cur}
  <2>1. \A u \in Update : u # cur => replies'[u] = replies[u]
    BY DEF AnswerLost, Delivered, PInv, TypeOK
  <2> QED BY <2>1 DEF AnswerLost, task, MayAnswerAgain, InHand
<1>5. /\ Cardinality(MayAnswerAgain') \in Nat
      /\ Cardinality(MayAnswerAgain') <= Cardinality(MayAnswerAgain) + 1
      /\ cur \in MayAnswerAgain =>
            Cardinality(MayAnswerAgain') <= Cardinality(MayAnswerAgain)
  <2>1. CASE cur \in MayAnswerAgain
    <3>1. MayAnswerAgain' \subseteq MayAnswerAgain
      BY <1>4, <2>1
    <3> QED BY <1>3, <3>1, FS_Subset, FS_CardinalityType
  <2>2. CASE cur \notin MayAnswerAgain
    <3>1. /\ IsFiniteSet(MayAnswerAgain \cup {cur})
          /\ Cardinality(MayAnswerAgain \cup {cur}) = Cardinality(MayAnswerAgain) + 1
      BY <1>3, <2>2, FS_AddElement
    <3>2. /\ Cardinality(MayAnswerAgain') \in Nat
          /\ Cardinality(MayAnswerAgain') <= Cardinality(MayAnswerAgain \cup {cur})
      BY <1>4, <3>1, FS_Subset, FS_CardinalityType
    <3> QED BY <1>3, <2>2, <3>1, <3>2
  <2> QED BY <2>1, <2>2
<1> QED BY <1>1, <1>2, <1>3, <1>5, ExtraNumbers DEF ExtraAllowed, PInv

LEMMA ExtraInit == Init => ExtraAllowed
<1> SUFFICES ASSUME Init PROVE ExtraAllowed
  OBVIOUS
<1>1. \A u \in Update : 2..replies[u] = {}
  BY DEF Init
<1>2. ExtraReplies = {} /\ MayAnswerAgain = {}
  BY <1>1 DEF Init, ExtraReplies, MayAnswerAgain, InHand
<1>3. IsFiniteSet({}) /\ Cardinality({}) = 0
  BY FS_EmptySet
<1> QED BY <1>2, <1>3, UpdatesAssumption DEF Init, ExtraAllowed, NextLife

LEMMA ExtraNext ==
    ASSUME PInv, PInv', ExtraAllowed, [Next]_vars
    PROVE  ExtraAllowed'
<1> USE DEF telegram, task, history, Fault, Stop, NextLife
<1>n. /\ faults \in Nat /\ stops \in Nat /\ NUpdates \in Nat /\ stops * NUpdates \in Nat
      /\ NextLife \in Nat
      /\ IsFiniteSet(MayAnswerAgain) /\ Cardinality(MayAnswerAgain) \in Nat
      /\ IsFiniteSet(ExtraReplies) /\ Cardinality(ExtraReplies) \in Nat
  BY ExtraNumbers, FS_CardinalityType DEF PInv, ExtraAllowed
<1>1. CASE UNCHANGED vars
  BY <1>1, <1>n, QuietStep DEF vars, MayAnswerAgain, InHand
<1>2. CASE Send \/ Poll \/ PollFails \/ EndBackoff \/ TakeMalformed \/ EndBatch \/ BuildReply
           \/ ReplyFails \/ Close
  <2>1. MayAnswerAgain' \subseteq MayAnswerAgain
    BY <1>2 DEF Send, Poll, PollFails, EndBackoff, TakeMalformed, EndBatch, BuildReply,
                ReplyFails, Handled, Close, MayAnswerAgain, InHand
  <2>2. UNCHANGED <<replies, stops, NextLife>> /\ faults' >= faults
    BY <1>2, <1>n DEF Send, Poll, PollFails, EndBackoff, TakeMalformed, EndBatch, BuildReply,
                      ReplyFails, Close
  <2> QED BY <2>1, <2>2, QuietStep
<1>3. CASE Take
  <2>1. PICK u \in batch :
        /\ pc = "loop" /\ (offset' = u + 1 \/ (u \in NoId /\ offset' = offset)) /\ UNCHANGED replies
        /\ (pc' = "reply" /\ cur' = u) \/ UNCHANGED <<pc, cur>>
    BY <1>3 DEF Take, IsNext, Acknowledge
  <2>2. u \in Update /\ offset <= u /\ offset \in Nat
    BY <2>1, PollerNumbers DEF PInv, BatchAhead, Busy
  <2>3. MayAnswerAgain' \subseteq MayAnswerAgain
    BY <2>1, <2>2, PollerNumbers DEF MayAnswerAgain, InHand, PInv
  <2> QED BY <1>3, <1>n, <2>3, QuietStep DEF Take
<1>4. CASE SendReply
  <2>1. \A u \in Update : u # cur => replies'[u] = replies[u]
    BY <1>4 DEF SendReply, Delivered, PInv, TypeOK
  <2>2. cur \in Int /\ (cur \notin NoId => offset = cur + 1)
    BY <1>4, PollerNumbers DEF SendReply, PInv, TypeOK
  <2>3. MayAnswerAgain' \subseteq MayAnswerAgain \ {cur}
    BY <1>4, <2>1, <2>2 DEF SendReply, Handled, MayAnswerAgain, InHand
  <2> QED BY <1>4, <2>3, AnswerStep DEF SendReply
<1>5. CASE AnswerLost
  BY <1>5, LostStep
<1>6. CASE Unwind
  <2>1. MayAnswerAgain' = {}
    BY <1>6 DEF Unwind, MayAnswerAgain, InHand
  <2> QED BY <1>6, <1>n, <2>1, QuietStep, AnswerStep DEF Unwind
<1>7. CASE Shutdown
  <2>1. MayAnswerAgain' = MayAnswerAgain /\ ExtraReplies' = ExtraReplies
    BY <1>7 DEF Shutdown, MayAnswerAgain, InHand, ExtraReplies
  <2>2. stops' * NUpdates = stops * NUpdates + NUpdates /\ NextLife = 0 /\ NextLife' = NUpdates
    BY <1>7, <1>n DEF Shutdown
  <2>3. faults' = faults
    BY <1>7 DEF Shutdown
  <2> QED BY <1>n, <2>1, <2>2, <2>3 DEF ExtraAllowed
<1>8. CASE Crash
  <2>1. MayAnswerAgain' = {} /\ faults' = faults
    BY <1>8 DEF Crash, MayAnswerAgain, InHand
  <2>2. stops' * NUpdates = stops * NUpdates + NUpdates /\ NextLife' <= NextLife + NUpdates
        /\ NextLife' \in Nat
    BY <1>8, <1>n DEF Crash
  <2>3. /\ IsFiniteSet(ExtraReplies') /\ Cardinality(ExtraReplies') \in Nat
        /\ Cardinality(ExtraReplies') <= Cardinality(ExtraReplies) + Cardinality(MayAnswerAgain)
    <3>1. CASE UNCHANGED replies
      BY <1>n, <3>1 DEF ExtraReplies
    <3>2. CASE pc = "send" /\ Delivered
      <4>1. cur \in MayAnswerAgain => Cardinality(MayAnswerAgain) >= 1
        <5>1. cur \in MayAnswerAgain => MayAnswerAgain # {}
          OBVIOUS
        <5>2. MayAnswerAgain # {} => Cardinality(MayAnswerAgain) # 0
          BY <1>n, FS_EmptySet
        <5> QED BY <1>n, <5>1, <5>2
      <4> QED BY <1>n, <3>2, <4>1, DeliveredFact
    <3> QED BY <1>8, <3>1, <3>2 DEF Crash
  <2>4. Cardinality(MayAnswerAgain') = 0
    BY <2>1, FS_EmptySet
  <2> QED BY <1>n, <2>1, <2>2, <2>3, <2>4 DEF ExtraAllowed
<1>9. CASE Start
  <2>1. ExtraReplies' = ExtraReplies /\ faults' = faults /\ stops' * NUpdates = stops * NUpdates
    BY <1>9 DEF Start, ExtraReplies
  <2>2. NextLife = NUpdates /\ NextLife' = 0
    BY <1>9 DEF Start
  <2>3. Cardinality(MayAnswerAgain') \in Nat /\ Cardinality(MayAnswerAgain') <= NUpdates
    <3>1. IsFiniteSet(Update) /\ Cardinality(Update) = NUpdates
      <4>1. IsFiniteSet(1..NUpdates)
            /\ Cardinality(1..NUpdates) = (IF 1 > NUpdates THEN 0 ELSE NUpdates - 1 + 1)
        BY UpdatesAssumption, FS_Interval
      <4>2. NUpdates \in Nat
        BY UpdatesAssumption
      <4> QED BY <4>1, <4>2 DEF Update
    <3>2. MayAnswerAgain' \in SUBSET Update
      BY DEF MayAnswerAgain, InHand
    <3> QED BY <3>1, <3>2, FS_Subset, FS_CardinalityType
  <2> QED BY <1>n, <2>1, <2>2, <2>3 DEF ExtraAllowed
<1> QED
  BY <1>1, <1>2, <1>3, <1>4, <1>5, <1>6, <1>7, <1>8, <1>9 DEF Next, TaskStep

(***************************************************************************)
(* The inference thread.                                                   *)
(***************************************************************************)

Caller == Inferring \cup {Http}

\* One more caller, who is not in the lane yet.
LEMMA LaneAppend ==
    ASSUME lane \in Seq(Caller), IsInjective(lane), NEW c \in Caller,
           \A i \in DOMAIN lane : lane[i] # c
    PROVE  /\ Append(lane, c) \in Seq(Caller) /\ IsInjective(Append(lane, c))
           /\ \A i \in DOMAIN Append(lane, c) :
                 Append(lane, c)[i] = c \/ (i \in DOMAIN lane /\ Append(lane, c)[i] = lane[i])
<1>1. /\ Append(lane, c) \in Seq(Caller) /\ Len(lane) \in Nat /\ DOMAIN lane = 1..Len(lane)
      /\ DOMAIN Append(lane, c) = 1..(Len(lane) + 1)
      /\ Append(lane, c)[Len(lane) + 1] = c
      /\ \A i \in DOMAIN lane : Append(lane, c)[i] = lane[i]
  OBVIOUS
<1>2. \A i \in DOMAIN Append(lane, c) : i \in DOMAIN lane \/ i = Len(lane) + 1
  BY <1>1
<1>3. IsInjective(Append(lane, c))
  BY <1>1, <1>2 DEF IsInjective
<1> QED BY <1>1, <1>2, <1>3

\* The first caller is served and leaves.
LEMMA LaneTail ==
    ASSUME lane \in Seq(Caller), IsInjective(lane), lane # <<>>
    PROVE  /\ Tail(lane) \in Seq(Caller) /\ IsInjective(Tail(lane)) /\ Head(lane) \in Caller
           /\ \A i \in DOMAIN Tail(lane) :
                 i + 1 \in DOMAIN lane /\ Tail(lane)[i] = lane[i + 1] /\ Tail(lane)[i] # Head(lane)
<1>1. /\ Head(lane) = lane[1] /\ 1 \in DOMAIN lane /\ Head(lane) \in Caller
      /\ Tail(lane) \in Seq(Caller) /\ Len(Tail(lane)) = Len(lane) - 1
      /\ DOMAIN Tail(lane) = 1..(Len(lane) - 1) /\ DOMAIN lane = 1..Len(lane)
  OBVIOUS
<1>2. \A i \in DOMAIN Tail(lane) : i + 1 \in DOMAIN lane /\ Tail(lane)[i] = lane[i + 1]
  BY <1>1
<1>3. IsInjective(Tail(lane))
  BY <1>1, <1>2 DEF IsInjective
<1>4. \A i \in DOMAIN Tail(lane) : Tail(lane)[i] # Head(lane)
  BY <1>1, <1>2 DEF IsInjective
<1> QED BY <1>1, <1>2, <1>3, <1>4

\* A lane of which only the pass that has begun is left.
LEMMA LaneFirst ==
    ASSUME lane \in Seq(Caller), lane # <<>>
    PROVE  <<Head(lane)>> \in Seq(Caller) /\ IsInjective(<<Head(lane)>>)
  BY DEF IsInjective

(***************************************************************************)
(* The invariant of the served process is inductive.                       *)
(***************************************************************************)

\* What a step of the host does to the poller: a step of its own, or only time
\* and failures go by.
LEMMA HostStep == ServingNext => Next \/ UNCHANGED vars \/ Suspend
<1> SUFFICES ASSUME ServingNext PROVE Next \/ UNCHANGED vars \/ Suspend
  OBVIOUS
<1>1. CASE TaskStep \/ BeginTeardown \/ Release \/ HostCrash \/ HostUp
  BY <1>1 DEF Next, BeginTeardown, Release, HostCrash, HostUp
<1>2. CASE \E j \in Jobs : Fire(j) \/ Delay(j) \/ StartTick(j) \/ DropTick(j)
                       \/ EndTick(j) \/ UnwindTick(j) \/ Score(j)
  BY <1>2 DEF Fire, Delay, StartTick, DropTick, EndTick, UnwindTick, Score
<1>3. CASE Suspend \/ Request \/ EndInference \/ AskToStop \/ StopScheduler
  BY <1>3 DEF Request, EndInference, AskToStop, StopScheduler
<1> QED BY <1>1, <1>2, <1>3 DEF ServingNext

LEMMA HostPInv == PInv /\ [ServingNext]_allVars => PInv'
<1> SUFFICES ASSUME PInv, [ServingNext]_allVars PROVE PInv'
  OBVIOUS
<1>1. CASE Next \/ UNCHANGED vars
  BY <1>1, PInvNext
<1>2. CASE Suspend
  BY <1>2, UpdatesAssumption
     DEF Suspend, Fault, telegram, task, history,
         PInv, TypeOK, BatchAhead, BatchComplete, Passed, InHand, NeverLost, Busy
<1>3. CASE UNCHANGED allVars
  BY <1>3, PInvNext DEF allVars
<1> QED BY <1>1, <1>2, <1>3, HostStep

LEMMA HInvInit == ServingInit => HInv
<1> SUFFICES ASSUME ServingInit PROVE HInv
  OBVIOUS
<1>1. PInv
  BY PInvInit DEF ServingInit
<1>2. lane \in Seq(Caller) /\ IsInjective(lane)
  BY DEF ServingInit, IsInjective
<1>3. HostTypeOK
  BY <1>1, <1>2 DEF ServingInit, HostTypeOK, PInv, DueAtStart, Caller
<1>4. LaneInfers /\ StoppedIsQuiet /\ ClosedIsLast
  BY DEF ServingInit, Init, LaneInfers, StoppedIsQuiet, ClosedIsLast
<1> QED BY <1>1, <1>3, <1>4 DEF HInv

LEMMA HInvNext == HInv /\ [ServingNext]_allVars => HInv'
<1> SUFFICES ASSUME HInv, [ServingNext]_allVars PROVE HInv'
  OBVIOUS
<1>p. PInv' /\ TypeOK'
  BY HostPInv DEF HInv, PInv
<1>t. /\ sched \in {"running", "asked", "stopped"}
      /\ due \in [Jobs -> {"no", "fresh", "late", "stale"}]
      /\ tick \in [Jobs -> {"idle", "work", "infer", "cancelled"}]
      /\ lane \in Seq(Caller) /\ IsInjective(lane)
  BY DEF HInv, HostTypeOK, Caller
<1>j. \A j \in Inferring : j \in Jobs /\ j # Http
  BY ServingAssumption DEF Jobs
<1>l. \A i \in DOMAIN lane : lane[i] \in Caller
  BY <1>t
<1> DEFINE HostType ==
        /\ sched' \in {"running", "asked", "stopped"}
        /\ due' \in [Jobs -> {"no", "fresh", "late", "stale"}]
        /\ tick' \in [Jobs -> {"idle", "work", "infer", "cancelled"}]
        /\ lane' \in Seq(Caller) /\ IsInjective(lane')
<1>q. ASSUME HostType, LaneInfers', StoppedIsQuiet', ClosedIsLast' PROVE HInv'
  BY <1>p, <1>q DEF HInv, HostTypeOK, Caller
<1>1. CASE UNCHANGED host /\ (TaskStep \/ UNCHANGED vars)
  <2>1. HostType /\ LaneInfers' /\ StoppedIsQuiet'
    BY <1>1, <1>t DEF host, jobs, HInv, LaneInfers, StoppedIsQuiet
  <2>2. (app' = app /\ pc' = pc) \/ app' # "closed" \/ (app' = app /\ pc \notin {"stopped", "dead"})
    BY <1>1 DEF vars, TaskStep, Send, Poll, PollFails, EndBackoff, TakeMalformed, Take, EndBatch,
                BuildReply, SendReply, AnswerLost, ReplyFails, Unwind, task, history
  <2>3. ClosedIsLast'
    BY <1>1, <2>2 DEF host, jobs, HInv, ClosedIsLast
  <2> QED BY <1>q, <2>1, <2>3
<1>2. CASE \E j \in Jobs : Fire(j) \/ Delay(j) \/ DropTick(j)
  BY <1>q, <1>2, <1>t DEF Fire, Delay, DropTick, vars, task, HInv, LaneInfers, StoppedIsQuiet, ClosedIsLast
<1>3. CASE Suspend
  BY <1>q, <1>3, <1>t DEF Suspend, task, HInv, LaneInfers, StoppedIsQuiet, ClosedIsLast
<1>4. ASSUME NEW j \in Jobs, StartTick(j) PROVE HInv'
  BY <1>q, <1>4, <1>t, <1>l, <1>j
     DEF StartTick, vars, task, HInv, LaneInfers, StoppedIsQuiet, ClosedIsLast, Caller
<1>5. ASSUME NEW j \in Jobs, EndTick(j) PROVE HInv'
  BY <1>q, <1>5, <1>t, <1>l, <1>j
     DEF EndTick, vars, task, HInv, LaneInfers, StoppedIsQuiet, ClosedIsLast, Caller
<1>6. ASSUME NEW j \in Jobs, UnwindTick(j) PROVE HInv'
  BY <1>q, <1>6, <1>t, <1>l, <1>j
     DEF UnwindTick, vars, task, HInv, LaneInfers, StoppedIsQuiet, ClosedIsLast, Caller
<1>7. ASSUME NEW j \in Jobs, Score(j) PROVE HInv'
  <2>1. /\ j \in Inferring /\ tick[j] = "work" /\ tick' = [tick EXCEPT ![j] = "infer"]
        /\ lane' = Append(lane, j) /\ UNCHANGED <<app, pc, sched, due>>
    BY <1>7 DEF Score, vars, task
  <2>2. sched # "stopped"
    BY <2>1 DEF HInv, StoppedIsQuiet
  <2>3. j # Http /\ \A i \in DOMAIN lane : lane[i] # j
    BY <1>j, <2>1, <2>2 DEF HInv, LaneInfers
  <2>4. /\ lane' \in Seq(Caller) /\ IsInjective(lane')
        /\ \A i \in DOMAIN lane' : lane'[i] = j \/ (i \in DOMAIN lane /\ lane'[i] = lane[i])
    BY <1>t, <2>1, <2>3, LaneAppend DEF Caller
  <2>5. HostType
    BY <1>t, <2>1, <2>4
  <2>6. LaneInfers'
    BY <1>t, <1>l, <1>j, <2>1, <2>2, <2>4 DEF HInv, LaneInfers, Caller
  <2>7. StoppedIsQuiet' /\ ClosedIsLast'
    BY <2>1, <2>2 DEF HInv, StoppedIsQuiet, ClosedIsLast
  <2> QED BY <1>q, <2>5, <2>6, <2>7
<1>8. CASE Request
  <2>1. /\ app = "up" /\ ~Contains(lane, Http) /\ lane' = Append(lane, Http)
        /\ UNCHANGED <<app, pc, sched, due, tick>>
    BY <1>8 DEF Request, vars, task, jobs
  <2>2. \A i \in DOMAIN lane : lane[i] # Http
    BY <1>t, <2>1 DEF Contains
  <2>3. /\ lane' \in Seq(Caller) /\ IsInjective(lane')
        /\ \A i \in DOMAIN lane' : lane'[i] = Http \/ (i \in DOMAIN lane /\ lane'[i] = lane[i])
    BY <1>t, <2>1, <2>2, LaneAppend DEF Caller
  <2> QED BY <1>q, <1>t, <2>1, <2>3 DEF HInv, LaneInfers, StoppedIsQuiet, ClosedIsLast
<1>9. CASE EndInference
  <2>1. /\ lane # <<>> /\ lane' = Tail(lane) /\ UNCHANGED <<app, pc, sched, due>>
        /\ tick' = [j \in Jobs |-> IF j = Head(lane) /\ tick[j] = "infer" THEN "work" ELSE tick[j]]
    BY <1>9 DEF EndInference, vars, task
  <2>2. /\ lane' \in Seq(Caller) /\ IsInjective(lane')
        /\ \A i \in DOMAIN lane' :
              i + 1 \in DOMAIN lane /\ lane'[i] = lane[i + 1] /\ lane'[i] # Head(lane)
    BY <1>t, <2>1, LaneTail
  <2>3. HostType
    BY <1>t, <2>1, <2>2
  <2>4. LaneInfers'
    BY <1>t, <1>l, <1>j, <2>1, <2>2 DEF HInv, LaneInfers, Caller
  <2>5. StoppedIsQuiet' /\ ClosedIsLast'
    BY <1>t, <2>1 DEF HInv, StoppedIsQuiet, ClosedIsLast
  <2> QED BY <1>q, <2>3, <2>4, <2>5
<1>10. CASE BeginTeardown
  BY <1>q, <1>10, <1>t
     DEF BeginTeardown, Shutdown, host, jobs, HInv, LaneInfers, StoppedIsQuiet, ClosedIsLast
<1>11. CASE AskToStop
  BY <1>q, <1>11, <1>t
     DEF AskToStop, vars, jobs, HInv, LaneInfers, StoppedIsQuiet, ClosedIsLast
<1>12. CASE StopScheduler
  <2>1. /\ sched = "asked" /\ sched' = "stopped" /\ UNCHANGED <<app, pc, due>>
        /\ tick' = [j \in Jobs |-> IF tick[j] = "idle" THEN "idle" ELSE "cancelled"]
        /\ lane' = (IF lane = <<>> THEN lane ELSE <<Head(lane)>>)
    BY <1>12 DEF StopScheduler, vars, task
  <2>2. lane' \in Seq(Caller) /\ IsInjective(lane')
    BY <1>t, <2>1, LaneFirst
  <2>3. HostType /\ LaneInfers' /\ StoppedIsQuiet'
    BY <1>t, <2>1, <2>2 DEF LaneInfers, StoppedIsQuiet
  <2>4. ClosedIsLast'
    BY <2>1 DEF HInv, ClosedIsLast
  <2> QED BY <1>q, <2>3, <2>4
<1>13. CASE Release
  BY <1>q, <1>13, <1>t
     DEF Release, Close, TaskDone, StopLanded, LaneDrained, task, host, jobs,
         HInv, LaneInfers, StoppedIsQuiet, ClosedIsLast
<1>14. CASE HostCrash \/ HostUp
  <2>1. lane' = <<>> /\ sched' \in {"stopped", "running"} /\ app' # "closed"
        /\ tick' = [j \in Jobs |-> "idle"] /\ due' \in [Jobs -> {"no", "fresh", "late", "stale"}]
    BY <1>14 DEF HostCrash, HostUp, Crash, Start, DueAtStart
  <2>2. lane' \in Seq(Caller) /\ IsInjective(lane') /\ DOMAIN lane' = {}
    BY <2>1 DEF IsInjective
  <2>3. HostType
    BY <2>1, <2>2
  <2>4. LaneInfers' /\ StoppedIsQuiet' /\ ClosedIsLast'
    BY <2>1, <2>2 DEF LaneInfers, StoppedIsQuiet, ClosedIsLast
  <2> QED BY <1>q, <2>3, <2>4
<1> QED
  BY <1>1, <1>2, <1>3, <1>4, <1>5, <1>6, <1>7, <1>8, <1>9, <1>10, <1>11, <1>12, <1>13, <1>14
     DEF ServingNext, allVars

(***************************************************************************)
(* Theorems.                                                               *)
(***************************************************************************)

\* UpdatePoller.run and Telegram's confirmation rule: whatever is stopped, dies,
\* fails or raises, Telegram drops an update only once the poller has dealt with
\* it; nothing sent to the bot is skipped.
THEOREM UpdatesAreNeverLost == Spec => []NeverLost
<1>1. Spec => []PInv
  BY PInvInit, PInvNext, PTL DEF Spec
<1>2. PInv => NeverLost
  BY DEF PInv
<1> QED BY <1>1, <1>2, PTL

\* The same in the served process, next to the scheduler and the inference thread
\* and through the lifespan's teardown; and the types of its variables.
THEOREM ServedUpdatesAreNeverLost == ServingSpec => []NeverLost
<1>1. ServingSpec => []HInv
  BY HInvInit, HInvNext, PTL DEF ServingSpec
<1>2. HInv => NeverLost
  BY DEF HInv, PInv
<1> QED BY <1>1, <1>2, PTL

\* An answer beyond the first to the same update is always the price of a lost
\* answer or of a stop, in the served process: at most one for each failure and
\* one per update for each stop.
THEOREM RepliesAreAccounted == ServingSpec => []ExtraRepliesAccounted
<1> DEFINE EInv == PInv /\ ExtraAllowed
<1>1. ServingInit => EInv
  BY PInvInit, ExtraInit DEF ServingInit
<1>2. EInv /\ [ServingNext]_allVars => EInv'
  <2> SUFFICES ASSUME EInv, [ServingNext]_allVars PROVE EInv'
    OBVIOUS
  <2>1. PInv'
    BY HostPInv
  <2>2. CASE Next \/ UNCHANGED vars
    BY <2>1, <2>2, ExtraNext
  <2>3. CASE Suspend
    <3>1. UNCHANGED <<replies, stops, NextLife>> /\ faults' >= faults
      BY <2>3, ExtraNumbers DEF Suspend, Fault, history, NextLife, PInv
    <3>2. MayAnswerAgain' \subseteq MayAnswerAgain
      BY <2>3 DEF Suspend, task, history, MayAnswerAgain, InHand
    <3> QED BY <2>1, <3>1, <3>2, QuietStep
  <2>4. CASE UNCHANGED allVars
    BY <2>1, <2>4, ExtraNext DEF allVars
  <2> QED BY <2>2, <2>3, <2>4, HostStep
<1>3. EInv => ExtraRepliesAccounted
  <2> SUFFICES ASSUME EInv PROVE ExtraRepliesAccounted
    OBVIOUS
  <2>1. Cardinality(ExtraReplies) \in Nat
    BY FS_CardinalityType DEF ExtraAllowed
  <2> QED BY <2>1, ExtraNumbers DEF PInv, ExtraAllowed, ExtraRepliesAccounted
<1> QED BY <1>1, <1>2, <1>3, PTL DEF ServingSpec

\* The variables of the poller, the scheduler and the inference thread keep their
\* types; no caller waits twice for the thread (explain_anomalies, routes/sentiment).
THEOREM HostTypeCorrect == ServingSpec => []HostTypeOK
<1>1. ServingSpec => []HInv
  BY HInvInit, HInvNext, PTL DEF ServingSpec
<1>2. HInv => HostTypeOK
  BY DEF HInv
<1> QED BY <1>1, <1>2, PTL

\* The finally of lifespan: when the engine and the client are closed, no handler
\* is mid-flight, every tick was told to stop and no forward pass is running.
THEOREM TeardownLeavesNothingRunning == ServingSpec => []NothingRunsOn
<1>1. ServingSpec => []HInv
  BY HInvInit, HInvNext, PTL DEF ServingSpec
<1>2. HInv => NothingRunsOn
  BY DEF HInv, ClosedIsLast, StoppedIsQuiet, NothingRunsOn
<1> QED BY <1>1, <1>2, PTL
=============================================================================
