----------------------------- MODULE UpdatePoller -----------------------------
(***************************************************************************)
(* The inbound side of Telegram: delivery/poller.py (UpdatePoller.run and  *)
(* _handle), get_updates of delivery/telegram.py, and the lifespan of      *)
(* serving/app.py that owns the poller's task.                             *)
(*                                                                         *)
(* Telegram keeps every update until a getUpdates names a higher offset.   *)
(* The poller's offset lives in memory: what it has handled is confirmed   *)
(* to Telegram by its next poll, and a restart before that forgets it.     *)
(* An update is its place in Telegram's order, which is the update_id of   *)
(* all but those in NoId: of them the poller can read no integer id.       *)
(***************************************************************************)
EXTENDS Integers, FiniteSets, FiniteSetsExt

CONSTANTS
    NUpdates,       \* how many updates are ever sent to the bot
    InMyChat,       \* updates posted in the allowlisted chat
    FromMe,         \* updates sent by the allowlisted sender
    Poisoned,       \* updates whose handling raises
    Malformed,      \* updates that are no JSON object: update.get itself raises
    NoId,           \* updates without an integer update_id
    MaxStops,       \* bound: how often the process is stopped or dies
    MaxFaults       \* bound: failed calls of Telegram or the database

Update == 1..NUpdates

ASSUME UpdatesAssumption ==
    /\ NUpdates \in Nat /\ MaxStops \in Nat /\ MaxFaults \in Nat
    /\ InMyChat \subseteq Update /\ FromMe \subseteq Update
    /\ Poisoned \subseteq Update /\ Malformed \subseteq Update /\ NoId \subseteq Update

NoOffset == 0

VARIABLES
    \* Telegram
    sent,           \* how many updates have been sent to the bot
    pending,        \* the updates Telegram still keeps
    \* the poller's task
    pc, offset,
    batch,          \* what getUpdates returned and the loop has still to take
    cur,            \* the update being handled
    \* the application's lifespan: "down", "up", "stopping" (the task is
    \* cancelled and awaited), "closed" (the engine and the client are gone)
    app,
    \* what happened (history), and the bounds
    handled,        \* updates the poller has dealt with, one way or the other
    replies,        \* replies[u]: answers to u that reached the chat, or, of an
                    \* update in NoId, whether one did
    stops, faults

telegram == <<sent, pending>>
task == <<pc, offset, batch, cur>>
history == <<handled, replies>>
vars == <<telegram, task, app, history, stops, faults>>

TypeOK ==
    /\ sent \in 0..NUpdates
    /\ pending \subseteq 1..sent
    /\ pc \in {"poll", "loop", "reply", "send", "backoff", "dead", "stopped"}
    /\ offset \in {NoOffset} \cup {u + 1 : u \in Update}
    /\ batch \subseteq Update
    /\ cur \in Update \cup {0}
    /\ pc \in {"reply", "send"} => cur \in 1..sent /\ (cur \notin NoId => offset = cur + 1)
    /\ app \in {"down", "up", "stopping", "closed"}
    /\ handled \subseteq 1..sent
    /\ replies \in [Update -> Nat]
    /\ stops \in 0..MaxStops /\ faults \in 0..MaxFaults

Init ==
    /\ sent = 0 /\ pending = {}
    /\ pc = "poll" /\ offset = NoOffset /\ batch = {} /\ cur = 0
    /\ app = "up"
    /\ handled = {}
    /\ replies = [u \in Update |-> 0]
    /\ stops = 0 /\ faults = 0

Fault == faults < MaxFaults /\ faults' = faults + 1
Stop == stops < MaxStops /\ stops' = stops + 1

\* Somebody writes to the bot.
Send ==
    /\ sent < NUpdates
    /\ sent' = sent + 1 /\ pending' = pending \cup {sent'}
    /\ UNCHANGED <<task, app, history, stops, faults>>

-----------------------------------------------------------------------------
\* The poller's loop.

\* Telegram's side of getUpdates: the offset confirms everything below it.  A
\* poll that returns nothing and confirms nothing is no step.
Unconfirmed == {u \in pending : offset = NoOffset \/ u >= offset}

Poll ==
    /\ pc = "poll" /\ app = "up"
    /\ pending # {}
    /\ pending' = Unconfirmed
    /\ batch' = Unconfirmed
    /\ pc' = "loop"
    /\ UNCHANGED <<sent, offset, cur, app, handled, replies, stops, faults>>

\* getUpdates fails, with or without Telegram having seen the offset.
PollFails ==
    /\ pc = "poll" /\ app = "up" /\ Fault
    /\ pending' \in {pending, Unconfirmed}
    /\ pc' = "backoff"
    /\ UNCHANGED <<sent, offset, batch, cur, app, history, stops>>

EndBackoff ==
    /\ pc = "backoff" /\ app = "up"
    /\ pc' = "poll"
    /\ UNCHANGED <<telegram, offset, batch, cur, app, history, stops, faults>>

\* The allowlist of _handle: both the chat and the sender.
Allowed(u) == u \in InMyChat /\ u \in FromMe

\* Plausible slips: confirming the whole batch at once, an offset that does not
\* pass the update, and one that passes the next update too.
Acknowledge_Batch(u) == offset' = IF u \in NoId THEN offset ELSE Max(batch) + 1
Acknowledge_NotPast(u) == offset' = IF u \in NoId THEN offset ELSE u
Acknowledge_TooFar(u) == offset' = IF u \in NoId THEN offset ELSE u + 2

\* Only an integer update_id moves the offset.  An update without one is handled
\* all the same, and again with every poll until the id of a later one passes it.
Acknowledge(u) == offset' = IF u \in NoId THEN offset ELSE u + 1

\* Telegram lists updates by id, and the loop takes them in turn.
IsNext(u) == u \in batch /\ \A v \in batch : u <= v

\* What raises outside the try, update.get of something that is no object,
\* ends the task.
TakeMalformed ==
    /\ pc = "loop" /\ \E u \in Malformed : IsNext(u)
    /\ pc' = "dead"
    /\ UNCHANGED <<telegram, offset, batch, cur, app, history, stops, faults>>

\* A plausible slip: the handling is outside the try as well.
Take_NoTry ==
    \E u \in Update \ Malformed :
        /\ pc = "loop" /\ IsNext(u)
        /\ batch' = batch \ {u} /\ Acknowledge(u)
        /\ IF Allowed(u)
           THEN cur' = u /\ pc' = (IF u \in Poisoned THEN "dead" ELSE "reply") /\ UNCHANGED handled
           ELSE handled' = handled \cup {u} /\ UNCHANGED <<pc, cur>>
        /\ UNCHANGED <<telegram, app, replies, stops, faults>>

\* The next update of the batch.  Whatever raises after the acknowledgement is
\* skipped.
Take ==
    \E u \in Update \ Malformed :
        /\ pc = "loop" /\ IsNext(u)
        /\ batch' = batch \ {u} /\ Acknowledge(u)
        /\ IF Allowed(u) /\ u \notin Poisoned
           THEN pc' = "reply" /\ cur' = u /\ UNCHANGED handled
           ELSE handled' = handled \cup {u} /\ UNCHANGED <<pc, cur>>
        /\ UNCHANGED <<telegram, app, replies, stops, faults>>

EndBatch ==
    /\ pc = "loop" /\ batch = {}
    /\ pc' = "poll"
    /\ UNCHANGED <<telegram, offset, batch, cur, app, history, stops, faults>>

\* latest_anomaly_reply reads the newest explained anomaly.
BuildReply ==
    /\ pc = "reply" /\ app = "up"
    /\ pc' = "send"
    /\ UNCHANGED <<telegram, offset, batch, cur, app, history, stops, faults>>

Handled == handled' = handled \cup {cur} /\ cur' = 0 /\ pc' = "loop"
Delivered == replies' = [replies EXCEPT ![cur] = IF cur \in NoId THEN 1 ELSE @ + 1]

SendReply ==
    /\ pc = "send" /\ app = "up"
    /\ Delivered /\ Handled
    /\ UNCHANGED <<telegram, offset, batch, app, stops, faults>>

\* sendMessage is delivered and its answer lost: request_json tries again.
AnswerLost ==
    /\ pc = "send" /\ app = "up" /\ Fault
    /\ Delivered
    /\ UNCHANGED <<telegram, task, app, handled, stops>>

\* The reply cannot be built, or sendMessage gives up: replies are best-effort.
ReplyFails ==
    /\ pc \in {"reply", "send"} /\ app = "up" /\ Fault
    /\ Handled
    /\ UNCHANGED <<telegram, offset, batch, app, replies, stops>>

-----------------------------------------------------------------------------
\* The lifespan.

\* SIGTERM: the lifespan's finally cancels the poller's task.
Shutdown ==
    /\ app = "up" /\ Stop
    /\ app' = "stopping"
    /\ UNCHANGED <<telegram, task, history, faults>>

\* CancelledError at an await; a sendMessage in flight may have been delivered.
Unwind ==
    /\ app = "stopping" /\ pc \in {"poll", "reply", "send", "backoff"}
    /\ pc' = "stopped"
    /\ UNCHANGED replies \/ (pc = "send" /\ Delivered)
    /\ UNCHANGED <<telegram, offset, batch, cur, app, handled, stops, faults>>

\* A plausible slip: suppressing CancelledError alone, so that the exception of
\* a task that died earlier leaves the finally.
TaskDone_CancelledOnly == pc = "stopped"

\* "await poll_task" returns, for a cancelled task and for one that died.
TaskDone == pc \in {"stopped", "dead"}

\* The scheduler is stopped and the resources are closed.
Close ==
    /\ app = "stopping" /\ TaskDone
    /\ app' = "closed"
    /\ UNCHANGED <<telegram, task, history, stops, faults>>

\* A crash, at any point; a sendMessage in flight may have been delivered.
Crash ==
    /\ app # "down" /\ Stop
    /\ app' = "down" /\ pc' = "stopped"
    /\ UNCHANGED replies \/ (pc = "send" /\ Delivered)
    /\ UNCHANGED <<telegram, offset, batch, cur, handled, faults>>

\* A new process, and a new task that knows nothing of the old one's offset.
Start ==
    /\ app \in {"closed", "down"}
    /\ app' = "up"
    /\ pc' = "poll" /\ offset' = NoOffset /\ batch' = {} /\ cur' = 0
    /\ UNCHANGED <<telegram, history, stops, faults>>

Loop == Poll \/ EndBackoff \/ TakeMalformed \/ Take \/ EndBatch \/ BuildReply \/ SendReply

\* Steps in which the lifespan has no part.
TaskStep ==
    \/ Send
    \/ Poll \/ PollFails \/ EndBackoff
    \/ TakeMalformed \/ Take \/ EndBatch
    \/ BuildReply \/ SendReply \/ AnswerLost \/ ReplyFails
    \/ Unwind

Next == TaskStep \/ Shutdown \/ Close \/ Crash \/ Start

Spec == Init /\ [][Next]_vars

-----------------------------------------------------------------------------
\* Properties.

\* Telegram forgets an update only after the poller has dealt with it, though
\* the offset runs ahead of the handling and batches are cut short by crashes.
NeverLost == \A u \in 1..sent : u \notin pending => u \in handled

\* The answers beyond the first to an update whose id the poller can read.  (One
\* without is answered again by every poll, for as long as it is the newest.)
ExtraReplies == UNION {{u} \X (2..replies[u]) : u \in Update \ NoId}

\* Each of them answers for a lost answer or for a stop of the process.
ExtraRepliesAccounted == Cardinality(ExtraReplies) <= faults + stops * NUpdates

\* A poisoned update or an outage never blocks the ones behind it: every update
\* older than the first malformed one is dealt with.
HealthyHandled ==
    \A u \in Update : (\A m \in Malformed : u < m) => (u \in pending ~> u \in handled)

\* Teardown always gets to closing the resources, even if the task had died.
TeardownCompletes == (app = "stopping") ~> (app # "stopping")
=============================================================================
