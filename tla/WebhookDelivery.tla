--------------------------- MODULE WebhookDelivery ---------------------------
(***************************************************************************)
(* Outgoing webhooks (src/webhooks.ts).  An event is handed to emitEvent,  *)
(* which looks up the endpoints subscribed to it and posts to each of them *)
(* without anyone waiting.  A failed post is logged and retried by a timer *)
(* in memory, up to MaxAttempts posts.  From the log an admin can replay a *)
(* delivery, once and without retries.                                     *)
(***************************************************************************)
EXTENDS Naturals

CONSTANTS
    Event,          \* events the application emits
    Endpoint,       \* webhook endpoints an admin may have registered
    Wants,          \* the events each endpoint subscribes to
    Shot,           \* replays and test events an admin may ask for
    Ping,           \* the event of a test
    NoTarget,       \* aim of a shot that was not asked for
    MaxAttempts,    \* three in the code
    MaxCrash        \* bound on process crashes

Target == Event \X Endpoint
Aim == (Event \union {Ping}) \X Endpoint
Job == Target \union Shot

ASSUME WebhookAssumption ==
    /\ Wants \in [Endpoint -> SUBSET Event]
    /\ Shot \intersect Target = {}
    /\ Ping \notin Event
    /\ NoTarget \notin Aim
    /\ MaxAttempts \in Nat \ {0}
    /\ MaxCrash \in Nat

VARIABLES
    endpoint,   \* whether each endpoint is registered; its id is never reused
    emitted,    \* how far emitEvent got with each event
    phase,      \* where each delivery stands
    attempt,    \* number of the current or last post of each delivery
    aim,        \* what each shot sends and where
    wire,       \* posts under way, which may arrive at any later time
    heard,      \* posts the receiver has taken in
    log,        \* rows of WebhookDelivery
    crashes     \* crashes so far

vars == <<endpoint, emitted, phase, attempt, aim, wire, heard, log, crashes>>

Phase == {"none", "sending", "acked", "failed", "waiting",
          "delivered", "exhausted", "lost"}
Post == Job \X (1..MaxAttempts)
Row == [job: Job, target: Aim, attempt: 1..MaxAttempts, success: BOOLEAN]

TypeOK ==
    /\ endpoint \in [Endpoint -> {"new", "active", "deleted"}]
    /\ emitted \in [Event -> {"no", "pending", "done"}]
    /\ phase \in [Job -> Phase]
    /\ attempt \in [Job -> 0..MaxAttempts]
    /\ \A j \in Job : attempt[j] = 0 <=> phase[j] = "none"
    /\ aim \in [Shot -> Aim \union {NoTarget}]
    /\ \A r \in Shot : phase[r] # "none" => aim[r] \in Aim
    /\ wire \subseteq Post
    /\ heard \subseteq Post
    /\ log \subseteq Row
    /\ crashes \in 0..MaxCrash

Init ==
    /\ endpoint \in [Endpoint -> {"new", "active"}]
    /\ emitted = [e \in Event |-> "no"]
    /\ phase = [j \in Job |-> "none"]
    /\ attempt = [j \in Job |-> 0]
    /\ aim = [r \in Shot |-> NoTarget]
    /\ wire = {}
    /\ heard = {}
    /\ log = {}
    /\ crashes = 0

Active == {ep \in Endpoint : endpoint[ep] = "active"}

TargetOf(j) == IF j \in Shot THEN aim[j] ELSE j

\* Mutant: replays retry like the first delivery does.
AlwaysAutoRetry(j) == TRUE

AutoRetry(j) == j \notin Shot

\* Mutant: one post too many.
OneMoreAttempt(j) == AutoRetry(j) /\ attempt[j] <= MaxAttempts

RetriesLeft(j) == AutoRetry(j) /\ attempt[j] < MaxAttempts
-----------------------------------------------------------------------------
(* emitEvent *)

\* A handler calls emitEvent after its own writes and does not wait for it.
EmitEvent(e) ==
    /\ emitted[e] = "no"
    /\ emitted' = [emitted EXCEPT ![e] = "pending"]
    /\ UNCHANGED <<endpoint, phase, attempt, aim, wire, heard, log, crashes>>

\* The lookup answers: post to every registered endpoint that wants the event.
FanOut(e) ==
    LET chosen == {e} \X {ep \in Active : e \in Wants[ep]}
    IN  /\ emitted[e] = "pending"
        /\ emitted' = [emitted EXCEPT ![e] = "done"]
        /\ phase' = [j \in Job |-> IF j \in chosen THEN "sending" ELSE phase[j]]
        /\ attempt' = [j \in Job |-> IF j \in chosen THEN 1 ELSE attempt[j]]
        /\ wire' = wire \union (chosen \X {1})
        /\ UNCHANGED <<endpoint, aim, heard, log, crashes>>

\* The lookup fails: the error is swallowed, and nobody hears of the event.
FanOutFails(e) ==
    /\ emitted[e] = "pending"
    /\ emitted' = [emitted EXCEPT ![e] = "done"]
    /\ UNCHANGED <<endpoint, phase, attempt, aim, wire, heard, log, crashes>>
-----------------------------------------------------------------------------
(* deliver *)

\* The response is 2xx.
PostAcknowledged(j) ==
    /\ phase[j] = "sending"
    /\ <<j, attempt[j]>> \in heard
    /\ phase' = [phase EXCEPT ![j] = "acked"]
    /\ UNCHANGED <<endpoint, emitted, attempt, aim, wire, heard, log, crashes>>

\* Another status, a connection error, or eight seconds without an answer: the
\* receiver may have taken the post in before, or may still do so.
PostFails(j) ==
    /\ phase[j] = "sending"
    /\ phase' = [phase EXCEPT ![j] = "failed"]
    /\ UNCHANGED <<endpoint, emitted, attempt, aim, wire, heard, log, crashes>>

NewRow(j) == [job |-> j, target |-> TargetOf(j), attempt |-> attempt[j],
              success |-> phase[j] = "acked"]

\* Mutant: a row that claims success whatever happened.
InsertSuccess(row) ==
    \/ log' = log
    \/ row.target[2] \in Active
       /\ log' = log \union {[row EXCEPT !.success = TRUE]}

\* The insert is refused when the endpoint is gone, and its errors are ignored.
InsertRow(row) ==
    \/ log' = log
    \/ row.target[2] \in Active /\ log' = log \union {row}

\* Mutant: the retry does not look at the outcome of the post.
AfterLogBlind(j) == IF RetriesLeft(j) THEN "waiting" ELSE "exhausted"

AfterLog(j) ==
    CASE phase[j] = "acked" -> "delivered"
      [] phase[j] = "failed" /\ RetriesLeft(j) -> "waiting"
      [] OTHER -> "exhausted"

LogDelivery(j) ==
    /\ phase[j] \in {"acked", "failed"}
    /\ InsertRow(NewRow(j))
    /\ phase' = [phase EXCEPT ![j] = AfterLog(j)]
    /\ UNCHANGED <<endpoint, emitted, attempt, aim, wire, heard, crashes>>

\* The timer fires.  It posts to the endpoint as it was read by emitEvent,
\* whether or not that is still registered.
RetryFires(j) ==
    /\ phase[j] = "waiting"
    /\ phase' = [phase EXCEPT ![j] = "sending"]
    /\ attempt' = [attempt EXCEPT ![j] = @ + 1]
    /\ wire' = wire \union {<<j, attempt[j] + 1>>}
    /\ UNCHANGED <<endpoint, emitted, aim, heard, log, crashes>>
-----------------------------------------------------------------------------
(* The admin and the surroundings *)

\* A single post to a target, as attempt 1 and with no retry.
Shoot(r, target) ==
    /\ phase[r] = "none"
    /\ aim' = [aim EXCEPT ![r] = target]
    /\ phase' = [phase EXCEPT ![r] = "sending"]
    /\ attempt' = [attempt EXCEPT ![r] = 1]
    /\ wire' = wire \union {<<r, 1>>}
    /\ UNCHANGED <<endpoint, emitted, heard, log, crashes>>

\* replayDelivery: the payload of a row, to that row's endpoint.
Replay(r) == \E row \in log : Shoot(r, row.target)

\* sendTestEvent: a ping, to an endpoint whether or not it wants any event.
SendTestEvent(r) == \E ep \in Active : Shoot(r, <<Ping, ep>>)

CreateEndpoint(ep) ==
    /\ endpoint[ep] = "new"
    /\ endpoint' = [endpoint EXCEPT ![ep] = "active"]
    /\ UNCHANGED <<emitted, phase, attempt, aim, wire, heard, log, crashes>>

\* The endpoint's rows go with it; its timers and open posts do not.
DeleteEndpoint(ep) ==
    /\ endpoint[ep] = "active"
    /\ endpoint' = [endpoint EXCEPT ![ep] = "deleted"]
    /\ log' = {row \in log : row.target[2] # ep}
    /\ UNCHANGED <<emitted, phase, attempt, aim, wire, heard, crashes>>

\* pruneWebhookDeliveries, run by the hourly tick: old rows go, whatever
\* became of their deliveries.
PruneRow(row) ==
    /\ row \in log
    /\ log' = log \ {row}
    /\ UNCHANGED <<endpoint, emitted, phase, attempt, aim, wire, heard, crashes>>

\* A post arrives, possibly long after the sender stopped waiting for it.
Hear(p) ==
    /\ p \in wire
    /\ wire' = wire \ {p}
    /\ heard' = heard \union {p}
    /\ UNCHANGED <<endpoint, emitted, phase, attempt, aim, log, crashes>>

AfterCrash(j) ==
    CASE phase[j] \in {"sending", "failed", "waiting"} -> "lost"
      [] phase[j] = "acked" -> "delivered"
      [] OTHER -> phase[j]

\* Everything under way lives in memory only: retries are gone, and a post that
\* was acknowledged is just not logged.
Crash ==
    /\ crashes < MaxCrash
    /\ crashes' = crashes + 1
    /\ emitted' = [e \in Event |-> IF emitted[e] = "pending" THEN "done" ELSE emitted[e]]
    /\ phase' = [j \in Job |-> AfterCrash(j)]
    /\ UNCHANGED <<endpoint, attempt, aim, wire, heard, log>>

\* Mutant: a post has no time limit.
DeliverUntimed(j) == PostAcknowledged(j) \/ LogDelivery(j) \/ RetryFires(j)

\* Everything the sender's code does on its own.
Deliver(j) == PostAcknowledged(j) \/ PostFails(j) \/ LogDelivery(j) \/ RetryFires(j)

Next ==
    \/ \E e \in Event : EmitEvent(e) \/ FanOut(e) \/ FanOutFails(e)
    \/ \E j \in Job : Deliver(j)
    \/ \E r \in Shot : Replay(r) \/ SendTestEvent(r)
    \/ \E ep \in Endpoint : CreateEndpoint(ep) \/ DeleteEndpoint(ep)
    \/ \E row \in log : PruneRow(row)
    \/ \E p \in wire : Hear(p)
    \/ Crash

Spec == Init /\ [][Next]_vars

\* A post ends by its answer or its time limit, and timers fire.
FairSpec == Spec /\ \A j \in Job : WF_vars(Deliver(j))
-----------------------------------------------------------------------------
(* Properties *)

OutcomeOf(j) ==
    CASE phase[j] = "none" -> "none"
      [] phase[j] \in {"sending", "failed", "waiting"} -> "open"
      [] phase[j] \in {"acked", "delivered"} -> "acked"
      [] phase[j] = "exhausted" -> "givenUp"
      [] phase[j] = "lost" -> "lost"

Contract == INSTANCE DeliveryContract WITH
    Message <- Job,
    MaxPosts <- [j \in Job |-> IF j \in Shot THEN 1 ELSE MaxAttempts],
    outcome <- [j \in Job |-> OutcomeOf(j)],
    posts <- attempt

\* Every delivery keeps the sender's promise: at most three posts, one for a
\* replay or a test, none after an acknowledged one, and no giving up before the
\* last (webhooks.ts:72, 87; docs/WEBHOOKS.md:57-60).
PromiseKept == Contract!Spec

\* A row that claims success stands for a post the receiver took in: the
\* inspector never shows a delivery that did not happen (webhooks.ts:59-71).
LogIsTruthful ==
    \A row \in log : row.success => <<row.job, row.attempt>> \in heard

\* Whatever the receiver does, no delivery stays open for ever.
EveryDeliverySettles ==
    \A j \in Job :
        phase[j] = "sending" ~> phase[j] \in {"delivered", "exhausted", "lost"}
-----------------------------------------------------------------------------
(* Strengthenings for the proofs in WebhookDelivery_proofs *)

\* A timer runs only where another post is allowed, replays have none, and an
\* event is fanned out once.
RetryInv ==
    /\ \A j \in Job : phase[j] = "waiting" => RetriesLeft(j)
    /\ \A r \in Shot : attempt[r] <= 1
    /\ \A t \in Target : emitted[t[1]] # "done" => phase[t] = "none"

\* A post whose answer is 2xx was taken in by the receiver.
AckInv ==
    /\ LogIsTruthful
    /\ \A j \in Job : phase[j] = "acked" => <<j, attempt[j]>> \in heard
=============================================================================
