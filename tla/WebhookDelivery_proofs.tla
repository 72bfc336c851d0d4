------------------------ MODULE WebhookDelivery_proofs ------------------------
(***************************************************************************)
(* The sender's promise of DeliveryContract, and the truth of the delivery *)
(* log, for any number of events, endpoints, replays and attempts.         *)
(***************************************************************************)
EXTENDS WebhookDelivery, TLAPS

\* Shorthands the proofs always see through.
USE DEF Target, Aim, Job, Phase, Post, Row

\* Every variable keeps its type; a delivery is posted exactly when it began.
\* The retry bound is part of it: no post goes beyond MaxAttempts.
THEOREM TypeCorrect == Spec => [](TypeOK /\ RetryInv)
<1> DEFINE Inv == TypeOK /\ RetryInv
<1>1. Init => Inv
  BY WebhookAssumption DEF Init, TypeOK, RetryInv
<1>2. Inv /\ [Next]_vars => Inv'
  <2> SUFFICES ASSUME Inv, [Next]_vars PROVE Inv'
    OBVIOUS
  <2> USE WebhookAssumption DEF TypeOK, RetryInv, RetriesLeft, AutoRetry
  <2>1. ASSUME NEW e \in Event, EmitEvent(e) PROVE Inv'
    BY <2>1 DEF EmitEvent
  <2>2. ASSUME NEW e \in Event, FanOut(e) PROVE Inv'
    <3> DEFINE chosen == {e} \X {ep \in Active : e \in Wants[ep]}
    <3>1. chosen \subseteq Target /\ chosen \intersect Shot = {}
      BY DEF Active
    <3> HIDE DEF chosen
    <3>2. /\ phase' = [j \in Job |-> IF j \in chosen THEN "sending" ELSE phase[j]]
          /\ attempt' = [j \in Job |-> IF j \in chosen THEN 1 ELSE attempt[j]]
          /\ wire' = wire \union (chosen \X {1})
          /\ emitted' = [emitted EXCEPT ![e] = "done"]
          /\ UNCHANGED <<endpoint, aim, heard, log, crashes>>
      BY <2>2 DEF FanOut, chosen
    <3>3. wire' \subseteq Post
      BY <3>1, <3>2
    <3>4. phase' \in [Job -> Phase] /\ attempt' \in [Job -> 0..MaxAttempts]
      BY <3>2
    <3>5. emitted' \in [Event -> {"no", "pending", "done"}]
      BY <3>2
    <3>6. \A j \in Job : attempt'[j] = 0 <=> phase'[j] = "none"
      BY <3>2
    <3>7. \A r \in Shot : phase'[r] = phase[r] /\ attempt'[r] = attempt[r]
      BY <3>1, <3>2
    <3>8. \A j \in Job : phase'[j] = "waiting" => phase[j] = "waiting" /\ attempt'[j] = attempt[j]
      BY <3>2
    <3>9. \A t \in Target : emitted'[t[1]] # "done" => phase'[t] = "none"
      <4>1. \A t \in chosen : t[1] = e
        BY DEF chosen
      <4>2. \A t \in Target : t[1] \in Event
        OBVIOUS
      <4> HIDE DEF Target
      <4>3. QED
        BY <3>2, <4>1, <4>2 DEF Job
    <3>10. QED
      BY <3>2, <3>3, <3>4, <3>5, <3>6, <3>7, <3>8, <3>9
  <2>3. ASSUME NEW e \in Event, FanOutFails(e) PROVE Inv'
    BY <2>3 DEF FanOutFails
  <2>4. ASSUME NEW j \in Job, PostAcknowledged(j) PROVE Inv'
    BY <2>4 DEF PostAcknowledged
  <2>5. ASSUME NEW j \in Job, PostFails(j) PROVE Inv'
    BY <2>5 DEF PostFails
  <2>6. ASSUME NEW j \in Job, LogDelivery(j) PROVE Inv'
    <3>1. TargetOf(j) \in Aim /\ attempt[j] \in 1..MaxAttempts
      BY <2>6 DEF LogDelivery, TargetOf
    <3>2. NewRow(j) \in Row
      BY <3>1 DEF NewRow
    <3>3. log' \subseteq Row
      BY <2>6, <3>2 DEF LogDelivery, InsertRow
    <3>4. AfterLog(j) \in {"delivered", "waiting", "exhausted"}
          /\ (AfterLog(j) = "waiting" => RetriesLeft(j))
      BY <2>6 DEF LogDelivery, AfterLog
    <3>5. /\ phase' = [phase EXCEPT ![j] = AfterLog(j)]
          /\ phase[j] # "none"
          /\ UNCHANGED <<endpoint, emitted, attempt, aim, wire, heard, crashes>>
      BY <2>6 DEF LogDelivery
    <3> HIDE DEF Row
    <3>6. QED
      BY <3>3, <3>4, <3>5
  <2>7. ASSUME NEW j \in Job, RetryFires(j) PROVE Inv'
    BY <2>7 DEF RetryFires
  <2>8. ASSUME NEW r \in Shot, Replay(r) \/ SendTestEvent(r) PROVE Inv'
    <3>1. PICK target \in Aim : Shoot(r, target)
      <4>1. CASE Replay(r)
        BY <4>1 DEF Replay
      <4>2. CASE SendTestEvent(r)
        BY <4>2 DEF SendTestEvent, Active
      <4>3. QED
        BY <2>8, <4>1, <4>2
    <3> HIDE DEF Aim, Row
    <3>2. QED
      BY <3>1 DEF Shoot
  <2>9. ASSUME NEW ep \in Endpoint, CreateEndpoint(ep) PROVE Inv'
    BY <2>9 DEF CreateEndpoint
  <2>10. ASSUME NEW ep \in Endpoint, DeleteEndpoint(ep) PROVE Inv'
    BY <2>10 DEF DeleteEndpoint
  <2>11. ASSUME NEW row \in log, PruneRow(row) PROVE Inv'
    BY <2>11 DEF PruneRow
  <2>12. ASSUME NEW p \in wire, Hear(p) PROVE Inv'
    BY <2>12 DEF Hear
  <2>13. CASE Crash
    BY <2>13 DEF Crash, AfterCrash
  <2>14. CASE UNCHANGED vars
    BY <2>14 DEF vars
  <2>15. QED
    BY <2>1, <2>2, <2>3, <2>4, <2>5, <2>6, <2>7,
       <2>8, <2>9, <2>10, <2>11, <2>12, <2>13, <2>14 DEF Next, Deliver
<1>3. QED
  BY <1>1, <1>2, PTL DEF Spec
-----------------------------------------------------------------------------
\* A row that claims success stands for a post the receiver took in.
THEOREM TruthOfLog == Spec => []LogIsTruthful
<1>1. Init => AckInv
  BY DEF Init, AckInv, LogIsTruthful
<1>2. TypeOK /\ AckInv /\ [Next]_vars => AckInv'
  <2> SUFFICES ASSUME TypeOK, AckInv, [Next]_vars PROVE AckInv'
    OBVIOUS
  <2> USE WebhookAssumption DEF TypeOK, AckInv, LogIsTruthful
  <2>1. ASSUME NEW e \in Event, EmitEvent(e) PROVE AckInv'
    BY <2>1 DEF EmitEvent
  <2>2. ASSUME NEW e \in Event, FanOut(e) PROVE AckInv'
    BY <2>2 DEF FanOut, Active
  <2>3. ASSUME NEW e \in Event, FanOutFails(e) PROVE AckInv'
    BY <2>3 DEF FanOutFails
  <2>4. ASSUME NEW j \in Job, PostAcknowledged(j) PROVE AckInv'
    BY <2>4 DEF PostAcknowledged
  <2>5. ASSUME NEW j \in Job, PostFails(j) PROVE AckInv'
    BY <2>5 DEF PostFails
  <2>6. ASSUME NEW j \in Job, LogDelivery(j) PROVE AckInv'
    <3>1. AfterLog(j) # "acked"
      BY <2>6 DEF LogDelivery, AfterLog
    <3>2. phase' = [phase EXCEPT ![j] = AfterLog(j)] /\ UNCHANGED <<attempt, heard>>
      BY <2>6 DEF LogDelivery
    <3>3. log' = log \/ log' = log \union {NewRow(j)}
      BY <2>6 DEF LogDelivery, InsertRow
    <3>4. NewRow(j).success => <<NewRow(j).job, NewRow(j).attempt>> \in heard
      BY DEF NewRow
    <3>5. \A row \in log' : row.success => <<row.job, row.attempt>> \in heard'
      BY <3>2, <3>3, <3>4
    <3>6. QED
      BY <3>1, <3>2, <3>5
  <2>7. ASSUME NEW j \in Job, RetryFires(j) PROVE AckInv'
    BY <2>7 DEF RetryFires
  <2>8. ASSUME NEW r \in Shot, Replay(r) \/ SendTestEvent(r) PROVE AckInv'
    BY <2>8 DEF Replay, SendTestEvent, Shoot, Active
  <2>9. ASSUME NEW ep \in Endpoint, CreateEndpoint(ep) PROVE AckInv'
    BY <2>9 DEF CreateEndpoint
  <2>10. ASSUME NEW ep \in Endpoint, DeleteEndpoint(ep) PROVE AckInv'
    BY <2>10 DEF DeleteEndpoint
  <2>11. ASSUME NEW row \in log, PruneRow(row) PROVE AckInv'
    BY <2>11 DEF PruneRow
  <2>12. ASSUME NEW p \in wire, Hear(p) PROVE AckInv'
    BY <2>12 DEF Hear
  <2>13. CASE Crash
    BY <2>13 DEF Crash, AfterCrash
  <2>14. CASE UNCHANGED vars
    BY <2>14 DEF vars
  <2>15. QED
    BY <2>1, <2>2, <2>3, <2>4, <2>5, <2>6, <2>7,
       <2>8, <2>9, <2>10, <2>11, <2>12, <2>13, <2>14 DEF Next, Deliver
<1>3. AckInv => LogIsTruthful
  BY DEF AckInv
<1>4. QED
  BY <1>1, <1>2, <1>3, TypeCorrect, PTL DEF Spec
-----------------------------------------------------------------------------
\* A delivery that failed with no retry left has used up its posts.
LEMMA LastPost ==
    ASSUME TypeOK, RetryInv, NEW j \in Job, phase[j] = "failed", ~RetriesLeft(j)
    PROVE  attempt[j] = IF j \in Shot THEN 1 ELSE MaxAttempts
<1>1. attempt[j] \in 0..MaxAttempts /\ attempt[j] # 0
  BY DEF TypeOK
<1>2. MaxAttempts \in Nat
  BY WebhookAssumption
<1>3. j \in Shot => attempt[j] <= 1
  BY DEF RetryInv
<1>4. j \notin Shot => ~(attempt[j] < MaxAttempts)
  BY DEF RetriesLeft, AutoRetry
<1>5. QED
  BY <1>1, <1>2, <1>3, <1>4

\* The sender keeps the promise of DeliveryContract: every step of Spec maps to
\* a step of the contract for each delivery.
THEOREM PromiseHolds == Spec => PromiseKept
<1> DEFINE mout == [j \in Job |-> OutcomeOf(j)]
           mmax == [j \in Job |-> IF j \in Shot THEN 1 ELSE MaxAttempts]
<1>1. Init => Contract!Init
  BY DEF Init, Contract!Init, OutcomeOf
<1>2. TypeOK /\ RetryInv /\ [Next]_vars => [Contract!Next]_<<mout, attempt>>
  <2> SUFFICES ASSUME TypeOK, RetryInv, [Next]_vars
               PROVE  Contract!Next
    OBVIOUS
  <2> SUFFICES ASSUME NEW m \in Job
               PROVE  \/ Contract!Open(m) \/ Contract!Repeat(m)
                      \/ Contract!Acknowledge(m) \/ Contract!GiveUp(m)
                      \/ Contract!Lose(m) \/ Contract!Rest(m)
    BY DEF Contract!Next
  <2> USE WebhookAssumption DEF TypeOK, Contract!Open, Contract!Repeat,
          Contract!Acknowledge, Contract!GiveUp, Contract!Lose, Contract!Rest,
          Contract!Moves, OutcomeOf
  <2> DEFINE Same == phase'[m] = phase[m] /\ attempt'[m] = attempt[m]
             Move(from, to) == phase[m] = from /\ phase'[m] = to
             Started == Move("none", "sending") /\ attempt'[m] = 1
             Retried == Move("waiting", "sending") /\ attempt'[m] = attempt[m] + 1
             Answered == \/ Move("sending", "acked") \/ Move("sending", "failed")
                         \/ Move("failed", "waiting") \/ Move("acked", "delivered")
             GivenUp == Move("failed", "exhausted") /\ ~RetriesLeft(m)
             Died == \E from \in {"sending", "failed", "waiting"} : Move(from, "lost")
             Step == \/ Same
                     \/ Started
                     \/ Retried
                     \/ /\ Answered \/ GivenUp \/ Died
                        /\ attempt'[m] = attempt[m]
  <2>1. Step
    <3>1. ASSUME NEW e \in Event, EmitEvent(e) \/ FanOut(e) \/ FanOutFails(e)
          PROVE  Step
      <4>1. CASE EmitEvent(e) \/ FanOutFails(e)
        BY <4>1 DEF EmitEvent, FanOutFails
      <4>2. CASE FanOut(e)
        <5> DEFINE chosen == {e} \X {ep \in Active : e \in Wants[ep]}
        <5>1. \A t \in chosen : t \in Target /\ phase[t] = "none"
          BY <4>2 DEF FanOut, Active, RetryInv
        <5>2. /\ phase'[m] = IF m \in chosen THEN "sending" ELSE phase[m]
              /\ attempt'[m] = IF m \in chosen THEN 1 ELSE attempt[m]
          BY <4>2 DEF FanOut
        <5> HIDE DEF chosen
        <5>3. QED
          BY <5>1, <5>2
      <4>3. QED
        BY <3>1, <4>1, <4>2
    <3>2. ASSUME NEW j \in Job, PostAcknowledged(j) \/ PostFails(j) \/ RetryFires(j)
          PROVE  Step
      BY <3>2 DEF PostAcknowledged, PostFails, RetryFires
    <3>3. ASSUME NEW j \in Job, LogDelivery(j)
          PROVE  Step
      BY <3>3 DEF LogDelivery, AfterLog
    <3>4. ASSUME NEW r \in Shot, Replay(r) \/ SendTestEvent(r)
          PROVE  Step
      BY <3>4 DEF Replay, SendTestEvent, Shoot, Active
    <3>5. CASE Crash
      BY <3>5 DEF Crash, AfterCrash
    <3>6. QED
      BY <3>1, <3>2, <3>3, <3>4, <3>5
         DEF Next, Deliver, CreateEndpoint, DeleteEndpoint, PruneRow, Hear, vars
  <2>2. CASE Same
    BY <2>2
  <2>3. CASE Started
    BY <2>3
  <2>4. CASE Retried
    BY <2>4 DEF RetriesLeft, AutoRetry, RetryInv
  <2>5. CASE Answered /\ attempt'[m] = attempt[m]
    BY <2>5
  <2>6. CASE GivenUp /\ attempt'[m] = attempt[m]
    <3>1. attempt[m] = mmax[m]
      BY <2>6, LastPost
    <3>2. QED
      BY <2>6, <3>1
  <2>7. CASE Died /\ attempt'[m] = attempt[m]
    BY <2>7
  <2>8. QED
    BY <2>1, <2>2, <2>3, <2>4, <2>5, <2>6, <2>7
<1>3. QED
  BY <1>1, <1>2, TypeCorrect, PTL DEF Spec, PromiseKept, Contract!Spec
-----------------------------------------------------------------------------
Open == {"sending", "acked", "failed", "waiting"}
Settled == {"delivered", "exhausted", "lost"}

\* Bounds the steps deliver may still take for j: a post, its outcome, its row
\* and its timer come in this order, at most MaxAttempts times.
StepsLeft(j) ==
    IF phase[j] \notin Open THEN 0
    ELSE 3 * (MaxAttempts - attempt[j])
         + (IF phase[j] = "sending" THEN 3 ELSE IF phase[j] = "waiting" THEN 1 ELSE 2)

\* Every step the code takes for a delivery brings it nearer to its end, nothing
\* ever takes it back, and what has settled is not touched again: neither a late
\* answer, a timer, a crash nor the end of its endpoint moves it
\* (webhooks.ts:55-92).
DeliveriesRunDown ==
    [][\A j \in Job :
          /\ Deliver(j) => StepsLeft(j)' < StepsLeft(j)
          /\ phase[j] # "none" => StepsLeft(j)' <= StepsLeft(j)
          /\ phase[j] \in Settled => phase'[j] = phase[j] /\ attempt'[j] = attempt[j]]_vars

\* The measure is a number, and no delivery has more than 3 * MaxAttempts steps.
LEMMA StepsLeftBound ==
    ASSUME TypeOK, NEW j \in Job
    PROVE  StepsLeft(j) \in 0..(3 * MaxAttempts)
<1> USE WebhookAssumption DEF TypeOK, StepsLeft, Open
<1>1. attempt[j] \in 0..MaxAttempts /\ (phase[j] # "none" => attempt[j] # 0)
  OBVIOUS
<1>2. CASE phase[j] \in Open
  BY <1>1, <1>2
<1>3. CASE phase[j] \notin Open
  BY <1>3
<1>4. QED
  BY <1>2, <1>3

\* A delivery ends within 3 * MaxAttempts steps of its own: with the fairness of
\* FairSpec this is why EveryDeliverySettles holds.
THEOREM DeliveriesEnd == Spec => DeliveriesRunDown
<1> DEFINE Down(j) ==
               /\ Deliver(j) => StepsLeft(j)' < StepsLeft(j)
               /\ phase[j] # "none" => StepsLeft(j)' <= StepsLeft(j)
               /\ phase[j] \in Settled => phase'[j] = phase[j] /\ attempt'[j] = attempt[j]
<1>1. TypeOK /\ TypeOK' /\ RetryInv /\ [Next]_vars => [\A j \in Job : Down(j)]_vars
  <2> SUFFICES ASSUME TypeOK, TypeOK', RetryInv, Next, NEW j \in Job PROVE Down(j)
    OBVIOUS
  <2> DEFINE before == StepsLeft(j)
             after == StepsLeft(j)'
             Same == phase'[j] = phase[j] /\ attempt'[j] = attempt[j]
  <2>0. /\ before \in Nat /\ after \in Nat
        /\ MaxAttempts \in Nat /\ attempt[j] \in 0..MaxAttempts
        /\ phase[j] # "none" => attempt[j] # 0
    <3>1. before \in 0..(3 * MaxAttempts)
      BY StepsLeftBound
    <3>2. attempt'[j] \in 0..MaxAttempts
      BY DEF TypeOK
    <3>3. after \in Nat
      BY <3>2, WebhookAssumption DEF StepsLeft, Open
    <3>4. QED
      BY <3>1, <3>3, WebhookAssumption DEF TypeOK
  <2>1. Deliver(j) => phase[j] \in Open /\ after < before
    <3>1. ASSUME PostAcknowledged(j) \/ PostFails(j) PROVE phase[j] \in Open /\ after < before
      BY <3>1, <2>0 DEF PostAcknowledged, PostFails, StepsLeft, Open, TypeOK
    <3>2. ASSUME LogDelivery(j) PROVE phase[j] \in Open /\ after < before
      <4>1. AfterLog(j) \in {"delivered", "waiting", "exhausted"}
        BY <3>2 DEF LogDelivery, AfterLog
      <4>2. phase'[j] = AfterLog(j) /\ attempt'[j] = attempt[j] /\ phase[j] \in {"acked", "failed"}
        BY <3>2 DEF LogDelivery, TypeOK
      <4>3. QED
        BY <4>1, <4>2, <2>0 DEF StepsLeft, Open
    <3>3. ASSUME RetryFires(j) PROVE phase[j] \in Open /\ after < before
      <4>1. /\ phase[j] = "waiting" /\ phase'[j] = "sending" /\ attempt'[j] = attempt[j] + 1
        BY <3>3 DEF RetryFires, TypeOK
      <4>2. QED
        BY <4>1, <2>0 DEF StepsLeft, Open
    <3>4. QED
      BY <3>1, <3>2, <3>3 DEF Deliver
  <2>2. \/ Deliver(j)
        \/ Same
        \/ phase[j] = "none"
        \/ phase[j] \in Open /\ phase'[j] \in Settled /\ attempt'[j] = attempt[j]
    <3>1. ASSUME NEW e \in Event, EmitEvent(e) \/ FanOut(e) \/ FanOutFails(e)
          PROVE  Same \/ phase[j] = "none"
      <4>1. CASE EmitEvent(e) \/ FanOutFails(e)
        BY <4>1 DEF EmitEvent, FanOutFails
      <4>2. CASE FanOut(e)
        <5> DEFINE chosen == {e} \X {ep \in Active : e \in Wants[ep]}
        <5>1. \A t \in chosen : phase[t] = "none"
          BY <4>2 DEF FanOut, Active, RetryInv
        <5>2. /\ phase'[j] = IF j \in chosen THEN "sending" ELSE phase[j]
              /\ attempt'[j] = IF j \in chosen THEN 1 ELSE attempt[j]
          BY <4>2 DEF FanOut
        <5> HIDE DEF chosen
        <5>3. QED
          BY <5>1, <5>2
      <4>3. QED
        BY <3>1, <4>1, <4>2
    <3>2. ASSUME NEW k \in Job, Deliver(k), k # j
          PROVE  Same
      BY <3>2 DEF Deliver, PostAcknowledged, PostFails, LogDelivery, RetryFires, TypeOK
    <3>3. ASSUME NEW r \in Shot, Replay(r) \/ SendTestEvent(r)
          PROVE  Same \/ phase[j] = "none"
      BY <3>3 DEF Replay, SendTestEvent, Shoot, Active, TypeOK
    <3>4. CASE Crash
      BY <3>4 DEF Crash, AfterCrash, TypeOK, Open, Settled
    <3>5. QED
      BY <3>1, <3>2, <3>3, <3>4
         DEF Next, CreateEndpoint, DeleteEndpoint, PruneRow, Hear, vars
  <2>3. CASE Deliver(j)
    BY <2>1, <2>3, <2>0 DEF Open, Settled
  <2>4. CASE ~Deliver(j) /\ Same
    <3>1. after = before
      BY <2>4 DEF StepsLeft
    <3>2. QED
      BY <2>4, <3>1, <2>0
  <2>5. CASE ~Deliver(j) /\ phase[j] = "none"
    BY <2>5 DEF Settled
  <2>6. CASE ~Deliver(j) /\ phase[j] \in Open /\ phase'[j] \in Settled /\ attempt'[j] = attempt[j]
    <3>1. after = 0
      BY <2>6 DEF StepsLeft, Open, Settled
    <3>2. QED
      BY <2>6, <3>1, <2>0 DEF Open, Settled
  <2>7. QED
    BY <2>2, <2>3, <2>4, <2>5, <2>6
<1>2. QED
  BY <1>1, TypeCorrect, PTL DEF Spec, DeliveriesRunDown
=============================================================================
