-------------------------- MODULE HourlyTick_proofs --------------------------
(***************************************************************************)
(* What the advisory lock and the digest bookkeeping of HourlyTick give    *)
(* for any number of instances, ticks and orgs.                            *)
(***************************************************************************)
EXTENDS HourlyTick, TLAPS

\* Shorthands the proofs always see through.
USE DEF Never, Time, PruneJob, AfterJob, Step, AfterDigestError,
        NextAfterSmtpFailure

\* Every variable keeps its type (all of HourlyTick's actions).
THEOREM TypeCorrect == Spec => []TypeOK
<1>1. Init => TypeOK
  BY TickAssumption DEF Init, TypeOK
<1>2. TypeOK /\ [Next]_vars => TypeOK'
  <2> SUFFICES ASSUME TypeOK, [Next]_vars PROVE TypeOK'
    OBVIOUS
  <2> USE TickAssumption DEF TypeOK, orgVars, tickVars, mailVars, faultVars
  <2>1. ASSUME NEW t \in Tick, AcquireLock(t) PROVE TypeOK'
    BY <2>1 DEF AcquireLock, TakesLock
  <2>2. ASSUME NEW t \in Tick, LockExpires(t) PROVE TypeOK'
    BY <2>2 DEF LockExpires
  <2>3. ASSUME NEW t \in Tick, Scan(t) PROVE TypeOK'
    BY <2>3 DEF Scan
  <2>4. ASSUME NEW t \in Tick, ScanFails(t) PROVE TypeOK'
    BY <2>4 DEF ScanFails
  <2>5. ASSUME NEW t \in Tick, NEW o \in Org, Compose(t, o) PROVE TypeOK'
    BY <2>5 DEF Compose
  <2>6. ASSUME NEW t \in Tick, NEW o \in Org, ComposeSkips(t, o) PROVE TypeOK'
    BY <2>6 DEF ComposeSkips
  <2>7. ASSUME NEW t \in Tick, SmtpAccepts(t) PROVE TypeOK'
    BY <2>7 DEF SmtpAccepts
  <2>8. ASSUME NEW t \in Tick, SmtpFails(t) PROVE TypeOK'
    <3>1. CASE UNCHANGED mailVars
      BY <2>8, <3>1 DEF SmtpFails
    <3>2. CASE /\ accepted' = [accepted EXCEPT ![current[t]] = @ \union {startedAt[t]}]
               /\ lost' = [lost EXCEPT ![current[t]] = TRUE]
      <4>1. pc' = [pc EXCEPT ![t] = "pick"] /\ pc[t] = "smtp"
        BY <2>8 DEF SmtpFails
      <4> DEFINE grown == accepted[current[t]] \union {startedAt[t]}
      <4>2. grown \in SUBSET (Time \ {Never})
        BY <4>1
      <4>3. accepted' \in [Org -> SUBSET (Time \ {Never})]
        <5> HIDE DEF grown
        <5>1. accepted' = [accepted EXCEPT ![current[t]] = grown]
          BY <3>2 DEF grown
        <5>2. QED
          BY <4>2, <5>1
      <4>4. lost' \in [Org -> BOOLEAN]
        BY <3>2
      <4>5. todo' \in [Tick -> SUBSET Org]
        BY <2>8 DEF SmtpFails
      <4>6. UNCHANGED <<clock, orgVars, lock, startedAt, current, faultVars>>
        BY <2>8 DEF SmtpFails
      <4>7. QED
        BY <4>1, <4>3, <4>4, <4>5, <4>6
    <3>3. QED
      BY <2>8, <3>1, <3>2 DEF SmtpFails
  <2>9. ASSUME NEW t \in Tick, Mark(t) PROVE TypeOK'
    BY <2>9 DEF Mark
  <2>10. ASSUME NEW t \in Tick, MarkFails(t) PROVE TypeOK'
    BY <2>10 DEF MarkFails
  <2>11. ASSUME NEW t \in Tick, DigestsDone(t) PROVE TypeOK'
    BY <2>11 DEF DigestsDone
  <2>12. ASSUME NEW t \in Tick, Prune(t) PROVE TypeOK'
    BY <2>12 DEF Prune
  <2>13. ASSUME NEW t \in Tick, ReleaseLock(t) PROVE TypeOK'
    BY <2>13 DEF ReleaseLock, FreedBy
  <2>14. ASSUME NEW i \in Instance, Crash(i) PROVE TypeOK'
    BY <2>14 DEF Crash, FreedBy, Running
  <2>15. ASSUME NEW o \in Org, SaveDigestSettings(o) PROVE TypeOK'
    BY <2>15 DEF SaveDigestSettings
  <2>16. CASE TimePasses
    BY <2>16 DEF TimePasses
  <2>17. CASE UNCHANGED vars
    BY <2>17 DEF vars
  <2>18. QED
    BY <2>1, <2>2, <2>3, <2>4, <2>5, <2>6, <2>7, <2>8, <2>9, <2>10, <2>11,
       <2>12, <2>13, <2>14, <2>15, <2>16, <2>17 DEF Next, RunTick
<1>3. QED
  BY <1>1, <1>2, PTL DEF Spec
-----------------------------------------------------------------------------
\* A tick runs exactly while it holds the lock or has outlived it: only
\* AcquireLock, ReleaseLock, LockExpires and Crash change who runs or holds it.
LEMMA LockInvariant == Spec => []LockInv
<1>1. Init => LockInv
  BY TickAssumption DEF Init, LockInv, Running
<1>2. TypeOK /\ LockInv /\ [Next]_vars => LockInv'
  <2> SUFFICES ASSUME TypeOK, LockInv, [Next]_vars PROVE LockInv'
    OBVIOUS
  <2> USE TickAssumption DEF TypeOK, LockInv, Running, faultVars
  <2>1. ASSUME NEW t \in Tick, AcquireLock(t) PROVE LockInv'
    BY <2>1 DEF AcquireLock, TakesLock
  <2>2. ASSUME NEW t \in Tick, LockExpires(t) PROVE LockInv'
    BY <2>2 DEF LockExpires
  <2>3. ASSUME NEW t \in Tick, RunTick(t), ~ReleaseLock(t) PROVE LockInv'
    <3>1. UNCHANGED <<lock, outlived>>
      BY <2>3 DEF RunTick, Scan, ScanFails, Compose, ComposeSkips, SmtpAccepts,
                  SmtpFails, Mark, MarkFails, DigestsDone, Prune
    <3>2. pc[t] # "idle" /\ pc'[t] # "idle"
      BY <2>3 DEF RunTick, Scan, ScanFails, Compose, ComposeSkips, SmtpAccepts,
                  SmtpFails, Mark, MarkFails, DigestsDone, Prune
    <3>3. \A u \in Tick \ {t} : pc'[u] = pc[u]
      BY <2>3 DEF RunTick, Scan, ScanFails, Compose, ComposeSkips, SmtpAccepts,
                  SmtpFails, Mark, MarkFails, DigestsDone, Prune
    <3>4. QED
      BY <3>1, <3>2, <3>3
  <2>4. ASSUME NEW t \in Tick, ReleaseLock(t) PROVE LockInv'
    BY <2>4 DEF ReleaseLock, FreedBy
  <2>5. ASSUME NEW i \in Instance, Crash(i) PROVE LockInv'
    BY <2>5 DEF Crash, FreedBy
  <2>6. ASSUME NEW o \in Org, SaveDigestSettings(o) PROVE LockInv'
    BY <2>6 DEF SaveDigestSettings
  <2>7. CASE TimePasses
    BY <2>7 DEF TimePasses
  <2>8. CASE UNCHANGED vars
    BY <2>8 DEF vars
  <2>9. QED
    BY <2>1, <2>2, <2>3, <2>4, <2>5, <2>6, <2>7, <2>8 DEF Next
<1>3. QED
  BY <1>1, <1>2, TypeCorrect, PTL DEF Spec

\* Two ticks run at once only when one of them has outlived its lock
\* transaction (joblock.ts:24-36), for any number of instances and ticks.
THEOREM OverlapNeedsExpiry == Spec => []OverlapOnlyAfterExpiry
<1>1. LockInv => OverlapOnlyAfterExpiry
  BY DEF LockInv, OverlapOnlyAfterExpiry
<1>2. QED
  BY <1>1, LockInvariant, PTL
-----------------------------------------------------------------------------
\* digestLastSentAt only ever holds the start of a tick whose digest the mail
\* server accepted (reports.ts:142-148), whatever overlaps, fails or crashes.
THEOREM MarksFollowAcceptance == Spec => []MarkedOnlyIfAccepted
<1>1. Init => MarkInv
  BY DEF Init, MarkInv, MarkedOnlyIfAccepted
<1>2. TypeOK /\ MarkInv /\ [Next]_vars => MarkInv'
  <2> SUFFICES ASSUME TypeOK, MarkInv, [Next]_vars PROVE MarkInv'
    OBVIOUS
  <2> USE TickAssumption DEF TypeOK, MarkInv, MarkedOnlyIfAccepted, orgVars,
                             tickVars, mailVars
  <2>1. ASSUME NEW t \in Tick, AcquireLock(t) PROVE MarkInv'
    BY <2>1 DEF AcquireLock
  <2>2. ASSUME NEW t \in Tick, LockExpires(t) PROVE MarkInv'
    BY <2>2 DEF LockExpires
  <2>3. ASSUME NEW t \in Tick, Scan(t) \/ ScanFails(t) PROVE MarkInv'
    BY <2>3 DEF Scan, ScanFails
  <2>4. ASSUME NEW t \in Tick, NEW o \in Org, Compose(t, o) \/ ComposeSkips(t, o)
        PROVE  MarkInv'
    BY <2>4 DEF Compose, ComposeSkips
  <2>5. ASSUME NEW t \in Tick, SmtpAccepts(t) PROVE MarkInv'
    BY <2>5 DEF SmtpAccepts
  <2>6. ASSUME NEW t \in Tick, SmtpFails(t) PROVE MarkInv'
    BY <2>6 DEF SmtpFails
  <2>7. ASSUME NEW t \in Tick, Mark(t) PROVE MarkInv'
    BY <2>7 DEF Mark
  <2>8. ASSUME NEW t \in Tick, MarkFails(t) PROVE MarkInv'
    BY <2>8 DEF MarkFails
  <2>9. ASSUME NEW t \in Tick, DigestsDone(t) \/ Prune(t) \/ ReleaseLock(t)
        PROVE  MarkInv'
    BY <2>9 DEF DigestsDone, Prune, ReleaseLock
  <2>10. ASSUME NEW i \in Instance, Crash(i) PROVE MarkInv'
    BY <2>10 DEF Crash
  <2>11. ASSUME NEW o \in Org, SaveDigestSettings(o) PROVE MarkInv'
    BY <2>11 DEF SaveDigestSettings
  <2>12. CASE TimePasses
    BY <2>12 DEF TimePasses
  <2>13. CASE UNCHANGED vars
    BY <2>13 DEF vars
  <2>14. QED
    BY <2>1, <2>2, <2>3, <2>4, <2>5, <2>6, <2>7, <2>8, <2>9, <2>10, <2>11,
       <2>12, <2>13 DEF Next, RunTick
<1>3. MarkInv => MarkedOnlyIfAccepted
  BY DEF MarkInv
<1>4. QED
  BY <1>1, <1>2, <1>3, TypeCorrect, PTL DEF Spec
-----------------------------------------------------------------------------
\* While no lock transaction has expired at most one tick runs, so what a tick
\* read about the orgs it has left to do stays true until it handles them.
LEMMA DigestInvariant == Spec => []DigestInv
<1>1. Init => DigestInv
  BY TickAssumption DEF Init, DigestInv, Running
<1>2. TypeOK /\ LockInv /\ DigestInv /\ [Next]_vars => DigestInv'
  <2> SUFFICES ASSUME TypeOK, LockInv, DigestInv, [Next]_vars PROVE DigestInv'
    OBVIOUS
  <2> USE TickAssumption DEF TypeOK, LockInv, DigestInv, Running, orgVars,
                             tickVars, mailVars, faultVars
  <2>1. ASSUME NEW t \in Tick, AcquireLock(t) PROVE DigestInv'
    BY <2>1 DEF AcquireLock, TakesLock
  <2>2. ASSUME NEW t \in Tick, ReleaseLock(t) PROVE DigestInv'
    BY <2>2 DEF ReleaseLock, FreedBy
  <2>3. ASSUME NEW t \in Tick, LockExpires(t) PROVE DigestInv'
    BY <2>3 DEF LockExpires
  <2>4. ASSUME NEW t \in Tick, Scan(t) PROVE DigestInv'
    BY <2>4 DEF Scan, DigestDue
  <2>5. ASSUME NEW t \in Tick, ScanFails(t) PROVE DigestInv'
    BY <2>5 DEF ScanFails
  <2>6. ASSUME NEW t \in Tick, NEW o \in Org, Compose(t, o) PROVE DigestInv'
    BY <2>6 DEF Compose
  <2>7. ASSUME NEW t \in Tick, NEW o \in Org, ComposeSkips(t, o) PROVE DigestInv'
    BY <2>7 DEF ComposeSkips
  <2>8. ASSUME NEW t \in Tick, SmtpAccepts(t) PROVE DigestInv'
    BY <2>8 DEF SmtpAccepts
  <2>9. ASSUME NEW t \in Tick, SmtpFails(t) PROVE DigestInv'
    BY <2>9 DEF SmtpFails
  <2>10. ASSUME NEW t \in Tick, Mark(t) PROVE DigestInv'
    BY <2>10 DEF Mark
  <2>11. ASSUME NEW t \in Tick, MarkFails(t) PROVE DigestInv'
    BY <2>11 DEF MarkFails
  <2>12. ASSUME NEW t \in Tick, DigestsDone(t) PROVE DigestInv'
    BY <2>12 DEF DigestsDone
  <2>13. ASSUME NEW t \in Tick, Prune(t) PROVE DigestInv'
    BY <2>13 DEF Prune
  <2>14. ASSUME NEW i \in Instance, Crash(i) PROVE DigestInv'
    <3> DEFINE mine == {t \in Tick : Host[t] = i}
    <3>1. \A t \in mine : /\ pc'[t] = "idle"
                          /\ todo'[t] = {}
                          /\ startedAt'[t] = Never
      BY <2>14 DEF Crash
    <3>2. \A t \in Tick \ mine : /\ pc'[t] = pc[t]
                                 /\ todo'[t] = todo[t]
                                 /\ startedAt'[t] = startedAt[t]
                                 /\ current'[t] = current[t]
      BY <2>14 DEF Crash
    <3>3. outlived' = outlived \ mine /\ UNCHANGED <<clock, orgVars, accepted, expiries>>
      BY <2>14 DEF Crash
    <3>4. \A t \in mine, o \in Org : pc[t] = "mark" /\ current[t] = o => lost'[o]
      <4> DEFINE unrecorded == {current[t] : t \in {u \in mine : pc[u] = "mark"}}
      <4>1. lost' = [o \in Org |-> lost[o] \/ o \in unrecorded]
        BY <2>14 DEF Crash
      <4>2. \A t \in mine : pc[t] = "mark" => current[t] \in unrecorded
        OBVIOUS
      <4>3. \A o \in Org : lost'[o] = (lost[o] \/ o \in unrecorded)
        BY <4>1, Zenon
      <4> HIDE DEF unrecorded
      <4>4. ASSUME NEW t \in mine, NEW o \in Org, pc[t] = "mark", current[t] = o
            PROVE  lost'[o]
        <5>1. o \in unrecorded
          BY <4>2, <4>4
        <5>2. QED
          BY <4>3, <5>1, Zenon
      <4>5. QED
        BY <4>4
    <3>5. \A o \in Org : lost[o] => lost'[o]
      BY <2>14 DEF Crash
    <3>6. ASSUME expiries = 0, NEW o \in Org, NEW s \in accepted[o]
          PROVE  \/ lost'[o]
                 \/ s <= lastSent[o]
                 \/ \E t \in Tick : pc'[t] = "mark" /\ current'[t] = o
      BY <3>2, <3>4, <3>5, <3>6
    <3> HIDE DEF mine
    <3>7. QED
      BY <3>1, <3>2, <3>3, <3>6
  <2>15. ASSUME NEW o \in Org, SaveDigestSettings(o) PROVE DigestInv'
    BY <2>15 DEF SaveDigestSettings
  <2>16. CASE TimePasses
    BY <2>16 DEF TimePasses
  <2>17. CASE UNCHANGED vars
    BY <2>17 DEF vars
  <2>18. QED
    BY <2>1, <2>2, <2>3, <2>4, <2>5, <2>6, <2>7, <2>8, <2>9, <2>10, <2>11, <2>12, <2>13, <2>14, <2>15, <2>16, <2>17
       DEF Next, RunTick
<1>3. QED
  BY <1>1, <1>2, TypeCorrect, LockInvariant, PTL DEF Spec

\* A second digest within a week needs a lost record or an expired lock
\* (server.ts:153-155): the guard the advisory lock is there for.
THEOREM DuplicatesNeedLoss == Spec => NoDuplicateDigest
<1> DEFINE Fresh(t) ==
       \/ expiries > 0
       \/ lost[current[t]]
       \/ \A s \in accepted[current[t]] : startedAt[t] - s >= Week
<1>1. ASSUME TypeOK, LockInv, DigestInv, NEW t \in Tick, pc[t] = "smtp"
      PROVE  Fresh(t)
  <2> SUFFICES ASSUME expiries = 0, ~lost[current[t]],
                      NEW s \in accepted[current[t]]
               PROVE  startedAt[t] - s >= Week
    BY <1>1 DEF TypeOK
  <2>1. \A u \in Tick : pc[u] # "mark"
    BY <1>1 DEF LockInv, DigestInv, Running
  <2>2. current[t] \in Org /\ s \in Time \ {Never} /\ s <= lastSent[current[t]]
    BY <1>1, <2>1 DEF TypeOK, DigestInv
  <2>3. lastSent[current[t]] \in Time /\ startedAt[t] \in Time
    BY <1>1, <2>2 DEF TypeOK
  <2>4. startedAt[t] - lastSent[current[t]] >= Week
    BY <1>1, <2>2, TickAssumption DEF DigestInv
  <2>5. QED
    BY <2>2, <2>3, <2>4, TickAssumption
<1>2. TypeOK /\ LockInv /\ DigestInv /\ [Next]_vars =>
        [\A t \in Tick : pc[t] = "smtp" /\ pc'[t] = "mark" => Fresh(t)]_vars
  BY <1>1
<1>3. QED
  BY <1>2, TypeCorrect, LockInvariant, DigestInvariant, PTL
     DEF Spec, NoDuplicateDigest
-----------------------------------------------------------------------------
\* Every step of the ticks is one of the lock's contract: AcquireLock begins a
\* turn, LockExpires takes it away, ReleaseLock and Crash end one or several,
\* and neither touches the turn of a tick that has come after one that
\* outlived its lock (joblock.ts:22-44).
THEOREM TicksTakeTheirTurns == Spec => TicksTakeTurns
<1> DEFINE on == {t \in Tick : Running(t)}
<1>1. Init => Turns!Init
  BY DEF Init, Turns!Init, Running
<1>2. TypeOK /\ LockInv /\ [Next]_vars => [Turns!Next]_<<lock, on>>
  <2> SUFFICES ASSUME TypeOK, LockInv, [Next]_vars
               PROVE  [Turns!Next]_<<lock, on>>
    OBVIOUS
  <2> USE TickAssumption
  <2>1. ASSUME NEW t \in Tick, AcquireLock(t) PROVE Turns!Begin(t)
    <3>1. /\ pc[t] = "idle" /\ lock = NoTick /\ lock' = t
          /\ pc' = [pc EXCEPT ![t] = "scan"]
      BY <2>1 DEF AcquireLock, TakesLock
    <3>2. t \notin on /\ on' = on \union {t}
      BY <3>1 DEF Running, TypeOK
    <3>3. QED
      BY <3>1, <3>2 DEF Turns!Begin
  <2>2. ASSUME NEW t \in Tick, LockExpires(t) PROVE Turns!Expire
    <3>1. lock = t /\ lock' = NoTick /\ UNCHANGED pc
      BY <2>2 DEF LockExpires
    <3>2. lock \in on /\ on' = on
      BY <3>1 DEF LockInv, Running
    <3>3. QED
      BY <3>1, <3>2 DEF Turns!Expire
  <2>3. ASSUME NEW t \in Tick, ReleaseLock(t) PROVE Turns!End({t}) /\ t \in on
    <3>1. /\ pc[t] = "commit" /\ pc' = [pc EXCEPT ![t] = "idle"]
          /\ lock' = IF lock = t THEN NoTick ELSE lock
      BY <2>3 DEF ReleaseLock, FreedBy
    <3>2. t \in on /\ on' = on \ {t}
      BY <3>1 DEF Running, TypeOK
    <3>3. QED
      BY <3>1, <3>2 DEF Turns!End
  <2>4. ASSUME NEW t \in Tick, RunTick(t), ~ReleaseLock(t)
        PROVE  UNCHANGED <<lock, on>>
    <3>1. lock' = lock /\ pc[t] # "idle" /\ pc'[t] # "idle"
      BY <2>4 DEF TypeOK, RunTick, Scan, ScanFails, Compose, ComposeSkips,
                  SmtpAccepts, SmtpFails, Mark, MarkFails, DigestsDone, Prune,
                  faultVars
    <3>2. \A u \in Tick \ {t} : pc'[u] = pc[u]
      BY <2>4 DEF TypeOK, RunTick, Scan, ScanFails, Compose, ComposeSkips,
                  SmtpAccepts, SmtpFails, Mark, MarkFails, DigestsDone, Prune
    <3>3. QED
      BY <3>1, <3>2 DEF Running
  <2>5. ASSUME NEW i \in Instance, Crash(i)
        PROVE  \E S \in SUBSET on : Turns!End(S)
    <3> DEFINE mine == {t \in Tick : Host[t] = i}
               S == {t \in mine : Running(t)}
    <3>1. /\ pc' = [t \in Tick |-> IF t \in mine THEN "idle" ELSE pc[t]]
          /\ lock' = IF lock \in mine THEN NoTick ELSE lock
      BY <2>5 DEF Crash, FreedBy
    <3>2. S \in SUBSET on /\ on' = on \ S
      BY <3>1 DEF Running
    \* A tick that holds the lock is running, so it is one of those that end.
    <3>3. lock \in mine <=> lock \in S
      BY DEF LockInv
    <3>4. QED
      BY <3>1, <3>2, <3>3 DEF Turns!End
  <2>6. CASE \/ \E o \in Org : SaveDigestSettings(o)
             \/ TimePasses
             \/ UNCHANGED vars
    <3>1. UNCHANGED <<lock, pc>>
      BY <2>6 DEF SaveDigestSettings, TimePasses, vars
    <3>2. QED
      BY <3>1 DEF Running
  <2>7. QED
    <3>1. Turns!Next \/ UNCHANGED <<lock, on>>
      BY <2>1, <2>2, <2>3, <2>4, <2>5, <2>6 DEF Next, Turns!Next
    <3>2. QED
      BY <3>1
<1>3. QED
  BY <1>1, <1>2, TypeCorrect, LockInvariant, PTL DEF Spec, TicksTakeTurns, Turns!Spec
-----------------------------------------------------------------------------
\* The order in which a tick comes by its places.
Place == [scan |-> 1, pick |-> 2, smtp |-> 3, mark |-> 4, leads |-> 5, saml |-> 6,
          ratelimit |-> 7, webhooks |-> 8, commit |-> 9, idle |-> 10]

Onward(t) ==
    /\ Place[pc[t]] < Place[pc'[t]]
    /\ pc[t] # "scan" => todo'[t] \subseteq todo[t]

Fewer(t) == pc'[t] = "pick" /\ todo'[t] \subseteq todo[t] /\ todo'[t] # todo[t]

\* Each step of a running tick takes it further down its list of jobs or, back
\* at the choice of the next org, leaves it with fewer orgs than before, whatever
\* throws on the way; nobody else moves it, except by ending it
\* (server.ts:163-171, reports.ts:132-151).
TicksRunDown ==
    [][\A t \in Tick :
          /\ RunTick(t) => Onward(t) \/ Fewer(t)
          /\ Running(t) /\ ~RunTick(t) =>
                pc'[t] = "idle" \/ (pc'[t] = pc[t] /\ todo'[t] = todo[t])]_vars

\* The org whose digest is under way is one of those left to do.
HandInv == \A t \in Tick : pc[t] \in {"smtp", "mark"} => current[t] \in todo[t]

LEMMA HandInvariant == Spec => []HandInv
<1>1. Init => HandInv
  BY DEF Init, HandInv
<1>2. TypeOK /\ HandInv /\ [Next]_vars => HandInv'
  <2> SUFFICES ASSUME TypeOK, HandInv, [Next]_vars PROVE HandInv'
    OBVIOUS
  <2> USE DEF TypeOK, HandInv, tickVars
  <2>1. ASSUME NEW t \in Tick, AcquireLock(t) \/ LockExpires(t) \/ ReleaseLock(t)
        PROVE  HandInv'
    BY <2>1 DEF AcquireLock, LockExpires, ReleaseLock
  <2>2. ASSUME NEW t \in Tick, Scan(t) \/ ScanFails(t) PROVE HandInv'
    BY <2>2 DEF Scan, ScanFails, AfterDigestError
  <2>3. ASSUME NEW t \in Tick, NEW o \in Org, Compose(t, o) \/ ComposeSkips(t, o)
        PROVE  HandInv'
    BY <2>3 DEF Compose, ComposeSkips
  <2>4. ASSUME NEW t \in Tick, SmtpAccepts(t) \/ SmtpFails(t) PROVE HandInv'
    BY <2>4 DEF SmtpAccepts, SmtpFails, NextAfterSmtpFailure
  <2>5. ASSUME NEW t \in Tick, Mark(t) \/ MarkFails(t) PROVE HandInv'
    BY <2>5 DEF Mark, MarkFails, AfterDigestError
  <2>6. ASSUME NEW t \in Tick, DigestsDone(t) \/ Prune(t) PROVE HandInv'
    BY <2>6 DEF DigestsDone, Prune, PruneJob, AfterJob
  <2>7. ASSUME NEW i \in Instance, Crash(i) PROVE HandInv'
    BY <2>7 DEF Crash
  <2>8. CASE \/ \E o \in Org : SaveDigestSettings(o)
             \/ TimePasses
             \/ UNCHANGED vars
    BY <2>8 DEF SaveDigestSettings, TimePasses, vars
  <2>9. QED
    BY <2>1, <2>2, <2>3, <2>4, <2>5, <2>6, <2>7, <2>8 DEF Next, RunTick
<1>3. QED
  BY <1>1, <1>2, TypeCorrect, PTL DEF Spec

\* A tick comes to its end if its orgs do: no error in the digests or in a
\* pruning job makes it begin again.  This is the part of EveryPruneJobRuns
\* that does not rest on fairness.
THEOREM TicksEnd == Spec => TicksRunDown
<1> DEFINE Left(t) == pc'[t] = "idle" \/ (pc'[t] = pc[t] /\ todo'[t] = todo[t])
<1>1. TypeOK /\ HandInv /\ [Next]_vars =>
        [\A t \in Tick :
          /\ RunTick(t) => Onward(t) \/ Fewer(t)
          /\ Running(t) /\ ~RunTick(t) => Left(t)]_vars
  <2> SUFFICES ASSUME TypeOK, HandInv, Next, NEW t \in Tick
               PROVE  /\ RunTick(t) => Onward(t) \/ Fewer(t)
                      /\ Running(t) /\ ~RunTick(t) => Left(t)
    OBVIOUS
  <2> USE DEF TypeOK
  <2>1. ASSUME RunTick(t) PROVE Onward(t) \/ Fewer(t)
    <3>1. ASSUME Scan(t) \/ ScanFails(t) PROVE Onward(t)
      BY <3>1 DEF Onward, Scan, ScanFails, AfterDigestError, Place
    <3>2. ASSUME NEW o \in Org, Compose(t, o) PROVE Onward(t)
      BY <3>2 DEF Onward, Compose, Place
    <3>3. ASSUME NEW o \in Org, ComposeSkips(t, o) PROVE Fewer(t)
      BY <3>3 DEF Fewer, ComposeSkips
    <3>4. ASSUME SmtpAccepts(t) PROVE Onward(t)
      BY <3>4 DEF Onward, SmtpAccepts, Place, tickVars
    <3>5. ASSUME SmtpFails(t) \/ Mark(t) PROVE Fewer(t)
      BY <3>5 DEF Fewer, HandInv, SmtpFails, Mark, NextAfterSmtpFailure
    <3>6. ASSUME MarkFails(t) \/ DigestsDone(t) PROVE Onward(t)
      BY <3>6 DEF Onward, MarkFails, DigestsDone, AfterDigestError, Place, tickVars
    <3>7. ASSUME Prune(t) PROVE Onward(t)
      BY <3>7 DEF Onward, Prune, PruneJob, AfterJob, Place, tickVars
    <3>8. ASSUME ReleaseLock(t) PROVE Onward(t)
      BY <3>8 DEF Onward, ReleaseLock, Place
    <3>9. QED
      BY <2>1, <3>1, <3>2, <3>3, <3>4, <3>5, <3>6, <3>7, <3>8 DEF RunTick
  <2>2. ASSUME Running(t), ~RunTick(t) PROVE Left(t)
    <3>1. ASSUME NEW u \in Tick, AcquireLock(u) \/ LockExpires(u) PROVE Left(t)
      BY <3>1, <2>2 DEF AcquireLock, LockExpires, Running, tickVars
    <3>2. ASSUME NEW u \in Tick, RunTick(u) PROVE Left(t)
      <4>1. u # t
        BY <2>2, <3>2
      <4>2. QED
        BY <3>2, <4>1 DEF RunTick, Scan, ScanFails, Compose, ComposeSkips, SmtpAccepts,
           SmtpFails, Mark, MarkFails, DigestsDone, Prune, ReleaseLock, tickVars
    <3>3. ASSUME NEW i \in Instance, Crash(i) PROVE Left(t)
      <4> DEFINE mine == {u \in Tick : Host[u] = i}
      <4>1. /\ pc' = [u \in Tick |-> IF u \in mine THEN "idle" ELSE pc[u]]
            /\ todo' = [u \in Tick |-> IF u \in mine THEN {} ELSE todo[u]]
        BY <3>3 DEF Crash
      <4> HIDE DEF mine
      <4>2. CASE t \in mine
        BY <4>1, <4>2
      <4>3. CASE t \notin mine
        BY <4>1, <4>3
      <4>4. QED
        BY <4>2, <4>3
    <3>4. CASE \/ \E o \in Org : SaveDigestSettings(o)
               \/ TimePasses
      BY <3>4 DEF SaveDigestSettings, TimePasses, tickVars
    <3>5. QED
      BY <3>1, <3>2, <3>3, <3>4 DEF Next
  <2>3. QED
    BY <2>1, <2>2
<1>2. QED
  BY <1>1, TypeCorrect, HandInvariant, PTL DEF Spec, TicksRunDown
=============================================================================
