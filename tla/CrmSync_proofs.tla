--------------------------- MODULE CrmSync_proofs ---------------------------
(***************************************************************************)
(* Proofs about CrmSync: the types, that a dead letter has used up its     *)
(* attempts, that a log says "sent" only of a lead the CRM has, and that   *)
(* a finished run skipped nobody.                                          *)
(***************************************************************************)
EXTENDS CrmSync, TLAPS

LEMMA NextAttemptsType == ASSUME NEW n \in Nat PROVE NextAttempts(n) = n + 1
  BY DEF NextAttempts, AtLeast

LEMMA NextStatusValue ==
    ASSUME NEW n \in Nat, NEW success \in BOOLEAN
    PROVE  /\ NextStatus(n, success) \in {"sent", "failed", "dead"}
           /\ NextStatus(n, success) = "sent" <=> success
           /\ NextStatus(n, success) = "dead" => n + 1 >= MaxAttempts
  BY CrmAssumption DEF NextStatus, NextAttempts, AtLeast

\* Every variable keeps its type.
THEOREM TypeCorrect == Spec => []TypeOK
<1> USE CrmAssumption DEF TypeOK, Step, Process, Key, Run, logVars, crmVars
<1>1. Init => TypeOK
  BY DEF Init
<1>2. TypeOK /\ [Next]_vars => TypeOK'
  <2> SUFFICES ASSUME TypeOK, [Next]_vars PROVE TypeOK'
    OBVIOUS
  <2>1. ASSUME NEW l \in Lead, Capture(l) PROVE TypeOK'
    BY <2>1 DEF Capture
  <2>2. ASSUME NEW l \in Lead, LookUp(l) PROVE TypeOK'
    BY <2>2 DEF LookUp, Enabled
  <2>3. ASSUME NEW l \in Lead, LookUpFails(l) PROVE TypeOK'
    BY <2>3 DEF LookUpFails
  <2>4. ASSUME NEW s \in Sample, NEW i \in Integration, SendTest(s, i) PROVE TypeOK'
    BY <2>4 DEF SendTest, Enabled
  <2>5. ASSUME NEW r \in Run, NEW i \in Integration, Begin(r, i) PROVE TypeOK'
    BY <2>5 DEF Begin
  <2>6. ASSUME NEW r \in Run, LoopEnds(r) PROVE TypeOK'
    BY <2>6 DEF LoopEnds
  <2>7. ASSUME NEW a \in Retry, NEW k \in Key, Click(a, k) PROVE TypeOK'
    BY <2>7 DEF Click
  <2>8. ASSUME NEW a \in Retry, ReadLog(a) PROVE TypeOK'
    BY <2>8 DEF ReadLog
  <2>9. ASSUME NEW a \in Retry, LogIsGone(a) PROVE TypeOK'
    BY <2>9 DEF LogIsGone
  <2>10. ASSUME NEW p \in Process, Accepted(p) PROVE TypeOK'
    BY <2>10 DEF Accepted
  <2>11. ASSUME NEW p \in Process, Refused(p) PROVE TypeOK'
    BY <2>11 DEF Refused
  <2>12. ASSUME NEW p \in Process, Record(p) PROVE TypeOK'
    BY <2>12, NextAttemptsType, NextStatusValue DEF Record, After
  <2>13. ASSUME NEW p \in Process, RecordFails(p) PROVE TypeOK'
    BY <2>13 DEF RecordFails, AfterFailure
  <2>14. ASSUME NEW i \in Integration, CreateIntegration(i) PROVE TypeOK'
    BY <2>14 DEF CreateIntegration
  <2>15. ASSUME NEW i \in Integration, DeleteIntegration(i) PROVE TypeOK'
    BY <2>15 DEF DeleteIntegration, RowsOf
  <2>16. ASSUME NEW S \in (SUBSET InFlight) \ {{}}, Crash(S) PROVE TypeOK'
    BY <2>16 DEF Crash
  <2>17. CASE UNCHANGED vars
    BY <2>17 DEF vars, logVars, crmVars
  <2>18. QED
    BY <2>1, <2>2, <2>3, <2>4, <2>5, <2>6, <2>7, <2>8, <2>9,
       <2>10, <2>11, <2>12, <2>13, <2>14, <2>15, <2>16, <2>17 DEF Next, Loop, Work
<1>3. QED
  BY <1>1, <1>2, PTL DEF Spec

LEMMA CountInvariant == Spec => []CountInv
<1> USE CrmAssumption DEF CountInv, TypeOK, Process, logVars, crmVars
<1>1. Init => CountInv
  BY DEF Init
<1>2. TypeOK /\ CountInv /\ [Next]_vars => CountInv'
  <2> SUFFICES ASSUME TypeOK, CountInv, [Next]_vars PROVE CountInv'
    OBVIOUS
  <2>1. ASSUME NEW l \in Lead, Capture(l) PROVE CountInv'
    BY <2>1 DEF Capture
  <2>2. ASSUME NEW l \in Lead, LookUp(l) PROVE CountInv'
    BY <2>2 DEF LookUp, Enabled
  <2>3. ASSUME NEW l \in Lead, LookUpFails(l) PROVE CountInv'
    BY <2>3 DEF LookUpFails
  <2>4. ASSUME NEW s \in Sample, NEW i \in Integration, SendTest(s, i) PROVE CountInv'
    BY <2>4 DEF SendTest, Enabled
  <2>5. ASSUME NEW r \in Run, NEW i \in Integration, Begin(r, i) PROVE CountInv'
    BY <2>5 DEF Begin, Key
  <2>6. ASSUME NEW r \in Run, LoopEnds(r) PROVE CountInv'
    BY <2>6 DEF LoopEnds
  <2>7. ASSUME NEW a \in Retry, NEW k \in Key, Click(a, k) PROVE CountInv'
    BY <2>7 DEF Click
  <2>8. ASSUME NEW a \in Retry, ReadLog(a) PROVE CountInv'
    BY <2>8 DEF ReadLog
  <2>9. ASSUME NEW a \in Retry, LogIsGone(a) PROVE CountInv'
    BY <2>9 DEF LogIsGone
  <2>10. ASSUME NEW p \in Process, Accepted(p) PROVE CountInv'
    BY <2>10 DEF Accepted
  <2>11. ASSUME NEW p \in Process, Refused(p) PROVE CountInv'
    BY <2>11 DEF Refused
  <2>12. ASSUME NEW p \in Process, Record(p) PROVE CountInv'
    BY <2>12, NextAttemptsType, NextStatusValue DEF Record, After
  <2>13. ASSUME NEW p \in Process, RecordFails(p) PROVE CountInv'
    BY <2>13 DEF RecordFails, AfterFailure
  <2>14. ASSUME NEW i \in Integration, CreateIntegration(i) PROVE CountInv'
    BY <2>14 DEF CreateIntegration
  <2>15. ASSUME NEW i \in Integration, DeleteIntegration(i) PROVE CountInv'
    BY <2>15 DEF DeleteIntegration, RowsOf
  <2>16. ASSUME NEW S \in (SUBSET InFlight) \ {{}}, Crash(S) PROVE CountInv'
    BY <2>16 DEF Crash
  <2>17. CASE UNCHANGED vars
    BY <2>17 DEF vars, logVars, crmVars
  <2>18. QED
    BY <2>1, <2>2, <2>3, <2>4, <2>5, <2>6, <2>7, <2>8, <2>9,
       <2>10, <2>11, <2>12, <2>13, <2>14, <2>15, <2>16, <2>17 DEF Next, Loop, Work
<1>3. QED
  BY <1>1, <1>2, TypeCorrect, PTL DEF Spec

\* A dead letter has used up its attempts, in spite of what concurrent retries
\* overwrite of each other.
THEOREM DeadLettersAreExhausted == Spec => []DeadMeansExhausted
<1>1. TypeOK /\ CountInv => DeadMeansExhausted
  BY CrmAssumption DEF TypeOK, CountInv, DeadMeansExhausted
<1>2. QED
  BY <1>1, TypeCorrect, CountInvariant, PTL

\* A log says "sent" only of a lead the CRM has taken in.
THEOREM SentLeadsAreThere == Spec => []SentMeansAccepted
<1> USE CrmAssumption DEF AcceptInv, SentMeansAccepted, TypeOK, Process, logVars, crmVars
<1>1. Init => AcceptInv
  BY DEF Init
<1>2. TypeOK /\ AcceptInv /\ [Next]_vars => AcceptInv'
  <2> SUFFICES ASSUME TypeOK, AcceptInv, [Next]_vars PROVE AcceptInv'
    OBVIOUS
  <2>1. ASSUME NEW l \in Lead, Capture(l) PROVE AcceptInv'
    BY <2>1 DEF Capture
  <2>2. ASSUME NEW l \in Lead, LookUp(l) PROVE AcceptInv'
    BY <2>2 DEF LookUp, Enabled
  <2>3. ASSUME NEW l \in Lead, LookUpFails(l) PROVE AcceptInv'
    BY <2>3 DEF LookUpFails
  <2>4. ASSUME NEW s \in Sample, NEW i \in Integration, SendTest(s, i) PROVE AcceptInv'
    BY <2>4 DEF SendTest, Enabled
  <2>5. ASSUME NEW r \in Run, NEW i \in Integration, Begin(r, i) PROVE AcceptInv'
    BY <2>5 DEF Begin
  <2>6. ASSUME NEW r \in Run, LoopEnds(r) PROVE AcceptInv'
    BY <2>6 DEF LoopEnds
  <2>7. ASSUME NEW a \in Retry, NEW k \in Key, Click(a, k) PROVE AcceptInv'
    BY <2>7 DEF Click
  <2>8. ASSUME NEW a \in Retry, ReadLog(a) PROVE AcceptInv'
    BY <2>8 DEF ReadLog
  <2>9. ASSUME NEW a \in Retry, LogIsGone(a) PROVE AcceptInv'
    BY <2>9 DEF LogIsGone
  <2>10. ASSUME NEW p \in Process, Accepted(p) PROVE AcceptInv'
    BY <2>10 DEF Accepted
  <2>11. ASSUME NEW p \in Process, Refused(p) PROVE AcceptInv'
    BY <2>11 DEF Refused
  <2>12. ASSUME NEW p \in Process, Record(p) PROVE AcceptInv'
    BY <2>12, NextStatusValue DEF Record, After
  <2>13. ASSUME NEW p \in Process, RecordFails(p) PROVE AcceptInv'
    BY <2>13 DEF RecordFails, AfterFailure
  <2>14. ASSUME NEW i \in Integration, CreateIntegration(i) PROVE AcceptInv'
    BY <2>14 DEF CreateIntegration
  <2>15. ASSUME NEW i \in Integration, DeleteIntegration(i) PROVE AcceptInv'
    BY <2>15 DEF DeleteIntegration, RowsOf
  <2>16. ASSUME NEW S \in (SUBSET InFlight) \ {{}}, Crash(S) PROVE AcceptInv'
    BY <2>16 DEF Crash
  <2>17. CASE UNCHANGED vars
    BY <2>17 DEF vars, logVars, crmVars
  <2>18. QED
    BY <2>1, <2>2, <2>3, <2>4, <2>5, <2>6, <2>7, <2>8, <2>9,
       <2>10, <2>11, <2>12, <2>13, <2>14, <2>15, <2>16, <2>17 DEF Next, Loop, Work
<1>3. QED
  BY <1>1, <1>2, TypeCorrect, PTL DEF Spec

\* A run that came to its end skipped no integration it had found.
THEOREM FinishedRunsAreComplete == Spec => []FinishedRunIsComplete
<1> USE CrmAssumption DEF LoopInv, Settled, TypeOK, Process, Key, logVars, crmVars
<1>1. Init => LoopInv
  BY DEF Init
<1>2. TypeOK /\ LoopInv /\ [Next]_vars => LoopInv'
  <2> SUFFICES ASSUME TypeOK, LoopInv, [Next]_vars PROVE LoopInv'
    OBVIOUS
  <2>1. ASSUME NEW l \in Lead, Capture(l) PROVE LoopInv'
    BY <2>1 DEF Capture
  <2>2. ASSUME NEW l \in Lead, LookUp(l) PROVE LoopInv'
    BY <2>2 DEF LookUp, Enabled
  <2>3. ASSUME NEW l \in Lead, LookUpFails(l) PROVE LoopInv'
    BY <2>3 DEF LookUpFails
  <2>4. ASSUME NEW s \in Sample, NEW i \in Integration, SendTest(s, i) PROVE LoopInv'
    BY <2>4 DEF SendTest, Enabled
  <2>5. ASSUME NEW r \in Run, NEW i \in Integration, Begin(r, i) PROVE LoopInv'
    BY <2>5 DEF Begin
  <2>6. ASSUME NEW r \in Run, LoopEnds(r) PROVE LoopInv'
    BY <2>6 DEF LoopEnds
  <2>7. ASSUME NEW a \in Retry, NEW k \in Key, Click(a, k) PROVE LoopInv'
    BY <2>7 DEF Click
  <2>8. ASSUME NEW a \in Retry, ReadLog(a) PROVE LoopInv'
    BY <2>8 DEF ReadLog
  <2>9. ASSUME NEW a \in Retry, LogIsGone(a) PROVE LoopInv'
    BY <2>9 DEF LogIsGone
  <2>10. ASSUME NEW p \in Process, Accepted(p) PROVE LoopInv'
    BY <2>10 DEF Accepted
  <2>11. ASSUME NEW p \in Process, Refused(p) PROVE LoopInv'
    BY <2>11 DEF Refused
  <2>12. ASSUME NEW p \in Process, Record(p) PROVE LoopInv'
    <3> DEFINE k == key[p]
    <3>1. /\ k \in Key /\ status' = [status EXCEPT ![k] = NextStatus(prior[p], ok[p])]
          /\ status'[k] # "none"
      BY <2>12, NextStatusValue DEF Record
    <3>2. \A q \in Key : status[q] # "none" => status'[q] # "none"
      BY <3>1
    <3>3. /\ step[p] = "recording"
          /\ step' = [step EXCEPT ![p] = After(p)]
          /\ p \in Run => After(p) = "next"
          /\ UNCHANGED <<integration, found, todo, key>>
      BY <2>12 DEF Record, After
    <3> HIDE DEF k
    <3>4. \A r \in Run, i \in Integration : Settled(r, i) => Settled(r, i)'
      BY <3>2, <3>3
    <3>5. \A r \in Run, i \in Integration : k = <<r, i>> => Settled(r, i)'
      BY <3>1, <3>3
    <3>6. \A r \in Run : r # p => step'[r] = step[r]
      BY <3>3
    <3>7. p \in Run => step'[p] = "next"
      BY <3>3
    <3> HIDE DEF Settled
    <3>8. QED
      BY <3>3, <3>4, <3>5, <3>6, <3>7 DEF k
  <2>13. ASSUME NEW p \in Process, RecordFails(p) PROVE LoopInv'
    BY <2>13 DEF RecordFails, AfterFailure
  <2>14. ASSUME NEW i \in Integration, CreateIntegration(i) PROVE LoopInv'
    BY <2>14 DEF CreateIntegration
  <2>15. ASSUME NEW i \in Integration, DeleteIntegration(i) PROVE LoopInv'
    BY <2>15 DEF DeleteIntegration, RowsOf
  <2>16. ASSUME NEW S \in (SUBSET InFlight) \ {{}}, Crash(S) PROVE LoopInv'
    BY <2>16 DEF Crash
  <2>17. CASE UNCHANGED vars
    BY <2>17 DEF vars, logVars, crmVars
  <2>18. QED
    BY <2>1, <2>2, <2>3, <2>4, <2>5, <2>6, <2>7, <2>8, <2>9,
       <2>10, <2>11, <2>12, <2>13, <2>14, <2>15, <2>16, <2>17 DEF Next, Loop, Work
<1>3. LoopInv => FinishedRunIsComplete
  BY DEF FinishedRunIsComplete
<1>4. QED
  BY <1>1, <1>2, <1>3, TypeCorrect, PTL DEF Spec
-----------------------------------------------------------------------------
\* The logs a run has yet to create.  Nobody can have asked for a retry of them.
Ahead(r) ==
    {k \in Key : k[1] = r /\ (step[r] \in {"idle", "lookup"} \/ k[2] \in todo[r]
                              \/ (step[r] = "sending" /\ key[r] = k))}

Retried(k) == \E a \in Retry : key[a] = k

\* More than one request for a lead and an integration means that an admin asked
\* for it: no run, timer or restart sends a lead twice, and a retry is never
\* offered of a log that has still to be written (crmsync-dispatch.ts:124-139, 160-171).
NothingRetriesItself == \A k \in Key : tries[k] > 1 => Retried(k)

\* A run hands each integration out once and creates one log for it.
BegunInv ==
    /\ \A r \in Run : step[r] \in {"idle", "lookup"} => todo[r] = {}
    /\ \A r \in Run : step[r] \in {"sending", "recording"} =>
          key[r][1] = r /\ key[r][2] \notin todo[r]
    /\ \A r \in Run : \A k \in Ahead(r) : tries[k] = 0 /\ status[k] = "none" /\ ~Retried(k)
    /\ \A r \in Run : step[r] = "recording" => status[key[r]] = "none" /\ ~Retried(key[r])
    /\ \A a \in Retry : step[a] = "idle" => key[a] = NoKey
    /\ NothingRetriesItself

LEMMA BegunInvariant == Spec => []BegunInv
<1> USE CrmAssumption DEF BegunInv, NothingRetriesItself, Ahead, Retried, TypeOK,
        Process, Key, logVars, crmVars
<1>1. Init => BegunInv
  BY DEF Init
<1>2. TypeOK /\ BegunInv /\ [Next]_vars => BegunInv'
  <2> SUFFICES ASSUME TypeOK, BegunInv, [Next]_vars PROVE BegunInv'
    OBVIOUS
  <2>1. ASSUME NEW l \in Lead, Capture(l) PROVE BegunInv'
    BY <2>1 DEF Capture
  <2>2. ASSUME NEW l \in Lead, LookUp(l) PROVE BegunInv'
    BY <2>2 DEF LookUp, Enabled
  <2>3. ASSUME NEW l \in Lead, LookUpFails(l) PROVE BegunInv'
    BY <2>3 DEF LookUpFails
  <2>4. ASSUME NEW s \in Sample, NEW i \in Integration, SendTest(s, i) PROVE BegunInv'
    BY <2>4 DEF SendTest, Enabled
  <2>5. ASSUME NEW r \in Run, NEW i \in Integration, Begin(r, i) PROVE BegunInv'
    BY <2>5 DEF Begin
  <2>6. ASSUME NEW r \in Run, LoopEnds(r) PROVE BegunInv'
    BY <2>6 DEF LoopEnds
  <2>7. ASSUME NEW a \in Retry, NEW k \in Key, Click(a, k) PROVE BegunInv'
    BY <2>7 DEF Click
  <2>8. ASSUME NEW a \in Retry, ReadLog(a) PROVE BegunInv'
    BY <2>8 DEF ReadLog
  <2>9. ASSUME NEW a \in Retry, LogIsGone(a) PROVE BegunInv'
    BY <2>9 DEF LogIsGone
  <2>10. ASSUME NEW p \in Process, Accepted(p) PROVE BegunInv'
    BY <2>10 DEF Accepted
  <2>11. ASSUME NEW p \in Process, Refused(p) PROVE BegunInv'
    BY <2>11 DEF Refused
  <2>12. ASSUME NEW p \in Process, Record(p) PROVE BegunInv'
    BY <2>12 DEF Record, After
  <2>13. ASSUME NEW p \in Process, RecordFails(p) PROVE BegunInv'
    BY <2>13 DEF RecordFails, AfterFailure
  <2>14. ASSUME NEW i \in Integration, CreateIntegration(i) PROVE BegunInv'
    BY <2>14 DEF CreateIntegration
  <2>15. ASSUME NEW i \in Integration, DeleteIntegration(i) PROVE BegunInv'
    BY <2>15 DEF DeleteIntegration, RowsOf
  <2>16. ASSUME NEW S \in (SUBSET InFlight) \ {{}}, Crash(S) PROVE BegunInv'
    BY <2>16 DEF Crash, InFlight
  <2>17. CASE UNCHANGED vars
    BY <2>17 DEF vars
  <2>18. QED
    BY <2>1, <2>2, <2>3, <2>4, <2>5, <2>6, <2>7, <2>8, <2>9,
       <2>10, <2>11, <2>12, <2>13, <2>14, <2>15, <2>16, <2>17 DEF Next, Loop, Work
<1>3. QED
  BY <1>1, <1>2, TypeCorrect, PTL DEF Spec

THEOREM NobodyRetriesUnasked == Spec => []NothingRetriesItself
<1>1. BegunInv => NothingRetriesItself
  BY DEF BegunInv
<1>2. QED
  BY <1>1, BegunInvariant, PTL

\* The one way in which "sent" is undone, which SentIsDone says never happens: a
\* retry that an admin asked for, of that very log, was refused. Neither a run nor
\* a retry that the CRM accepted takes it back (crmsync-dispatch.ts:109-115).
SentUndoneByRetry ==
    [][\A k \in Key : status[k] = "sent" /\ status'[k] \in {"failed", "dead"} =>
          \E a \in Retry : key[a] = k /\ step[a] = "recording" /\ ~ok[a]]_vars

THEOREM OnlyRetriesUndoSent == Spec => SentUndoneByRetry
<1> DEFINE Cause(k) == \E a \in Retry : key[a] = k /\ step[a] = "recording" /\ ~ok[a]
<1>1. TypeOK /\ BegunInv /\ [Next]_vars =>
        [\A k \in Key : status[k] = "sent" /\ status'[k] \in {"failed", "dead"} => Cause(k)]_vars
  <2> SUFFICES ASSUME TypeOK, BegunInv, Next, NEW k \in Key,
                      status[k] = "sent", status'[k] \in {"failed", "dead"}
               PROVE  Cause(k)
    OBVIOUS
  <2>1. PICK p \in Process : Record(p)
    <3>1. (\E i \in Integration : DeleteIntegration(i)) => status'[k] \in {"sent", "none"}
      BY DEF DeleteIntegration
    <3>2. status' # status
      OBVIOUS
    <3>3. QED
      BY <3>1, <3>2 DEF Next, Loop, Work, Capture, LookUp, LookUpFails, SendTest, Begin,
         LoopEnds, Click, ReadLog, LogIsGone, Accepted, Refused, RecordFails,
         CreateIntegration, Crash, logVars
  <2>2. /\ step[p] = "recording" /\ key[p] \in Key
        /\ status' = [status EXCEPT ![key[p]] = NextStatus(prior[p], ok[p])]
        /\ prior[p] \in Nat /\ ok[p] \in BOOLEAN
    BY <2>1 DEF Record, TypeOK
  <2>3. key[p] = k /\ status'[k] = NextStatus(prior[p], ok[p])
    BY <2>2 DEF TypeOK
  <2>4. ~ok[p]
    BY <2>2, <2>3, NextStatusValue
  <2>5. p \in Retry
    BY <2>2, <2>3 DEF BegunInv, Process
  <2>6. QED
    BY <2>2, <2>3, <2>4, <2>5
<1>2. QED
  BY <1>1, TypeCorrect, BegunInvariant, PTL DEF Spec, SentUndoneByRetry
=============================================================================
