------------------------ MODULE LeadLifecycle_proofs ------------------------
(***************************************************************************)
(* Proofs of the safety properties of LeadLifecycle for any leads, any     *)
(* relation of likeness between them and any requests.                     *)
(***************************************************************************)
EXTENDS LeadLifecycle, TLAPS

\* The table leads from statuses to statuses only (leadstatus.ts:15-21).
LEMMA TableIsClosed == \A s \in Status : Transitions[s] \subseteq Status
BY DEF Transitions, Status

\* The event just added is the last one.
LEMMA LastOfAppend ==
  ASSUME NEW S, NEW s \in Seq(S), NEW e
  PROVE  Append(s, e) # <<>> /\ Append(s, e)[Len(Append(s, e))] = e
OBVIOUS
-----------------------------------------------------------------------------
\* Every variable keeps its type: no status outside the list of leadstatus.ts
\* is ever stored or written to the trail, whatever a form sends.
THEOREM TypeCorrect == Spec => []TypeOK
<1>1. Init => TypeOK
  BY DEF Init, TypeOK, Status
<1>2. TypeOK /\ [Next]_vars => TypeOK'
  <2> SUFFICES ASSUME TypeOK, [Next]_vars PROVE TypeOK'
    OBVIOUS
  <2> USE DEF TypeOK
  <2>1. ASSUME NEW l \in Lead, Submit(l) PROVE TypeOK'
    BY <2>1 DEF Submit, leadVars, eventVars, ageVars, requestVars
  <2>2. ASSUME NEW l \in Lead, Search(l) PROVE TypeOK'
    <3>1. \A d \in Candidates(l) : d \in Lead
      BY DEF Candidates, Stored
    <3>2. match' \in [Lead -> Lead \union {NoLead}]
      BY <3>1, <2>2 DEF Search
    <3>3. /\ capture' = [capture EXCEPT ![l] = "insert"]
          /\ horizon' = [horizon EXCEPT ![l] = count]
          /\ UNCHANGED <<leadVars, eventVars, ageVars, requestVars, count>>
      BY <2>2 DEF Search
    <3>4. QED
      BY <3>2, <3>3 DEF leadVars, eventVars, ageVars, requestVars
  <2>3. ASSUME NEW l \in Lead, Store(l) PROVE TypeOK'
    <3>1. /\ capture' \in [Lead -> {"idle", "search", "insert", "stored", "done", "dead"}]
          /\ row' \in [Lead -> {"none", "stored", "gone"}]
      BY <2>3 DEF Store
    <3>2. /\ dup' \in [Lead -> Lead \union {NoLead}]
          /\ born' \in [Lead -> Nat] /\ count' \in Nat
      BY <2>3 DEF Store
    <3>3. QED
      BY <2>3, <3>1, <3>2 DEF Store, eventVars, ageVars, requestVars
  <2>4. ASSUME NEW l \in Lead, StoreFails(l) PROVE TypeOK'
    BY <2>4 DEF StoreFails, AfterStoreFailure, leadVars, eventVars, ageVars,
        requestVars
  <2>5. ASSUME NEW l \in Lead, Announce(l) PROVE TypeOK'
    BY <2>5 DEF Announce, leadVars, eventVars, ageVars, requestVars
  <2>6. ASSUME NEW l \in Lead, AnnounceIsLost(l) PROVE TypeOK'
    BY <2>6 DEF AnnounceIsLost, leadVars, eventVars, ageVars, requestVars
  <2>7. ASSUME NEW l \in Lead, Age(l) PROVE TypeOK'
    BY <2>7 DEF Age, captureVars, leadVars, eventVars, requestVars
  <2>8. ASSUME NEW r \in Request, NEW l \in Lead, NEW to \in Input,
               ReadForChange(r, l, to)
        PROVE  TypeOK'
    BY TableIsClosed, <2>8 DEF ReadForChange, CanTransition, captureVars, leadVars,
        eventVars, ageVars
  <2>9. ASSUME NEW r \in Request, NEW l \in Lead, ReadForRemark(r, l) PROVE TypeOK'
    BY <2>9 DEF ReadForRemark, captureVars, leadVars, eventVars, ageVars
  <2>10. ASSUME NEW r \in Request, NEW l \in Lead, BeginErasure(r, l) PROVE TypeOK'
    BY <2>10 DEF BeginErasure, captureVars, leadVars, eventVars, ageVars
  <2>11. ASSUME NEW r \in Request, BeginPruning(r) PROVE TypeOK'
    BY <2>11 DEF BeginPruning, captureVars, leadVars, eventVars, ageVars
  <2>12. ASSUME NEW r \in Request, Change(r) PROVE TypeOK'
    <3>1. NewEvent(r) \in Event
      BY DEF NewEvent, Event
    <3>2. \A l \in Lead : trail[l] \in Seq(Event)
      OBVIOUS
    <3>3. \A l \in Lead : Append(trail[l], NewEvent(r)) \in Seq(Event)
      BY <3>1, <3>2
    <3>4. trail' \in [Lead -> Seq(Event)]
      BY <3>2, <3>3, <2>12 DEF Change
    <3>5. QED
      BY <3>4, <2>12 DEF Change, captureVars, ageVars
  <2>13. ASSUME NEW r \in Request, Remark(r) PROVE TypeOK'
    BY <2>13 DEF Remark, captureVars, leadVars, ageVars
  <2>14. ASSUME NEW r \in Request, DeleteEvents(r) PROVE TypeOK'
    <3>1. trail' \in [Lead -> Seq(Event)]
      BY <2>14 DEF DeleteEvents, WithoutEvents
    <3>2. QED
      BY <3>1, <2>14 DEF DeleteEvents, captureVars, leadVars, ageVars
  <2>15. ASSUME NEW r \in Request, DeleteLeads(r) PROVE TypeOK'
    <3>1. trail' \in [Lead -> Seq(Event)]
      BY <2>15 DEF DeleteLeads, Cascade, WithoutEvents
    <3>2. QED
      BY <3>1, <2>15 DEF DeleteLeads, captureVars, ageVars
  <2>16. ASSUME NEW r \in Request, Abandon(r) PROVE TypeOK'
    BY <2>16 DEF Abandon, captureVars, leadVars, eventVars, ageVars
  <2>17. CASE UNCHANGED vars
    BY <2>17 DEF vars, captureVars, leadVars, eventVars, ageVars, requestVars
  <2>18. QED
    BY <2>1, <2>2, <2>3, <2>4, <2>5, <2>6, <2>7, <2>8, <2>9, <2>10, <2>11, <2>12,
       <2>13, <2>14, <2>15, <2>16, <2>17 DEF Next
<1>3. QED
  BY <1>1, <1>2, PTL DEF Spec
-----------------------------------------------------------------------------
\* Past its insert a submission has a row, which may be gone but was there.
StoredInv == \A l \in Lead : capture[l] \in {"stored", "done"} => row[l] # "none"

\* Nobody is told of a lead that was not kept (cards.ts:206-223).
THEOREM NoticesFollowCommit == Spec => []AnnouncedWasStored
<1>1. Init => StoredInv
  BY DEF Init, StoredInv
<1>2. TypeOK /\ StoredInv /\ [Next]_vars => StoredInv'
  <2> SUFFICES ASSUME TypeOK, StoredInv, [Next]_vars PROVE StoredInv'
    OBVIOUS
  <2> USE DEF TypeOK, StoredInv
  <2>1. ASSUME NEW l \in Lead, Submit(l) PROVE StoredInv'
    BY <2>1 DEF Submit, leadVars, eventVars, ageVars, requestVars
  <2>2. ASSUME NEW l \in Lead, Search(l) PROVE StoredInv'
    BY <2>2 DEF Search, Candidates, leadVars, eventVars, ageVars, requestVars
  <2>3. ASSUME NEW l \in Lead, Store(l) PROVE StoredInv'
    BY <2>3 DEF Store, MatchExists, eventVars, ageVars, requestVars
  <2>4. ASSUME NEW l \in Lead, StoreFails(l) PROVE StoredInv'
    BY <2>4 DEF StoreFails, AfterStoreFailure, leadVars, eventVars, ageVars,
        requestVars
  <2>5. ASSUME NEW l \in Lead, Announce(l) PROVE StoredInv'
    BY <2>5 DEF Announce, leadVars, eventVars, ageVars, requestVars
  <2>6. ASSUME NEW l \in Lead, AnnounceIsLost(l) PROVE StoredInv'
    BY <2>6 DEF AnnounceIsLost, leadVars, eventVars, ageVars, requestVars
  <2>7. ASSUME NEW l \in Lead, Age(l) PROVE StoredInv'
    BY <2>7 DEF Age, captureVars, leadVars, eventVars, requestVars
  <2>8. ASSUME NEW r \in Request, NEW l \in Lead, NEW to \in Input,
               ReadForChange(r, l, to)
        PROVE  StoredInv'
    BY <2>8 DEF ReadForChange, CanTransition, captureVars, leadVars, eventVars,
        ageVars
  <2>9. ASSUME NEW r \in Request, NEW l \in Lead, ReadForRemark(r, l)
        PROVE  StoredInv'
    BY <2>9 DEF ReadForRemark, captureVars, leadVars, eventVars, ageVars
  <2>10. ASSUME NEW r \in Request, NEW l \in Lead, BeginErasure(r, l)
         PROVE  StoredInv'
    BY <2>10 DEF BeginErasure, captureVars, leadVars, eventVars, ageVars
  <2>11. ASSUME NEW r \in Request, BeginPruning(r) PROVE StoredInv'
    BY <2>11 DEF BeginPruning, captureVars, leadVars, eventVars, ageVars
  <2>12. ASSUME NEW r \in Request, Change(r) PROVE StoredInv'
    BY <2>12 DEF Change, NewEvent, captureVars, ageVars
  <2>13. ASSUME NEW r \in Request, Remark(r) PROVE StoredInv'
    BY <2>13 DEF Remark, captureVars, leadVars, ageVars
  <2>14. ASSUME NEW r \in Request, DeleteEvents(r) PROVE StoredInv'
    BY <2>14 DEF DeleteEvents, WithoutEvents, captureVars, leadVars, ageVars
  <2>15. ASSUME NEW r \in Request, DeleteLeads(r) PROVE StoredInv'
    BY <2>15 DEF DeleteLeads, Cascade, WithoutEvents, captureVars, ageVars
  <2>16. ASSUME NEW r \in Request, Abandon(r) PROVE StoredInv'
    BY <2>16 DEF Abandon, captureVars, leadVars, eventVars, ageVars
  <2>17. CASE UNCHANGED vars
    BY <2>17 DEF vars, captureVars, leadVars, eventVars, ageVars, requestVars
  <2>18. QED
    BY <2>1, <2>2, <2>3, <2>4, <2>5, <2>6, <2>7, <2>8, <2>9, <2>10, <2>11, <2>12,
       <2>13, <2>14, <2>15, <2>16, <2>17 DEF Next
<1>3. StoredInv => AnnouncedWasStored
  BY DEF StoredInv, AnnouncedWasStored, Stored
<1>4. QED
  BY <1>1, <1>2, <1>3, TypeCorrect, PTL DEF Spec
-----------------------------------------------------------------------------
\* No event and no link refers to a lead that is gone, whatever erasures,
\* prunings, submissions and admins race (schema.prisma:507, 535).
THEOREM ErasureIsComplete == Spec => []NothingRefersToErased
<1>1. Init => NothingRefersToErased
  <2> SUFFICES ASSUME Init, NEW l \in Lead
               PROVE  trail[l] = <<>> /\ l \notin remarked /\ dup[l] = NoLead
    BY DEF NothingRefersToErased
  <2> QED
    BY DEF Init
<1>2. TypeOK /\ NothingRefersToErased /\ [Next]_vars => NothingRefersToErased'
  <2> SUFFICES ASSUME TypeOK, NothingRefersToErased, [Next]_vars
               PROVE  NothingRefersToErased'
    OBVIOUS
  <2> USE DEF TypeOK, NothingRefersToErased
  <2>1. ASSUME NEW l \in Lead, Submit(l) PROVE NothingRefersToErased'
    BY <2>1 DEF Submit, Stored, leadVars, eventVars, ageVars, requestVars
  <2>2. ASSUME NEW l \in Lead, Search(l) PROVE NothingRefersToErased'
    BY <2>2 DEF Search, Candidates, Stored, leadVars, eventVars, ageVars,
        requestVars
  <2>3. ASSUME NEW l \in Lead, Store(l) PROVE NothingRefersToErased'
    BY <2>3 DEF Store, MatchExists, Stored, eventVars, ageVars, requestVars
  <2>4. ASSUME NEW l \in Lead, StoreFails(l) PROVE NothingRefersToErased'
    BY <2>4 DEF StoreFails, AfterStoreFailure, Stored, leadVars, eventVars, ageVars,
        requestVars
  <2>5. ASSUME NEW l \in Lead, Announce(l) PROVE NothingRefersToErased'
    BY <2>5 DEF Announce, Stored, leadVars, eventVars, ageVars, requestVars
  <2>6. ASSUME NEW l \in Lead, AnnounceIsLost(l) PROVE NothingRefersToErased'
    BY <2>6 DEF AnnounceIsLost, Stored, leadVars, eventVars, ageVars, requestVars
  <2>7. ASSUME NEW l \in Lead, Age(l) PROVE NothingRefersToErased'
    BY <2>7 DEF Age, Stored, captureVars, leadVars, eventVars, requestVars
  <2>8. ASSUME NEW r \in Request, NEW l \in Lead, NEW to \in Input,
               ReadForChange(r, l, to)
        PROVE  NothingRefersToErased'
    BY <2>8 DEF ReadForChange, CanTransition, Stored, captureVars, leadVars,
        eventVars, ageVars
  <2>9. ASSUME NEW r \in Request, NEW l \in Lead, ReadForRemark(r, l)
        PROVE  NothingRefersToErased'
    BY <2>9 DEF ReadForRemark, Stored, captureVars, leadVars, eventVars, ageVars
  <2>10. ASSUME NEW r \in Request, NEW l \in Lead, BeginErasure(r, l)
         PROVE  NothingRefersToErased'
    BY <2>10 DEF BeginErasure, Stored, captureVars, leadVars, eventVars, ageVars
  <2>11. ASSUME NEW r \in Request, BeginPruning(r) PROVE NothingRefersToErased'
    BY <2>11 DEF BeginPruning, Stored, captureVars, leadVars, eventVars, ageVars
  <2>12. ASSUME NEW r \in Request, Change(r) PROVE NothingRefersToErased'
    BY <2>12 DEF Change, NewEvent, Stored, captureVars, ageVars
  <2>13. ASSUME NEW r \in Request, Remark(r) PROVE NothingRefersToErased'
    BY <2>13 DEF Remark, Stored, captureVars, leadVars, ageVars
  <2>14. ASSUME NEW r \in Request, DeleteEvents(r) PROVE NothingRefersToErased'
    BY <2>14 DEF DeleteEvents, WithoutEvents, Stored, captureVars, leadVars, ageVars
  <2>15. ASSUME NEW r \in Request, DeleteLeads(r) PROVE NothingRefersToErased'
    BY <2>15 DEF DeleteLeads, Cascade, WithoutEvents, Stored, captureVars, ageVars
  <2>16. ASSUME NEW r \in Request, Abandon(r) PROVE NothingRefersToErased'
    BY <2>16 DEF Abandon, Stored, captureVars, leadVars, eventVars, ageVars
  <2>17. CASE UNCHANGED vars
    BY <2>17 DEF vars, captureVars, leadVars, eventVars, ageVars, requestVars,
        Stored
  <2>18. QED
    BY <2>1, <2>2, <2>3, <2>4, <2>5, <2>6, <2>7, <2>8, <2>9, <2>10, <2>11, <2>12,
       <2>13, <2>14, <2>15, <2>16, <2>17 DEF Next
<1>3. QED
  BY <1>1, <1>2, TypeCorrect, PTL DEF Spec
-----------------------------------------------------------------------------
\* The property, and that nothing has happened to a lead not yet stored, not
\* even a request about it.
TrailInv ==
    /\ \A r \in Request, l \in Lead : l \in about[r] => row[l] # "none"
    /\ \A l \in Lead :
          /\ capture[l] \in {"idle", "search", "insert"} => row[l] = "none"
          /\ row[l] = "none" => status[l] = "new" /\ trail[l] = <<>>
          /\ row[l] = "stored" =>
                IF trail[l] = <<>> THEN status[l] = "new" \/ HalfErased(l)
                                   ELSE status[l] = trail[l][Len(trail[l])].to

\* The trail of a lead ends in its status, or an erasure or a pruning is, or was
\* left, half-way with it (leads.ts:53-54, 65-70).
THEOREM TrailIsTrue == Spec => []TrailExplainsStatus
<1>1. Init => TrailInv
  BY DEF Init, TrailInv
<1>2. TypeOK /\ TrailInv /\ [Next]_vars => TrailInv'
  <2> SUFFICES ASSUME TypeOK, TrailInv, [Next]_vars PROVE TrailInv'
    OBVIOUS
  <2> USE DEF TypeOK, TrailInv, HalfErased
  <2>1. ASSUME NEW l \in Lead, Submit(l) PROVE TrailInv'
    BY <2>1 DEF Submit, leadVars, eventVars, ageVars, requestVars
  <2>2. ASSUME NEW l \in Lead, Search(l) PROVE TrailInv'
    BY <2>2 DEF Search, Candidates, leadVars, eventVars, ageVars, requestVars
  <2>3. ASSUME NEW l \in Lead, Store(l) PROVE TrailInv'
    BY <2>3 DEF Store, MatchExists, eventVars, ageVars, requestVars
  <2>4. ASSUME NEW l \in Lead, StoreFails(l) PROVE TrailInv'
    BY <2>4 DEF StoreFails, AfterStoreFailure, leadVars, eventVars, ageVars,
        requestVars
  <2>5. ASSUME NEW l \in Lead, Announce(l) PROVE TrailInv'
    BY <2>5 DEF Announce, leadVars, eventVars, ageVars, requestVars
  <2>6. ASSUME NEW l \in Lead, AnnounceIsLost(l) PROVE TrailInv'
    BY <2>6 DEF AnnounceIsLost, leadVars, eventVars, ageVars, requestVars
  <2>7. ASSUME NEW l \in Lead, Age(l) PROVE TrailInv'
    BY <2>7 DEF Age, captureVars, leadVars, eventVars, requestVars
  <2>8. ASSUME NEW r \in Request, NEW l \in Lead, NEW to \in Input,
               ReadForChange(r, l, to)
        PROVE  TrailInv'
    BY <2>8 DEF ReadForChange, CanTransition, Stored, captureVars, leadVars,
        eventVars, ageVars
  <2>9. ASSUME NEW r \in Request, NEW l \in Lead, ReadForRemark(r, l)
        PROVE  TrailInv'
    BY <2>9 DEF ReadForRemark, Stored, captureVars, leadVars, eventVars, ageVars
  <2>10. ASSUME NEW r \in Request, NEW l \in Lead, BeginErasure(r, l)
         PROVE  TrailInv'
    BY <2>10 DEF BeginErasure, Stored, captureVars, leadVars, eventVars, ageVars
  <2>11. ASSUME NEW r \in Request, BeginPruning(r) PROVE TrailInv'
    BY <2>11 DEF BeginPruning, Stored, captureVars, leadVars, eventVars, ageVars
  <2>12. ASSUME NEW r \in Request, Change(r) PROVE TrailInv'
    <3>1. \A k \in Lead : trail[k] \in Seq(Event) /\ NewEvent(r).to = wanted[r]
      BY DEF NewEvent
    <3>2. \A k \in about[r] : k \in Lead /\ row[k] = "stored"
      BY <2>12 DEF Change, Stored
    <3>3. \A k \in about[r] :
             /\ trail'[k] = Append(trail[k], NewEvent(r))
             /\ status'[k] = wanted[r]
      BY <3>2, <2>12 DEF Change
    <3>4. \A k \in about[r] :
             /\ trail'[k] # <<>>
             /\ trail'[k][Len(trail'[k])].to = status'[k]
      BY <3>1, <3>2, <3>3, LastOfAppend
    <3>5. \A k \in Lead \ about[r] : trail'[k] = trail[k] /\ status'[k] = status[k]
      BY <2>12 DEF Change
    <3>6. /\ UNCHANGED <<capture, row, about>>
          /\ pc[r] = "change" /\ pc' = [pc EXCEPT ![r] = "done"]
      BY <2>12 DEF Change, captureVars
    <3>7. \A k \in Lead : HalfErased(k) => HalfErased(k)'
      BY <3>6
    <3> HIDE DEF HalfErased
    <3>8. QED
      BY <3>2, <3>4, <3>5, <3>6, <3>7
  <2>13. ASSUME NEW r \in Request, Remark(r) PROVE TrailInv'
    BY <2>13 DEF Remark, captureVars, leadVars, ageVars
  <2>14. ASSUME NEW r \in Request, DeleteEvents(r) PROVE TrailInv'
    BY <2>14 DEF DeleteEvents, WithoutEvents, captureVars, leadVars, ageVars
  <2>15. ASSUME NEW r \in Request, DeleteLeads(r) PROVE TrailInv'
    BY <2>15 DEF DeleteLeads, Cascade, WithoutEvents, captureVars, ageVars
  <2>16. ASSUME NEW r \in Request, Abandon(r) PROVE TrailInv'
    BY <2>16 DEF Abandon, captureVars, leadVars, eventVars, ageVars
  <2>17. CASE UNCHANGED vars
    BY <2>17 DEF vars, captureVars, leadVars, eventVars, ageVars, requestVars
  <2>18. QED
    BY <2>1, <2>2, <2>3, <2>4, <2>5, <2>6, <2>7, <2>8, <2>9, <2>10, <2>11, <2>12,
       <2>13, <2>14, <2>15, <2>16, <2>17 DEF Next
<1>3. TrailInv => TrailExplainsStatus
  BY DEF TrailInv, TrailExplainsStatus, Stored
<1>4. QED
  BY <1>1, <1>2, <1>3, TypeCorrect, PTL DEF Spec
-----------------------------------------------------------------------------
\* A request about to change a status was allowed to by what it read.
ChangeInv == \A r \in Request : pc[r] = "change" => wanted[r] \in Transitions[seen[r]]

\* A status step off the table is one of a request whose reading is stale
\* (leads.ts:61-70).
THEOREM StrayStepsAreStale == Spec => StrayStepIsStale
<1> DEFINE Step ==
      \A l \in Lead :
          status'[l] # status[l] /\ status'[l] \notin Transitions[status[l]] =>
              \E r \in Request :
                  /\ pc[r] = "change" /\ pc'[r] = "done"
                  /\ l \in about[r]
                  /\ seen[r] # status[l]
<1>1. Init => ChangeInv
  BY DEF Init, ChangeInv
<1>2. TypeOK /\ ChangeInv /\ [Next]_vars => ChangeInv' /\ Step
  <2> SUFFICES ASSUME TypeOK, ChangeInv, [Next]_vars PROVE ChangeInv' /\ Step
    OBVIOUS
  <2> USE DEF TypeOK, ChangeInv
  <2>1. ASSUME NEW l \in Lead, Submit(l) PROVE ChangeInv' /\ Step
    BY <2>1 DEF Submit, leadVars, eventVars, ageVars, requestVars
  <2>2. ASSUME NEW l \in Lead, Search(l) PROVE ChangeInv' /\ Step
    BY <2>2 DEF Search, Candidates, leadVars, eventVars, ageVars, requestVars
  <2>3. ASSUME NEW l \in Lead, Store(l) PROVE ChangeInv' /\ Step
    BY <2>3 DEF Store, MatchExists, eventVars, ageVars, requestVars
  <2>4. ASSUME NEW l \in Lead, StoreFails(l) PROVE ChangeInv' /\ Step
    BY <2>4 DEF StoreFails, AfterStoreFailure, leadVars, eventVars, ageVars,
        requestVars
  <2>5. ASSUME NEW l \in Lead, Announce(l) PROVE ChangeInv' /\ Step
    BY <2>5 DEF Announce, leadVars, eventVars, ageVars, requestVars
  <2>6. ASSUME NEW l \in Lead, AnnounceIsLost(l) PROVE ChangeInv' /\ Step
    BY <2>6 DEF AnnounceIsLost, leadVars, eventVars, ageVars, requestVars
  <2>7. ASSUME NEW l \in Lead, Age(l) PROVE ChangeInv' /\ Step
    BY <2>7 DEF Age, captureVars, leadVars, eventVars, requestVars
  <2>8. ASSUME NEW r \in Request, NEW l \in Lead, NEW to \in Input,
               ReadForChange(r, l, to)
        PROVE  ChangeInv' /\ Step
    BY <2>8 DEF ReadForChange, CanTransition, captureVars, leadVars, eventVars,
        ageVars
  <2>9. ASSUME NEW r \in Request, NEW l \in Lead, ReadForRemark(r, l)
        PROVE  ChangeInv' /\ Step
    BY <2>9 DEF ReadForRemark, captureVars, leadVars, eventVars, ageVars
  <2>10. ASSUME NEW r \in Request, NEW l \in Lead, BeginErasure(r, l)
         PROVE  ChangeInv' /\ Step
    BY <2>10 DEF BeginErasure, captureVars, leadVars, eventVars, ageVars
  <2>11. ASSUME NEW r \in Request, BeginPruning(r) PROVE ChangeInv' /\ Step
    BY <2>11 DEF BeginPruning, captureVars, leadVars, eventVars, ageVars
  <2>12. ASSUME NEW r \in Request, Change(r) PROVE ChangeInv' /\ Step
    BY <2>12 DEF Change, NewEvent, captureVars, ageVars
  <2>13. ASSUME NEW r \in Request, Remark(r) PROVE ChangeInv' /\ Step
    BY <2>13 DEF Remark, captureVars, leadVars, ageVars
  <2>14. ASSUME NEW r \in Request, DeleteEvents(r) PROVE ChangeInv' /\ Step
    BY <2>14 DEF DeleteEvents, WithoutEvents, captureVars, leadVars, ageVars
  <2>15. ASSUME NEW r \in Request, DeleteLeads(r) PROVE ChangeInv' /\ Step
    BY <2>15 DEF DeleteLeads, Cascade, WithoutEvents, captureVars, ageVars
  <2>16. ASSUME NEW r \in Request, Abandon(r) PROVE ChangeInv' /\ Step
    BY <2>16 DEF Abandon, captureVars, leadVars, eventVars, ageVars
  <2>17. CASE UNCHANGED vars
    BY <2>17 DEF vars, captureVars, leadVars, eventVars, ageVars, requestVars
  <2>18. QED
    BY <2>1, <2>2, <2>3, <2>4, <2>5, <2>6, <2>7, <2>8, <2>9, <2>10, <2>11, <2>12,
       <2>13, <2>14, <2>15, <2>16, <2>17 DEF Next
<1>3. QED
  BY <1>1, <1>2, TypeCorrect, PTL DEF Spec, StrayStepIsStale
-----------------------------------------------------------------------------
\* A search that found nothing saw every recent lead stored before it.
SearchInv ==
    \A l \in Lead :
        /\ horizon[l] <= count
        /\ capture[l] = "insert" /\ match[l] = NoLead =>
              \A d \in Stored \ aged : <<l, d>> \in Alike => born[d] > horizon[l]

\* A duplicate that was not linked was under way together with its original
\* (cards.ts:207-215).
THEOREM MissedDuplicatesOverlap == Spec => MissedDuplicateOverlaps
<1> DEFINE Step ==
      \A l \in Lead :
          row[l] = "none" /\ row'[l] = "stored" /\ dup'[l] = NoLead =>
              \A d \in Stored \ aged : <<l, d>> \in Alike => born[d] > horizon[l]
<1>1. Init => SearchInv
  <2> SUFFICES ASSUME Init, NEW l \in Lead
               PROVE  horizon[l] <= count /\ capture[l] # "insert"
    BY DEF SearchInv
  <2> QED
    BY DEF Init
<1>2. TypeOK /\ SearchInv /\ [Next]_vars => SearchInv' /\ Step
  <2> SUFFICES ASSUME TypeOK, SearchInv, [Next]_vars PROVE SearchInv' /\ Step
    OBVIOUS
  <2> USE DEF TypeOK, SearchInv
  <2>1. ASSUME NEW l \in Lead, Submit(l) PROVE SearchInv' /\ Step
    BY <2>1 DEF Submit, Stored, leadVars, eventVars, ageVars, requestVars
  <2>2. ASSUME NEW l \in Lead, Search(l) PROVE SearchInv' /\ Step
    <3>1. capture' = [capture EXCEPT ![l] = "insert"]
          /\ horizon' = [horizon EXCEPT ![l] = count]
          /\ UNCHANGED <<row, born, dup, aged, count>>
      BY <2>2 DEF Search, leadVars, ageVars
    <3>2. Stored' = Stored
      BY <3>1 DEF Stored
    <3>3. match'[l] = NoLead => Candidates(l) = {}
      <4> SUFFICES ASSUME Candidates(l) # {} PROVE match'[l] # NoLead
        OBVIOUS
      <4>1. PICK d \in Candidates(l) : match' = [match EXCEPT ![l] = d]
        BY <2>2 DEF Search
      <4>2. d \in Lead
        BY DEF Candidates, Stored
      <4>3. QED
        BY <4>1, <4>2, LeadAssumption
    <3>4. \A k \in Lead \ {l} : match'[k] = match[k]
      BY <2>2 DEF Search
    <3>5. horizon'[l] <= count'
      BY <3>1
    <3>6. SearchInv'
      BY <3>1, <3>2, <3>3, <3>4, <3>5 DEF Candidates
    <3>7. Step
      BY <3>1
    <3>8. QED
      BY <3>6, <3>7
  <2>3. ASSUME NEW l \in Lead, Store(l) PROVE SearchInv' /\ Step
    <3>1. /\ capture[l] = "insert" /\ capture' = [capture EXCEPT ![l] = "stored"]
          /\ match[l] = NoLead \/ row[match[l]] = "stored"
          /\ row' = [row EXCEPT ![l] = "stored"]
          /\ dup' = [dup EXCEPT ![l] = match[l]]
          /\ born' = [born EXCEPT ![l] = count + 1]
          /\ count' = count + 1
          /\ UNCHANGED <<match, horizon, aged, about>>
      BY <2>3 DEF Store, MatchExists, Stored, ageVars, requestVars
    <3>2. SearchInv'
      BY <3>1 DEF Stored
    <3>3. Step
      BY <3>1 DEF Stored
    <3>4. QED
      BY <3>2, <3>3
  <2>4. ASSUME NEW l \in Lead, StoreFails(l) PROVE SearchInv' /\ Step
    BY <2>4 DEF StoreFails, AfterStoreFailure, Stored, leadVars, eventVars, ageVars,
        requestVars
  <2>5. ASSUME NEW l \in Lead, Announce(l) PROVE SearchInv' /\ Step
    BY <2>5 DEF Announce, Stored, leadVars, eventVars, ageVars, requestVars
  <2>6. ASSUME NEW l \in Lead, AnnounceIsLost(l) PROVE SearchInv' /\ Step
    BY <2>6 DEF AnnounceIsLost, Stored, leadVars, eventVars, ageVars, requestVars
  <2>7. ASSUME NEW l \in Lead, Age(l) PROVE SearchInv' /\ Step
    BY <2>7 DEF Age, Stored, captureVars, leadVars, eventVars, requestVars
  <2>8. ASSUME NEW r \in Request, NEW l \in Lead, NEW to \in Input,
               ReadForChange(r, l, to)
        PROVE  SearchInv' /\ Step
    BY <2>8 DEF ReadForChange, CanTransition, Stored, captureVars, leadVars,
        eventVars, ageVars
  <2>9. ASSUME NEW r \in Request, NEW l \in Lead, ReadForRemark(r, l)
        PROVE  SearchInv' /\ Step
    BY <2>9 DEF ReadForRemark, Stored, captureVars, leadVars, eventVars, ageVars
  <2>10. ASSUME NEW r \in Request, NEW l \in Lead, BeginErasure(r, l)
         PROVE  SearchInv' /\ Step
    BY <2>10 DEF BeginErasure, Stored, captureVars, leadVars, eventVars, ageVars
  <2>11. ASSUME NEW r \in Request, BeginPruning(r) PROVE SearchInv' /\ Step
    BY <2>11 DEF BeginPruning, Stored, captureVars, leadVars, eventVars, ageVars
  <2>12. ASSUME NEW r \in Request, Change(r) PROVE SearchInv' /\ Step
    BY <2>12 DEF Change, NewEvent, Stored, captureVars, ageVars
  <2>13. ASSUME NEW r \in Request, Remark(r) PROVE SearchInv' /\ Step
    BY <2>13 DEF Remark, Stored, captureVars, leadVars, ageVars
  <2>14. ASSUME NEW r \in Request, DeleteEvents(r) PROVE SearchInv' /\ Step
    BY <2>14 DEF DeleteEvents, WithoutEvents, Stored, captureVars, leadVars, ageVars
  <2>15. ASSUME NEW r \in Request, DeleteLeads(r) PROVE SearchInv' /\ Step
    BY <2>15 DEF DeleteLeads, Cascade, WithoutEvents, Stored, captureVars, ageVars
  <2>16. ASSUME NEW r \in Request, Abandon(r) PROVE SearchInv' /\ Step
    BY <2>16 DEF Abandon, Stored, captureVars, leadVars, eventVars, ageVars
  <2>17. CASE UNCHANGED vars
    BY <2>17 DEF vars, captureVars, leadVars, eventVars, ageVars, requestVars,
        Stored
  <2>18. QED
    BY <2>1, <2>2, <2>3, <2>4, <2>5, <2>6, <2>7, <2>8, <2>9, <2>10, <2>11, <2>12,
       <2>13, <2>14, <2>15, <2>16, <2>17 DEF Next
<1>3. QED
  BY <1>1, <1>2, TypeCorrect, PTL DEF Spec, MissedDuplicateOverlaps
-----------------------------------------------------------------------------
\* Every event of a trail is a step of the table.
StepsIn(s) == \A i \in 1..Len(s) : s[i].to \in Transitions[s[i].from]

LEMMA StepsInEmpty == StepsIn(<<>>)
BY DEF StepsIn

LEMMA StepsInAppend ==
  ASSUME NEW s \in Seq(Event), NEW e, StepsIn(s), e.to \in Transitions[e.from]
  PROVE  StepsIn(Append(s, e))
BY DEF StepsIn

TrailFollowsTable == \A l \in Lead : StepsIn(trail[l])

TableInv ==
    /\ \A r \in Request : pc[r] = "change" => wanted[r] \in Transitions[seen[r]]
    /\ \A l \in Lead : StepsIn(trail[l])

\* The history of a lead shows steps of the table only, also where its status
\* left the table: a stray step is written down as the step its request judged,
\* not as the one it made, so that no single event gives it away
\* (leads.ts:61-70).
THEOREM TrailsFollowTable == Spec => []TrailFollowsTable
<1>1. Init => TableInv
  BY DEF Init, TableInv, StepsIn
<1>2. TypeOK /\ TableInv /\ [Next]_vars => TableInv'
  <2> SUFFICES ASSUME TypeOK, TableInv, [Next]_vars
               PROVE  TableInv'
    OBVIOUS
  <2> USE DEF TypeOK, TableInv
  <2>1. ASSUME NEW l \in Lead, Submit(l) PROVE TableInv'
    BY <2>1 DEF Submit, Stored, leadVars, eventVars, ageVars, requestVars
  <2>2. ASSUME NEW l \in Lead, Search(l) PROVE TableInv'
    BY <2>2 DEF Search, Candidates, Stored, leadVars, eventVars, ageVars,
        requestVars
  <2>3. ASSUME NEW l \in Lead, Store(l) PROVE TableInv'
    BY <2>3 DEF Store, MatchExists, Stored, eventVars, ageVars, requestVars
  <2>4. ASSUME NEW l \in Lead, StoreFails(l) PROVE TableInv'
    BY <2>4 DEF StoreFails, AfterStoreFailure, Stored, leadVars, eventVars, ageVars,
        requestVars
  <2>5. ASSUME NEW l \in Lead, Announce(l) PROVE TableInv'
    BY <2>5 DEF Announce, Stored, leadVars, eventVars, ageVars, requestVars
  <2>6. ASSUME NEW l \in Lead, AnnounceIsLost(l) PROVE TableInv'
    BY <2>6 DEF AnnounceIsLost, Stored, leadVars, eventVars, ageVars, requestVars
  <2>7. ASSUME NEW l \in Lead, Age(l) PROVE TableInv'
    BY <2>7 DEF Age, Stored, captureVars, leadVars, eventVars, requestVars
  <2>8. ASSUME NEW r \in Request, NEW l \in Lead, NEW to \in Input,
               ReadForChange(r, l, to)
        PROVE  TableInv'
    BY <2>8 DEF ReadForChange, CanTransition, Stored, captureVars, leadVars,
        eventVars, ageVars
  <2>9. ASSUME NEW r \in Request, NEW l \in Lead, ReadForRemark(r, l)
        PROVE  TableInv'
    BY <2>9 DEF ReadForRemark, Stored, captureVars, leadVars, eventVars, ageVars
  <2>10. ASSUME NEW r \in Request, NEW l \in Lead, BeginErasure(r, l)
         PROVE  TableInv'
    BY <2>10 DEF BeginErasure, Stored, captureVars, leadVars, eventVars, ageVars
  <2>11. ASSUME NEW r \in Request, BeginPruning(r) PROVE TableInv'
    BY <2>11 DEF BeginPruning, Stored, captureVars, leadVars, eventVars, ageVars
  <2>12. ASSUME NEW r \in Request, Change(r) PROVE TableInv'
    <3>1. \A k \in Lead : trail[k] \in Seq(Event)
      OBVIOUS
    <3>2. NewEvent(r).to \in Transitions[NewEvent(r).from]
      BY <2>12 DEF Change, NewEvent
    <3>3. ASSUME NEW k \in Lead PROVE StepsIn(trail'[k])
      <4>1. trail'[k] \in {trail[k], Append(trail[k], NewEvent(r))}
        BY <2>12 DEF Change
      <4>2. QED
        BY <3>1, <3>2, <4>1, StepsInAppend
    <3>4. \A q \in Request : pc'[q] = "change" => pc[q] = "change"
      BY <2>12 DEF Change
    <3>5. QED
      BY <3>3, <3>4, <2>12 DEF Change
  <2>13. ASSUME NEW r \in Request, Remark(r) PROVE TableInv'
    BY <2>13 DEF Remark, Stored, captureVars, leadVars, ageVars
  <2>14. ASSUME NEW r \in Request, DeleteEvents(r) PROVE TableInv'
    <3>1. \A k \in Lead : trail'[k] \in {<<>>, trail[k]}
      BY <2>14 DEF DeleteEvents, WithoutEvents
    <3>2. \A k \in Lead : StepsIn(trail'[k])
      BY <3>1, StepsInEmpty
    <3>3. QED
      BY <3>2, <2>14 DEF DeleteEvents
  <2>15. ASSUME NEW r \in Request, DeleteLeads(r) PROVE TableInv'
    <3>1. \A k \in Lead : trail'[k] \in {<<>>, trail[k]}
      BY <2>15 DEF DeleteLeads, Cascade, WithoutEvents
    <3>2. \A k \in Lead : StepsIn(trail'[k])
      BY <3>1, StepsInEmpty
    <3>3. QED
      BY <3>2, <2>15 DEF DeleteLeads
  <2>16. ASSUME NEW r \in Request, Abandon(r) PROVE TableInv'
    BY <2>16 DEF Abandon, Stored, captureVars, leadVars, eventVars, ageVars
  <2>17. CASE UNCHANGED vars
    BY <2>17 DEF vars, captureVars, leadVars, eventVars, ageVars, requestVars,
        Stored
  <2>18. QED
    BY <2>1, <2>2, <2>3, <2>4, <2>5, <2>6, <2>7, <2>8, <2>9, <2>10, <2>11, <2>12,
       <2>13, <2>14, <2>15, <2>16, <2>17 DEF Next
<1>3. TableInv => TrailFollowsTable
  BY DEF TableInv, TrailFollowsTable
<1>4. QED
  BY <1>1, <1>2, <1>3, TypeCorrect, PTL DEF Spec
-----------------------------------------------------------------------------
\* A lead is linked to one that was stored before it.
LinksPointBack == \A l \in Lead : dup[l] # NoLead => born[dup[l]] < born[l]

\* Nothing refers to a lead not yet stored, and each was stored at a time of its
\* own count.
LinkInv ==
    /\ \A r \in Request, l \in Lead : l \in about[r] => row[l] # "none"
    /\ \A l \in Lead : row[l] # "none" => born[l] <= count
    /\ \A l \in Lead : capture[l] \in {"idle", "search", "insert"} => row[l] = "none"
    /\ \A l \in Lead : match[l] # NoLead => row[match[l]] # "none"
    /\ \A l \in Lead : dup[l] # NoLead => row[dup[l]] # "none"
    /\ \A l \in Lead : row[l] = "none" => dup[l] = NoLead
    /\ \A l \in Lead : dup[l] # NoLead => born[dup[l]] < born[l]

\* Links between duplicates lead back in time, whatever submissions race and
\* whatever is erased between a search and its insert: following them ends, and
\* two leads are never each other's duplicate (cards.ts:207-215).
THEOREM LinksLeadBack == Spec => []LinksPointBack
<1>1. Init => LinkInv
  BY LeadAssumption DEF Init, LinkInv
<1>2. TypeOK /\ LinkInv /\ [Next]_vars => LinkInv'
  <2> SUFFICES ASSUME TypeOK, LinkInv, [Next]_vars
               PROVE  LinkInv'
    OBVIOUS
  <2> USE DEF TypeOK, LinkInv
  <2>1. ASSUME NEW l \in Lead, Submit(l) PROVE LinkInv'
    BY <2>1 DEF Submit, Stored, leadVars, eventVars, ageVars, requestVars
  <2>2. ASSUME NEW l \in Lead, Search(l) PROVE LinkInv'
    <3>1. /\ match' = match \/ \E d \in Candidates(l) : match' = [match EXCEPT ![l] = d]
          /\ capture[l] = "search" /\ capture' = [capture EXCEPT ![l] = "insert"]
          /\ UNCHANGED <<row, born, dup, about, count>>
      BY <2>2 DEF Search, leadVars, requestVars
    <3>2. \A m \in Lead : match'[m] # NoLead => row[match'[m]] # "none"
      BY <3>1 DEF Candidates, Stored
    <3>3. QED
      BY <3>1, <3>2
  <2>3. ASSUME NEW l \in Lead, Store(l) PROVE LinkInv'
    <3>1. /\ capture[l] = "insert" /\ capture' = [capture EXCEPT ![l] = "stored"]
          /\ match[l] = NoLead \/ row[match[l]] = "stored"
          /\ row' = [row EXCEPT ![l] = "stored"]
          /\ dup' = [dup EXCEPT ![l] = match[l]]
          /\ born' = [born EXCEPT ![l] = count + 1]
          /\ count' = count + 1
          /\ UNCHANGED <<match, horizon, aged, about>>
      BY <2>3 DEF Store, MatchExists, Stored, ageVars, requestVars
    <3>2. \A k \in Lead : born[k] \in Nat /\ count \in Nat
      OBVIOUS
    <3>3. \A k \in Lead : row'[k] # "none" => born'[k] <= count'
      BY <3>1, <3>2
    <3>4. dup'[l] # NoLead => born'[dup'[l]] < born'[l]
      BY <3>1, <3>2, <3>3
    <3>5. \A k \in Lead \ {l} : dup'[k] # NoLead => born'[dup'[k]] < born'[k]
      BY <3>1, <3>2
    <3>6. QED
      BY <3>1, <3>3, <3>4, <3>5
  <2>4. ASSUME NEW l \in Lead, StoreFails(l) PROVE LinkInv'
    BY <2>4 DEF StoreFails, AfterStoreFailure, Stored, leadVars, eventVars, ageVars,
        requestVars
  <2>5. ASSUME NEW l \in Lead, Announce(l) PROVE LinkInv'
    BY <2>5 DEF Announce, Stored, leadVars, eventVars, ageVars, requestVars
  <2>6. ASSUME NEW l \in Lead, AnnounceIsLost(l) PROVE LinkInv'
    BY <2>6 DEF AnnounceIsLost, Stored, leadVars, eventVars, ageVars, requestVars
  <2>7. ASSUME NEW l \in Lead, Age(l) PROVE LinkInv'
    BY <2>7 DEF Age, Stored, captureVars, leadVars, eventVars, requestVars
  <2>8. ASSUME NEW r \in Request, NEW l \in Lead, NEW to \in Input,
               ReadForChange(r, l, to)
        PROVE  LinkInv'
    BY <2>8 DEF ReadForChange, CanTransition, Stored, captureVars, leadVars,
        eventVars, ageVars
  <2>9. ASSUME NEW r \in Request, NEW l \in Lead, ReadForRemark(r, l)
        PROVE  LinkInv'
    BY <2>9 DEF ReadForRemark, Stored, captureVars, leadVars, eventVars, ageVars
  <2>10. ASSUME NEW r \in Request, NEW l \in Lead, BeginErasure(r, l)
         PROVE  LinkInv'
    BY <2>10 DEF BeginErasure, Stored, captureVars, leadVars, eventVars, ageVars
  <2>11. ASSUME NEW r \in Request, BeginPruning(r) PROVE LinkInv'
    BY <2>11 DEF BeginPruning, Stored, captureVars, leadVars, eventVars, ageVars
  <2>12. ASSUME NEW r \in Request, Change(r) PROVE LinkInv'
    BY <2>12 DEF Change, NewEvent, Stored, captureVars, ageVars
  <2>13. ASSUME NEW r \in Request, Remark(r) PROVE LinkInv'
    BY <2>13 DEF Remark, Stored, captureVars, leadVars, ageVars
  <2>14. ASSUME NEW r \in Request, DeleteEvents(r) PROVE LinkInv'
    BY <2>14 DEF DeleteEvents, WithoutEvents, Stored, captureVars, leadVars, ageVars
  <2>15. ASSUME NEW r \in Request, DeleteLeads(r) PROVE LinkInv'
    <3>1. /\ row' = [l \in Lead |-> IF l \in about[r] THEN "gone" ELSE row[l]]
          /\ dup' = [l \in Lead |->
                        IF l \in about[r] \/ dup[l] \in about[r] THEN NoLead ELSE dup[l]]
          /\ UNCHANGED <<capture, match, born, count, about>>
      BY <2>15 DEF DeleteLeads, captureVars
    <3>2. \A k \in Lead : row'[k] \in {row[k], "gone"} /\ dup'[k] \in {dup[k], NoLead}
      BY <3>1
    <3>3. \A k \in Lead : row'[k] = "none" <=> row[k] = "none"
      BY <3>1
    <3>4. QED
      BY <3>1, <3>2, <3>3, LeadAssumption
  <2>16. ASSUME NEW r \in Request, Abandon(r) PROVE LinkInv'
    BY <2>16 DEF Abandon, Stored, captureVars, leadVars, eventVars, ageVars
  <2>17. CASE UNCHANGED vars
    BY <2>17 DEF vars, captureVars, leadVars, eventVars, ageVars, requestVars,
        Stored
  <2>18. QED
    BY <2>1, <2>2, <2>3, <2>4, <2>5, <2>6, <2>7, <2>8, <2>9, <2>10, <2>11, <2>12,
       <2>13, <2>14, <2>15, <2>16, <2>17 DEF Next
<1>3. LinkInv => LinksPointBack
  BY DEF LinkInv, LinksPointBack
<1>4. QED
  BY <1>1, <1>2, <1>3, TypeCorrect, PTL DEF Spec
=============================================================================
