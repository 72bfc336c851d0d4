---------------------------- MODULE LeadLifecycle ----------------------------
(***************************************************************************)
(* The life of a lead: capture with its search for a duplicate             *)
(* (src/routes/cards.ts, src/routes/assets.ts), status changes,            *)
(* assignments and notes by admins, erasure (src/routes/admin/leads.ts)    *)
(* and retention (src/retention-prune.ts).  Every handler reads first and  *)
(* writes in a later statement, and any two of them may be under way.      *)
(* The leads are those of one card.                                        *)
(***************************************************************************)
EXTENDS Integers, Sequences

CONSTANTS
    Lead,       \* submissions of the form, each with a lead id of its own
    Alike,      \* pairs of submissions that share an email or a phone number
    Request,    \* requests of admins, and runs of the pruning job
    NoLead

ASSUME LeadAssumption ==
    /\ NoLead \notin Lead
    /\ Alike \in SUBSET (Lead \X Lead)

VARIABLES
    capture,    \* where the handler of each submission stands
    match,      \* the duplicate its search found
    horizon,    \* history: how many leads were stored when it searched
    row,        \* whether the lead is in the database
    born,       \* history: which lead to be stored it was
    status,     \* Lead.status
    dup,        \* Lead.duplicateOfId
    trail,      \* its LeadEvents of type status, in the order they were committed
    remarked,   \* leads with LeadEvents of another type
    aged,       \* leads captured more than thirty days ago
    expired,    \* leads past the retention period
    pc,         \* where each request stands
    about,      \* the leads it is about
    seen,       \* the status it read
    wanted,     \* the status it is to write
    count       \* history: how many leads were stored

captureVars == <<capture, match, horizon>>
leadVars == <<row, born, status, dup>>
eventVars == <<trail, remarked>>
ageVars == <<aged, expired>>
requestVars == <<pc, about, seen, wanted>>
vars == <<captureVars, leadVars, eventVars, ageVars, requestVars, count>>

Status == {"new", "sent", "synced", "failed", "archived"}

Transitions ==
    [new |-> {"sent", "archived"}, sent |-> {"synced", "failed", "archived"},
     synced |-> {"archived"}, failed |-> {"sent", "archived"}, archived |-> {"new"}]

\* Mutants: the table is not consulted, nor even the list of statuses.
AnyStatus(from, to) == to \in Status
AnyInput(from, to) == TRUE

CanTransition(from, to) == to \in Transitions[from]

\* What a status form may send.
Input == Status \union {"bogus"}

Event == [from: Status, to: Status]

TypeOK ==
    /\ capture \in [Lead -> {"idle", "search", "insert", "stored", "done", "dead"}]
    /\ match \in [Lead -> Lead \union {NoLead}]
    /\ horizon \in [Lead -> Nat]
    /\ row \in [Lead -> {"none", "stored", "gone"}]
    /\ born \in [Lead -> Nat]
    /\ status \in [Lead -> Status]
    /\ dup \in [Lead -> Lead \union {NoLead}]
    /\ trail \in [Lead -> Seq(Event)]
    /\ remarked \subseteq Lead
    /\ aged \subseteq Lead
    /\ expired \subseteq Lead
    /\ pc \in [Request -> {"idle", "change", "remark", "events", "leads", "done", "halfway"}]
    /\ about \in [Request -> SUBSET Lead]
    /\ seen \in [Request -> Status]
    /\ wanted \in [Request -> Status]
    /\ count \in Nat

Init ==
    /\ capture = [l \in Lead |-> "idle"]
    /\ match = [l \in Lead |-> NoLead]
    /\ horizon = [l \in Lead |-> 0]
    /\ row = [l \in Lead |-> "none"]
    /\ born = [l \in Lead |-> 0]
    /\ status = [l \in Lead |-> "new"]
    /\ dup = [l \in Lead |-> NoLead]
    /\ trail = [l \in Lead |-> <<>>]
    /\ remarked = {}
    /\ aged = {}
    /\ expired = {}
    /\ pc = [r \in Request |-> "idle"]
    /\ about = [r \in Request |-> {}]
    /\ seen = [r \in Request |-> "new"]
    /\ wanted = [r \in Request |-> "new"]
    /\ count = 0

Stored == {l \in Lead : row[l] = "stored"}
-----------------------------------------------------------------------------
(* POST /c/:slug/connect and POST /a/:slug/connect *)

Submit(l) ==
    /\ capture[l] = "idle"
    /\ capture' = [capture EXCEPT ![l] = "search"]
    /\ UNCHANGED <<match, horizon, leadVars, eventVars, ageVars, requestVars, count>>

\* Mutant: the window is the wrong way round.
OldCandidates(l) == {d \in Stored \intersect aged : <<l, d>> \in Alike}

\* The leads of the last thirty days with the same normalised email or phone.
Candidates(l) == {d \in Stored \ aged : <<l, d>> \in Alike}

\* findDuplicate takes the first match, in the order of an unordered query.
Search(l) ==
    /\ capture[l] = "search"
    /\ \/ Candidates(l) = {} /\ UNCHANGED match
       \/ \E d \in Candidates(l) : match' = [match EXCEPT ![l] = d]
    /\ horizon' = [horizon EXCEPT ![l] = count]
    /\ capture' = [capture EXCEPT ![l] = "insert"]
    /\ UNCHANGED <<leadVars, eventVars, ageVars, requestVars, count>>

\* Mutant: no foreign key from a lead to the one it duplicates.
AnyMatch(l) == TRUE

MatchExists(l) == match[l] \in Stored \union {NoLead}

\* The transaction of the search commits, with the lead and its visit.
Store(l) ==
    /\ capture[l] = "insert"
    /\ MatchExists(l)
    /\ row' = [row EXCEPT ![l] = "stored"]
    /\ dup' = [dup EXCEPT ![l] = match[l]]
    /\ born' = [born EXCEPT ![l] = count + 1]
    /\ count' = count + 1
    /\ capture' = [capture EXCEPT ![l] = "stored"]
    /\ UNCHANGED <<match, horizon, status, eventVars, ageVars, requestVars>>

AfterStoreFailure == "dead"

\* It fails and is rolled back, as it must when the duplicate was erased after
\* the search: the visitor gets an error and the lead is not kept.
StoreFails(l) ==
    /\ capture[l] \in {"search", "insert"}
    /\ capture' = [capture EXCEPT ![l] = AfterStoreFailure]
    /\ UNCHANGED <<match, horizon, leadVars, eventVars, ageVars, requestVars, count>>

\* emitEvent, notifyLead and syncLeadToCrm, none of which is waited for.
Announce(l) ==
    /\ capture[l] = "stored"
    /\ capture' = [capture EXCEPT ![l] = "done"]
    /\ UNCHANGED <<match, horizon, leadVars, eventVars, ageVars, requestVars, count>>

\* The process dies between the commit and the calls.
AnnounceIsLost(l) ==
    /\ capture[l] = "stored"
    /\ capture' = [capture EXCEPT ![l] = "dead"]
    /\ UNCHANGED <<match, horizon, leadVars, eventVars, ageVars, requestVars, count>>
-----------------------------------------------------------------------------
(* Status, assignment and notes *)

\* POST /leads/:id/status reads the lead and judges the step by what it read.
ReadForChange(r, l, to) ==
    /\ pc[r] = "idle"
    /\ l \in Stored
    /\ CanTransition(status[l], to)
    /\ about' = [about EXCEPT ![r] = {l}]
    /\ seen' = [seen EXCEPT ![r] = status[l]]
    /\ wanted' = [wanted EXCEPT ![r] = to]
    /\ pc' = [pc EXCEPT ![r] = "change"]
    /\ UNCHANGED <<captureVars, leadVars, eventVars, ageVars, count>>

\* Mutant: the event has its ends swapped.
BackwardEvent(r) == [from |-> wanted[r], to |-> seen[r]]

NewEvent(r) == [from |-> seen[r], to |-> wanted[r]]

\* One transaction updates the lead and adds the event.
Change(r) ==
    /\ pc[r] = "change"
    /\ about[r] \subseteq Stored
    /\ status' = [l \in Lead |-> IF l \in about[r] THEN wanted[r] ELSE status[l]]
    /\ trail' = [l \in Lead |->
                    IF l \in about[r] THEN Append(trail[l], NewEvent(r)) ELSE trail[l]]
    /\ pc' = [pc EXCEPT ![r] = "done"]
    /\ UNCHANGED <<captureVars, row, born, dup, remarked, ageVars, about, seen, wanted,
                   count>>

\* POST /leads/:id/assign and /leads/:id/note: an event of another type.  Whom
\* the lead is assigned to and what the note says is left out.
ReadForRemark(r, l) ==
    /\ pc[r] = "idle"
    /\ l \in Stored
    /\ about' = [about EXCEPT ![r] = {l}]
    /\ pc' = [pc EXCEPT ![r] = "remark"]
    /\ UNCHANGED <<captureVars, leadVars, eventVars, ageVars, seen, wanted, count>>

Remark(r) ==
    /\ pc[r] = "remark"
    /\ about[r] \subseteq Stored
    /\ remarked' = remarked \union about[r]
    /\ pc' = [pc EXCEPT ![r] = "done"]
    /\ UNCHANGED <<captureVars, leadVars, trail, ageVars, about, seen, wanted, count>>
-----------------------------------------------------------------------------
(* Erasure and retention *)

\* POST /leads/:id/delete
BeginErasure(r, l) ==
    /\ pc[r] = "idle"
    /\ l \in Stored
    /\ about' = [about EXCEPT ![r] = {l}]
    /\ pc' = [pc EXCEPT ![r] = "events"]
    /\ UNCHANGED <<captureVars, leadVars, eventVars, ageVars, seen, wanted, count>>

\* pruneOrgLeads, in the hourly tick or at an admin's request.
BeginPruning(r) ==
    /\ pc[r] = "idle"
    /\ Stored \intersect expired # {}
    /\ about' = [about EXCEPT ![r] = Stored \intersect expired]
    /\ pc' = [pc EXCEPT ![r] = "events"]
    /\ UNCHANGED <<captureVars, leadVars, eventVars, ageVars, seen, wanted, count>>

WithoutEvents(S) == [l \in Lead |-> IF l \in S THEN <<>> ELSE trail[l]]

DeleteEvents(r) ==
    /\ pc[r] = "events"
    /\ trail' = WithoutEvents(about[r])
    /\ remarked' = remarked \ about[r]
    /\ pc' = [pc EXCEPT ![r] = "leads"]
    /\ UNCHANGED <<captureVars, leadVars, ageVars, about, seen, wanted, count>>

\* Mutant: events written meanwhile stay behind.
NoCascade(S) == trail

Cascade(S) == WithoutEvents(S)

\* The leads go, with events written since and with the links to them.  A lead
\* somebody else has deleted already is an error to an erasure and nothing to
\* the pruning; either way it changes nothing.
DeleteLeads(r) ==
    /\ pc[r] = "leads"
    /\ row' = [l \in Lead |-> IF l \in about[r] THEN "gone" ELSE row[l]]
    /\ dup' = [l \in Lead |-> IF l \in about[r] \/ dup[l] \in about[r] THEN NoLead ELSE dup[l]]
    /\ trail' = Cascade(about[r])
    /\ remarked' = remarked \ about[r]
    /\ pc' = [pc EXCEPT ![r] = "done"]
    /\ UNCHANGED <<captureVars, born, status, ageVars, about, seen, wanted, count>>

\* A statement throws, as it must when the lead is gone, or the process dies:
\* half-way through an erasure or a pruning, if the events are deleted.
Abandon(r) ==
    /\ pc[r] \in {"change", "remark", "events", "leads"}
    /\ pc' = [pc EXCEPT ![r] = IF pc[r] = "leads" THEN "halfway" ELSE "done"]
    /\ UNCHANGED <<captureVars, leadVars, eventVars, ageVars, about, seen, wanted, count>>
-----------------------------------------------------------------------------
(* Time *)

Age(l) ==
    /\ l \in Stored
    /\ \/ aged' = aged \union {l} /\ UNCHANGED expired
       \/ expired' = expired \union {l} /\ UNCHANGED aged
    /\ UNCHANGED <<captureVars, leadVars, eventVars, requestVars, count>>

Next ==
    \/ \E l \in Lead :
          \/ Submit(l) \/ Search(l) \/ Store(l) \/ StoreFails(l)
          \/ Announce(l) \/ AnnounceIsLost(l) \/ Age(l)
    \/ \E r \in Request :
          \/ \E l \in Lead, to \in Input : ReadForChange(r, l, to)
          \/ \E l \in Lead : ReadForRemark(r, l) \/ BeginErasure(r, l)
          \/ BeginPruning(r) \/ Change(r) \/ Remark(r)
          \/ DeleteEvents(r) \/ DeleteLeads(r) \/ Abandon(r)

Spec == Init /\ [][Next]_vars
-----------------------------------------------------------------------------
(* Properties *)

\* leadstatus.ts:14, "Allowed status transitions (a small state machine)", and
\* its test, "canTransition enforces the state machine": a claim that does not
\* hold between two requests.
StepsFollowTable ==
    [][\A l \in Lead :
          status'[l] # status[l] => status'[l] \in Transitions[status[l]]]_vars

\* A step off the table is always one of a request that judged a status which
\* another request has changed since (leads.ts:61-70).
StrayStepIsStale ==
    [][\A l \in Lead :
          status'[l] # status[l] /\ status'[l] \notin Transitions[status[l]] =>
              \E r \in Request :
                  /\ pc[r] = "change" /\ pc'[r] = "done"
                  /\ l \in about[r]
                  /\ seen[r] # status[l]]_vars

\* An erasure or a pruning of the lead is between its two statements, or was
\* broken off there.
HalfErased(l) == \E r \in Request : l \in about[r] /\ pc[r] \in {"leads", "halfway"}

\* The last status event of a lead says what its status is, whatever requests
\* race, also after half an erasure; a lead without any is new, or half erased:
\* an erasure or a pruning that comes to its end leaves no lead behind whose
\* history it has deleted (leads.ts:53-54, 65-70, retention-prune.ts:12-13).
TrailExplainsStatus ==
    \A l \in Stored :
        IF trail[l] = <<>> THEN status[l] = "new" \/ HalfErased(l)
                           ELSE status[l] = trail[l][Len(trail[l])].to

\* Nothing refers to a lead that is gone: no event, though requests under way
\* may still add one between the two statements of an erasure, and no link
\* from a duplicate (leads.ts:53-54, retention-prune.ts:12-13, schema.prisma:507,
\* 535).
NothingRefersToErased ==
    \A l \in Lead :
        /\ trail[l] # <<>> \/ l \in remarked => l \in Stored
        /\ dup[l] # NoLead => l \in Stored /\ dup[l] \in Stored

\* Nobody is told of a lead that was not kept: webhooks, notices and CRM syncs
\* come after the commit (cards.ts:206-223).
AnnouncedWasStored ==
    \A l \in Lead : capture[l] = "done" => row[l] # "none"

\* A repeated submission that is stored without a link to a recent one was under
\* way together with it: the one it should link to was stored after its search
\* (cards.ts:207-215).
MissedDuplicateOverlaps ==
    [][\A l \in Lead :
          row[l] = "none" /\ row'[l] = "stored" /\ dup'[l] = NoLead =>
              \A d \in Stored \ aged : <<l, d>> \in Alike => born[d] > horizon[l]]_vars
=============================================================================
