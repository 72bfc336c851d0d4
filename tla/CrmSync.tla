------------------------------- MODULE CrmSync -------------------------------
(***************************************************************************)
(* Synchronisation of captured leads to CRM systems                        *)
(* (src/crmsync-dispatch.ts, src/crmsync.ts).  A capture sends its lead to *)
(* every matching integration, one after the other, and writes a log for   *)
(* each.  Nothing is retried by itself: the integrations page offers a     *)
(* retry of a failed log, which sends again and updates that log.          *)
(***************************************************************************)
EXTENDS Integers

CONSTANTS
    Lead,           \* captured leads
    Sample,         \* sample leads of the "send test" button
    Integration,    \* CRM integrations an admin may have set up
    Routes,         \* the integrations whose location matches that of each lead
    Retry,          \* retries an admin may ask for
    NoKey,          \* log of a retry that was not asked for
    MaxAttempts,    \* maxAttempts of every integration, five by default
    MaxCrash        \* bound on crashes of an instance

Run == Lead \union Sample
Process == Run \union Retry
Key == Run \X Integration

ASSUME CrmAssumption ==
    /\ Routes \in [Lead -> SUBSET Integration]
    /\ Lead \intersect Sample = {} /\ Run \intersect Retry = {}
    /\ NoKey \notin Key
    /\ MaxAttempts \in Int
    /\ MaxCrash \in Nat

VARIABLES
    integration,    \* whether each integration exists; its id is never reused
    step,           \* where each process stands
    found,          \* integrations each run has to send its lead to
    todo,           \* those it has not begun with
    key,            \* the log each process is about
    prior,          \* attempts it read in that log, 0 when it will create it
    ok,             \* whether its request was answered with 2xx
    status,         \* status of each log, "none" while it is absent
    attempts,       \* attempts of each log
    tries,          \* requests made for each log
    accepted,       \* logs whose lead the CRM has taken in
    crashes         \* crashes so far

vars == <<integration, step, found, todo, key, prior, ok, status, attempts,
          tries, accepted, crashes>>
logVars == <<status, attempts>>
crmVars == <<tries, accepted>>

Step == {"idle", "lookup", "next", "clicked", "sending", "recording",
         "done", "aborted", "dead"}

TypeOK ==
    /\ integration \in [Integration -> {"new", "enabled", "deleted"}]
    /\ step \in [Process -> Step]
    /\ found \in [Run -> SUBSET Integration]
    /\ todo \in [Run -> SUBSET Integration]
    /\ key \in [Process -> Key \union {NoKey}]
    /\ \A p \in Process : step[p] \in {"clicked", "sending", "recording"} => key[p] \in Key
    /\ prior \in [Process -> Nat]
    /\ ok \in [Process -> BOOLEAN]
    /\ status \in [Key -> {"none", "sent", "failed", "dead"}]
    /\ attempts \in [Key -> Nat]
    /\ tries \in [Key -> Nat]
    /\ accepted \subseteq Key
    /\ crashes \in 0..MaxCrash

Init ==
    /\ integration \in [Integration -> {"new", "enabled"}]
    /\ step = [p \in Process |-> "idle"]
    /\ found = [r \in Run |-> {}]
    /\ todo = [r \in Run |-> {}]
    /\ key = [p \in Process |-> NoKey]
    /\ prior = [p \in Process |-> 0]
    /\ ok = [p \in Process |-> FALSE]
    /\ status = [k \in Key |-> "none"]
    /\ attempts = [k \in Key |-> 0]
    /\ tries = [k \in Key |-> 0]
    /\ accepted = {}
    /\ crashes = 0

Enabled == {i \in Integration : integration[i] = "enabled"}
Exists(k) == k[2] \in Enabled
-----------------------------------------------------------------------------
(* nextSyncStatus: the status and the attempts after one more try *)

AtLeast(n, m) == IF n >= m THEN n ELSE m

\* Mutant: the attempts left are counted instead of those made.
AttemptsLeft(n) == AtLeast(n, 0) - 1

NextAttempts(n) == AtLeast(n, 0) + 1

\* Mutants: the cap is missed by one, and the answer is not looked at.
EarlyStatus(n, success) ==
    CASE success -> "sent"
      [] ~success /\ NextAttempts(n) + 1 >= AtLeast(MaxAttempts, 1) -> "dead"
      [] OTHER -> "failed"
BlindStatus(n, success) ==
    IF NextAttempts(n) >= AtLeast(MaxAttempts, 1) THEN "dead" ELSE "sent"

NextStatus(n, success) ==
    CASE success -> "sent"
      [] ~success /\ NextAttempts(n) >= AtLeast(MaxAttempts, 1) -> "dead"
      [] OTHER -> "failed"
-----------------------------------------------------------------------------
(* syncLeadToCrm and sendTestSync *)

\* A capture calls syncLeadToCrm and does not wait for it.
Capture(l) ==
    /\ step[l] = "idle"
    /\ step' = [step EXCEPT ![l] = "lookup"]
    /\ UNCHANGED <<integration, found, todo, key, prior, ok, logVars, crmVars, crashes>>

\* The enabled integrations of the lead's location and those of all locations.
LookUp(l) ==
    /\ step[l] = "lookup"
    /\ found' = [found EXCEPT ![l] = Enabled \intersect Routes[l]]
    /\ todo' = [todo EXCEPT ![l] = found'[l]]
    /\ step' = [step EXCEPT ![l] = "next"]
    /\ UNCHANGED <<integration, key, prior, ok, logVars, crmVars, crashes>>

\* The lookup of integrations or of the org fails: the error goes to the
\* console and the lead to nobody.
LookUpFails(l) ==
    /\ step[l] = "lookup"
    /\ step' = [step EXCEPT ![l] = "aborted"]
    /\ UNCHANGED <<integration, found, todo, key, prior, ok, logVars, crmVars, crashes>>

\* "Send test": a sample lead through one integration, with a log of its own.
SendTest(s, i) ==
    /\ step[s] = "idle"
    /\ i \in Enabled
    /\ found' = [found EXCEPT ![s] = {i}]
    /\ todo' = [todo EXCEPT ![s] = {i}]
    /\ step' = [step EXCEPT ![s] = "next"]
    /\ UNCHANGED <<integration, key, prior, ok, logVars, crmVars, crashes>>

\* The loop takes up one integration after the other, in an order of the
\* database's choice, as they were when they were looked up.
Begin(r, i) ==
    /\ step[r] = "next"
    /\ i \in todo[r]
    /\ todo' = [todo EXCEPT ![r] = @ \ {i}]
    /\ key' = [key EXCEPT ![r] = <<r, i>>]
    /\ step' = [step EXCEPT ![r] = "sending"]
    /\ UNCHANGED <<integration, found, prior, ok, logVars, crmVars, crashes>>

LoopEnds(r) ==
    /\ step[r] = "next"
    /\ todo[r] = {}
    /\ step' = [step EXCEPT ![r] = "done"]
    /\ UNCHANGED <<integration, found, todo, key, prior, ok, logVars, crmVars, crashes>>
-----------------------------------------------------------------------------
(* retrySync *)

\* The integrations page shows a retry button beside a failed log.  By the time
\* the request comes the log may have changed, and the same page may be open
\* twice.
Click(a, k) ==
    /\ step[a] = "idle"
    /\ status[k] = "failed"
    /\ key' = [key EXCEPT ![a] = k]
    /\ step' = [step EXCEPT ![a] = "clicked"]
    /\ UNCHANGED <<integration, found, todo, prior, ok, logVars, crmVars, crashes>>

\* The handler reads the log with its integration, and the lead.  It does not
\* look at the log's status, and the lead may be gone.
ReadLog(a) ==
    /\ step[a] = "clicked"
    /\ status[key[a]] # "none"
    /\ prior' = [prior EXCEPT ![a] = attempts[key[a]]]
    /\ step' = [step EXCEPT ![a] = "sending"]
    /\ UNCHANGED <<integration, found, todo, key, ok, logVars, crmVars, crashes>>

\* The log went away with its integration.
LogIsGone(a) ==
    /\ step[a] = "clicked"
    /\ status[key[a]] = "none"
    /\ step' = [step EXCEPT ![a] = "done"]
    /\ UNCHANGED <<integration, found, todo, key, prior, ok, logVars, crmVars, crashes>>
-----------------------------------------------------------------------------
(* attempt *)

\* The answer is 2xx.
Accepted(p) ==
    /\ step[p] = "sending"
    /\ accepted' = accepted \union {key[p]}
    /\ ok' = [ok EXCEPT ![p] = TRUE]
    /\ tries' = [tries EXCEPT ![key[p]] = @ + 1]
    /\ step' = [step EXCEPT ![p] = "recording"]
    /\ UNCHANGED <<integration, found, todo, key, prior, logVars, crashes>>

\* Another status, no configuration, a connection error, or eight seconds
\* without an answer, in which case the CRM may have the lead all the same.
Refused(p) ==
    /\ step[p] = "sending"
    /\ accepted' \in {accepted, accepted \union {key[p]}}
    /\ ok' = [ok EXCEPT ![p] = FALSE]
    /\ tries' = [tries EXCEPT ![key[p]] = @ + 1]
    /\ step' = [step EXCEPT ![p] = "recording"]
    /\ UNCHANGED <<integration, found, todo, key, prior, logVars, crashes>>

After(p) == IF p \in Run THEN "next" ELSE "done"

\* A run creates its log, a retry updates the log it read, with an attempt
\* count and a status computed from what it read.
Record(p) ==
    LET k == key[p]
    IN  /\ step[p] = "recording"
        /\ Exists(k)
        /\ status' = [status EXCEPT ![k] = NextStatus(prior[p], ok[p])]
        /\ attempts' = [attempts EXCEPT ![k] = NextAttempts(prior[p])]
        /\ step' = [step EXCEPT ![p] = After(p)]
        /\ UNCHANGED <<integration, found, todo, key, prior, ok, crmVars, crashes>>

\* Mutant: the loop goes on after a failed write.
AfterFailureNext(p) == IF p \in Run THEN "next" ELSE "aborted"

AfterFailure(p) == "aborted"

\* The write fails, as it must when the integration is gone.  The exception
\* leaves the loop, so integrations not yet taken up are left out.
RecordFails(p) ==
    /\ step[p] = "recording"
    /\ step' = [step EXCEPT ![p] = AfterFailure(p)]
    /\ UNCHANGED <<integration, found, todo, key, prior, ok, logVars, crmVars, crashes>>
-----------------------------------------------------------------------------
(* The admin and the surroundings *)

CreateIntegration(i) ==
    /\ integration[i] = "new"
    /\ integration' = [integration EXCEPT ![i] = "enabled"]
    /\ UNCHANGED <<step, found, todo, key, prior, ok, logVars, crmVars, crashes>>

RowsOf(i) == {k \in Key : k[2] = i}

\* The integration's logs go with it.
DeleteIntegration(i) ==
    /\ integration[i] = "enabled"
    /\ integration' = [integration EXCEPT ![i] = "deleted"]
    /\ status' = [k \in Key |-> IF k \in RowsOf(i) THEN "none" ELSE status[k]]
    /\ attempts' = [k \in Key |-> IF k \in RowsOf(i) THEN 0 ELSE attempts[k]]
    /\ UNCHANGED <<step, found, todo, key, prior, ok, crmVars, crashes>>

InFlight == {p \in Process :
                step[p] \in {"lookup", "next", "clicked", "sending", "recording"}}

\* An instance dies with the processes S that run on it.
Crash(S) ==
    /\ crashes < MaxCrash
    /\ crashes' = crashes + 1
    /\ step' = [p \in Process |-> IF p \in S THEN "dead" ELSE step[p]]
    /\ UNCHANGED <<integration, found, todo, key, prior, ok, logVars, crmVars>>

\* The steps attempt takes once it has begun.
Work(p) == Accepted(p) \/ Refused(p) \/ Record(p) \/ RecordFails(p)

Loop(r) == (\E i \in Integration : Begin(r, i)) \/ LoopEnds(r)

Next ==
    \/ \E l \in Lead : Capture(l) \/ LookUp(l) \/ LookUpFails(l)
    \/ \E s \in Sample, i \in Integration : SendTest(s, i)
    \/ \E r \in Run : Loop(r)
    \/ \E a \in Retry : (\E k \in Key : Click(a, k)) \/ ReadLog(a) \/ LogIsGone(a)
    \/ \E p \in Process : Work(p)
    \/ \E i \in Integration : CreateIntegration(i) \/ DeleteIntegration(i)
    \/ \E S \in (SUBSET InFlight) \ {{}} : Crash(S)

Spec == Init /\ [][Next]_vars
-----------------------------------------------------------------------------
(* Properties *)

\* A lead is given up only after MaxAttempts requests, however many retries
\* of the log run side by side: what they overwrite of each other can only make
\* the count of attempts too low (crmsync-dispatch.ts:112-115).
DeadMeansExhausted ==
    \A k \in Key : status[k] = "dead" => tries[k] >= MaxAttempts

\* A log says "sent" only if the CRM has the lead, whichever of several
\* concurrent retries wrote last (crmsync-dispatch.ts:111-115).
SentMeansAccepted ==
    \A k \in Key : status[k] = "sent" => k \in accepted

Settled(r, i) == integration[i] = "deleted" \/ status[<<r, i>>] # "none"

\* A run that came to its end left a log with every integration it found that
\* still exists: no integration is skipped unless the run was cut short
\* (crmsync-dispatch.ts:124-139).
FinishedRunIsComplete ==
    \A r \in Run : step[r] = "done" => \A i \in found[r] : Settled(r, i)

\* A claim the code does not keep: "sent" is done (crmsync.ts:130).
SentIsDone ==
    [][\A k \in Key : status[k] = "sent" => status'[k] \in {"sent", "none"}]_vars
-----------------------------------------------------------------------------
(* Strengthenings for the proofs in CrmSync_proofs *)

\* No log counts more attempts than were made, and none is about to.
CountInv ==
    /\ \A k \in Key : attempts[k] <= tries[k]
    /\ \A k \in Key : status[k] = "dead" => attempts[k] >= MaxAttempts
    /\ \A r \in Run : prior[r] = 0
    /\ \A p \in Process : step[p] = "sending" => prior[p] <= tries[key[p]]
    /\ \A p \in Process : step[p] = "recording" => prior[p] < tries[key[p]]

\* An answer of 2xx is about a lead the CRM has.
AcceptInv ==
    /\ SentMeansAccepted
    /\ \A p \in Process : step[p] = "recording" /\ ok[p] => key[p] \in accepted

\* While a run goes on, every integration it found is still to do, in hand,
\* deleted or logged.
LoopInv ==
    \A r \in Run :
        /\ step[r] \in {"idle", "lookup"} => found[r] = {}
        /\ step[r] = "next" => \A i \in found[r] \ todo[r] : Settled(r, i)
        /\ step[r] \in {"sending", "recording"} =>
              /\ key[r][1] = r
              /\ \A i \in found[r] \ todo[r] : key[r] = <<r, i>> \/ Settled(r, i)
        /\ step[r] = "done" => \A i \in found[r] : Settled(r, i)
=============================================================================
