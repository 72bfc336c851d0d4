----------------------------- MODULE HourlyTick -----------------------------
(***************************************************************************)
(* The hourly maintenance tick of the web server.  Each web instance runs  *)
(* its own timer; the timers share one Postgres advisory lock, held by a   *)
(* transaction with a ten minute limit while the jobs use other pooled     *)
(* connections (src/joblock.ts).  A tick sends the weekly manager digests  *)
(* that are due (src/reports.ts) and then runs four pruning jobs, each     *)
(* guarded so that a failure does not stop the ones after it               *)
(* (src/server.ts).                                                        *)
(*                                                                         *)
(* Time is counted in coarse units from 1 to MaxTime: 0 stands for the     *)
(* null of a digestLastSentAt that was never written.                      *)
(***************************************************************************)
EXTENDS Integers

CONSTANTS
    Instance,   \* web server processes
    Tick,       \* slots for calls of tick(); two of one host can be open at once
    Host,       \* the process each slot runs in
    Org,        \* orgs of the install
    NoTick,     \* nobody holds the advisory lock
    NoOrg,      \* a tick that is not composing a digest
    Week,       \* seven days, in clock units
    MaxTime,    \* bound on the clock
    MaxExpiry,  \* bound on lock transactions that outlive their limit
    MaxCrash    \* bound on process crashes

ASSUME TickAssumption ==
    /\ Host \in [Tick -> Instance]
    /\ NoTick \notin Tick
    /\ NoOrg \notin Org
    /\ Week \in Nat \ {0}
    /\ MaxTime \in Nat \ {0}
    /\ MaxExpiry \in Nat
    /\ MaxCrash \in Nat

VARIABLES
    clock,      \* wall clock
    cadence,    \* Org.digestCadence
    recipients, \* whether Org.digestEmails holds a usable address
    lastSent,   \* Org.digestLastSentAt
    lock,       \* holder of the advisory lock HOURLY_TICK_LOCK
    pc,         \* what each tick does next
    startedAt,  \* the "now" each tick took when it began its digests
    todo,       \* due orgs a tick has not handled yet
    current,    \* org whose digest a tick is sending
    accepted,   \* history: start times of the ticks whose digest SMTP accepted
    lost,       \* history: orgs with an accepted digest that was never recorded
    outlived,   \* ticks still running after their lock transaction ended
    expiries,   \* lock transactions that ended early so far
    crashes     \* crashes so far

orgVars == <<cadence, recipients, lastSent>>
tickVars == <<startedAt, todo, current>>
mailVars == <<accepted, lost>>
faultVars == <<outlived, expiries, crashes>>
vars == <<clock, orgVars, lock, pc, tickVars, mailVars, faultVars>>

Never == 0
Time == 0..MaxTime
PruneJob == {"leads", "saml", "ratelimit", "webhooks"}

\* Mutant: the tick ends without ending its lock transaction.
AfterJobNoCommit == [leads |-> "saml", saml |-> "ratelimit",
                     ratelimit |-> "webhooks", webhooks |-> "idle"]

AfterJob == [leads |-> "saml", saml |-> "ratelimit",
             ratelimit |-> "webhooks", webhooks |-> "commit"]
Step == {"idle", "scan", "pick", "smtp", "mark", "commit"} \union PruneJob

TypeOK ==
    /\ clock \in Time \ {Never}
    /\ cadence \in [Org -> {"off", "weekly"}]
    /\ recipients \in [Org -> BOOLEAN]
    /\ lastSent \in [Org -> Time]
    /\ lock \in Tick \union {NoTick}
    /\ pc \in [Tick -> Step]
    /\ startedAt \in [Tick -> Time]
    /\ \A t \in Tick : pc[t] = "idle" <=> startedAt[t] = Never
    /\ todo \in [Tick -> SUBSET Org]
    /\ current \in [Tick -> Org \union {NoOrg}]
    /\ \A t \in Tick : pc[t] \in {"smtp", "mark"} => current[t] \in Org
    /\ accepted \in [Org -> SUBSET (Time \ {Never})]
    /\ lost \in [Org -> BOOLEAN]
    /\ outlived \subseteq Tick
    /\ expiries \in 0..MaxExpiry
    /\ crashes \in 0..MaxCrash

Running(t) == pc[t] # "idle"

DigestDue(o, now) ==
    /\ cadence[o] = "weekly"
    /\ lastSent[o] # Never => now - lastSent[o] >= Week

Init ==
    /\ clock = 1
    /\ cadence \in [Org -> {"off", "weekly"}]
    /\ recipients = [o \in Org |-> TRUE]
    /\ lastSent = [o \in Org |-> Never]
    /\ lock = NoTick
    /\ pc = [t \in Tick |-> "idle"]
    /\ startedAt = [t \in Tick |-> Never]
    /\ todo = [t \in Tick |-> {}]
    /\ current = [t \in Tick |-> NoOrg]
    /\ accepted = [o \in Org |-> {}]
    /\ lost = [o \in Org |-> FALSE]
    /\ outlived = {}
    /\ expiries = 0
    /\ crashes = 0
-----------------------------------------------------------------------------
(* The lock: pg_try_advisory_xact_lock, and the job's call. *)

\* Mutant: no guard at all, each instance's timer just runs (CQ-09).
TakesLockUnguarded(t) == TRUE

\* A tick that finds the lock taken ends at once and leaves no trace.
TakesLock(t) == lock = NoTick

\* Mutants: an unlock that ignores the owner, and a session lock that stays
\* behind on its pooled connection.
FreedByAnyone(S) == NoTick
FreedByNobody(S) == lock

\* The lock once the transactions of the ticks in S have ended.
FreedBy(S) == IF lock \in S THEN NoTick ELSE lock

AcquireLock(t) ==
    /\ pc[t] = "idle"
    /\ TakesLock(t)
    /\ lock' = t
    /\ pc' = [pc EXCEPT ![t] = "scan"]
    /\ startedAt' = [startedAt EXCEPT ![t] = clock]
    /\ UNCHANGED <<clock, orgVars, todo, current, mailVars, faultVars>>

\* Commit, or the failed commit of a transaction that is already gone.
ReleaseLock(t) ==
    /\ pc[t] = "commit"
    /\ pc' = [pc EXCEPT ![t] = "idle"]
    /\ lock' = FreedBy({t})
    /\ outlived' = outlived \ {t}
    /\ startedAt' = [startedAt EXCEPT ![t] = Never]
    /\ current' = [current EXCEPT ![t] = NoOrg]
    /\ UNCHANGED <<clock, orgVars, todo, mailVars, expiries, crashes>>

\* Ten minutes are over: the database rolls the lock transaction back and
\* releases the lock, while the job, which uses other connections, goes on.
LockExpires(t) ==
    /\ lock = t
    /\ expiries < MaxExpiry
    /\ lock' = NoTick
    /\ outlived' = outlived \union {t}
    /\ expiries' = expiries + 1
    /\ UNCHANGED <<clock, orgVars, pc, tickVars, mailVars, crashes>>
-----------------------------------------------------------------------------
(* runDueDigests and sendDigest *)

Scan(t) ==
    /\ pc[t] = "scan"
    /\ todo' = [todo EXCEPT ![t] =
                   {o \in Org : DigestDue(o, startedAt[t]) /\ recipients[o]}]
    /\ pc' = [pc EXCEPT ![t] = "pick"]
    /\ UNCHANGED <<clock, orgVars, lock, startedAt, current, mailVars, faultVars>>

\* Mutant: the digests' error is not caught and ends the whole tick.
EndAfterDigestError == "commit"

\* A query of runDueDigests itself throws: the tick logs it and prunes next.
AfterDigestError == "leads"

ScanFails(t) ==
    /\ pc[t] = "scan"
    /\ pc' = [pc EXCEPT ![t] = AfterDigestError]
    /\ UNCHANGED <<clock, orgVars, lock, tickVars, mailVars, faultVars>>

\* sendDigest reads the recipients again before it composes the mail.
Compose(t, o) ==
    /\ pc[t] = "pick"
    /\ o \in todo[t]
    /\ recipients[o]
    /\ current' = [current EXCEPT ![t] = o]
    /\ pc' = [pc EXCEPT ![t] = "smtp"]
    /\ UNCHANGED <<clock, orgVars, lock, startedAt, todo, mailVars, faultVars>>

\* The recipients are gone, or a query of sendDigest throws and is caught.
ComposeSkips(t, o) ==
    /\ pc[t] = "pick"
    /\ o \in todo[t]
    /\ todo' = [todo EXCEPT ![t] = @ \ {o}]
    /\ UNCHANGED <<clock, orgVars, lock, pc, startedAt, current, mailVars, faultVars>>

SmtpAccepts(t) ==
    /\ pc[t] = "smtp"
    /\ pc' = [pc EXCEPT ![t] = "mark"]
    /\ accepted' = [accepted EXCEPT ![current[t]] = @ \union {startedAt[t]}]
    /\ UNCHANGED <<clock, orgVars, lock, tickVars, lost, faultVars>>

\* Mutant: the cadence advances whatever sendMail reports.
MarkAfterSmtpFailure == "mark"

\* sendMail reports anything but "smtp", so the cadence is left alone.  The
\* mail may have been accepted all the same, when only the reply got lost.
NextAfterSmtpFailure == "pick"

SmtpFails(t) ==
    /\ pc[t] = "smtp"
    /\ pc' = [pc EXCEPT ![t] = NextAfterSmtpFailure]
    /\ todo' = [todo EXCEPT ![t] = @ \ {current[t]}]
    /\ \/ UNCHANGED mailVars
       \/ /\ accepted' = [accepted EXCEPT ![current[t]] = @ \union {startedAt[t]}]
          /\ lost' = [lost EXCEPT ![current[t]] = TRUE]
    /\ UNCHANGED <<clock, orgVars, lock, startedAt, current, faultVars>>

Mark(t) ==
    /\ pc[t] = "mark"
    /\ lastSent' = [lastSent EXCEPT ![current[t]] = startedAt[t]]
    /\ lost' = [lost EXCEPT ![current[t]] = FALSE]
    /\ todo' = [todo EXCEPT ![t] = @ \ {current[t]}]
    /\ pc' = [pc EXCEPT ![t] = "pick"]
    /\ UNCHANGED <<clock, cadence, recipients, lock, startedAt, current,
                   accepted, faultVars>>

\* The update throws: it ends the whole digest job, not this org alone.
MarkFails(t) ==
    /\ pc[t] = "mark"
    /\ lost' = [lost EXCEPT ![current[t]] = TRUE]
    /\ todo' = [todo EXCEPT ![t] = {}]
    /\ pc' = [pc EXCEPT ![t] = AfterDigestError]
    /\ UNCHANGED <<clock, orgVars, lock, startedAt, current, accepted, faultVars>>

DigestsDone(t) ==
    /\ pc[t] = "pick"
    /\ todo[t] = {}
    /\ pc' = [pc EXCEPT ![t] = "leads"]
    /\ UNCHANGED <<clock, orgVars, lock, tickVars, mailVars, faultVars>>
-----------------------------------------------------------------------------
(* The pruning jobs.  What each deletes is no part of this module: whether   *)
(* it succeeds or throws, the tick goes on to the next.                      *)

Prune(t) ==
    /\ pc[t] \in PruneJob
    /\ pc' = [pc EXCEPT ![t] = AfterJob[pc[t]]]
    /\ UNCHANGED <<clock, orgVars, lock, tickVars, mailVars, faultVars>>
-----------------------------------------------------------------------------
(* The surroundings *)

\* The process dies: its ticks stop where they are and its connections drop.
Crash(i) ==
    LET mine == {t \in Tick : Host[t] = i}
        unrecorded == {current[t] : t \in {u \in mine : pc[u] = "mark"}}
    IN  /\ crashes < MaxCrash
        /\ \E t \in mine : Running(t)
        /\ crashes' = crashes + 1
        /\ pc' = [t \in Tick |-> IF t \in mine THEN "idle" ELSE pc[t]]
        /\ startedAt' = [t \in Tick |-> IF t \in mine THEN Never ELSE startedAt[t]]
        /\ todo' = [t \in Tick |-> IF t \in mine THEN {} ELSE todo[t]]
        /\ current' = [t \in Tick |-> IF t \in mine THEN NoOrg ELSE current[t]]
        /\ lock' = FreedBy(mine)
        /\ outlived' = outlived \ mine
        /\ lost' = [o \in Org |-> lost[o] \/ o \in unrecorded]
        /\ UNCHANGED <<clock, orgVars, accepted, expiries>>

\* POST /admin/reports/digest
SaveDigestSettings(o) ==
    /\ \E c \in {"off", "weekly"}, r \in BOOLEAN :
          /\ cadence' = [cadence EXCEPT ![o] = c]
          /\ recipients' = [recipients EXCEPT ![o] = r]
    /\ UNCHANGED <<clock, lastSent, lock, pc, tickVars, mailVars, faultVars>>

TimePasses ==
    /\ clock < MaxTime
    /\ clock' = clock + 1
    /\ UNCHANGED <<orgVars, lock, pc, tickVars, mailVars, faultVars>>

\* Everything the code of one running tick does.
RunTick(t) ==
    \/ Scan(t) \/ ScanFails(t)
    \/ \E o \in Org : Compose(t, o) \/ ComposeSkips(t, o)
    \/ SmtpAccepts(t) \/ SmtpFails(t)
    \/ Mark(t) \/ MarkFails(t)
    \/ DigestsDone(t) \/ Prune(t) \/ ReleaseLock(t)

Next ==
    \/ \E t \in Tick : AcquireLock(t) \/ RunTick(t) \/ LockExpires(t)
    \/ \E i \in Instance : Crash(i)
    \/ \E o \in Org : SaveDigestSettings(o)
    \/ TimePasses

Spec == Init /\ [][Next]_vars

\* The timers keep firing and a running tick keeps running: no step of a tick
\* waits for ever (every await of it ends in a result or an error).
TimerFairness ==
    /\ WF_vars(\E t \in Tick : AcquireLock(t))
    /\ \A t \in Tick : WF_vars(RunTick(t))

\* The database and the mail server are not down for ever: a call that is
\* tried again and again succeeds in the end.
ServiceFairness ==
    \A t \in Tick :
        /\ SF_vars(Scan(t))
        /\ \A o \in Org : SF_vars(Compose(t, o))
        /\ SF_vars(SmtpAccepts(t))
        /\ SF_vars(Mark(t))

FairSpec == Spec /\ TimerFairness
-----------------------------------------------------------------------------
(* Properties *)

\* joblock.ts:19-21: "only the one instance that acquires it runs ... The lock
\* is held for the whole job, so ticks can't overlap."
TicksNeverOverlap ==
    \A t, u \in Tick : Running(t) /\ Running(u) => t = u

\* What the lock does give: of two ticks that run at once, one has outlived
\* the lock transaction that let it start (joblock.ts:24-36).
OverlapOnlyAfterExpiry ==
    \A t, u \in Tick :
        Running(t) /\ Running(u) /\ t # u => {t, u} \intersect outlived # {}

Turns == INSTANCE JobLock WITH
    Job <- Tick,
    Nobody <- NoTick,
    holder <- lock,
    running <- {t \in Tick : Running(t)}

\* Ticks take turns by the lock, and one that has outlived it does not end the
\* turn of the next (joblock.ts:22-44).
TicksTakeTurns == Turns!Spec

\* The cadence only moves to the start of a tick whose digest the mail server
\* accepted, so that a failed send is tried again (reports.ts:142-148).
MarkedOnlyIfAccepted ==
    \A o \in Org : lastSent[o] # Never => lastSent[o] \in accepted[o]

\* An org gets a second digest within a week only when the record of the first
\* was lost to a crash or an error, or a lock transaction expired
\* (server.ts:158-160, reports.ts:142-148).
NoDuplicateDigest ==
    [][\A t \in Tick :
          pc[t] = "smtp" /\ pc'[t] = "mark" =>
              \/ expiries > 0
              \/ lost[current[t]]
              \/ \A s \in accepted[current[t]] : startedAt[t] - s >= Week]_vars

\* No job is starved: whatever fails in the digests or in the jobs before it,
\* every pruning job is reached again and again (server.ts:161-172).
EveryPruneJobRuns ==
    \A j \in PruneJob : []<>(\E t \in Tick : pc[t] = j)

\* If the services answer now and then, a digest that is due, to an org with
\* recipients, is recorded as sent in the end, unless the digest is switched
\* off or its recipients are removed (reports.ts:142-148).
DueDigestIsSent ==
    ServiceFairness =>
        \A o \in Org :
            (DigestDue(o, clock) /\ recipients[o])
                ~> (~DigestDue(o, clock) \/ ~recipients[o])
-----------------------------------------------------------------------------
(* Strengthenings for the proofs in HourlyTick_proofs *)

\* A tick runs exactly while it holds the lock or has outlived it.
LockInv == \A t \in Tick : Running(t) <=> (lock = t \/ t \in outlived)

\* A tick about to record a digest has had it accepted.
MarkInv ==
    /\ MarkedOnlyIfAccepted
    /\ \A t \in Tick : pc[t] = "mark" => startedAt[t] \in accepted[current[t]]

\* While no lock transaction has expired: digestLastSentAt is the latest
\* accepted digest, unless its record is lost or about to be written, and what
\* a tick has left to do is still due.
DigestInv ==
    expiries = 0 =>
        /\ outlived = {}
        /\ \A t \in Tick : startedAt[t] <= clock
        /\ \A o \in Org : \A s \in accepted[o] :
              \/ lost[o]
              \/ s <= lastSent[o]
              \/ \E t \in Tick : pc[t] = "mark" /\ current[t] = o
        /\ \A o \in Org : \A s \in accepted[o] :
              /\ s <= clock
              /\ \A t \in Tick : Running(t) => s <= startedAt[t]
        /\ \A t \in Tick : pc[t] \in {"pick", "smtp", "mark"} =>
              \A o \in todo[t] :
                  lastSent[o] # Never => startedAt[t] - lastSent[o] >= Week
        /\ \A t \in Tick : pc[t] \in {"smtp", "mark"} => current[t] \in todo[t]
=============================================================================
