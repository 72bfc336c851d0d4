---------------------------- MODULE BackupRestore ----------------------------
(***************************************************************************)
(* Manual backups and the restore of a workspace (src/backups.ts, its lock *)
(* in src/joblock.ts, its routes in src/routes/admin/console.ts), beside   *)
(* requests that go on writing.  Of the tables, the cards stand for those  *)
(* others refer to and the leads for those that refer to them.             *)
(*                                                                         *)
(* PostgreSQL as the code uses it: READ COMMITTED, so a DELETE works on    *)
(* the rows committed when it starts and waits for the transactions that   *)
(* delete them too; the swap switches foreign keys off, requests keep them.*)
(* A row a request makes bears its name.                                   *)
(***************************************************************************)
EXTENDS FiniteSets, Integers

CONSTANTS
    Request,
    Restore,
    Backup,
    Old,        \* the cards that are there in the beginning
    Earlier,    \* the backups that are there, made of them
    MaxExcused, \* bound on the processes that meet with a fault
    None

ASSUME BackupRestoreAssumption ==
    /\ MaxExcused \in Nat /\ Earlier \subseteq Backup
    /\ None \notin Request \union Restore \union Backup \union Old
    /\ Request \intersect Restore = {} /\ Request \intersect Backup = {}
    /\ Request \intersect Old = {} /\ Restore \intersect Backup = {}

Process == Request \union Restore \union Backup
Writer == Request \union Restore \union {None}
Id == Old \union Request

\* A card has no ref, a lead has its card's id; by is history: who wrote it.
Row == [id : Id, ref : Id \union {None}, by : Writer]

VARIABLES
    rows,       \* the rows committed
    pc,         \* where each process stands
    lock,       \* who holds CLIENT_RESTORE_LOCK
    chosen,     \* the backup a restore loads
    staged,     \* the restores whose staging database exists
    seen,       \* what the DELETE of a restore works on
    gone,       \* what its transaction has deleted so far
    error,      \* the restores whose function has thrown
    dbFile,     \* db-manual-*.dump; unlinked: gone from the list, but whole to
                \* those who have opened it
    upFile,     \* uploads-manual-*.tar.gz
    dump,       \* what is in dbFile
    committed,  \* history: the restores whose swap took effect
    before,     \* history: who had ended when a restore began its swap
    during,     \* history: the swaps a writer went on beside
    excused     \* history: crashes, lost connections, time limits, failed copies
                \* and removals

fileVars == <<dbFile, upFile, dump>>
deleteVars == <<seen, gone>>
restoreVars == <<chosen, staged, error, committed>>
metVars == <<before, during>>
vars == <<rows, pc, lock, fileVars, deleteVars, restoreVars, metVars, excused>>

RestorePc == {"idle", "fill", "swap", "leads", "between", "cards", "load",
              "commit", "clean", "unlock", "ok", "failed"}

TypeOK ==
    /\ rows \subseteq Row
    /\ \A x, y \in rows : x.id = y.id => x = y
    /\ pc \in [Process -> RestorePc \union {"done", "dump", "archive"}]
    /\ lock \in Restore \union {None}
    /\ chosen \in [Restore -> Backup \union {None}]
    /\ staged \subseteq Restore
    /\ seen \in [Restore -> SUBSET Row]
    /\ gone \in [Restore -> SUBSET Row]
    /\ error \subseteq Restore
    /\ dbFile \in [Backup -> {"none", "part", "whole", "unlinked"}]
    /\ upFile \in [Backup -> {"none", "part", "whole"}]
    /\ dump \in [Backup -> SUBSET Row]
    /\ committed \subseteq Restore
    /\ before \in [Restore -> SUBSET (Request \union Restore)]
    /\ during \in [Request \union Restore -> SUBSET Restore]
    /\ excused \subseteq Process
    /\ \A r \in Restore : pc[r] \in RestorePc \ {"idle", "unlock", "ok", "failed"} =>
          chosen[r] \in Backup /\ r \in staged

Kept == [b \in Backup |-> IF b \in Earlier THEN "whole" ELSE "none"]

Init ==
    /\ rows = [id : Old, ref : {None}, by : {None}]
    /\ pc = [p \in Process |-> IF p \in Earlier THEN "ok" ELSE "idle"]
    /\ dbFile = Kept /\ upFile = Kept
    /\ dump = [b \in Backup |-> IF b \in Earlier THEN rows ELSE {}]
    /\ lock = None
    /\ chosen = [r \in Restore |-> None]
    /\ staged = {} /\ error = {} /\ committed = {} /\ excused = {}
    /\ seen = [r \in Restore |-> {}]
    /\ gone = [r \in Restore |-> {}]
    /\ before = [r \in Restore |-> {}]
    /\ during = [w \in Request \union Restore |-> {}]

\* A fault: a crash, a lost connection, the time limit, a failed copy or removal.
Excuse(p) ==
    /\ Cardinality(excused \union {p}) <= MaxExcused
    /\ excused' = excused \union {p}

Goes(p, from, to) == pc[p] = from /\ pc' = [pc EXCEPT ![p] = to]

Cards(S) == {x \in S : x.ref = None}
Leads(S) == {x \in S : x.ref # None}
Dangling(S) == {x \in Leads(S) : \A y \in Cards(S) : y.id # x.ref}

InSwap == {r \in Restore : pc[r] \in {"leads", "between", "cards", "load", "commit"}}
LockedRows == UNION {gone[r] : r \in InSwap}
-----------------------------------------------------------------------------
(* Requests *)

Write(q, S) ==
    /\ Goes(q, "idle", "done")
    /\ rows' = S
    /\ during' = [during EXCEPT ![q] = InSwap]
    /\ UNCHANGED <<lock, fileVars, deleteVars, restoreVars, before, excused>>

AddCard(q) == Write(q, rows \union {[id |-> q, ref |-> None, by |-> q]})

\* The foreign key locks the card, or waits for the swap that deletes it.
AddLead(q, x) ==
    /\ x \in Cards(rows) \ LockedRows
    /\ Write(q, rows \union {[id |-> q, ref |-> x.id, by |-> q]})

\* With the leads of the card, by the cascade.
DeleteCard(q, x) ==
    LET doomed == {x} \union {y \in rows : y.ref = x.id}
    IN  /\ x \in Cards(rows)
        /\ doomed \intersect LockedRows = {}
        /\ Write(q, rows \ doomed)
-----------------------------------------------------------------------------
(* Backups *)

File(b, db, up) ==
    /\ dbFile' = [dbFile EXCEPT ![b] = db]
    /\ upFile' = [upFile EXCEPT ![b] = up]
    /\ UNCHANGED <<rows, lock, deleteVars, restoreVars, metVars>>

Reserve(b) ==
    /\ Goes(b, "idle", "dump")
    /\ File(b, "part", "part")
    /\ UNCHANGED <<dump, excused>>

\* pg_dump reads one snapshot.
Snapshot(b) ==
    /\ File(b, "whole", "part")
    /\ dump' = [dump EXCEPT ![b] = rows]

Dump(b) ==
    /\ Goes(b, "dump", "archive")
    /\ Snapshot(b)
    /\ UNCHANGED excused

\* The copies that may follow change nothing here.
Archive(b) ==
    /\ Goes(b, "archive", "ok")
    /\ File(b, "whole", "whole")
    /\ UNCHANGED <<dump, excused>>

\* What an unlink makes of the dump.
Removed(b) == IF dbFile[b] = "whole" THEN "unlinked" ELSE "none"

\* Mutant: only the file at hand is removed.
RemoveLast(b) == IF pc[b] = "dump" THEN File(b, Removed(b), upFile[b])
                                   ELSE File(b, dbFile[b], "none")

\* Both files are reserved before either is written, and go together.
RemoveReserved(b) == File(b, Removed(b), "none")

Failing(b) == Goes(b, "dump", "failed") \/ Goes(b, "archive", "failed")

BackupFails(b) ==
    /\ Failing(b)
    /\ RemoveReserved(b)
    /\ UNCHANGED <<dump, excused>>

\* The unlink of the dump throws and both files stay, or that of the archive.
RemovalFails(b) ==
    /\ Failing(b)
    /\ \E db \in {dbFile[b], Removed(b)} : File(b, db, upFile[b])
    /\ Excuse(b)
    /\ UNCHANGED dump

\* Both files stay, so that the owner can copy them again.
CopyFails(b) ==
    /\ Goes(b, "archive", "failed")
    /\ File(b, "whole", "whole")
    /\ Excuse(b)
    /\ UNCHANGED dump

\* The process dies; the command it waited for may die with it or go on to its end.
BackupCrashes(b) ==
    /\ \/ Goes(b, "dump", "failed") /\ Snapshot(b)
       \/ /\ Failing(b)
          /\ \E up \in {upFile[b]} \union (IF pc[b] = "archive" THEN {"whole"} ELSE {}) :
                File(b, dbFile[b], up)
          /\ UNCHANGED dump
    /\ Excuse(b)
-----------------------------------------------------------------------------
(* Restores *)

\* withRestoreLock, for any file the page lists, those being written included,
\* and CREATE DATABASE.  While somebody holds the lock, or if the database cannot
\* be made, it throws and nothing has changed.
StartRestore(r, b) ==
    /\ dbFile[b] \in {"part", "whole"}
    /\ Goes(r, "idle", "fill")
    /\ lock = None
    /\ lock' = r
    /\ chosen' = [chosen EXCEPT ![r] = b]
    /\ staged' = staged \union {r}
    /\ UNCHANGED <<rows, fileVars, deleteVars, error, committed, metVars, excused>>

\* The transaction that holds the lock has a limit of an hour; the restore goes on.
LockExpires(r) ==
    /\ lock = r
    /\ lock' = None
    /\ Excuse(r)
    /\ UNCHANGED <<rows, pc, fileVars, deleteVars, restoreVars, metVars>>

\* Mutant: what pg_restore says in the end is not looked at.
AnyFile(b) == dbFile[b] # "none"

\* A file that is still being written, or was left so, ends too soon.  One that is
\* unlinked stays there for the pg_restore that has opened it.
Readable(b) == dbFile[b] \in {"whole", "unlinked"}

\* pg_restore of a whole file.  It fails when a foreign key cannot be made.
FillStage(r) ==
    /\ Goes(r, "fill", "swap")
    /\ Readable(chosen[r]) /\ Dangling(dump[chosen[r]]) = {}
    /\ UNCHANGED <<rows, lock, fileVars, deleteVars, restoreVars, metVars, excused>>

Ended == {q \in Request : pc[q] = "done"}
         \union {r \in Restore : pc[r] \in {"clean", "unlock", "ok", "failed"}}

\* Mutant: the foreign key's cascade is trusted, which the swap switches off.
TrustCascade == {}

WorkspaceLeads == Leads(rows)

\* BEGIN, and the DELETE of the leads starts.
BeginSwap(r) ==
    /\ Goes(r, "swap", "leads")
    /\ seen' = [seen EXCEPT ![r] = WorkspaceLeads]
    /\ before' = [before EXCEPT ![r] = Ended]
    /\ during' = [w \in Request \union Restore |->
                     IF w = r THEN InSwap
                     ELSE IF w \in InSwap THEN during[w] \union {r} ELSE during[w]]
    /\ UNCHANGED <<rows, lock, fileVars, restoreVars, gone, excused>>

\* It is through, and leaves alone what other transactions have deleted meanwhile.
Delete(r, from, to) ==
    /\ Goes(r, from, to)
    /\ seen[r] \intersect rows \intersect UNION {gone[s] : s \in InSwap \ {r}} = {}
    /\ gone' = [gone EXCEPT ![r] = gone[r] \union (seen[r] \intersect rows)]
    /\ seen' = [seen EXCEPT ![r] = {}]
    /\ UNCHANGED <<rows, lock, fileVars, restoreVars, metVars, excused>>

DeleteLeads(r) == Delete(r, "leads", "between")

StartCards(r) ==
    /\ Goes(r, "between", "cards")
    /\ seen' = [seen EXCEPT ![r] = Cards(rows)]
    /\ UNCHANGED <<rows, lock, fileVars, restoreVars, gone, metVars, excused>>

DeleteCards(r) == Delete(r, "cards", "load")

\* Mutant: the table of the cards is missing from the list.
LeadsOnly(r) == {[x EXCEPT !.by = r] : x \in Leads(dump[chosen[r]])}

\* What the swap inserts.
Loaded(r) == {[x EXCEPT !.by = r] : x \in dump[chosen[r]]}

IdsOf(S) == {x.id : x \in S}

\* The INSERTs.  A primary key that is there, or is being inserted, stops them.
Load(r) ==
    /\ Goes(r, "load", "commit")
    /\ IdsOf(Loaded(r)) \intersect IdsOf(rows \ gone[r]) = {}
    /\ \A s \in Restore : pc[s] = "commit" =>
          IdsOf(Loaded(r)) \intersect IdsOf(Loaded(s)) = {}
    /\ UNCHANGED <<rows, lock, fileVars, deleteVars, restoreVars, metVars, excused>>

\* The answer to COMMIT may be lost, which looks like a failure.
Commit(r, heard) ==
    /\ Goes(r, "commit", "clean")
    /\ rows' = (rows \ gone[r]) \union Loaded(r)
    /\ committed' = committed \union {r}
    /\ error' = IF heard THEN error ELSE error \union {r}
    /\ IF heard THEN UNCHANGED excused ELSE Excuse(r)
    /\ gone' = [gone EXCEPT ![r] = {}]
    /\ UNCHANGED <<lock, fileVars, chosen, staged, seen, metVars>>

\* Its transaction, if there is one, is rolled back, and what it held is forgotten.
Undo(r) ==
    /\ gone' = [gone EXCEPT ![r] = {}] /\ seen' = [seen EXCEPT ![r] = {}]
    /\ before' = IF r \in committed THEN before ELSE [before EXCEPT ![r] = {}]
    /\ during' = IF r \in committed THEN during
                 ELSE [w \in Request \union Restore |-> during[w] \ {r}]

\* Any statement or command may fail.
RestoreFails(r) ==
    /\ \E at \in {"fill", "swap", "leads", "between", "cards", "load", "commit"} :
          Goes(r, at, "clean")
    /\ error' = error \union {r}
    /\ Undo(r)
    /\ UNCHANGED <<rows, lock, fileVars, chosen, staged, committed, excused>>

\* Mutant: a sweep of all staging databases.
DropAll(r) == {}

DropStage(r) == staged \ {r}

Clean(r) ==
    /\ Goes(r, "clean", "unlock")
    /\ staged' = DropStage(r)
    /\ UNCHANGED <<rows, lock, fileVars, chosen, deleteVars, error, committed, metVars, excused>>

\* The drop fails in silence; without a connection for it, it throws.
CleanFails(r, thrown) ==
    /\ Goes(r, "clean", "unlock")
    /\ error' = IF thrown THEN error \union {r} ELSE error
    /\ Excuse(r)
    /\ UNCHANGED <<rows, lock, fileVars, chosen, staged, deleteVars, committed, metVars>>

\* The lock once the transaction of r has ended.
FreedBy(r) == IF lock = r THEN None ELSE lock

Release(r) ==
    /\ lock' = FreedBy(r)
    /\ chosen' = [chosen EXCEPT ![r] = None]
    /\ error' = error \ {r}

\* The lock goes with its transaction, which fails if it has run out.
Unlock(r) ==
    /\ Goes(r, "unlock", IF r \in error \/ lock # r THEN "failed" ELSE "ok")
    /\ Release(r)
    /\ UNCHANGED <<rows, fileVars, staged, deleteVars, committed, metVars, excused>>

RestoreCrashes(r) ==
    /\ pc[r] \notin {"idle", "ok", "failed"}
    /\ Goes(r, pc[r], "failed")
    /\ Undo(r) /\ Release(r)
    /\ Excuse(r)
    /\ UNCHANGED <<rows, fileVars, staged, committed>>

Next ==
    \/ \E q \in Request :
          AddCard(q) \/ \E x \in rows : AddLead(q, x) \/ DeleteCard(q, x)
    \/ \E b \in Backup :
          \/ Reserve(b) \/ Dump(b) \/ Archive(b) \/ BackupFails(b)
          \/ RemovalFails(b) \/ CopyFails(b) \/ BackupCrashes(b)
    \/ \E r \in Restore :
          \/ \E b \in Backup : StartRestore(r, b)
          \/ LockExpires(r) \/ FillStage(r)
          \/ BeginSwap(r) \/ DeleteLeads(r) \/ StartCards(r) \/ DeleteCards(r)
          \/ Load(r) \/ \E heard \in BOOLEAN : Commit(r, heard)
          \/ RestoreFails(r) \/ Clean(r) \/ \E thrown \in BOOLEAN : CleanFails(r, thrown)
          \/ Unlock(r) \/ RestoreCrashes(r)

Spec == Init /\ [][Next]_vars
-----------------------------------------------------------------------------
(* Properties *)

\* Nothing that was written before a restore began its swap is there after it,
\* whatever is written, deleted and restored beside it (backups.ts:199-232).
NothingOldSurvives ==
    \A r \in committed : \A x \in rows : x.by \notin before[r] \union {None}

\* A lead whose card is not there was written beside a swap that took effect,
\* by a request that its DELETE no longer saw or by a restore that had outlived
\* its lock; neither the swap nor a later backup makes any (backups.ts:200-206).
DanglingNeedsOverlap ==
    \A x \in Dangling(rows) : during[x.by] \intersect committed # {}

\* A restore or a backup that is reported as failed has changed nothing and left
\* nothing: no rows, no staging database, no half of a pair of files. Except
\* after a crash, a lost connection, the time limit of the lock, a failed copy or a
\* file that cannot be removed
\* (backups.ts:118-125, 233-247, joblock.ts:49-65).
FailureLeavesNoTrace ==
    /\ \A r \in Restore \ excused : pc[r] = "failed" => r \notin committed \union staged
    /\ \A b \in Backup \ excused : pc[b] = "failed" =>
          dbFile[b] \in {"none", "unlinked"} /\ upFile[b] = "none"

Started == {r \in Restore : pc[r] \notin {"idle", "ok", "failed"}}

Turns == INSTANCE JobLock WITH
    Job <- Restore,
    Nobody <- None,
    holder <- lock,
    running <- Started

\* Restores take turns by the lock, and one that has outlived it does not end
\* the turn of the next (joblock.ts:49-65, backups.ts:256-262).
RestoresTakeTurns == Turns!Spec

WholeDumps == {b \in Backup : dbFile[b] \in {"whole", "unlinked"}}

StageOf(r) ==
    IF r \in InSwap THEN "swapping"
    ELSE IF pc[r] = "swap" THEN "fetched"
    ELSE IF pc[r] \in {"idle", "fill"} THEN "away" ELSE "over"

SourceOf(r) == IF StageOf(r) \in {"fetched", "swapping"} THEN dump[chosen[r]] ELSE {}

Stages == [r \in Restore |-> StageOf(r)]
Sources == [r \in Restore |-> SourceOf(r)]

Contract == INSTANCE RestoreContract WITH
    whole <- WholeDumps,
    kept <- dump,
    stage <- Stages,
    source <- Sources,
    beside <- during

\* Though it deletes and inserts table by table and releases what it holds in
\* several ways, a restore is one step that puts a whole backup in the place of
\* the rows, or none: "the whole live-side swap is one transaction"
\* (backups.ts:156-157, 198-238).
RestoreIsOneStep == Contract!Spec
===============================================================================
