------------------------ MODULE BackupRestore_proofs ------------------------
(***************************************************************************)
(* Proofs of the safety properties of BackupRestore for any number of      *)
(* restores, backups, requests and faults.                                 *)
(***************************************************************************)
EXTENDS BackupRestore, TLAPS

USE BackupRestoreAssumption DEF Process, Writer, Id, RestorePc

SwapPc == {"leads", "between", "cards", "load", "commit"}
AfterPc == {"clean", "unlock", "ok", "failed"}

\* Ids are keys in S, and those of requests belong to requests that wrote.
Keyed(S) == \A x, y \in S : x.id = y.id => x = y
Written(S) == \A x \in S : x.id \in Request => pc[x.id] = "done"

\* Every lead of S has its card there.
Closed(S) == \A x \in S : x.ref # None => \E y \in S : y.ref = None /\ y.id = x.ref

Apart(S, T) == \A x \in S, y \in T : x.id # y.id

\* Where each kind of process can stand, and what is true of dumps: the one a
\* restore swaps in no longer changes, and it has no broken reference.
Steps ==
    /\ \A q \in Request : pc[q] \in {"idle", "done"}
    /\ \A b \in Backup : pc[b] \in {"idle", "dump", "archive", "ok", "failed"}
    /\ \A r \in Restore : pc[r] \in RestorePc
    /\ \A r \in committed : pc[r] \in AfterPc
    /\ \A b \in Backup : dbFile[b] \in {"whole", "unlinked"} => pc[b] \notin {"idle", "dump"}
    /\ Written(rows)
    /\ \A b \in Backup : Written(dump[b]) /\ Keyed(dump[b])

\* Of a restore that has filled its staging database, and one that has loaded.
Loads ==
    /\ \A r \in Restore : pc[r] \in SwapPc \union {"swap"} =>
          pc[chosen[r]] \notin {"idle", "dump"} /\ Closed(dump[chosen[r]])
    /\ \A r \in Restore : pc[r] = "commit" => Apart(dump[chosen[r]], rows \ gone[r])
    /\ \A r, s \in Restore : pc[r] = "commit" /\ pc[s] = "commit" /\ r # s
          => Apart(dump[chosen[r]], dump[chosen[s]])

TypeInv == TypeOK /\ Steps /\ Loads

\* A request writes rows of its own name and removes others.
LEMMA WriteStep ==
    ASSUME TypeInv, NEW q \in Request, NEW S, Write(q, S), S \subseteq Row, Keyed(S),
           \A x \in S : x \in rows \/ x.id = q
    PROVE  TypeInv'
<1> USE DEF TypeInv
<1>1. /\ pc[q] = "idle" /\ pc' = [pc EXCEPT ![q] = "done"] /\ rows' = S
      /\ UNCHANGED <<lock, dbFile, upFile, dump, seen, gone, chosen, staged, error,
                     committed, before, excused>>
      /\ during' = [during EXCEPT ![q] = InSwap]
  BY DEF Write, Goes, fileVars, deleteVars, restoreVars
<1>2. TypeOK'
  BY <1>1 DEF TypeOK, Keyed, InSwap
<1>3. pc'[q] = "done" /\ \A p \in Process : p # q => pc'[p] = pc[p]
  BY <1>1 DEF TypeOK
<1>4. Steps'
  <2>1. Written(rows)'
    BY <1>1, <1>3 DEF Written, Steps
  <2>2. \A b \in Backup : Written(dump[b])' /\ Keyed(dump[b])'
    BY <1>1, <1>3 DEF Written, Keyed, Steps
  <2>3. QED
    BY <1>1, <1>3, <2>1, <2>2 DEF Steps, TypeOK
<1>5. Loads'
  <2>1. \A r \in Restore : pc'[r] = pc[r]
    BY <1>3
  <2>2. \A r \in Restore : pc[r] \in SwapPc \union {"swap"} => chosen[r] \in Backup
    BY DEF TypeOK, SwapPc
  <2>3. \A b \in Backup : \A x \in dump[b] : x.id # q
    BY <1>1, <1>3 DEF Steps, Written
  <2>4. \A r \in Restore : pc'[r] = "commit" => Apart(dump[chosen[r]], rows' \ gone[r])
    BY <1>1, <2>1, <2>2, <2>3 DEF Loads, Apart, SwapPc
  <2>5. \A r \in Restore : pc'[r] \in SwapPc \union {"swap"} =>
          pc'[chosen[r]] \notin {"idle", "dump"} /\ Closed(dump[chosen[r]])
    BY <1>3, <2>1, <2>2 DEF Loads
  <2>6. QED
    BY <1>1, <2>1, <2>4, <2>5 DEF Loads, Apart, Closed
<1>6. QED
  BY <1>2, <1>4, <1>5

\* What is loaded has the ids and references of the dump.
LEMMA LoadedFacts ==
    ASSUME NEW r \in Restore, dump[chosen[r]] \subseteq Row
    PROVE  /\ Loaded(r) \subseteq Row
           /\ \A x \in Loaded(r) : x.by = r /\ \E z \in dump[chosen[r]] : x.id = z.id /\ x.ref = z.ref
           /\ \A z \in dump[chosen[r]] : \E x \in Loaded(r) : x.id = z.id /\ x.ref = z.ref
           /\ Keyed(dump[chosen[r]]) => Keyed(Loaded(r))
<1>1. \A z \in dump[chosen[r]] : z \in Row
  OBVIOUS
<1>2. \A z \in dump[chosen[r]] : /\ [z EXCEPT !.by = r] \in Row /\ [z EXCEPT !.by = r].by = r
                                 /\ [z EXCEPT !.by = r].id = z.id
                                 /\ [z EXCEPT !.by = r].ref = z.ref
  BY <1>1 DEF Row
<1>3. \A x : x \in Loaded(r) <=> \E z \in dump[chosen[r]] : x = [z EXCEPT !.by = r]
  BY DEF Loaded
<1>4. Keyed(dump[chosen[r]]) => Keyed(Loaded(r))
  <2> SUFFICES ASSUME Keyed(dump[chosen[r]]), NEW x \in Loaded(r), NEW y \in Loaded(r),
                      x.id = y.id
               PROVE  x = y
    BY DEF Keyed
  <2>1. PICK z \in dump[chosen[r]] : x = [z EXCEPT !.by = r]
    BY <1>3
  <2>2. PICK w \in dump[chosen[r]] : y = [w EXCEPT !.by = r]
    BY <1>3
  <2>3. z.id = w.id
    BY <1>2, <2>1, <2>2
  <2>4. QED
    BY <2>1, <2>2, <2>3 DEF Keyed
<1>5. \A x \in Loaded(r) : x \in Row /\ x.by = r /\ \E z \in dump[chosen[r]] :
                              x.id = z.id /\ x.ref = z.ref
  <2> SUFFICES ASSUME NEW x \in Loaded(r)
               PROVE  x \in Row /\ x.by = r /\ \E z \in dump[chosen[r]] :
                         x.id = z.id /\ x.ref = z.ref
    OBVIOUS
  <2>1. PICK z \in dump[chosen[r]] : x = [z EXCEPT !.by = r]
    BY <1>3
  <2>2. x \in Row /\ x.by = r /\ x.id = z.id /\ x.ref = z.ref
    BY <1>2, <2>1
  <2>3. QED
    BY <2>2
<1>6. \A z \in dump[chosen[r]] : \E x \in Loaded(r) : x.id = z.id /\ x.ref = z.ref
  <2> SUFFICES ASSUME NEW z \in dump[chosen[r]] PROVE \E x \in Loaded(r) : x.id = z.id /\ x.ref = z.ref
    OBVIOUS
  <2> DEFINE y == [z EXCEPT !.by = r]
  <2>1. y \in Loaded(r)
    BY <1>3
  <2>2. y.id = z.id /\ y.ref = z.ref
    BY <1>2
  <2>3. QED
    BY <2>1, <2>2
<1>7. QED
  BY <1>4, <1>5, <1>6

\* The variables keep their types, and the ids their uniqueness.
THEOREM BasicsCorrect == Spec => []TypeInv
<1>1. Init => TypeInv
  BY DEF Init, TypeInv, TypeOK, Steps, Loads, Row, Kept, SwapPc, AfterPc, Keyed,
      Written
<1>2. TypeInv /\ [Next]_vars => TypeInv'
  <2> SUFFICES ASSUME TypeInv, [Next]_vars PROVE TypeInv'
    OBVIOUS
  <2> USE DEF TypeInv
  <2>1. ASSUME NEW q \in Request, AddCard(q) PROVE TypeInv'
    <3> DEFINE S == rows \union {[id |-> q, ref |-> None, by |-> q]}
    <3>1. Write(q, S)
      BY <2>1 DEF AddCard
    <3>2. pc[q] = "idle"
      BY <3>1 DEF Write, Goes
    <3>3. \A y \in rows : y.id # q
      BY <3>2 DEF Steps, Written
    <3>4. S \subseteq Row
      BY <3>1 DEF TypeOK, Row
    <3>5. Keyed(S)
      BY <3>3 DEF Keyed, TypeOK
    <3>6. QED
      BY <3>1, <3>4, <3>5, WriteStep
  <2>2. ASSUME NEW q \in Request, NEW x \in rows, AddLead(q, x) PROVE TypeInv'
    <3> DEFINE S == rows \union {[id |-> q, ref |-> x.id, by |-> q]}
    <3>1. Write(q, S)
      BY <2>2 DEF AddLead
    <3>2. pc[q] = "idle"
      BY <3>1 DEF Write, Goes
    <3>3. \A y \in rows : y.id # q
      BY <3>2 DEF Steps, Written
    <3>4. S \subseteq Row
      BY <3>1 DEF TypeOK, Row
    <3>5. Keyed(S)
      BY <3>3 DEF Keyed, TypeOK
    <3>6. QED
      BY <3>1, <3>4, <3>5, WriteStep
  <2>3. ASSUME NEW q \in Request, NEW x \in rows, DeleteCard(q, x) PROVE TypeInv'
    <3> DEFINE S == rows \ ({x} \union {y \in rows : y.ref = x.id})
    <3>1. Write(q, S)
      BY <2>3 DEF DeleteCard
    <3>2. S \subseteq Row /\ Keyed(S) /\ S \subseteq rows
      BY DEF Keyed, TypeOK
    <3>3. QED
      BY <3>1, <3>2, WriteStep
  <2>4. ASSUME NEW b \in Backup, Reserve(b) PROVE TypeInv'
    BY <2>4 DEF Reserve, Goes, File, deleteVars, restoreVars, metVars, TypeOK,
        Steps, Loads, Row, SwapPc, AfterPc, Keyed, Written, Closed, Apart
  <2>5. ASSUME NEW b \in Backup, Dump(b) PROVE TypeInv'
    BY <2>5 DEF Dump, Snapshot, Goes, File, deleteVars, restoreVars, metVars, TypeOK, Steps,
        Loads, Row, SwapPc, AfterPc, Keyed, Written, Closed, Apart
  <2>6. ASSUME NEW b \in Backup, Archive(b) PROVE TypeInv'
    BY <2>6 DEF Archive, Goes, File, deleteVars, restoreVars, metVars, TypeOK,
        Steps, Loads, Row, SwapPc, AfterPc, Keyed, Written, Closed, Apart
  <2>7. ASSUME NEW b \in Backup, BackupFails(b) \/ RemovalFails(b) PROVE TypeInv'
    <3>1. /\ pc[b] \in {"dump", "archive"} /\ pc' = [pc EXCEPT ![b] = "failed"]
          /\ \E db \in {dbFile[b], Removed(b)}, up \in {upFile[b], "none"} :
                dbFile' = [dbFile EXCEPT ![b] = db] /\ upFile' = [upFile EXCEPT ![b] = up]
          /\ excused' \in {excused, excused \union {b}}
          /\ UNCHANGED <<rows, lock, dump, seen, gone, chosen, staged, error, committed,
                         before, during>>
      BY <2>7 DEF BackupFails, RemovalFails, Failing, Excuse, Goes, RemoveReserved,
          File, deleteVars, restoreVars, metVars
    <3>2. TypeOK'
      BY <3>1 DEF TypeOK, Removed
    <3>3. pc'[b] = "failed" /\ \A p \in Process : p # b => pc'[p] = pc[p]
      BY <3>1 DEF TypeOK
    <3>4. Steps'
      BY <3>1, <3>3 DEF Steps, TypeOK, Written, Keyed, AfterPc, Removed
    <3>5. Loads'
      BY <3>1, <3>3 DEF Loads, TypeOK, Closed, Apart, SwapPc
    <3>6. QED
      BY <3>2, <3>4, <3>5
  <2>8. ASSUME NEW b \in Backup, CopyFails(b) PROVE TypeInv'
    BY <2>8 DEF CopyFails, Goes, File, deleteVars, restoreVars, metVars, Excuse,
        TypeOK, Steps, Loads, Row, SwapPc, AfterPc, Keyed, Written, Closed, Apart
  <2>9. ASSUME NEW b \in Backup, BackupCrashes(b) PROVE TypeInv'
    <3>1. /\ pc[b] \in {"dump", "archive"} /\ pc' = [pc EXCEPT ![b] = "failed"]
          /\ excused' = excused \union {b}
          /\ UNCHANGED <<rows, lock, seen, gone, chosen, staged, error, committed,
                         before, during>>
      BY <2>9 DEF BackupCrashes, Failing, Snapshot, Goes, File, Excuse, deleteVars,
          restoreVars, metVars
    <3>2. CASE Snapshot(b) /\ pc[b] = "dump"
      BY <3>1, <3>2 DEF Snapshot, File, TypeOK, Steps, Loads, Row, SwapPc, AfterPc,
          Keyed, Written, Closed, Apart
    <3>3. CASE /\ dbFile' = dbFile /\ dump' = dump
               /\ \E up \in {upFile[b], "whole"} : upFile' = [upFile EXCEPT ![b] = up]
      BY <3>1, <3>3 DEF TypeOK, Steps, Loads, Row, SwapPc, AfterPc, Keyed, Written,
          Closed, Apart
    <3>4. \/ Snapshot(b) /\ pc[b] = "dump"
          \/ /\ dbFile' = dbFile /\ dump' = dump
             /\ \E up \in {upFile[b], "whole"} : upFile' = [upFile EXCEPT ![b] = up]
      BY <2>9 DEF BackupCrashes, Failing, Goes, File, TypeOK
    <3>5. QED
      BY <3>2, <3>3, <3>4
  <2>10. ASSUME NEW r \in Restore, NEW b \in Backup,
                StartRestore(r, b)
         PROVE  TypeInv'
    BY <2>10 DEF StartRestore, fileVars, deleteVars, metVars, Goes, TypeOK, Steps,
        Loads, Row, SwapPc, AfterPc, Keyed, Written, Closed, Apart
  <2>11. ASSUME NEW r \in Restore, LockExpires(r) PROVE TypeInv'
    BY <2>11 DEF LockExpires, fileVars, deleteVars, restoreVars, metVars, Excuse,
        TypeOK, Steps, Loads, Row, SwapPc, AfterPc, Keyed, Written, Closed, Apart
  <2>12. ASSUME NEW r \in Restore, FillStage(r) PROVE TypeInv'
    <3>1. /\ pc[r] = "fill" /\ pc' = [pc EXCEPT ![r] = "swap"]
          /\ dbFile[chosen[r]] \in {"whole", "unlinked"} /\ Dangling(dump[chosen[r]]) = {}
          /\ UNCHANGED <<rows, lock, dbFile, upFile, dump, seen, gone, chosen, staged, error,
                         committed, before, during, excused>>
      BY <2>12 DEF FillStage, Readable, Goes, fileVars, deleteVars, restoreVars, metVars
    <3>2. TypeOK'
      BY <3>1 DEF TypeOK
    <3>3. pc'[r] = "swap" /\ \A p \in Process : p # r => pc'[p] = pc[p]
      BY <3>1 DEF TypeOK
    <3>4. Steps'
      BY <3>1, <3>3 DEF Steps, TypeOK, Written, Keyed, AfterPc
    <3>5. chosen[r] \in Backup /\ Closed(dump[chosen[r]])
      BY <3>1 DEF TypeOK, Dangling, Leads, Cards, Closed
    <3>6. Loads'
      BY <3>1, <3>3, <3>5 DEF Loads, Steps, TypeOK, Closed, Apart, SwapPc
    <3>7. QED
      BY <3>2, <3>4, <3>6
  <2>13. ASSUME NEW r \in Restore, BeginSwap(r) PROVE TypeInv'
    <3>1. /\ pc[r] = "swap" /\ pc' = [pc EXCEPT ![r] = "leads"]
          /\ seen' = [seen EXCEPT ![r] = Leads(rows)] /\ before' = [before EXCEPT ![r] = Ended]
          /\ UNCHANGED <<rows, lock, dbFile, upFile, dump, gone, chosen, staged, error,
                         committed, excused>>
      BY <2>13 DEF BeginSwap, Goes, fileVars, restoreVars, WorkspaceLeads
    <3>2. during' \in [Request \union Restore -> SUBSET Restore]
      BY <2>13 DEF BeginSwap, TypeOK, InSwap
    <3>3. TypeOK'
      BY <3>1, <3>2 DEF TypeOK, Leads, Ended
    <3>4. pc'[r] = "leads" /\ \A p \in Process : p # r => pc'[p] = pc[p]
      BY <3>1 DEF TypeOK
    <3>5. Steps'
      BY <3>1, <3>4 DEF Steps, TypeOK, Written, Keyed, AfterPc
    <3>6. Loads'
      BY <3>1, <3>4 DEF Loads, TypeOK, Closed, Apart, SwapPc
    <3>7. QED
      BY <3>3, <3>5, <3>6
  <2>14. ASSUME NEW r \in Restore, DeleteLeads(r) PROVE TypeInv'
    BY <2>14 DEF DeleteLeads, Delete, fileVars, restoreVars, metVars, Goes, TypeOK,
        Steps, Loads, Row, SwapPc, AfterPc, Keyed, Written, Closed, Apart
  <2>15. ASSUME NEW r \in Restore, StartCards(r) PROVE TypeInv'
    BY <2>15 DEF StartCards, fileVars, restoreVars, metVars, Goes, Cards, TypeOK,
        Steps, Loads, Row, SwapPc, AfterPc, Keyed, Written, Closed, Apart
  <2>16. ASSUME NEW r \in Restore, DeleteCards(r) PROVE TypeInv'
    BY <2>16 DEF DeleteCards, Delete, fileVars, restoreVars, metVars, Goes, TypeOK,
        Steps, Loads, Row, SwapPc, AfterPc, Keyed, Written, Closed, Apart
  <2>17. ASSUME NEW r \in Restore, Load(r) PROVE TypeInv'
    <3>1. /\ pc[r] = "load" /\ pc' = [pc EXCEPT ![r] = "commit"]
          /\ IdsOf(Loaded(r)) \intersect IdsOf(rows \ gone[r]) = {}
          /\ \A s \in Restore : pc[s] = "commit" =>
                IdsOf(Loaded(r)) \intersect IdsOf(Loaded(s)) = {}
          /\ UNCHANGED <<rows, lock, dbFile, upFile, dump, seen, gone, chosen, staged, error,
                         committed, before, during, excused>>
      BY <2>17 DEF Load, Goes, fileVars, deleteVars, restoreVars, metVars
    <3>2. TypeOK'
      BY <3>1 DEF TypeOK
    <3>3. pc'[r] = "commit" /\ \A p \in Process : p # r => pc'[p] = pc[p]
      BY <3>1 DEF TypeOK
    <3>4. Steps'
      BY <3>1, <3>3 DEF Steps, TypeOK, Written, Keyed, AfterPc
    <3>5. \A s \in Restore : pc[s] \in SwapPc =>
             chosen[s] \in Backup /\ dump[chosen[s]] \subseteq Row
      BY DEF TypeOK, SwapPc
    <3>6. Apart(dump[chosen[r]], rows \ gone[r])
      <4>1. \A x \in dump[chosen[r]] : x.id \in IdsOf(Loaded(r))
        BY <3>1, <3>5, LoadedFacts DEF IdsOf, SwapPc
      <4>2. \A y \in rows \ gone[r] : y.id \in IdsOf(rows \ gone[r])
        BY DEF IdsOf
      <4>3. QED
        BY <3>1, <4>1, <4>2 DEF Apart
    <3>7. \A s \in Restore : pc[s] = "commit" => Apart(dump[chosen[r]], dump[chosen[s]])
      <4>1. \A s \in Restore : pc[s] \in {"load", "commit"} =>
              \A x \in dump[chosen[s]] : x.id \in IdsOf(Loaded(s))
        BY <3>5, LoadedFacts DEF IdsOf, SwapPc
      <4>2. QED
        BY <3>1, <4>1 DEF Apart
    <3>8. Loads'
      <4>1. \A s \in Restore : pc'[s] \in SwapPc \union {"swap"} =>
              pc'[chosen[s]] \notin {"idle", "dump"} /\ Closed(dump[chosen[s]])
        BY <3>1, <3>3 DEF Loads, TypeOK, SwapPc
      <4>2. \A s \in Restore : pc'[s] = "commit" => Apart(dump[chosen[s]], rows \ gone[s])
        BY <3>1, <3>3, <3>6 DEF Loads
      <4>3. \A s, t \in Restore : pc'[s] = "commit" /\ pc'[t] = "commit" /\ s # t
              => Apart(dump[chosen[s]], dump[chosen[t]])
        BY <3>1, <3>3, <3>7 DEF Loads, Apart
      <4>4. QED
        BY <3>1, <4>1, <4>2, <4>3 DEF Loads, Closed, Apart
    <3>9. QED
      BY <3>2, <3>4, <3>8
  <2>18. ASSUME NEW r \in Restore, NEW heard \in BOOLEAN,
                Commit(r, heard)
         PROVE  TypeInv'
    <3>1. /\ pc[r] = "commit" /\ pc' = [pc EXCEPT ![r] = "clean"]
          /\ rows' = (rows \ gone[r]) \union Loaded(r) /\ gone' = [gone EXCEPT ![r] = {}]
          /\ committed' = committed \union {r}
          /\ error' \in SUBSET Restore /\ excused' \in SUBSET Process
          /\ UNCHANGED <<lock, dbFile, upFile, dump, seen, chosen, staged, before, during>>
      BY <2>18 DEF Commit, Goes, Excuse, fileVars, metVars, TypeOK
    <3>2. pc'[r] = "clean" /\ \A p \in Process : p # r => pc'[p] = pc[p]
      BY <3>1 DEF TypeOK
    <3>3. \A s \in Restore : pc[s] \in SwapPc \union {"swap"} =>
             chosen[s] \in Backup /\ dump[chosen[s]] \subseteq Row
      BY DEF TypeOK, SwapPc
    <3> DEFINE D == dump[chosen[r]]
    <3>4. /\ Loaded(r) \subseteq Row /\ Keyed(Loaded(r))
          /\ \A x \in Loaded(r) : \E z \in D : x.id = z.id
      BY <3>1, <3>3, LoadedFacts DEF SwapPc, Steps
    <3>5. Apart(D, rows \ gone[r]) /\ Written(D)
      BY <3>1, <3>3 DEF Loads, Steps, SwapPc
    <3> HIDE DEF D
    <3>6. Keyed(rows')
      BY <3>1, <3>4, <3>5 DEF Keyed, Apart, TypeOK
    <3>7. TypeOK'
      BY <3>1, <3>4, <3>6 DEF TypeOK, Keyed
    <3>8. Written(rows)'
      BY <3>1, <3>2, <3>4, <3>5 DEF Written, Steps
    <3>9. Steps'
      BY <3>1, <3>2, <3>8 DEF Steps, TypeOK, Written, Keyed, AfterPc
    <3>10. \A s \in Restore : pc'[s] = "commit" => Apart(dump[chosen[s]], rows' \ gone'[s])
      <4> SUFFICES ASSUME NEW s \in Restore, pc'[s] = "commit",
                          NEW y \in dump[chosen[s]], NEW x \in rows' \ gone'[s]
                   PROVE  y.id # x.id
        BY DEF Apart
      <4>1. s # r /\ pc[s] = "commit" /\ gone'[s] = gone[s]
        BY <3>1, <3>2 DEF TypeOK
      <4>2. CASE x \in rows
        BY <4>1, <4>2 DEF Loads, Apart
      <4>3. CASE x \in Loaded(r)
        <5>1. PICK z \in D : x.id = z.id
          BY <4>3, <3>4
        <5>2. Apart(dump[chosen[s]], D)
          BY <4>1, <3>1 DEF Loads, D
        <5>3. QED
          BY <5>1, <5>2 DEF Apart
      <4>4. QED
        BY <4>2, <4>3, <3>1
    <3>11. Loads'
      <4>1. \A s \in Restore : pc'[s] \in SwapPc \union {"swap"} => s # r /\ pc'[s] = pc[s]
        BY <3>2 DEF SwapPc
      <4>2. \A s \in Restore : pc'[s] \in SwapPc \union {"swap"} =>
              pc'[chosen[s]] \notin {"idle", "dump"} /\ Closed(dump[chosen[s]])
        BY <3>2, <3>3, <4>1 DEF Loads
      <4>3. \A s, t \in Restore : pc'[s] = "commit" /\ pc'[t] = "commit" /\ s # t
              => Apart(dump[chosen[s]], dump[chosen[t]])
        BY <3>2 DEF Loads
      <4>4. QED
        BY <3>1, <3>10, <4>2, <4>3 DEF Loads, Closed, Apart
    <3>12. QED
      BY <3>7, <3>9, <3>11
  <2>19. ASSUME NEW r \in Restore, RestoreFails(r) PROVE TypeInv'
    BY <2>19 DEF RestoreFails, fileVars, Goes, Undo, TypeOK, Steps, Loads, Row,
        SwapPc, AfterPc, Keyed, Written, Closed, Apart
  <2>20. ASSUME NEW r \in Restore, Clean(r) PROVE TypeInv'
    BY <2>20 DEF Clean, fileVars, deleteVars, metVars, Goes, DropStage, TypeOK,
        Steps, Loads, Row, SwapPc, AfterPc, Keyed, Written, Closed, Apart
  <2>21. ASSUME NEW r \in Restore, NEW thrown \in BOOLEAN,
                CleanFails(r, thrown)
         PROVE  TypeInv'
    BY <2>21 DEF CleanFails, fileVars, deleteVars, metVars, Goes, Excuse, TypeOK,
        Steps, Loads, Row, SwapPc, AfterPc, Keyed, Written, Closed, Apart
  <2>22. ASSUME NEW r \in Restore, Unlock(r) PROVE TypeInv'
    BY <2>22 DEF Unlock, fileVars, deleteVars, metVars, Goes, Release, FreedBy, TypeOK,
        Steps, Loads, Row, SwapPc, AfterPc, Keyed, Written, Closed, Apart
  <2>23. ASSUME NEW r \in Restore, RestoreCrashes(r) PROVE TypeInv'
    BY <2>23 DEF RestoreCrashes, fileVars, Goes, Excuse, Undo, Release, FreedBy, TypeOK,
        Steps, Loads, Row, SwapPc, AfterPc, Keyed, Written, Closed, Apart
  <2>24. CASE UNCHANGED vars
    BY <2>24 DEF vars, fileVars, deleteVars, restoreVars, metVars, TypeOK, Steps,
        Loads, Row, SwapPc, AfterPc, Keyed, Written, Closed, Apart
  <2> HIDE DEF TypeInv
  <2>25. QED
    BY <2>1, <2>2, <2>3, <2>4, <2>5, <2>6, <2>7, <2>8, <2>9, <2>10, <2>11, <2>12,
       <2>13, <2>14, <2>15, <2>16, <2>17, <2>18, <2>19, <2>20, <2>21, <2>22, <2>23,
       <2>24 DEF Next
<1>3. QED
  BY <1>1, <1>2, PTL DEF Spec
-----------------------------------------------------------------------------
\* The type invariant, the uniqueness of ids with it (backups.ts:207-228).
THEOREM TypeCorrect == Spec => []TypeOK
<1>1. TypeInv => TypeOK
  BY DEF TypeInv
<1>2. QED
  BY <1>1, BasicsCorrect, PTL
-----------------------------------------------------------------------------
\* A restore without a fault holds the lock as long as it runs and has not thrown
\* once its swap has taken effect; its staging database goes before it ends.
FailInv ==
    /\ \A r \in Restore \ excused :
          /\ pc[r] \notin {"idle", "ok", "failed"} => lock = r
          /\ pc[r] \in SwapPc \union {"idle", "fill", "swap"} => r \notin error
          /\ r \in committed => r \notin error /\ pc[r] # "failed"
          /\ r \in staged => pc[r] \in SwapPc \union {"fill", "swap", "clean"}
    /\ \A b \in Backup \ excused : pc[b] = "failed" =>
          dbFile[b] \in {"none", "unlinked"} /\ upFile[b] = "none"

LEMMA FailInvariant == Spec => []FailInv
<1>1. Init => FailInv
  BY DEF Init, FailInv, SwapPc
<1>2. TypeInv /\ FailInv /\ [Next]_vars => FailInv'
  <2> SUFFICES ASSUME TypeInv, FailInv, [Next]_vars PROVE FailInv'
    OBVIOUS
  <2> USE DEF TypeInv, FailInv
  <2>1. ASSUME NEW q \in Request, AddCard(q) PROVE FailInv'
    BY <2>1 DEF AddCard, Write, fileVars, deleteVars, restoreVars, Goes, TypeOK,
        Steps, SwapPc, AfterPc
  <2>2. ASSUME NEW q \in Request, NEW x \in rows, AddLead(q, x) PROVE FailInv'
    BY <2>2 DEF AddLead, Write, fileVars, deleteVars, restoreVars, Goes, Cards,
        TypeOK, Steps, SwapPc, AfterPc
  <2>3. ASSUME NEW q \in Request, NEW x \in rows, DeleteCard(q, x) PROVE FailInv'
    BY <2>3 DEF DeleteCard, Write, fileVars, deleteVars, restoreVars, Goes, Cards,
        TypeOK, Steps, SwapPc, AfterPc
  <2>4. ASSUME NEW b \in Backup, Reserve(b) PROVE FailInv'
    BY <2>4 DEF Reserve, Goes, File, deleteVars, restoreVars, metVars, TypeOK,
        Steps, SwapPc, AfterPc
  <2>5. ASSUME NEW b \in Backup, Dump(b) PROVE FailInv'
    BY <2>5 DEF Dump, Snapshot, Goes, File, deleteVars, restoreVars, metVars, TypeOK, Steps,
        SwapPc, AfterPc
  <2>6. ASSUME NEW b \in Backup, Archive(b) PROVE FailInv'
    BY <2>6 DEF Archive, Goes, File, deleteVars, restoreVars, metVars, TypeOK,
        Steps, SwapPc, AfterPc
  <2>7. ASSUME NEW b \in Backup, BackupFails(b) \/ RemovalFails(b) PROVE FailInv'
    BY <2>7 DEF BackupFails, RemovalFails, Failing, Removed, Excuse, Goes,
        RemoveReserved, File, deleteVars, restoreVars,
        metVars, TypeOK, Steps, SwapPc, AfterPc
  <2>8. ASSUME NEW b \in Backup, CopyFails(b) PROVE FailInv'
    BY <2>8 DEF CopyFails, Goes, File, deleteVars, restoreVars, metVars, Excuse,
        TypeOK, Steps, SwapPc, AfterPc
  <2>9. ASSUME NEW b \in Backup, BackupCrashes(b) PROVE FailInv'
    BY <2>9 DEF BackupCrashes, Failing, Snapshot, File, fileVars, deleteVars, restoreVars, metVars, Goes,
        Excuse, TypeOK, Steps, SwapPc, AfterPc
  <2>10. ASSUME NEW r \in Restore, NEW b \in Backup,
                StartRestore(r, b)
         PROVE  FailInv'
    BY <2>10 DEF StartRestore, fileVars, deleteVars, metVars, Goes, TypeOK, Steps,
        SwapPc, AfterPc
  <2>11. ASSUME NEW r \in Restore, LockExpires(r) PROVE FailInv'
    BY <2>11 DEF LockExpires, fileVars, deleteVars, restoreVars, metVars, Excuse,
        TypeOK, Steps, SwapPc, AfterPc
  <2>12. ASSUME NEW r \in Restore, FillStage(r) PROVE FailInv'
    BY <2>12 DEF FillStage, Readable, fileVars, deleteVars, restoreVars, metVars, Goes,
        TypeOK, Steps, SwapPc, AfterPc
  <2>13. ASSUME NEW r \in Restore, BeginSwap(r) PROVE FailInv'
    BY <2>13 DEF BeginSwap, fileVars, restoreVars, Goes, WorkspaceLeads, TypeOK,
        Steps, SwapPc, AfterPc
  <2>14. ASSUME NEW r \in Restore, DeleteLeads(r) PROVE FailInv'
    BY <2>14 DEF DeleteLeads, Delete, fileVars, restoreVars, metVars, Goes, TypeOK,
        Steps, SwapPc, AfterPc
  <2>15. ASSUME NEW r \in Restore, StartCards(r) PROVE FailInv'
    BY <2>15 DEF StartCards, fileVars, restoreVars, metVars, Goes, Cards, TypeOK,
        Steps, SwapPc, AfterPc
  <2>16. ASSUME NEW r \in Restore, DeleteCards(r) PROVE FailInv'
    BY <2>16 DEF DeleteCards, Delete, fileVars, restoreVars, metVars, Goes, TypeOK,
        Steps, SwapPc, AfterPc
  <2>17. ASSUME NEW r \in Restore, Load(r) PROVE FailInv'
    BY <2>17 DEF Load, fileVars, deleteVars, restoreVars, metVars, Goes, TypeOK,
        Steps, SwapPc, AfterPc
  <2>18. ASSUME NEW r \in Restore, NEW heard \in BOOLEAN,
                Commit(r, heard)
         PROVE  FailInv'
    BY <2>18 DEF Commit, fileVars, metVars, Goes, Excuse, TypeOK, Steps, SwapPc,
        AfterPc
  <2>19. ASSUME NEW r \in Restore, RestoreFails(r) PROVE FailInv'
    BY <2>19 DEF RestoreFails, fileVars, Goes, Undo, TypeOK, Steps, SwapPc, AfterPc
  <2>20. ASSUME NEW r \in Restore, Clean(r) PROVE FailInv'
    BY <2>20 DEF Clean, fileVars, deleteVars, metVars, Goes, DropStage, TypeOK,
        Steps, SwapPc, AfterPc
  <2>21. ASSUME NEW r \in Restore, NEW thrown \in BOOLEAN,
                CleanFails(r, thrown)
         PROVE  FailInv'
    BY <2>21 DEF CleanFails, fileVars, deleteVars, metVars, Goes, Excuse, TypeOK,
        Steps, SwapPc, AfterPc
  <2>22. ASSUME NEW r \in Restore, Unlock(r) PROVE FailInv'
    BY <2>22 DEF Unlock, fileVars, deleteVars, metVars, Goes, Release, FreedBy, TypeOK,
        Steps, SwapPc, AfterPc
  <2>23. ASSUME NEW r \in Restore, RestoreCrashes(r) PROVE FailInv'
    BY <2>23 DEF RestoreCrashes, fileVars, Goes, Excuse, Undo, Release, FreedBy, TypeOK,
        Steps, SwapPc, AfterPc
  <2>24. CASE UNCHANGED vars
    BY <2>24 DEF vars, fileVars, deleteVars, restoreVars, metVars, TypeOK, Steps,
        SwapPc, AfterPc
  <2> HIDE DEF TypeInv, FailInv
  <2>25. QED
    BY <2>1, <2>2, <2>3, <2>4, <2>5, <2>6, <2>7, <2>8, <2>9, <2>10, <2>11, <2>12,
       <2>13, <2>14, <2>15, <2>16, <2>17, <2>18, <2>19, <2>20, <2>21, <2>22, <2>23,
       <2>24 DEF Next
<1>3. QED
  BY <1>1, <1>2, BasicsCorrect, PTL DEF Spec

\* What is reported as failed has left no trace, but for faults
\* (backups.ts:118-125, 233-247).
THEOREM NoTrace == Spec => []FailureLeavesNoTrace
<1>1. TypeInv /\ FailInv => FailureLeavesNoTrace
  BY DEF FailInv, FailureLeavesNoTrace, SwapPc
<1>2. QED
  BY <1>1, BasicsCorrect, FailInvariant, PTL

\* Of two restores that are under way at once, one has met with a fault: nothing
\* but the time limit of the lock or a crash lets a second one begin
\* (joblock.ts:49-65, backups.ts:256-262).
RestoresExclude == \A r, s \in Started \ excused : r = s

THEOREM RestoresAreAlone == Spec => []RestoresExclude
<1>1. FailInv => RestoresExclude
  BY DEF FailInv, Started, RestoresExclude
<1>2. QED
  BY <1>1, FailInvariant, PTL
-----------------------------------------------------------------------------
\* Whoever had ended when a swap began has still ended, and what was there then
\* is in the hands of the swap, as far as it has come.
OldRows(r) == {x \in rows : x.by \in before[r] \union {None}}

OldInv ==
    /\ \A r \in Restore : before[r] \subseteq Ended
    /\ \A r \in Restore :
          /\ pc[r] = "leads" => Leads(OldRows(r)) \subseteq seen[r]
          /\ pc[r] \in {"between", "cards", "load", "commit"} =>
                Leads(OldRows(r)) \subseteq gone[r]
          /\ pc[r] = "cards" => Cards(OldRows(r)) \subseteq seen[r] \union gone[r]
          /\ pc[r] \in {"load", "commit"} => Cards(OldRows(r)) \subseteq gone[r]
          /\ r \in committed => OldRows(r) = {}

\* Nothing written before a swap began is there after it (backups.ts:199-232).
THEOREM NothingOld == Spec => []NothingOldSurvives
<1>1. Init => OldInv
  BY DEF Init, OldInv, OldRows
<1>2. TypeInv /\ OldInv /\ [Next]_vars => OldInv'
  <2> SUFFICES ASSUME TypeInv, OldInv, [Next]_vars PROVE OldInv'
    OBVIOUS
  <2> USE DEF TypeInv, OldInv
  <2>1. ASSUME NEW q \in Request, AddCard(q) PROVE OldInv'
    BY <2>1 DEF AddCard, Write, fileVars, deleteVars, restoreVars, Goes, TypeOK,
        Steps, Ended, OldRows, Leads, Cards, AfterPc
  <2>2. ASSUME NEW q \in Request, NEW x \in rows, AddLead(q, x) PROVE OldInv'
    BY <2>2 DEF AddLead, Write, fileVars, deleteVars, restoreVars, Goes, Cards,
        TypeOK, Steps, Ended, OldRows, Leads, AfterPc
  <2>3. ASSUME NEW q \in Request, NEW x \in rows, DeleteCard(q, x) PROVE OldInv'
    BY <2>3 DEF DeleteCard, Write, fileVars, deleteVars, restoreVars, Goes, Cards,
        TypeOK, Steps, Ended, OldRows, Leads, AfterPc
  <2>4. ASSUME NEW b \in Backup, Reserve(b) PROVE OldInv'
    BY <2>4 DEF Reserve, Goes, File, deleteVars, restoreVars, metVars, TypeOK,
        Steps, Ended, OldRows, Leads, Cards, AfterPc
  <2>5. ASSUME NEW b \in Backup, Dump(b) PROVE OldInv'
    BY <2>5 DEF Dump, Snapshot, Goes, File, deleteVars, restoreVars, metVars, TypeOK, Steps,
        Ended, OldRows, Leads, Cards, AfterPc
  <2>6. ASSUME NEW b \in Backup, Archive(b) PROVE OldInv'
    BY <2>6 DEF Archive, Goes, File, deleteVars, restoreVars, metVars, TypeOK,
        Steps, Ended, OldRows, Leads, Cards, AfterPc
  <2>7. ASSUME NEW b \in Backup, BackupFails(b) \/ RemovalFails(b) PROVE OldInv'
    <3>1. /\ UNCHANGED <<rows, seen, gone, chosen, committed, before, during>>
          /\ pc' = [pc EXCEPT ![b] = "failed"]
      BY <2>7 DEF BackupFails, RemovalFails, Failing, RemoveReserved, Goes, File,
          deleteVars, restoreVars, metVars
    <3>2. QED
      BY <3>1 DEF Goes, TypeOK, Steps, Ended, OldRows, Leads, Cards, AfterPc
  <2>8. ASSUME NEW b \in Backup, CopyFails(b) PROVE OldInv'
    BY <2>8 DEF CopyFails, Goes, File, deleteVars, restoreVars, metVars, Excuse,
        TypeOK, Steps, Ended, OldRows, Leads, Cards, AfterPc
  <2>9. ASSUME NEW b \in Backup, BackupCrashes(b) PROVE OldInv'
    <3>1. /\ UNCHANGED <<rows, seen, gone, chosen, committed, before, during>>
          /\ pc' = [pc EXCEPT ![b] = "failed"]
      BY <2>9 DEF BackupCrashes, Failing, Snapshot, Goes, File, deleteVars, restoreVars,
          metVars
    <3>2. QED
      BY <3>1 DEF Goes, TypeOK, Steps, Ended, OldRows, Leads, Cards, AfterPc
  <2>10. ASSUME NEW r \in Restore, NEW b \in Backup,
                StartRestore(r, b)
         PROVE  OldInv'
    BY <2>10 DEF StartRestore, fileVars, deleteVars, metVars, Goes, TypeOK, Steps,
        Ended, OldRows, Leads, Cards, AfterPc
  <2>11. ASSUME NEW r \in Restore, LockExpires(r) PROVE OldInv'
    BY <2>11 DEF LockExpires, fileVars, deleteVars, restoreVars, metVars, Excuse,
        TypeOK, Steps, Ended, OldRows, Leads, Cards, AfterPc
  <2>12. ASSUME NEW r \in Restore, FillStage(r) PROVE OldInv'
    BY <2>12 DEF FillStage, Readable, fileVars, deleteVars, restoreVars, metVars, Goes,
        TypeOK, Steps, Ended, OldRows, Leads, Cards, AfterPc
  <2>13. ASSUME NEW r \in Restore, BeginSwap(r) PROVE OldInv'
    BY <2>13 DEF BeginSwap, fileVars, restoreVars, Goes, WorkspaceLeads, TypeOK,
        Steps, Ended, OldRows, Leads, Cards, AfterPc
  <2>14. ASSUME NEW r \in Restore, DeleteLeads(r) PROVE OldInv'
    BY <2>14 DEF DeleteLeads, Delete, fileVars, restoreVars, metVars, Goes, TypeOK,
        Steps, Ended, OldRows, Leads, Cards, AfterPc
  <2>15. ASSUME NEW r \in Restore, StartCards(r) PROVE OldInv'
    BY <2>15 DEF StartCards, fileVars, restoreVars, metVars, Goes, Cards, TypeOK,
        Steps, Ended, OldRows, Leads, AfterPc
  <2>16. ASSUME NEW r \in Restore, DeleteCards(r) PROVE OldInv'
    BY <2>16 DEF DeleteCards, Delete, fileVars, restoreVars, metVars, Goes, TypeOK,
        Steps, Ended, OldRows, Leads, Cards, AfterPc
  <2>17. ASSUME NEW r \in Restore, Load(r) PROVE OldInv'
    BY <2>17 DEF Load, fileVars, deleteVars, restoreVars, metVars, Goes, TypeOK,
        Steps, Ended, OldRows, Leads, Cards, AfterPc
  <2>18. ASSUME NEW r \in Restore, NEW heard \in BOOLEAN,
                Commit(r, heard)
         PROVE  OldInv'
    <3>1. /\ pc[r] = "commit" /\ pc' = [pc EXCEPT ![r] = "clean"]
          /\ rows' = (rows \ gone[r]) \union Loaded(r) /\ gone' = [gone EXCEPT ![r] = {}]
          /\ committed' = committed \union {r}
          /\ UNCHANGED <<seen, before>>
      BY <2>18 DEF Commit, Goes, metVars
    <3>2. pc'[r] = "clean" /\ \A p \in Process : p # r => pc'[p] = pc[p]
      BY <3>1 DEF TypeOK
    <3>3. \A x \in Loaded(r) : x.by = r
      <4>1. dump[chosen[r]] \subseteq Row
        BY <3>1 DEF TypeOK
      <4>2. QED
        BY <4>1, LoadedFacts
    <3>4. r \notin Ended /\ Ended \subseteq Ended'
      BY <3>1, <3>2 DEF Ended
    <3>5. \A s \in Restore : \A x \in OldRows(s)' : x \in OldRows(s) /\ x \notin gone[r]
      BY <3>1, <3>3, <3>4 DEF OldRows
    <3>6. \A s \in Restore : s # r => pc'[s] = pc[s] /\ gone'[s] = gone[s]
      BY <3>1, <3>2 DEF TypeOK
    <3>7. OldRows(r)' = {}
      <4>1. \A x \in OldRows(r) : x \in gone[r]
        BY <3>1 DEF OldRows, Leads, Cards
      <4>2. QED
        BY <4>1, <3>5
    <3>8. \A s \in Restore : before'[s] \subseteq Ended'
      BY <3>1, <3>4
    <3>9. ASSUME NEW s \in Restore, s # r
          PROVE  /\ pc'[s] = "leads" => Leads(OldRows(s)') \subseteq seen'[s]
                 /\ pc'[s] \in {"between", "cards", "load", "commit"} =>
                       Leads(OldRows(s)') \subseteq gone'[s]
                 /\ pc'[s] = "cards" => Cards(OldRows(s)') \subseteq seen'[s] \union gone'[s]
                 /\ pc'[s] \in {"load", "commit"} => Cards(OldRows(s)') \subseteq gone'[s]
                 /\ s \in committed' => OldRows(s)' = {}
      BY <3>1, <3>5, <3>6, <3>9 DEF Leads, Cards
    <3>10. QED
      BY <3>2, <3>7, <3>8, <3>9 DEF Leads, Cards
  <2>19. ASSUME NEW r \in Restore, RestoreFails(r) PROVE OldInv'
    BY <2>19 DEF RestoreFails, fileVars, Goes, Undo, TypeOK, Steps, Ended, OldRows,
        Leads, Cards, AfterPc
  <2>20. ASSUME NEW r \in Restore, Clean(r) PROVE OldInv'
    BY <2>20 DEF Clean, fileVars, deleteVars, metVars, Goes, DropStage, TypeOK,
        Steps, Ended, OldRows, Leads, Cards, AfterPc
  <2>21. ASSUME NEW r \in Restore, NEW thrown \in BOOLEAN,
                CleanFails(r, thrown)
         PROVE  OldInv'
    BY <2>21 DEF CleanFails, fileVars, deleteVars, metVars, Goes, Excuse, TypeOK,
        Steps, Ended, OldRows, Leads, Cards, AfterPc
  <2>22. ASSUME NEW r \in Restore, Unlock(r) PROVE OldInv'
    BY <2>22 DEF Unlock, fileVars, deleteVars, metVars, Goes, Release, FreedBy, TypeOK,
        Steps, Ended, OldRows, Leads, Cards, AfterPc
  <2>23. ASSUME NEW r \in Restore, RestoreCrashes(r) PROVE OldInv'
    BY <2>23 DEF RestoreCrashes, fileVars, Goes, Excuse, Undo, Release, FreedBy, TypeOK,
        Steps, Ended, OldRows, Leads, Cards, AfterPc
  <2>24. CASE UNCHANGED vars
    BY <2>24 DEF vars, fileVars, deleteVars, restoreVars, metVars, TypeOK, Steps,
        Ended, OldRows, Leads, Cards, AfterPc
  <2> HIDE DEF TypeInv, OldInv
  <2>25. QED
    BY <2>1, <2>2, <2>3, <2>4, <2>5, <2>6, <2>7, <2>8, <2>9, <2>10, <2>11, <2>12,
       <2>13, <2>14, <2>15, <2>16, <2>17, <2>18, <2>19, <2>20, <2>21, <2>22, <2>23,
       <2>24 DEF Next
<1>3. TypeInv /\ OldInv => NothingOldSurvives
  BY DEF TypeInv, TypeOK, OldInv, OldRows, NothingOldSurvives
<1>4. QED
  BY <1>1, <1>2, <1>3, BasicsCorrect, PTL DEF Spec
-----------------------------------------------------------------------------
\* Swaps under way at once know of each other, a row names its writer, and a
\* lead that a swap has not deleted was written beside it.
MeetInv ==
    /\ \A r, s \in InSwap : r # s => r \in during[s]
    /\ \A x \in rows : /\ x.ref # None => x.by # None
                       /\ x.by \in Request => pc[x.by] = "done"
                       /\ x.by \in Restore => x.by \in committed
    /\ \A r \in InSwap : \A x \in Leads(rows) \ (seen[r] \union gone[r]) : r \in during[x.by]
    /\ \A r \in InSwap : pc[r] # "leads" => \A x \in Leads(rows) \ gone[r] : r \in during[x.by]

DangleInv == MeetInv /\ DanglingNeedsOverlap

\* What the leads are is in step with the swaps, whichever interleave.
LEMMA DangleInvariant == Spec => []DangleInv
<1>1. Init => DangleInv
  BY DEF Init, DangleInv, MeetInv, DanglingNeedsOverlap, Dangling, Leads, InSwap
<1>2. TypeInv /\ DangleInv /\ [Next]_vars => DangleInv'
  <2> SUFFICES ASSUME TypeInv, DangleInv, [Next]_vars PROVE DangleInv'
    OBVIOUS
  <2> USE DEF TypeInv, DangleInv
  <2>1. ASSUME NEW q \in Request, AddCard(q) PROVE DangleInv'
    <3>1. /\ pc[q] = "idle" /\ pc' = [pc EXCEPT ![q] = "done"]
          /\ rows' = rows \union {[id |-> q, ref |-> None, by |-> q]}
          /\ during' = [during EXCEPT ![q] = InSwap]
          /\ UNCHANGED <<seen, gone, committed>>
      BY <2>1 DEF AddCard, Write, Goes, deleteVars, restoreVars
    <3>2. pc'[q] = "done" /\ \A p \in Process : p # q => pc'[p] = pc[p]
      BY <3>1 DEF TypeOK
    <3>3. InSwap' = InSwap
      BY <3>2 DEF InSwap
    <3>4. \A w \in Request \union Restore : w # q => during'[w] = during[w]
      BY <3>1 DEF TypeOK
    <3>5. \A y \in rows' : \/ y \in rows /\ y.by # q /\ y.by \in Writer
                           \/ y.ref = None /\ y.by = q
      BY <3>1 DEF MeetInv, TypeOK, Row
    <3>6. \A y \in rows' : y.ref # None =>
            y \in Leads(rows) /\ y.by # None /\ during'[y.by] = during[y.by]
      BY <3>4, <3>5 DEF MeetInv, Leads
    <3>7. MeetInv'
      <4>1. \A r, s \in InSwap' : r # s => r \in during'[s]
        BY <3>1, <3>3, <3>4 DEF MeetInv, InSwap
      <4>2. \A y \in rows' : /\ y.ref # None => y.by # None
                             /\ y.by \in Request => pc'[y.by] = "done"
                             /\ y.by \in Restore => y.by \in committed
        BY <3>2, <3>5 DEF MeetInv
      <4>3. \A r \in InSwap' : \A y \in Leads(rows') \ (seen[r] \union gone[r]) :
               r \in during'[y.by]
        BY <3>3, <3>5, <3>6 DEF MeetInv, Leads
      <4>4. \A r \in InSwap' : pc'[r] # "leads" =>
               \A y \in Leads(rows') \ gone[r] : r \in during'[y.by]
        BY <3>2, <3>3, <3>5, <3>6 DEF MeetInv, Leads, InSwap
      <4>5. QED
        BY <3>1, <4>1, <4>2, <4>3, <4>4 DEF MeetInv
    <3>8. \A y \in Dangling(rows)' : y \in Dangling(rows) /\ during'[y.by] = during[y.by]
      BY <3>1, <3>5, <3>6 DEF Dangling, Leads, Cards
    <3>9. QED
      BY <3>1, <3>7, <3>8 DEF DanglingNeedsOverlap
  <2>2. ASSUME NEW q \in Request, NEW x \in rows, AddLead(q, x) PROVE DangleInv'
    BY <2>2 DEF AddLead, Write, fileVars, deleteVars, restoreVars, Goes, Cards,
        TypeOK, Steps, MeetInv, DanglingNeedsOverlap, Dangling, Leads, InSwap
  <2>3. ASSUME NEW q \in Request, NEW x \in rows, DeleteCard(q, x) PROVE DangleInv'
    <3>1. /\ pc[q] = "idle" /\ pc' = [pc EXCEPT ![q] = "done"] /\ x \in rows /\ x.ref = None
          /\ rows' = rows \ ({x} \union {y \in rows : y.ref = x.id})
          /\ during' = [during EXCEPT ![q] = InSwap]
          /\ UNCHANGED <<seen, gone, committed>>
      BY <2>3 DEF DeleteCard, Write, Goes, Cards, deleteVars, restoreVars
    <3>2. pc'[q] = "done" /\ \A p \in Process : p # q => pc'[p] = pc[p]
      BY <3>1 DEF TypeOK
    <3>3. InSwap' = InSwap
      BY <3>2 DEF InSwap
    <3>4. \A w \in Request \union Restore : w # q => during'[w] = during[w]
      BY <3>1 DEF TypeOK
    <3>5. \A y \in rows' : y \in rows /\ y.by # q /\ y.by \in Writer
      BY <3>1 DEF MeetInv, TypeOK, Row
    <3>6. \A y \in rows' : y.ref # None =>
            y \in Leads(rows) /\ y.by # None /\ during'[y.by] = during[y.by]
      BY <3>4, <3>5 DEF MeetInv, Leads
    <3>7. MeetInv'
      <4>1. \A r, s \in InSwap' : r # s => r \in during'[s]
        BY <3>1, <3>3, <3>4 DEF MeetInv, InSwap
      <4>2. \A y \in rows' : /\ y.ref # None => y.by # None
                             /\ y.by \in Request => pc'[y.by] = "done"
                             /\ y.by \in Restore => y.by \in committed
        BY <3>2, <3>5 DEF MeetInv
      <4>3. \A r \in InSwap' : \A y \in Leads(rows') \ (seen[r] \union gone[r]) :
               r \in during'[y.by]
        BY <3>3, <3>5, <3>6 DEF MeetInv, Leads
      <4>4. \A r \in InSwap' : pc'[r] # "leads" =>
               \A y \in Leads(rows') \ gone[r] : r \in during'[y.by]
        BY <3>2, <3>3, <3>5, <3>6 DEF MeetInv, Leads, InSwap
      <4>5. QED
        BY <3>1, <4>1, <4>2, <4>3, <4>4 DEF MeetInv
    <3>8. \A y \in Dangling(rows)' : y \in Dangling(rows) /\ during'[y.by] = during[y.by]
      <4> SUFFICES ASSUME NEW y \in Dangling(rows)'
                   PROVE  y \in Dangling(rows) /\ during'[y.by] = during[y.by]
        OBVIOUS
      <4>1. y \in rows' /\ y.ref # None /\ \A z \in Cards(rows') : z.id # y.ref
        BY DEF Dangling, Leads
      <4>2. y.ref # x.id
        BY <4>1, <3>1
      <4>3. \A z \in Cards(rows) : z \in Cards(rows') \/ z = x \/ z.ref = x.id
        BY <3>1 DEF Cards
      <4>4. x.id # None
        BY <3>1 DEF TypeOK, Row
      <4>5. \A z \in Cards(rows) : z.id # y.ref
        BY <4>1, <4>2, <4>3, <4>4 DEF Cards
      <4>6. QED
        BY <4>1, <4>5, <3>5, <3>6 DEF Dangling, Leads
    <3>9. QED
      BY <3>1, <3>7, <3>8 DEF DanglingNeedsOverlap
  <2>4. ASSUME NEW b \in Backup, Reserve(b) PROVE DangleInv'
    BY <2>4 DEF Reserve, Goes, File, deleteVars, restoreVars, metVars, TypeOK,
        MeetInv, DanglingNeedsOverlap, Dangling, Leads, InSwap
  <2>5. ASSUME NEW b \in Backup, Dump(b) PROVE DangleInv'
    BY <2>5 DEF Dump, Snapshot, Goes, File, deleteVars, restoreVars, metVars, TypeOK, MeetInv,
        DanglingNeedsOverlap, Dangling, Leads, InSwap
  <2>6. ASSUME NEW b \in Backup, Archive(b) PROVE DangleInv'
    BY <2>6 DEF Archive, Goes, File, deleteVars, restoreVars, metVars, TypeOK,
        MeetInv, DanglingNeedsOverlap, Dangling, Leads, InSwap
  <2>7. ASSUME NEW b \in Backup, BackupFails(b) \/ RemovalFails(b) PROVE DangleInv'
    BY <2>7 DEF BackupFails, RemovalFails, Failing, Removed, Excuse, Goes,
        RemoveReserved, File, deleteVars, restoreVars,
        metVars, TypeOK, MeetInv, DanglingNeedsOverlap, Dangling, Leads, InSwap
  <2>8. ASSUME NEW b \in Backup, CopyFails(b) PROVE DangleInv'
    BY <2>8 DEF CopyFails, Goes, File, deleteVars, restoreVars, metVars, Excuse,
        TypeOK, MeetInv, DanglingNeedsOverlap, Dangling, Leads, InSwap
  <2>9. ASSUME NEW b \in Backup, BackupCrashes(b) PROVE DangleInv'
    BY <2>9 DEF BackupCrashes, Failing, Snapshot, File, fileVars, deleteVars, restoreVars, metVars, Goes,
        Excuse, TypeOK, MeetInv, DanglingNeedsOverlap, Dangling, Leads, InSwap
  <2>10. ASSUME NEW r \in Restore, NEW b \in Backup,
                StartRestore(r, b)
         PROVE  DangleInv'
    BY <2>10 DEF StartRestore, fileVars, deleteVars, metVars, Goes, TypeOK, MeetInv,
        DanglingNeedsOverlap, Dangling, Leads, InSwap
  <2>11. ASSUME NEW r \in Restore, LockExpires(r) PROVE DangleInv'
    BY <2>11 DEF LockExpires, fileVars, deleteVars, restoreVars, metVars, Excuse,
        TypeOK, Steps, MeetInv, DanglingNeedsOverlap, Dangling, Leads, InSwap
  <2>12. ASSUME NEW r \in Restore, FillStage(r) PROVE DangleInv'
    BY <2>12 DEF FillStage, Readable, fileVars, deleteVars, restoreVars, metVars, Goes,
        TypeOK, MeetInv, DanglingNeedsOverlap, Dangling, Leads, InSwap
  <2>13. ASSUME NEW r \in Restore, BeginSwap(r) PROVE DangleInv'
    <3>1. /\ pc[r] = "swap" /\ pc' = [pc EXCEPT ![r] = "leads"]
          /\ seen' = [seen EXCEPT ![r] = Leads(rows)]
          /\ UNCHANGED <<rows, gone, committed>>
          /\ during' = [w \in Request \union Restore |->
                            IF w = r THEN InSwap
                            ELSE IF w \in InSwap THEN during[w] \union {r} ELSE during[w]]
      BY <2>13 DEF BeginSwap, Goes, restoreVars, WorkspaceLeads
    <3>2. pc'[r] = "leads" /\ \A p \in Process : p # r => pc'[p] = pc[p]
      BY <3>1 DEF TypeOK
    <3>3. InSwap' = InSwap \union {r} /\ r \notin InSwap /\ InSwap \subseteq Restore
      BY <3>1, <3>2 DEF InSwap
    <3>4. \A w \in Request \union Restore : w # r => during[w] \subseteq during'[w]
      BY <3>1
    <3>5. during'[r] = InSwap /\ \A w \in InSwap : r \in during'[w]
      BY <3>1, <3>3
    <3>6. r \notin committed
      BY <3>1 DEF Steps, AfterPc
    <3>7. \A x \in Leads(rows) : x.by \in Request \union Restore /\ x.by # r
      BY <3>6 DEF MeetInv, Leads, TypeOK, Row
    <3>8. \A s, t \in InSwap' : s # t => s \in during'[t]
      BY <3>3, <3>4, <3>5 DEF MeetInv
    <3>9. MeetInv'
      <4>1. \A s \in InSwap' : \A x \in Leads(rows) \ (seen'[s] \union gone[s]) :
               s \in during'[x.by]
        BY <3>1, <3>3, <3>4, <3>7 DEF MeetInv, TypeOK
      <4>2. \A s \in InSwap' : pc'[s] # "leads" =>
               \A x \in Leads(rows) \ gone[s] : s \in during'[x.by]
        BY <3>2, <3>3, <3>4, <3>7 DEF MeetInv
      <4>3. \A x \in rows : /\ x.ref # None => x.by # None
                            /\ x.by \in Request => pc'[x.by] = "done"
                            /\ x.by \in Restore => x.by \in committed
        BY <3>2 DEF MeetInv
      <4>4. QED
        BY <3>1, <3>8, <4>1, <4>2, <4>3 DEF MeetInv, Leads
    <3>10. DanglingNeedsOverlap'
      BY <3>1, <3>4, <3>7 DEF DanglingNeedsOverlap, Dangling, Leads, Cards
    <3>11. QED
      BY <3>9, <3>10
  <2>14. ASSUME NEW r \in Restore, DeleteLeads(r) PROVE DangleInv'
    <3>1. /\ pc[r] = "leads" /\ pc' = [pc EXCEPT ![r] = "between"]
          /\ UNCHANGED <<rows, committed, during>>
          /\ gone' = [gone EXCEPT ![r] = gone[r] \union (seen[r] \intersect rows)]
          /\ seen' = [seen EXCEPT ![r] = {}]
      BY <2>14 DEF DeleteLeads, Delete, Goes, restoreVars, metVars
    <3>2. InSwap' = InSwap
      BY <3>1 DEF InSwap, TypeOK
    <3>3. MeetInv'
      BY <3>1, <3>2 DEF MeetInv, Leads, InSwap, TypeOK
    <3>4. DanglingNeedsOverlap'
      BY <3>1 DEF DanglingNeedsOverlap, Dangling, Leads, Cards
    <3>5. QED
      BY <3>3, <3>4
  <2>15. ASSUME NEW r \in Restore, StartCards(r) PROVE DangleInv'
    <3>1. /\ pc[r] = "between" /\ pc' = [pc EXCEPT ![r] = "cards"]
          /\ UNCHANGED <<rows, gone, committed, during>>
          /\ seen' = [seen EXCEPT ![r] = Cards(rows)]
      BY <2>15 DEF StartCards, Goes, restoreVars, metVars
    <3>2. pc'[r] = "cards" /\ \A p \in Process : p # r => pc'[p] = pc[p]
      BY <3>1 DEF TypeOK
    <3>3. InSwap' = InSwap /\ InSwap \subseteq Restore
      BY <3>1, <3>2 DEF InSwap
    <3>4. \A s \in Restore : s # r => seen'[s] = seen[s]
      BY <3>1 DEF TypeOK
    <3>5. \A s \in InSwap : \A x \in Leads(rows) \ (seen'[s] \union gone[s]) :
             s \in during[x.by]
      BY <3>1, <3>3, <3>4 DEF MeetInv
    <3>6. MeetInv'
      BY <3>1, <3>2, <3>3, <3>5 DEF MeetInv, Leads
    <3>7. DanglingNeedsOverlap'
      BY <3>1 DEF DanglingNeedsOverlap, Dangling, Leads, Cards
    <3>8. QED
      BY <3>6, <3>7
  <2>16. ASSUME NEW r \in Restore, DeleteCards(r) PROVE DangleInv'
    BY <2>16 DEF DeleteCards, Delete, fileVars, restoreVars, metVars, Goes, TypeOK,
        MeetInv, DanglingNeedsOverlap, Dangling, Leads, InSwap
  <2>17. ASSUME NEW r \in Restore, Load(r) PROVE DangleInv'
    BY <2>17 DEF Load, fileVars, deleteVars, restoreVars, metVars, Goes, TypeOK,
        MeetInv, DanglingNeedsOverlap, Dangling, Leads, InSwap
  <2>18. ASSUME NEW r \in Restore, NEW heard \in BOOLEAN,
                Commit(r, heard)
         PROVE  DangleInv'
    <3>1. /\ pc[r] = "commit" /\ pc' = [pc EXCEPT ![r] = "clean"]
          /\ rows' = (rows \ gone[r]) \union Loaded(r) /\ gone' = [gone EXCEPT ![r] = {}]
          /\ committed' = committed \union {r}
          /\ UNCHANGED <<seen, during>>
      BY <2>18 DEF Commit, Goes, metVars
    <3>2. pc'[r] = "clean" /\ \A p \in Process : p # r => pc'[p] = pc[p]
      BY <3>1 DEF TypeOK
    <3>3. InSwap' = InSwap \ {r} /\ r \in InSwap
      BY <3>1, <3>2 DEF InSwap
    <3>4. dump[chosen[r]] \subseteq Row /\ Closed(dump[chosen[r]])
      BY <3>1 DEF Loads, SwapPc, TypeOK
    <3>5. /\ Loaded(r) \subseteq Row
          /\ \A x \in Loaded(r) : x.by = r /\ \E z \in dump[chosen[r]] : x.id = z.id /\ x.ref = z.ref
          /\ \A z \in dump[chosen[r]] : \E x \in Loaded(r) : x.id = z.id /\ x.ref = z.ref
      BY <3>4, LoadedFacts
    <3>6. Closed(Loaded(r))
      BY <3>4, <3>5 DEF Closed
    <3>7. \A s \in Restore : s # r => pc'[s] = pc[s] /\ gone'[s] = gone[s]
      BY <3>1, <3>2 DEF TypeOK
    <3>8. \A s \in InSwap' : \A x \in Loaded(r) : s \in during[x.by]
      BY <3>3, <3>5 DEF MeetInv
    <3>9. MeetInv'
      <4>1. \A s, t \in InSwap' : s # t => s \in during'[t]
        BY <3>1, <3>3 DEF MeetInv
      <4>2. \A x \in rows' : /\ x.ref # None => x.by # None
                             /\ x.by \in Request => pc'[x.by] = "done"
                             /\ x.by \in Restore => x.by \in committed'
        BY <3>1, <3>2, <3>5 DEF MeetInv
      <4>3. \A s \in InSwap' : \A x \in Leads(rows') \ (seen'[s] \union gone'[s]) :
               s \in during'[x.by]
        BY <3>1, <3>3, <3>7, <3>8 DEF MeetInv, Leads, InSwap
      <4>4. \A s \in InSwap' : pc'[s] # "leads" =>
               \A x \in Leads(rows') \ gone'[s] : s \in during'[x.by]
        BY <3>1, <3>3, <3>7, <3>8 DEF MeetInv, Leads, InSwap
      <4>5. QED
        BY <4>1, <4>2, <4>3, <4>4 DEF MeetInv
    <3>10. ASSUME NEW x \in Dangling(rows') PROVE during'[x.by] \intersect committed' # {}
      <4>1. x \in rows /\ x \notin gone[r] /\ x.ref # None
        BY <3>1, <3>6 DEF Dangling, Leads, Cards, Closed
      <4>2. r \in during[x.by]
        BY <4>1, <3>1, <3>3 DEF MeetInv, Leads
      <4>3. QED
        BY <4>2, <3>1
    <3>11. QED
      BY <3>9, <3>10 DEF DanglingNeedsOverlap
  <2>19. ASSUME NEW r \in Restore, RestoreFails(r) PROVE DangleInv'
    <3>1. /\ pc[r] \notin {"idle", "ok", "failed"} /\ pc' = [pc EXCEPT ![r] = pc'[r]]
          /\ pc'[r] \in {"clean", "failed"} /\ UNCHANGED <<rows, committed>>
          /\ gone' = [gone EXCEPT ![r] = {}] /\ seen' = [seen EXCEPT ![r] = {}]
          /\ during' = IF r \in committed THEN during
                        ELSE [w \in Request \union Restore |-> during[w] \ {r}]
      BY <2>19 DEF RestoreFails, Goes, Undo, TypeOK
    <3>2. \A p \in Process : p # r => pc'[p] = pc[p]
      BY <3>1 DEF TypeOK
    <3>3. InSwap' = InSwap \ {r} /\ InSwap \subseteq Restore
      BY <3>1, <3>2 DEF InSwap
    <3>4. \A w \in Request \union Restore : \A s \in during[w] :
             s # r \/ s \in committed => s \in during'[w]
      BY <3>1
    <3>5. \A x \in Leads(rows) : x.by \in Request \union Restore
      BY DEF MeetInv, Leads, TypeOK, Row
    <3>6. \A s \in Restore : s # r =>
             pc'[s] = pc[s] /\ gone'[s] = gone[s] /\ seen'[s] = seen[s]
      BY <3>1, <3>2 DEF TypeOK
    <3>7. MeetInv'
      <4>1. \A s, t \in InSwap' : s # t => s \in during'[t]
        BY <3>3, <3>4 DEF MeetInv
      <4>2. \A x \in rows : /\ x.ref # None => x.by # None
                            /\ x.by \in Request => pc'[x.by] = "done"
                            /\ x.by \in Restore => x.by \in committed
        BY <3>2 DEF MeetInv
      <4>3. \A s \in InSwap' : \A x \in Leads(rows) \ (seen'[s] \union gone'[s]) :
               s \in during'[x.by]
        BY <3>3, <3>4, <3>5, <3>6 DEF MeetInv
      <4>4. \A s \in InSwap' : pc'[s] # "leads" =>
               \A x \in Leads(rows) \ gone'[s] : s \in during'[x.by]
        BY <3>3, <3>4, <3>5, <3>6 DEF MeetInv
      <4>5. QED
        BY <3>1, <4>1, <4>2, <4>3, <4>4 DEF MeetInv, Leads
    <3>8. DanglingNeedsOverlap'
      BY <3>1, <3>4, <3>5 DEF DanglingNeedsOverlap, Dangling, Leads, Cards
    <3>9. QED
      BY <3>7, <3>8
  <2>20. ASSUME NEW r \in Restore, Clean(r) PROVE DangleInv'
    BY <2>20 DEF Clean, fileVars, deleteVars, metVars, Goes, DropStage, TypeOK,
        MeetInv, DanglingNeedsOverlap, Dangling, Leads, InSwap
  <2>21. ASSUME NEW r \in Restore, NEW thrown \in BOOLEAN,
                CleanFails(r, thrown)
         PROVE  DangleInv'
    BY <2>21 DEF CleanFails, fileVars, deleteVars, metVars, Goes, Excuse, TypeOK,
        MeetInv, DanglingNeedsOverlap, Dangling, Leads, InSwap
  <2>22. ASSUME NEW r \in Restore, Unlock(r) PROVE DangleInv'
    BY <2>22 DEF Unlock, fileVars, deleteVars, metVars, Goes, Release, FreedBy, TypeOK,
        MeetInv, DanglingNeedsOverlap, Dangling, Leads, InSwap
  <2>23. ASSUME NEW r \in Restore, RestoreCrashes(r) PROVE DangleInv'
    <3>1. /\ pc[r] \notin {"idle", "ok", "failed"} /\ pc' = [pc EXCEPT ![r] = pc'[r]]
          /\ pc'[r] \in {"clean", "failed"} /\ UNCHANGED <<rows, committed>>
          /\ gone' = [gone EXCEPT ![r] = {}] /\ seen' = [seen EXCEPT ![r] = {}]
          /\ during' = IF r \in committed THEN during
                        ELSE [w \in Request \union Restore |-> during[w] \ {r}]
      BY <2>23 DEF RestoreCrashes, Goes, Undo, TypeOK
    <3>2. \A p \in Process : p # r => pc'[p] = pc[p]
      BY <3>1 DEF TypeOK
    <3>3. InSwap' = InSwap \ {r} /\ InSwap \subseteq Restore
      BY <3>1, <3>2 DEF InSwap
    <3>4. \A w \in Request \union Restore : \A s \in during[w] :
             s # r \/ s \in committed => s \in during'[w]
      BY <3>1
    <3>5. \A x \in Leads(rows) : x.by \in Request \union Restore
      BY DEF MeetInv, Leads, TypeOK, Row
    <3>6. \A s \in Restore : s # r =>
             pc'[s] = pc[s] /\ gone'[s] = gone[s] /\ seen'[s] = seen[s]
      BY <3>1, <3>2 DEF TypeOK
    <3>7. MeetInv'
      <4>1. \A s, t \in InSwap' : s # t => s \in during'[t]
        BY <3>3, <3>4 DEF MeetInv
      <4>2. \A x \in rows : /\ x.ref # None => x.by # None
                            /\ x.by \in Request => pc'[x.by] = "done"
                            /\ x.by \in Restore => x.by \in committed
        BY <3>2 DEF MeetInv
      <4>3. \A s \in InSwap' : \A x \in Leads(rows) \ (seen'[s] \union gone'[s]) :
               s \in during'[x.by]
        BY <3>3, <3>4, <3>5, <3>6 DEF MeetInv
      <4>4. \A s \in InSwap' : pc'[s] # "leads" =>
               \A x \in Leads(rows) \ gone'[s] : s \in during'[x.by]
        BY <3>3, <3>4, <3>5, <3>6 DEF MeetInv
      <4>5. QED
        BY <3>1, <4>1, <4>2, <4>3, <4>4 DEF MeetInv, Leads
    <3>8. DanglingNeedsOverlap'
      BY <3>1, <3>4, <3>5 DEF DanglingNeedsOverlap, Dangling, Leads, Cards
    <3>9. QED
      BY <3>7, <3>8
  <2>24. CASE UNCHANGED vars
    BY <2>24 DEF vars, fileVars, deleteVars, restoreVars, metVars, TypeOK, Steps,
        Loads, MeetInv, DanglingNeedsOverlap, Dangling, Leads, InSwap, SwapPc,
        AfterPc
  <2> HIDE DEF TypeInv, DangleInv
  <2>25. QED
    BY <2>1, <2>2, <2>3, <2>4, <2>5, <2>6, <2>7, <2>8, <2>9, <2>10, <2>11, <2>12,
       <2>13, <2>14, <2>15, <2>16, <2>17, <2>18, <2>19, <2>20, <2>21, <2>22, <2>23,
       <2>24 DEF Next
<1>3. QED
  BY <1>1, <1>2, BasicsCorrect, PTL DEF Spec

\* A lead whose card is gone was written beside a swap (backups.ts:200-206).
THEOREM DanglingLeads == Spec => []DanglingNeedsOverlap
<1>1. DangleInv => DanglingNeedsOverlap
  BY DEF DangleInv
<1>2. QED
  BY <1>1, DangleInvariant, PTL
-----------------------------------------------------------------------------
\* Who holds the lock has begun and not ended.
TurnInv == lock # None => lock \in Started

\* A step that is not one of the lock's leaves who holds it and who runs.
LEMMA QuietSteps ==
    ASSUME TypeInv, NEW p \in Process, NEW to, UNCHANGED lock,
           pc' = [pc EXCEPT ![p] = to],
           p \in Restore => /\ pc[p] \notin {"idle", "ok", "failed"}
                            /\ to \notin {"idle", "ok", "failed"}
    PROVE  UNCHANGED <<lock, Started>>
<1>1. \A r \in Restore : r # p => pc'[r] = pc[r]
  BY DEF TypeInv, TypeOK
<1>2. pc'[p] = to
  BY DEF TypeInv, TypeOK
<1>3. QED
  BY <1>1, <1>2 DEF Started

\* Every step of the restores is one of the lock's contract, whose turn none
\* of them ends but its own.
LEMMA TurnSteps == TypeInv /\ TurnInv /\ [Next]_vars => TurnInv' /\ [Turns!Next]_<<lock, Started>>
<1> SUFFICES ASSUME TypeInv, TurnInv, [Next]_vars
             PROVE  TurnInv' /\ [Turns!Next]_<<lock, Started>>
  OBVIOUS
<1>1. ASSUME NEW r \in Restore, NEW b \in Backup, StartRestore(r, b)
      PROVE  TurnInv' /\ Turns!Begin(r)
  <2>1. /\ pc[r] = "idle" /\ lock = None /\ lock' = r
        /\ pc' = [pc EXCEPT ![r] = "fill"]
    BY <1>1 DEF StartRestore, Goes
  <2>2. r \notin Started /\ Started' = Started \union {r}
    BY <2>1 DEF Started, TypeInv, TypeOK
  <2>3. QED
    BY <2>1, <2>2 DEF TurnInv, Turns!Begin
<1>2. ASSUME NEW r \in Restore, LockExpires(r) PROVE TurnInv' /\ Turns!Expire
  <2>1. lock = r /\ lock' = None /\ Started' = Started
    BY <1>2 DEF LockExpires, Started
  <2>2. QED
    BY <2>1 DEF TurnInv, Turns!Expire
<1>3. ASSUME NEW r \in Restore, Unlock(r) \/ RestoreCrashes(r)
      PROVE  TurnInv' /\ Turns!End({r}) /\ r \in Started
  <2>1. /\ pc[r] \notin {"idle", "ok", "failed"} /\ pc'[r] \in {"ok", "failed"}
        /\ \A s \in Restore : s # r => pc'[s] = pc[s]
        /\ lock' = IF lock = r THEN None ELSE lock
    BY <1>3 DEF Unlock, RestoreCrashes, Goes, Release, FreedBy, TypeInv, TypeOK
  <2>2. r \in Started /\ Started' = Started \ {r}
    BY <2>1 DEF Started
  <2>3. QED
    BY <2>1, <2>2 DEF TurnInv, Turns!End
<1>4. ASSUME NEW r \in Restore,
             \/ FillStage(r) \/ BeginSwap(r) \/ DeleteLeads(r) \/ StartCards(r)
             \/ DeleteCards(r) \/ Load(r) \/ \E heard \in BOOLEAN : Commit(r, heard)
             \/ RestoreFails(r) \/ Clean(r) \/ \E thrown \in BOOLEAN : CleanFails(r, thrown)
      PROVE  UNCHANGED <<lock, Started>>
  <2>1. /\ lock' = lock
        /\ \E from \in RestorePc \ {"idle", "ok", "failed"},
              to \in RestorePc \ {"idle", "ok", "failed"} : Goes(r, from, to)
    BY <1>4 DEF FillStage, BeginSwap, DeleteLeads, StartCards, DeleteCards, Delete,
        Load, Commit, RestoreFails, Clean, CleanFails
  <2>2. QED
    BY <2>1, QuietSteps DEF Goes
<1>5. ASSUME NEW b \in Backup,
             \/ Reserve(b) \/ Dump(b) \/ Archive(b) \/ BackupFails(b)
             \/ RemovalFails(b) \/ CopyFails(b) \/ BackupCrashes(b)
      PROVE  UNCHANGED <<lock, Started>>
  <2>1. lock' = lock /\ \E from, to : Goes(b, from, to)
    BY <1>5 DEF Reserve, Dump, Archive, BackupFails, RemovalFails, RemoveReserved,
        CopyFails, BackupCrashes, Failing, Snapshot, File
  <2>2. QED
    BY <2>1, QuietSteps DEF Goes
<1>6. ASSUME NEW q \in Request, NEW S, Write(q, S) PROVE UNCHANGED <<lock, Started>>
  <2>1. lock' = lock /\ Goes(q, "idle", "done")
    BY <1>6 DEF Write
  <2>2. QED
    BY <2>1, QuietSteps DEF Goes
<1>7. CASE UNCHANGED vars
  BY <1>7 DEF vars, Started, TurnInv
<1>8. QED
  <2>1. UNCHANGED <<lock, Started>> => TurnInv'
    BY DEF TurnInv
  <2>2. ASSUME NEW r \in Restore, Turns!End({r}), r \in Started PROVE Turns!Next
    BY <2>2 DEF Turns!Next
  <2>3. Turns!Next \/ UNCHANGED <<lock, Started>>
    BY <1>1, <1>2, <1>3, <1>4, <1>5, <1>6, <1>7, <2>2
       DEF Next, AddCard, AddLead, DeleteCard, Turns!Next
  <2>4. TurnInv'
    BY <1>1, <1>2, <1>3, <1>4, <1>5, <1>6, <1>7, <2>1
       DEF Next, AddCard, AddLead, DeleteCard
  <2>5. QED
    BY <2>3, <2>4

LEMMA TurnInvariant == Spec => []TurnInv
<1>1. Init => TurnInv
  BY DEF Init, TurnInv
<1>2. QED
  BY <1>1, TurnSteps, BasicsCorrect, PTL DEF Spec

\* Restores follow the lock's contract (joblock.ts:49-65, backups.ts:256-262).
THEOREM TurnsAreTaken == Spec => RestoresTakeTurns
<1>1. Init => Turns!Init
  BY DEF Init, Turns!Init, Started
<1>2. QED
  BY <1>1, TurnSteps, TurnInvariant, BasicsCorrect, PTL
     DEF Spec, RestoresTakeTurns, Turns!Spec
-----------------------------------------------------------------------------
\* x was written by somebody who went on beside the swap of r.
Beside(r, x) == x.by # None /\ r \in during[x.by]

\* A swap has met only those who wrote beside it, and one that took effect or is
\* under way; what of the cards it has neither deleted nor is about to is of theirs.
\* A backup goes on to its archive with a whole dump.
BesideInv ==
    /\ \A b \in Backup : pc[b] = "archive" => dbFile[b] = "whole"
    /\ \A w \in Request \union Restore : during[w] \subseteq InSwap \union committed
    /\ \A r \in InSwap :
          /\ pc[r] = "cards" =>
                \A x \in Cards(rows) \ (seen[r] \union gone[r]) : Beside(r, x)
          /\ pc[r] \in {"load", "commit"} =>
                \A x \in Cards(rows) \ gone[r] : Beside(r, x)

\* A request adds rows in its own name only.
LEMMA RequestWrites ==
    ASSUME NEW q \in Request,
           AddCard(q) \/ \E x \in rows : AddLead(q, x) \/ DeleteCard(q, x)
    PROVE  \E S : Write(q, S) /\ \A x \in S : x \in rows \/ x.by = q
<1>1. CASE AddCard(q)
  <2> DEFINE S == rows \union {[id |-> q, ref |-> None, by |-> q]}
  <2>1. Write(q, S) /\ \A x \in S : x \in rows \/ x.by = q
    BY <1>1 DEF AddCard
  <2>2. QED
    BY <2>1
<1>2. ASSUME NEW y \in rows, AddLead(q, y)
      PROVE  \E S : Write(q, S) /\ \A x \in S : x \in rows \/ x.by = q
  <2> DEFINE S == rows \union {[id |-> q, ref |-> y.id, by |-> q]}
  <2>1. Write(q, S) /\ \A x \in S : x \in rows \/ x.by = q
    BY <1>2 DEF AddLead
  <2>2. QED
    BY <2>1
<1>3. ASSUME NEW y \in rows, DeleteCard(q, y)
      PROVE  \E S : Write(q, S) /\ \A x \in S : x \in rows \/ x.by = q
  <2> DEFINE S == rows \ ({y} \union {z \in rows : z.ref = y.id})
  <2>1. Write(q, S) /\ \A x \in S : x \in rows \/ x.by = q
    BY <1>3 DEF DeleteCard
  <2>2. QED
    BY <2>1
<1>4. QED
  BY <1>1, <1>2, <1>3

\* What RestoreFails and RestoreCrashes have in common.
Ends(r) ==
    /\ pc[r] \notin {"idle", "ok", "failed"} /\ pc' = [pc EXCEPT ![r] = pc'[r]]
    /\ pc'[r] \in {"clean", "failed"} /\ UNCHANGED <<rows, fileVars, committed>>
    /\ Undo(r)

LEMMA BesideInvariant == Spec => []BesideInv
<1>1. Init => BesideInv
  BY DEF Init, BesideInv, InSwap, Kept
<1>2. TypeInv /\ DangleInv /\ BesideInv /\ [Next]_vars => BesideInv'
  <2> SUFFICES ASSUME TypeInv, DangleInv, BesideInv, [Next]_vars PROVE BesideInv'
    OBVIOUS
  <2> USE DEF TypeInv, DangleInv
  <2>1. ASSUME NEW q \in Request, NEW S, Write(q, S),
               \A x \in S : x \in rows \/ x.by = q
        PROVE  BesideInv'
    <3>1. /\ pc[q] = "idle" /\ pc' = [pc EXCEPT ![q] = "done"] /\ rows' = S
          /\ during' = [during EXCEPT ![q] = InSwap]
          /\ UNCHANGED <<dbFile, seen, gone, committed>>
      BY <2>1 DEF Write, Goes, fileVars, deleteVars, restoreVars
    <3>2. pc'[q] = "done" /\ \A p \in Process : p # q => pc'[p] = pc[p]
      BY <3>1 DEF TypeOK
    <3>3. InSwap' = InSwap /\ InSwap \subseteq Restore
      BY <3>2 DEF InSwap
    <3>4. during'[q] = InSwap
          /\ \A w \in Request \union Restore : w # q => during'[w] = during[w]
      BY <3>1 DEF TypeOK
    \* A request writes once, so none of the rows that stay bears its name.
    <3>5. \A x \in S : x.by = q \/ (x \in rows /\ x.by # q /\ x.by \in Writer)
      BY <2>1, <3>1 DEF MeetInv, TypeOK, Row
    <3>6. ASSUME NEW r \in InSwap, NEW x \in S, x \in rows => Beside(r, x)
          PROVE  Beside(r, x)'
      BY <3>3, <3>4, <3>5, <3>6 DEF Beside
    <3>7. \A b \in Backup : pc'[b] = "archive" => dbFile'[b] = "whole"
      BY <3>1, <3>2 DEF BesideInv
    <3>8. \A w \in Request \union Restore : during'[w] \subseteq InSwap' \union committed'
      BY <3>1, <3>3, <3>4 DEF BesideInv
    <3>9. \A r \in InSwap : pc'[r] = "cards" =>
             \A x \in Cards(S) \ (seen[r] \union gone[r]) : Beside(r, x)'
      BY <3>2, <3>3, <3>6 DEF BesideInv, Cards
    <3>10. \A r \in InSwap : pc'[r] \in {"load", "commit"} =>
             \A x \in Cards(S) \ gone[r] : Beside(r, x)'
      BY <3>2, <3>3, <3>6 DEF BesideInv, Cards
    <3>11. QED
      BY <3>1, <3>3, <3>7, <3>8, <3>9, <3>10 DEF BesideInv, Beside
  <2>2. ASSUME NEW q \in Request,
               AddCard(q) \/ \E x \in rows : AddLead(q, x) \/ DeleteCard(q, x)
        PROVE  BesideInv'
    BY <2>1, <2>2, RequestWrites
  <2>3. ASSUME NEW r \in Restore, Ends(r) PROVE BesideInv'
    <3>1. /\ pc[r] \notin {"idle", "ok", "failed"} /\ pc' = [pc EXCEPT ![r] = pc'[r]]
          /\ pc'[r] \in {"clean", "failed"} /\ UNCHANGED <<rows, dbFile, committed>>
          /\ gone' = [gone EXCEPT ![r] = {}] /\ seen' = [seen EXCEPT ![r] = {}]
          /\ during' = IF r \in committed THEN during
                        ELSE [w \in Request \union Restore |-> during[w] \ {r}]
      BY <2>3 DEF Ends, Undo, fileVars
    <3>2. \A p \in Process : p # r => pc'[p] = pc[p]
      BY <3>1 DEF TypeOK
    <3>3. InSwap' = InSwap \ {r} /\ InSwap \subseteq Restore
      BY <3>1, <3>2 DEF InSwap
    <3>4. \A x \in rows : x.by # None => x.by \in Request \union Restore
      BY DEF TypeOK, Row
    <3>5. \A s \in InSwap', x \in rows : Beside(s, x) => Beside(s, x)'
      BY <3>1, <3>3, <3>4 DEF Beside
    <3>6. \A s \in InSwap' : /\ pc'[s] = pc[s] /\ gone'[s] = gone[s]
                            /\ seen'[s] = seen[s]
      BY <3>1, <3>2, <3>3 DEF TypeOK
    <3>7. \A w \in Request \union Restore : during'[w] \subseteq InSwap' \union committed'
      BY <3>1, <3>3 DEF BesideInv
    <3>8. \A b \in Backup : pc'[b] = "archive" => dbFile'[b] = "whole"
      BY <3>1, <3>2 DEF BesideInv
    <3>9. \A s \in InSwap' : pc'[s] = "cards" =>
             \A x \in Cards(rows) \ (seen'[s] \union gone'[s]) : Beside(s, x)'
      BY <3>3, <3>5, <3>6 DEF BesideInv, Cards
    <3>10. \A s \in InSwap' : pc'[s] \in {"load", "commit"} =>
             \A x \in Cards(rows) \ gone'[s] : Beside(s, x)'
      BY <3>3, <3>5, <3>6 DEF BesideInv, Cards
    <3>11. QED
      BY <3>1, <3>7, <3>8, <3>9, <3>10 DEF BesideInv, Beside
  <2>4. ASSUME NEW b \in Backup, Reserve(b)
        PROVE  BesideInv'
    BY <2>4 DEF Reserve, Goes, File, deleteVars, restoreVars, metVars, TypeOK,
        Steps, MeetInv, BesideInv, Beside, Cards, InSwap, AfterPc
  <2>5. ASSUME NEW b \in Backup, Dump(b)
        PROVE  BesideInv'
    BY <2>5 DEF Dump, Snapshot, Goes, File, deleteVars, restoreVars, metVars, TypeOK, Steps,
        MeetInv, BesideInv, Beside, Cards, InSwap, AfterPc
  <2>6. ASSUME NEW b \in Backup, Archive(b)
        PROVE  BesideInv'
    BY <2>6 DEF Archive, Goes, File, deleteVars, restoreVars, metVars, TypeOK,
        Steps, MeetInv, BesideInv, Beside, Cards, InSwap, AfterPc
  <2>7. ASSUME NEW b \in Backup, BackupFails(b) \/ RemovalFails(b)
        PROVE  BesideInv'
    <3>1. /\ UNCHANGED <<rows, seen, gone, chosen, committed, before, during>>
          /\ pc' = [pc EXCEPT ![b] = "failed"]
          /\ \E db : dbFile' = [dbFile EXCEPT ![b] = db]
      BY <2>7 DEF BackupFails, RemovalFails, Failing, RemoveReserved, Goes, File,
          deleteVars, restoreVars, metVars
    <3>2. QED
      BY <3>1 DEF Goes, TypeOK, Steps, MeetInv, BesideInv, Beside, Cards, InSwap, AfterPc
  <2>8. ASSUME NEW b \in Backup, CopyFails(b)
        PROVE  BesideInv'
    BY <2>8 DEF CopyFails, Goes, File, deleteVars, restoreVars, metVars, TypeOK,
        Steps, MeetInv, BesideInv, Beside, Cards, InSwap, AfterPc
  <2>9. ASSUME NEW b \in Backup, BackupCrashes(b)
        PROVE  BesideInv'
    <3>1. /\ UNCHANGED <<rows, seen, gone, chosen, committed, before, during>>
          /\ pc' = [pc EXCEPT ![b] = "failed"]
          /\ \E db : dbFile' = [dbFile EXCEPT ![b] = db]
      BY <2>9 DEF BackupCrashes, Failing, Snapshot, Goes, File, deleteVars, restoreVars,
          metVars
    <3>2. QED
      BY <3>1 DEF Goes, TypeOK, Steps, MeetInv, BesideInv, Beside, Cards, InSwap, AfterPc
  <2>10. ASSUME NEW r \in Restore, NEW b \in Backup, StartRestore(r, b)
        PROVE  BesideInv'
    BY <2>10 DEF StartRestore, fileVars, deleteVars, metVars, Goes, TypeOK, Steps,
        MeetInv, BesideInv, Beside, Cards, InSwap, AfterPc
  <2>11. ASSUME NEW r \in Restore, LockExpires(r)
        PROVE  BesideInv'
    BY <2>11 DEF LockExpires, fileVars, deleteVars, restoreVars, metVars, TypeOK,
        Steps, MeetInv, BesideInv, Beside, Cards, InSwap, AfterPc
  <2>12. ASSUME NEW r \in Restore, FillStage(r)
        PROVE  BesideInv'
    BY <2>12 DEF FillStage, fileVars, deleteVars, restoreVars, metVars, Goes,
        TypeOK, Steps, MeetInv, BesideInv, Beside, Cards, InSwap, AfterPc
  <2>13. ASSUME NEW r \in Restore, BeginSwap(r)
        PROVE  BesideInv'
    <3>1. /\ pc[r] = "swap" /\ pc' = [pc EXCEPT ![r] = "leads"]
          /\ UNCHANGED <<rows, dbFile, gone, committed>>
          /\ \A s \in Restore : s # r => seen'[s] = seen[s]
          /\ during' = [w \in Request \union Restore |->
                            IF w = r THEN InSwap
                            ELSE IF w \in InSwap THEN during[w] \union {r} ELSE during[w]]
      BY <2>13 DEF BeginSwap, Goes, fileVars, restoreVars, TypeOK
    <3>2. pc'[r] = "leads" /\ \A p \in Process : p # r => pc'[p] = pc[p]
      BY <3>1 DEF TypeOK
    <3>3. InSwap' = InSwap \union {r} /\ r \notin InSwap /\ InSwap \subseteq Restore
      BY <3>1, <3>2 DEF InSwap
    <3>4. r \notin committed
      BY <3>1 DEF Steps, AfterPc
    <3>5. \A x \in rows : x.by # None => (x.by \in Request \union Restore /\ x.by # r)
      BY <3>4 DEF MeetInv, TypeOK, Row
    <3>6. \A s \in InSwap, x \in rows : Beside(s, x) => Beside(s, x)'
      BY <3>1, <3>5 DEF Beside
    <3>7. \A w \in Request \union Restore : during'[w] \subseteq InSwap' \union committed'
      BY <3>1, <3>3 DEF BesideInv
    <3>8. \A b \in Backup : pc'[b] = "archive" => dbFile'[b] = "whole"
      BY <3>1, <3>2 DEF BesideInv
    <3>9. \A s \in InSwap' : pc'[s] = "cards" =>
             \A x \in Cards(rows) \ (seen'[s] \union gone[s]) : Beside(s, x)'
      BY <3>1, <3>2, <3>3, <3>6 DEF BesideInv, Cards
    <3>10. \A s \in InSwap' : pc'[s] \in {"load", "commit"} =>
             \A x \in Cards(rows) \ gone[s] : Beside(s, x)'
      BY <3>2, <3>3, <3>6 DEF BesideInv, Cards
    <3>11. QED
      BY <3>1, <3>7, <3>8, <3>9, <3>10 DEF BesideInv, Beside
  <2>14. ASSUME NEW r \in Restore, DeleteLeads(r)
        PROVE  BesideInv'
    BY <2>14 DEF DeleteLeads, Delete, fileVars, restoreVars, metVars, Goes, TypeOK,
        Steps, MeetInv, BesideInv, Beside, Cards, InSwap, AfterPc
  <2>15. ASSUME NEW r \in Restore, StartCards(r)
        PROVE  BesideInv'
    BY <2>15 DEF StartCards, fileVars, restoreVars, metVars, Goes, TypeOK, Steps,
        MeetInv, BesideInv, Beside, Cards, InSwap, AfterPc
  <2>16. ASSUME NEW r \in Restore, DeleteCards(r)
        PROVE  BesideInv'
    BY <2>16 DEF DeleteCards, Delete, fileVars, restoreVars, metVars, Goes, TypeOK,
        Steps, MeetInv, BesideInv, Beside, Cards, InSwap, AfterPc
  <2>17. ASSUME NEW r \in Restore, Load(r)
        PROVE  BesideInv'
    BY <2>17 DEF Load, fileVars, deleteVars, restoreVars, metVars, Goes, TypeOK,
        Steps, MeetInv, BesideInv, Beside, Cards, InSwap, AfterPc
  <2>18. ASSUME NEW r \in Restore, NEW heard \in BOOLEAN, Commit(r, heard)
        PROVE  BesideInv'
    <3>1. /\ pc[r] = "commit" /\ pc' = [pc EXCEPT ![r] = "clean"]
          /\ rows' = (rows \ gone[r]) \union Loaded(r)
          /\ gone' = [gone EXCEPT ![r] = {}] /\ committed' = committed \union {r}
          /\ UNCHANGED <<dbFile, seen, during>>
      BY <2>18 DEF Commit, Goes, metVars, fileVars
    <3>2. pc'[r] = "clean" /\ \A p \in Process : p # r => pc'[p] = pc[p]
      BY <3>1 DEF TypeOK
    <3>3. InSwap' = InSwap \ {r} /\ r \in InSwap /\ InSwap \subseteq Restore
      BY <3>1, <3>2 DEF InSwap
    <3>4. \A x \in Loaded(r) : x.by = r
      <4>1. dump[chosen[r]] \subseteq Row
        BY <3>1 DEF TypeOK
      <4>2. QED
        BY <4>1, LoadedFacts
    \* The other swaps know that this one has been under way.
    <3>5. \A s \in InSwap', x \in Loaded(r) : Beside(s, x)
      BY <3>3, <3>4 DEF Beside, MeetInv
    <3>6. \A s \in InSwap' : \A x : Beside(s, x) => Beside(s, x)'
      BY <3>1 DEF Beside
    <3>7. \A s \in InSwap' : gone'[s] = gone[s] /\ pc'[s] = pc[s]
      BY <3>1, <3>2, <3>3 DEF TypeOK
    <3>8. \A w \in Request \union Restore : during'[w] \subseteq InSwap' \union committed'
      BY <3>1, <3>3 DEF BesideInv
    <3>9. \A b \in Backup : pc'[b] = "archive" => dbFile'[b] = "whole"
      BY <3>1, <3>2 DEF BesideInv
    <3>10. \A s \in InSwap' : pc'[s] = "cards" =>
             \A x \in Cards(rows') \ (seen'[s] \union gone'[s]) : Beside(s, x)'
      BY <3>1, <3>3, <3>5, <3>6, <3>7 DEF BesideInv, Cards
    <3>11. \A s \in InSwap' : pc'[s] \in {"load", "commit"} =>
             \A x \in Cards(rows') \ gone'[s] : Beside(s, x)'
      BY <3>1, <3>3, <3>5, <3>6, <3>7 DEF BesideInv, Cards
    <3>12. QED
      BY <3>8, <3>9, <3>10, <3>11 DEF BesideInv, Beside
  <2>19. ASSUME NEW r \in Restore, RestoreFails(r)
        PROVE  BesideInv'
    <3>1. Ends(r)
      BY <2>19 DEF RestoreFails, Goes, Undo, fileVars, TypeOK, Ends
    <3>2. QED
      BY <2>3, <3>1
  <2>20. ASSUME NEW r \in Restore, Clean(r)
        PROVE  BesideInv'
    BY <2>20 DEF Clean, fileVars, deleteVars, metVars, Goes, TypeOK, Steps, MeetInv,
        BesideInv, Beside, Cards, InSwap, AfterPc
  <2>21. ASSUME NEW r \in Restore, NEW thrown \in BOOLEAN, CleanFails(r, thrown)
        PROVE  BesideInv'
    BY <2>21 DEF CleanFails, fileVars, deleteVars, metVars, Goes, TypeOK, Steps,
        MeetInv, BesideInv, Beside, Cards, InSwap, AfterPc
  <2>22. ASSUME NEW r \in Restore, Unlock(r)
        PROVE  BesideInv'
    BY <2>22 DEF Unlock, fileVars, deleteVars, metVars, Goes, TypeOK, Steps,
        MeetInv, BesideInv, Beside, Cards, InSwap, AfterPc
  <2>23. ASSUME NEW r \in Restore, RestoreCrashes(r)
        PROVE  BesideInv'
    <3>1. Ends(r)
      BY <2>23 DEF RestoreCrashes, Goes, Undo, fileVars, TypeOK, Ends
    <3>2. QED
      BY <2>3, <3>1
  <2>24. CASE UNCHANGED vars
    BY <2>24 DEF vars, fileVars, deleteVars, restoreVars, metVars, BesideInv, Beside,
        Cards, InSwap
  <2> HIDE DEF TypeInv, DangleInv
  <2>25. QED
    BY <2>2, <2>4, <2>5, <2>6, <2>7, <2>8, <2>9, <2>10, <2>11, <2>12, <2>13, <2>14,
       <2>15, <2>16, <2>17, <2>18, <2>19, <2>20, <2>21, <2>22, <2>23, <2>24 DEF Next
<1>3. QED
  BY <1>1, <1>2, BasicsCorrect, DangleInvariant, PTL DEF Spec
-----------------------------------------------------------------------------
\* While a restore moves, the others stay where they are in the contract.
LEMMA StageStep ==
    ASSUME TypeInv, NEW r \in Restore, NEW to, pc' = [pc EXCEPT ![r] = to],
           UNCHANGED dump, \A s \in Restore : s # r => chosen'[s] = chosen[s]
    PROVE  /\ pc'[r] = to
           /\ Stages' = [Stages EXCEPT ![r] = StageOf(r)']
           /\ Sources' = [Sources EXCEPT ![r] = SourceOf(r)']
<1>1. pc'[r] = to /\ \A s \in Restore : s # r => pc'[s] = pc[s]
  BY DEF TypeInv, TypeOK
<1>2. \A s \in Restore : s # r => StageOf(s)' = StageOf(s)
  BY <1>1 DEF StageOf, InSwap
<1>3. \A s \in Restore : s # r => SourceOf(s)' = SourceOf(s)
  BY <1>2 DEF SourceOf
<1>4. QED
  BY <1>1, <1>2, <1>3 DEF Stages, Sources

\* A step that moves a restore within a stage changes nothing in the contract.
LEMMA StageStays ==
    ASSUME TypeInv, NEW r \in Restore, NEW to, pc' = [pc EXCEPT ![r] = to],
           UNCHANGED dump, \A s \in Restore : s # r => chosen'[s] = chosen[s],
           StageOf(r)' = StageOf(r),
           StageOf(r) \in {"fetched", "swapping"} => chosen'[r] = chosen[r]
    PROVE  UNCHANGED <<Stages, Sources>>
<1>1. Stages' = [Stages EXCEPT ![r] = StageOf(r)']
      /\ Sources' = [Sources EXCEPT ![r] = SourceOf(r)']
  BY StageStep
<1>2. SourceOf(r)' = SourceOf(r)
  BY DEF SourceOf
<1>3. QED
  BY <1>1, <1>2 DEF Stages, Sources

\* Nor does a step of others, as long as the dumps in use stay as they are.
LEMMA StagesRest ==
    ASSUME TypeInv, \A s \in Restore : pc'[s] = pc[s] /\ chosen'[s] = chosen[s],
           \A s \in Restore : pc[s] \in SwapPc \union {"swap"} =>
              dump'[chosen[s]] = dump[chosen[s]]
    PROVE  UNCHANGED <<Stages, Sources>> /\ InSwap' = InSwap
<1>1. InSwap' = InSwap
  BY DEF InSwap
<1>2. \A s \in Restore : StageOf(s)' = StageOf(s)
  BY <1>1 DEF StageOf
<1>3. \A s \in Restore : StageOf(s) \in {"fetched", "swapping"} =>
         pc[s] \in SwapPc \union {"swap"}
  BY DEF StageOf, InSwap, SwapPc
<1>4. \A s \in Restore : SourceOf(s)' = SourceOf(s)
  BY <1>2, <1>3 DEF SourceOf
<1>5. QED
  BY <1>1, <1>2, <1>4 DEF Stages, Sources

\* The swaps under way are those of the contract.
LEMMA SwappingIs == TypeInv => Contract!Swapping = InSwap
BY DEF Contract!Swapping, Stages, StageOf, InSwap

\* A restore is one step for everybody else: the contract's Swap when it
\* commits, with all of a whole dump and nothing older than what was written
\* beside it, and GiveUp wherever it fails before (backups.ts:193-238).
THEOREM RestoresAreOneStep == Spec => RestoreIsOneStep
<1>1. Init => Contract!Init
  <2> SUFFICES ASSUME Init PROVE Contract!Init
    OBVIOUS
  <2>1. Stages = [r \in Restore |-> "away"] /\ Sources = [r \in Restore |-> {}]
    <3>1. \A r \in Restore : pc[r] = "idle"
      BY DEF Init
    <3>2. \A r \in Restore : StageOf(r) = "away"
      BY <3>1 DEF StageOf, InSwap
    <3>3. \A r \in Restore : SourceOf(r) = {}
      BY <3>2 DEF SourceOf
    <3>4. QED
      BY <3>2, <3>3 DEF Stages, Sources
  <2>2. WholeDumps = Earlier
    BY DEF Init, WholeDumps, Kept
  <2>3. QED
    BY <2>1, <2>2 DEF Init, Contract!Init
<1>2. TypeInv /\ DangleInv /\ BesideInv /\ [Next]_vars => [Contract!Next]_(Contract!vars)
  <2> SUFFICES ASSUME TypeInv, DangleInv, BesideInv, [Next]_vars
               PROVE  Contract!Next \/ UNCHANGED Contract!vars
    BY DEF Contract!Next
  <2> DEFINE Rest == UNCHANGED <<rows, WholeDumps, dump, Stages, Sources, during>>
  <2>1. ASSUME NEW q \in Request, NEW S, Write(q, S),
               \A x \in S : x \in rows \/ x.by = q
        PROVE  Contract!Write(q)
    <3>1. /\ pc' = [pc EXCEPT ![q] = "done"] /\ rows' = S
          /\ during' = [during EXCEPT ![q] = InSwap]
          /\ UNCHANGED <<dbFile, dump, chosen>>
      BY <2>1 DEF Write, Goes, fileVars, restoreVars
    <3>2. \A s \in Restore : pc'[s] = pc[s]
      BY <3>1 DEF TypeInv, TypeOK
    <3>3. UNCHANGED <<Stages, Sources, WholeDumps>>
      BY <3>1, <3>2, StagesRest DEF WholeDumps
    <3>4. QED
      BY <2>1, <3>1, <3>3, SwappingIs DEF Contract!Write
  \* By pg_dump, which the process waits for or has left behind.
  <2>2. ASSUME NEW b \in Backup,
               Dump(b) \/ (BackupCrashes(b) /\ pc[b] = "dump" /\ Snapshot(b))
        PROVE  Contract!TakeBackup(b)
    <3>1. /\ pc[b] = "dump" /\ \E to : pc' = [pc EXCEPT ![b] = to]
          /\ dbFile' = [dbFile EXCEPT ![b] = "whole"]
          /\ dump' = [dump EXCEPT ![b] = rows]
          /\ UNCHANGED <<rows, chosen, during>>
      BY <2>2 DEF Dump, BackupCrashes, Failing, Snapshot, Goes, File, restoreVars, metVars
    <3>2. \A s \in Restore : pc'[s] = pc[s]
      BY <3>1 DEF TypeInv, TypeOK
    \* No restore uses the file that is being written.
    <3>3. \A s \in Restore : pc[s] \in SwapPc \union {"swap"} => chosen[s] # b
      BY <3>1 DEF TypeInv, Loads
    <3>4. \A s \in Restore : dump'[chosen[s]] = dump[chosen[s]] \/ chosen[s] = b
      BY <3>1 DEF TypeInv, TypeOK
    <3>5. UNCHANGED <<Stages, Sources>>
      BY <3>1, <3>2, <3>3, <3>4, StagesRest
    <3>6. b \notin WholeDumps /\ WholeDumps' = WholeDumps \union {b}
      BY <3>1 DEF WholeDumps, TypeInv, TypeOK, Steps
    <3>7. QED
      BY <3>1, <3>5, <3>6 DEF Contract!TakeBackup
  <2>3. ASSUME NEW b \in Backup,
               \/ Reserve(b) \/ Archive(b) \/ BackupFails(b) \/ RemovalFails(b) \/ CopyFails(b)
               \/ BackupCrashes(b) /\ ~(pc[b] = "dump" /\ Snapshot(b))
        PROVE  Rest
    <3>1. /\ \E to : pc' = [pc EXCEPT ![b] = to]
          /\ UNCHANGED <<rows, dump, chosen, during>>
      BY <2>3 DEF Reserve, Archive, BackupFails, RemovalFails, RemoveReserved, CopyFails,
          BackupCrashes, Failing, Goes, File, restoreVars, metVars
    <3>2. \A s \in Restore : pc'[s] = pc[s]
      BY <3>1 DEF TypeInv, TypeOK
    <3>3. UNCHANGED <<Stages, Sources>>
      BY <3>1, <3>2, StagesRest
    \* What is whole stays so, for those who have it open.
    <3>4. WholeDumps' = WholeDumps
      <4>1. CASE Reserve(b)
        BY <4>1 DEF Reserve, Goes, File, WholeDumps, TypeInv, TypeOK, Steps
      <4>2. CASE BackupFails(b) \/ RemovalFails(b)
        <5>1. PICK db \in {dbFile[b], Removed(b)} : dbFile' = [dbFile EXCEPT ![b] = db]
          BY <4>2 DEF BackupFails, RemovalFails, RemoveReserved, File
        <5>2. db \in {"whole", "unlinked"} <=> dbFile[b] \in {"whole", "unlinked"}
          <6>1. pc[b] \in {"dump", "archive"}
            BY <4>2 DEF BackupFails, RemovalFails, Failing, Goes
          <6>2. dbFile[b] # "unlinked"
            BY <6>1, <2>3 DEF BesideInv, TypeInv, Steps
          <6>3. QED
            BY <5>1, <6>2 DEF Removed
        <5>3. QED
          BY <5>1, <5>2 DEF WholeDumps, TypeInv, TypeOK
      <4>3. CASE Archive(b) \/ CopyFails(b)
        <5>1. pc[b] = "archive" /\ dbFile' = [dbFile EXCEPT ![b] = "whole"]
          BY <4>3 DEF Archive, CopyFails, Goes, File
        <5>2. QED
          BY <5>1 DEF BesideInv, WholeDumps, TypeInv, TypeOK
      <4>4. CASE BackupCrashes(b) /\ ~(pc[b] = "dump" /\ Snapshot(b))
        <5>1. dbFile' = dbFile
          BY <4>4 DEF BackupCrashes, Goes, File, TypeInv, TypeOK
        <5>2. QED
          BY <5>1 DEF WholeDumps
      <4>5. QED
        BY <2>3, <4>1, <4>2, <4>3, <4>4
    <3>5. QED
      BY <3>1, <3>3, <3>4
  <2>4. ASSUME NEW r \in Restore, FillStage(r) PROVE Contract!Fetch(r)
    <3>1. /\ pc[r] = "fill" /\ pc' = [pc EXCEPT ![r] = "swap"]
          /\ dbFile[chosen[r]] \in {"whole", "unlinked"}
          /\ UNCHANGED <<rows, dbFile, dump, chosen, during>>
      BY <2>4 DEF FillStage, Readable, Goes, fileVars, restoreVars, metVars
    <3>2. /\ Stages' = [Stages EXCEPT ![r] = StageOf(r)']
          /\ Sources' = [Sources EXCEPT ![r] = SourceOf(r)'] /\ pc'[r] = "swap"
      BY <3>1, StageStep
    <3>3. StageOf(r) = "away" /\ StageOf(r)' = "fetched" /\ Stages[r] = StageOf(r)
      BY <3>1, <3>2 DEF Stages, StageOf, InSwap
    <3>4. SourceOf(r)' = dump[chosen[r]]
      BY <3>1, <3>3 DEF SourceOf
    <3>5. chosen[r] \in WholeDumps /\ WholeDumps' = WholeDumps
      BY <3>1 DEF WholeDumps, TypeInv, TypeOK
    <3>6. QED
      BY <3>1, <3>2, <3>3, <3>4, <3>5 DEF Contract!Fetch
  <2>5. ASSUME NEW r \in Restore, BeginSwap(r) PROVE Contract!BeginSwap(r)
    <3>1. /\ pc[r] = "swap" /\ pc' = [pc EXCEPT ![r] = "leads"]
          /\ UNCHANGED <<rows, dbFile, dump, chosen>>
          /\ during' = [w \in Request \union Restore |->
                            IF w = r THEN InSwap
                            ELSE IF w \in InSwap THEN during[w] \union {r} ELSE during[w]]
      BY <2>5 DEF BeginSwap, Goes, fileVars, restoreVars
    <3>2. /\ Stages' = [Stages EXCEPT ![r] = StageOf(r)']
          /\ Sources' = [Sources EXCEPT ![r] = SourceOf(r)'] /\ pc'[r] = "leads"
      BY <3>1, StageStep
    <3>3. StageOf(r) = "fetched" /\ StageOf(r)' = "swapping"
      BY <3>1, <3>2 DEF StageOf, InSwap
    <3>4. Sources' = Sources
      BY <3>1, <3>2, <3>3 DEF Sources, SourceOf
    <3>5. Stages[r] = "fetched"
      BY <3>3 DEF Stages
    <3>6. WholeDumps' = WholeDumps
      BY <3>1 DEF WholeDumps
    <3>7. QED
      BY <3>1, <3>2, <3>3, <3>4, <3>5, <3>6, SwappingIs DEF Contract!BeginSwap
  <2>6. ASSUME NEW r \in Restore, NEW heard \in BOOLEAN, Commit(r, heard)
        PROVE  Contract!Swap(r)
    <3>1. /\ pc[r] = "commit" /\ pc' = [pc EXCEPT ![r] = "clean"]
          /\ rows' = (rows \ gone[r]) \union Loaded(r)
          /\ UNCHANGED <<dbFile, dump, chosen, during>>
      BY <2>6 DEF Commit, Goes, fileVars, metVars
    <3>2. /\ Stages' = [Stages EXCEPT ![r] = StageOf(r)']
          /\ Sources' = [Sources EXCEPT ![r] = SourceOf(r)'] /\ pc'[r] = "clean"
      BY <3>1, StageStep
    <3>3. StageOf(r) = "swapping" /\ StageOf(r)' = "over" /\ r \in InSwap
      BY <3>1, <3>2 DEF StageOf, InSwap
    <3>4. Sources[r] = dump[chosen[r]] /\ SourceOf(r)' = {} /\ Stages[r] = "swapping"
      BY <3>3 DEF Sources, SourceOf, Stages
    <3>5. Contract!Copies(Sources[r], r) = Loaded(r)
      BY <3>4 DEF Contract!Copies, Loaded
    \* The DELETEs have taken all but what was written beside them.
    <3>6. \A x \in rows \ gone[r] : x.by \in Request \union Restore /\ r \in during[x.by]
      <4> SUFFICES ASSUME NEW x \in rows, x \notin gone[r]
                   PROVE  x.by \in Request \union Restore /\ r \in during[x.by]
        OBVIOUS
      <4>1. x.by \in Writer
        BY DEF TypeInv, TypeOK, Row
      <4>2. CASE x.ref = None
        BY <3>1, <3>3, <4>1, <4>2 DEF BesideInv, Beside, Cards
      <4>3. CASE x.ref # None
        BY <3>1, <3>3, <4>1, <4>3 DEF DangleInv, MeetInv, Leads
      <4>4. QED
        BY <4>2, <4>3
    <3>7. WholeDumps' = WholeDumps
      BY <3>1 DEF WholeDumps
    <3>8. QED
      BY <3>1, <3>2, <3>3, <3>4, <3>5, <3>6, <3>7 DEF Contract!Swap, Contract!Over
  <2>7. ASSUME NEW r \in Restore, Ends(r),
               \A s \in Restore : s # r => chosen'[s] = chosen[s]
        PROVE  Contract!GiveUp(r) \/ Rest
    <3>1. /\ pc[r] \notin {"idle", "ok", "failed"} /\ pc' = [pc EXCEPT ![r] = pc'[r]]
          /\ pc'[r] \in {"clean", "failed"} /\ UNCHANGED <<rows, dbFile, dump, committed>>
          /\ during' = IF r \in committed THEN during
                        ELSE [w \in Request \union Restore |-> during[w] \ {r}]
      BY <2>7 DEF Ends, Undo, fileVars
    <3>2. /\ Stages' = [Stages EXCEPT ![r] = StageOf(r)']
          /\ Sources' = [Sources EXCEPT ![r] = SourceOf(r)']
      BY <2>7, <3>1, StageStep
    <3>3. StageOf(r)' = "over" /\ SourceOf(r)' = {}
      BY <3>1 DEF StageOf, SourceOf, InSwap
    <3>4. WholeDumps' = WholeDumps
      BY <3>1 DEF WholeDumps
    <3>5. CASE pc[r] \in {"clean", "unlock"}
      <4>1. StageOf(r) = "over" /\ SourceOf(r) = {} /\ r \notin InSwap
        BY <3>5 DEF StageOf, SourceOf, InSwap
      <4>2. Stages' = Stages /\ Sources' = Sources
        BY <3>2, <3>3, <4>1 DEF Stages, Sources
      <4>3. r \in committed \/ \A w \in Request \union Restore : r \notin during[w]
        BY <4>1 DEF BesideInv
      <4>4. during' = during
        BY <3>1, <4>3 DEF TypeInv, TypeOK
      <4>5. QED
        BY <3>1, <3>4, <4>2, <4>4
    <3>6. CASE pc[r] \notin {"clean", "unlock"}
      <4>1. pc[r] \in SwapPc \union {"fill", "swap"} /\ r \notin committed
        BY <3>1, <3>6 DEF TypeInv, TypeOK, Steps, SwapPc, AfterPc
      <4>2. Stages[r] # "over"
        BY <4>1 DEF Stages, StageOf, InSwap, SwapPc
      <4>3. QED
        BY <3>1, <3>2, <3>3, <3>4, <4>1, <4>2 DEF Contract!GiveUp, Contract!Over
    <3>7. QED
      BY <3>5, <3>6
  <2>8. ASSUME NEW r \in Restore, RestoreFails(r) \/ RestoreCrashes(r)
        PROVE  Contract!GiveUp(r) \/ Rest
    <3>1. Ends(r) /\ \A s \in Restore : s # r => chosen'[s] = chosen[s]
      BY <2>8 DEF RestoreFails, RestoreCrashes, Goes, Undo, Release, fileVars, Ends,
          TypeInv, TypeOK
    <3>2. QED
      BY <2>7, <3>1
  <2>9. ASSUME NEW r \in Restore,
               \/ \E b \in Backup : StartRestore(r, b)
               \/ DeleteLeads(r) \/ StartCards(r) \/ DeleteCards(r) \/ Load(r)
               \/ Clean(r) \/ \E thrown \in BOOLEAN : CleanFails(r, thrown)
               \/ Unlock(r)
        PROVE  Rest
    <3>1. /\ UNCHANGED <<rows, dbFile, dump, during>>
          /\ \A s \in Restore : s # r => chosen'[s] = chosen[s]
      BY <2>9 DEF StartRestore, DeleteLeads, StartCards, DeleteCards, Delete, Load,
          Clean, CleanFails, Unlock, Release, fileVars, restoreVars, metVars, TypeInv, TypeOK
    <3>2. \E to :
             /\ pc' = [pc EXCEPT ![r] = to]
             /\ \/ pc[r] = "idle" /\ to = "fill"
                \/ pc[r] \in SwapPc /\ to \in SwapPc /\ chosen'[r] = chosen[r]
                \/ pc[r] \in {"clean", "unlock"} /\ to \in {"unlock", "ok", "failed"}
      BY <2>9 DEF StartRestore, DeleteLeads, StartCards, DeleteCards, Delete, Load,
          Clean, CleanFails, Unlock, Goes, restoreVars, SwapPc
    <3>3. PICK to :
             /\ pc' = [pc EXCEPT ![r] = to]
             /\ \/ pc[r] = "idle" /\ to = "fill"
                \/ pc[r] \in SwapPc /\ to \in SwapPc /\ chosen'[r] = chosen[r]
                \/ pc[r] \in {"clean", "unlock"} /\ to \in {"unlock", "ok", "failed"}
      BY <3>2
    <3>4. pc'[r] = to
      BY <3>3 DEF TypeInv, TypeOK
    <3>5. /\ StageOf(r)' = StageOf(r)
          /\ StageOf(r) \in {"fetched", "swapping"} => chosen'[r] = chosen[r]
      BY <3>3, <3>4 DEF StageOf, InSwap, SwapPc
    <3>6. UNCHANGED <<Stages, Sources>>
      BY <3>1, <3>3, <3>5, StageStays
    <3>7. QED
      BY <3>1, <3>6 DEF WholeDumps
  <2>10. ASSUME NEW r \in Restore, LockExpires(r) PROVE Rest
    <3>1. UNCHANGED <<rows, pc, dbFile, dump, chosen, during>>
      BY <2>10 DEF LockExpires, fileVars, restoreVars, metVars
    <3>2. QED
      BY <3>1, StagesRest DEF WholeDumps
  <2>11. CASE UNCHANGED vars
    <3>1. UNCHANGED <<rows, pc, dbFile, dump, chosen, during>>
      BY <2>11 DEF vars, fileVars, restoreVars, metVars
    <3>2. QED
      BY <3>1, StagesRest DEF WholeDumps, Contract!vars
  <2>12. ASSUME NEW q \in Request,
                AddCard(q) \/ \E x \in rows : AddLead(q, x) \/ DeleteCard(q, x)
         PROVE  Contract!Write(q)
    BY <2>1, <2>12, RequestWrites
  <2>13. Rest => UNCHANGED Contract!vars
    BY DEF Contract!vars
  <2> HIDE DEF Rest
  <2>14. ASSUME NEW b \in Backup,
                \/ Reserve(b) \/ Dump(b) \/ Archive(b) \/ BackupFails(b)
                \/ RemovalFails(b) \/ CopyFails(b) \/ BackupCrashes(b)
         PROVE  Contract!TakeBackup(b) \/ Rest
    <3>1. CASE pc[b] = "dump" /\ Snapshot(b) /\ BackupCrashes(b)
      BY <3>1, <2>2
    <3>2. CASE ~(pc[b] = "dump" /\ Snapshot(b) /\ BackupCrashes(b))
      BY <3>2, <2>2, <2>3, <2>14
    <3>3. QED
      BY <3>1, <3>2
  <2>15. QED
    BY <2>4, <2>5, <2>6, <2>8, <2>9, <2>10, <2>11, <2>12, <2>13, <2>14
       DEF Next, Contract!Next
<1>3. QED
  BY <1>1, <1>2, BasicsCorrect, DangleInvariant, BesideInvariant, PTL
     DEF Spec, RestoreIsOneStep, Contract!Spec
-----------------------------------------------------------------------------
\* A restore past its swap that has not thrown has taken effect.
DoneInv ==
    /\ \A r \in Restore : pc[r] \in {"clean", "unlock"} /\ r \notin error => r \in committed
    /\ \A r \in Restore : pc[r] = "ok" => r \in committed
    /\ \A b \in Backup : pc[b] = "archive" => dbFile[b] = "whole"
    /\ \A b \in Backup : pc[b] = "ok" => dbFile[b] = "whole" /\ upFile[b] = "whole"

\* What is reported as done has been done, though it fails in many places: the
\* rows were swapped, or both files of the pair are whole (backups.ts:106-125,
\* 193-262).
SuccessIsDone ==
    /\ \A r \in Restore : pc[r] = "ok" => r \in committed
    /\ \A b \in Backup : pc[b] = "ok" => dbFile[b] = "whole" /\ upFile[b] = "whole"

THEOREM SuccessMeansDone == Spec => []SuccessIsDone
<1>1. Init => DoneInv
  BY DEF Init, DoneInv, Kept
<1>2. TypeInv /\ DoneInv /\ [Next]_vars => DoneInv'
  <2> SUFFICES ASSUME TypeInv, DoneInv, [Next]_vars PROVE DoneInv'
    OBVIOUS
  <2> USE DEF TypeInv, DoneInv
  <2>1. ASSUME NEW q \in Request, AddCard(q) PROVE DoneInv'
    BY <2>1 DEF AddCard, Write, fileVars, deleteVars, restoreVars, Goes, TypeOK,
        Steps, SwapPc, AfterPc
  <2>2. ASSUME NEW q \in Request, NEW x \in rows, AddLead(q, x) PROVE DoneInv'
    BY <2>2 DEF AddLead, Write, fileVars, deleteVars, restoreVars, Goes, Cards,
        TypeOK, Steps, SwapPc, AfterPc
  <2>3. ASSUME NEW q \in Request, NEW x \in rows, DeleteCard(q, x) PROVE DoneInv'
    BY <2>3 DEF DeleteCard, Write, fileVars, deleteVars, restoreVars, Goes, Cards,
        TypeOK, Steps, SwapPc, AfterPc
  <2>4. ASSUME NEW b \in Backup, Reserve(b) PROVE DoneInv'
    BY <2>4 DEF Reserve, Goes, File, deleteVars, restoreVars, metVars, TypeOK,
        Steps, SwapPc, AfterPc
  <2>5. ASSUME NEW b \in Backup, Dump(b) PROVE DoneInv'
    BY <2>5 DEF Dump, Snapshot, Goes, File, deleteVars, restoreVars, metVars, TypeOK, Steps,
        SwapPc, AfterPc
  <2>6. ASSUME NEW b \in Backup, Archive(b) PROVE DoneInv'
    BY <2>6 DEF Archive, Goes, File, deleteVars, restoreVars, metVars, TypeOK,
        Steps, SwapPc, AfterPc
  <2>7. ASSUME NEW b \in Backup, BackupFails(b) \/ RemovalFails(b) PROVE DoneInv'
    <3>1. /\ UNCHANGED <<error, committed>> /\ pc' = [pc EXCEPT ![b] = "failed"]
          /\ \E db, up : /\ dbFile' = [dbFile EXCEPT ![b] = db]
                         /\ upFile' = [upFile EXCEPT ![b] = up]
      BY <2>7 DEF BackupFails, RemovalFails, Failing, RemoveReserved, Goes, File,
          restoreVars
    <3>2. QED
      BY <3>1 DEF TypeOK, Steps, SwapPc, AfterPc
  <2>8. ASSUME NEW b \in Backup, CopyFails(b) PROVE DoneInv'
    BY <2>8 DEF CopyFails, Goes, File, deleteVars, restoreVars, metVars, Excuse,
        TypeOK, Steps, SwapPc, AfterPc
  <2>9. ASSUME NEW b \in Backup, BackupCrashes(b) PROVE DoneInv'
    BY <2>9 DEF BackupCrashes, Failing, Snapshot, File, fileVars, deleteVars, restoreVars, metVars, Goes,
        Excuse, TypeOK, Steps, SwapPc, AfterPc
  <2>10. ASSUME NEW r \in Restore, NEW b \in Backup,
                StartRestore(r, b)
         PROVE  DoneInv'
    BY <2>10 DEF StartRestore, fileVars, deleteVars, metVars, Goes, TypeOK, Steps,
        SwapPc, AfterPc
  <2>11. ASSUME NEW r \in Restore, LockExpires(r) PROVE DoneInv'
    BY <2>11 DEF LockExpires, fileVars, deleteVars, restoreVars, metVars, Excuse,
        TypeOK, Steps, SwapPc, AfterPc
  <2>12. ASSUME NEW r \in Restore, FillStage(r) PROVE DoneInv'
    BY <2>12 DEF FillStage, Readable, fileVars, deleteVars, restoreVars, metVars, Goes,
        TypeOK, Steps, SwapPc, AfterPc
  <2>13. ASSUME NEW r \in Restore, BeginSwap(r) PROVE DoneInv'
    BY <2>13 DEF BeginSwap, fileVars, restoreVars, Goes, WorkspaceLeads, TypeOK,
        Steps, SwapPc, AfterPc
  <2>14. ASSUME NEW r \in Restore, DeleteLeads(r) PROVE DoneInv'
    BY <2>14 DEF DeleteLeads, Delete, fileVars, restoreVars, metVars, Goes, TypeOK,
        Steps, SwapPc, AfterPc
  <2>15. ASSUME NEW r \in Restore, StartCards(r) PROVE DoneInv'
    BY <2>15 DEF StartCards, fileVars, restoreVars, metVars, Goes, Cards, TypeOK,
        Steps, SwapPc, AfterPc
  <2>16. ASSUME NEW r \in Restore, DeleteCards(r) PROVE DoneInv'
    BY <2>16 DEF DeleteCards, Delete, fileVars, restoreVars, metVars, Goes, TypeOK,
        Steps, SwapPc, AfterPc
  <2>17. ASSUME NEW r \in Restore, Load(r) PROVE DoneInv'
    BY <2>17 DEF Load, fileVars, deleteVars, restoreVars, metVars, Goes, TypeOK,
        Steps, SwapPc, AfterPc
  <2>18. ASSUME NEW r \in Restore, NEW heard \in BOOLEAN,
                Commit(r, heard)
         PROVE  DoneInv'
    BY <2>18 DEF Commit, fileVars, metVars, Goes, Excuse, TypeOK, Steps, SwapPc,
        AfterPc
  <2>19. ASSUME NEW r \in Restore, RestoreFails(r) PROVE DoneInv'
    BY <2>19 DEF RestoreFails, fileVars, Goes, Undo, TypeOK, Steps, SwapPc, AfterPc
  <2>20. ASSUME NEW r \in Restore, Clean(r) PROVE DoneInv'
    BY <2>20 DEF Clean, fileVars, deleteVars, metVars, Goes, DropStage, TypeOK,
        Steps, SwapPc, AfterPc
  <2>21. ASSUME NEW r \in Restore, NEW thrown \in BOOLEAN,
                CleanFails(r, thrown)
         PROVE  DoneInv'
    BY <2>21 DEF CleanFails, fileVars, deleteVars, metVars, Goes, Excuse, TypeOK,
        Steps, SwapPc, AfterPc
  <2>22. ASSUME NEW r \in Restore, Unlock(r) PROVE DoneInv'
    BY <2>22 DEF Unlock, fileVars, deleteVars, metVars, Goes, Release, FreedBy, TypeOK,
        Steps, SwapPc, AfterPc
  <2>23. ASSUME NEW r \in Restore, RestoreCrashes(r) PROVE DoneInv'
    BY <2>23 DEF RestoreCrashes, fileVars, Goes, Excuse, Undo, Release, FreedBy, TypeOK,
        Steps, SwapPc, AfterPc
  <2>24. CASE UNCHANGED vars
    BY <2>24 DEF vars, fileVars, deleteVars, restoreVars, metVars, TypeOK, Steps,
        SwapPc, AfterPc
  <2> HIDE DEF TypeInv, DoneInv
  <2>25. QED
    BY <2>1, <2>2, <2>3, <2>4, <2>5, <2>6, <2>7, <2>8, <2>9, <2>10, <2>11, <2>12,
       <2>13, <2>14, <2>15, <2>16, <2>17, <2>18, <2>19, <2>20, <2>21, <2>22, <2>23,
       <2>24 DEF Next
<1>3. DoneInv => SuccessIsDone
  BY DEF DoneInv, SuccessIsDone
<1>4. QED
  BY <1>1, <1>2, <1>3, BasicsCorrect, PTL DEF Spec
-----------------------------------------------------------------------------
\* The restores that may still succeed, and those that have.
Sound == {r \in Restore : lock = r \/ pc[r] = "ok"}

\* None of them swapped beside another, and one that has not begun its swap has
\* met nobody.
ApartInv ==
    /\ \A r, s \in Sound : r # s => r \notin during[s]
    /\ \A r \in Restore : pc[r] \in {"idle", "fill", "swap"} => during[r] = {}

\* Two restores that are both reported as done swapped one after the other: of
\* two that met, because the lock of one ran out, one is reported as failed
\* (joblock.ts:49-65, backups.ts:256-262).
SuccessesTakeTurns ==
    \A r, s \in Restore :
        pc[r] = "ok" /\ pc[s] = "ok" /\ r # s => r \notin during[s]

THEOREM SuccessesAreApart == Spec => []SuccessesTakeTurns
<1>1. Init => ApartInv
  BY DEF Init, ApartInv, Sound
<1>2. TypeInv /\ TurnInv /\ BesideInv /\ ApartInv /\ [Next]_vars => ApartInv'
  <2> SUFFICES ASSUME TypeInv, TurnInv, BesideInv, ApartInv, [Next]_vars PROVE ApartInv'
    OBVIOUS
  <2> DEFINE Young == {"idle", "fill", "swap"}
  \* Most steps add nobody to any of these sets.
  <2>1. ASSUME \A s \in Restore : during'[s] \subseteq during[s],
               \A s \in Restore : lock' = s \/ pc'[s] = "ok" => lock = s \/ pc[s] = "ok",
               \A s \in Restore : pc'[s] \in Young => pc[s] \in Young
        PROVE  ApartInv'
    <3>1. Sound' \subseteq Sound
      BY <2>1 DEF Sound
    <3>2. \A s \in Sound : s \in Restore
      BY DEF Sound
    <3>3. QED
      BY <2>1, <3>1, <3>2 DEF ApartInv
  <2>2. ASSUME NEW q \in Request, NEW S, Write(q, S) PROVE ApartInv'
    <3>1. /\ \A s \in Restore : pc'[s] = pc[s] /\ during'[s] = during[s]
          /\ lock' = lock
      BY <2>2 DEF Write, Goes, TypeInv, TypeOK
    <3>2. QED
      BY <2>1, <3>1
  <2>3. ASSUME NEW b \in Backup,
               \/ Reserve(b) \/ Dump(b) \/ Archive(b) \/ BackupFails(b)
               \/ RemovalFails(b) \/ CopyFails(b) \/ BackupCrashes(b)
        PROVE  ApartInv'
    <3>1. /\ \E from, to : Goes(b, from, to)
          /\ UNCHANGED <<lock, during>>
      BY <2>3 DEF Reserve, Dump, Archive, BackupFails, RemovalFails, RemoveReserved,
          CopyFails, BackupCrashes, Failing, Snapshot, File, metVars
    <3>2. \A s \in Restore : pc'[s] = pc[s]
      BY <3>1 DEF Goes, TypeInv, TypeOK
    <3>3. QED
      BY <2>1, <3>1, <3>2
  <2>4. ASSUME NEW r \in Restore,
               \/ FillStage(r) \/ DeleteLeads(r) \/ StartCards(r) \/ DeleteCards(r)
               \/ Load(r) \/ \E heard \in BOOLEAN : Commit(r, heard)
               \/ RestoreFails(r) \/ Clean(r) \/ \E thrown \in BOOLEAN : CleanFails(r, thrown)
               \/ LockExpires(r) \/ Unlock(r) \/ RestoreCrashes(r)
        PROVE  ApartInv'
    <3>1. /\ \A s \in Restore : s # r => pc'[s] = pc[s]
          /\ pc'[r] \in Young => pc[r] \in Young
      BY <2>4 DEF FillStage, DeleteLeads, StartCards, DeleteCards, Delete, Load, Commit,
          RestoreFails, Clean, CleanFails, LockExpires, Unlock, RestoreCrashes, Goes,
          TypeInv, TypeOK
    <3>2. /\ lock' \in {lock, None}
          /\ pc'[r] = "ok" => lock = r \/ pc[r] = "ok"
      BY <2>4 DEF FillStage, DeleteLeads, StartCards, DeleteCards, Delete, Load, Commit,
          RestoreFails, Clean, CleanFails, LockExpires, Unlock, RestoreCrashes, Goes,
          Release, FreedBy, TypeInv, TypeOK
    <3>3. \A s \in Restore : during'[s] \subseteq during[s]
      BY <2>4 DEF FillStage, DeleteLeads, StartCards, DeleteCards, Delete, Load, Commit,
          RestoreFails, Clean, CleanFails, LockExpires, Unlock, RestoreCrashes, Undo,
          metVars
    <3>4. QED
      BY <2>1, <3>1, <3>2, <3>3
  \* Who has not begun a swap has met nobody, and nobody has met it.
  <2>5. \A s, w \in Restore : pc[s] \in Young => during[s] = {} /\ s \notin during[w]
    BY DEF ApartInv, BesideInv, InSwap, TypeInv, Steps, AfterPc
  <2>6. ASSUME NEW r \in Restore, NEW b \in Backup, StartRestore(r, b) PROVE ApartInv'
    <3>1. /\ pc[r] = "idle" /\ pc' = [pc EXCEPT ![r] = "fill"]
          /\ lock' = r /\ UNCHANGED during
      BY <2>6 DEF StartRestore, Goes, metVars
    <3>2. pc'[r] = "fill" /\ \A s \in Restore : s # r => pc'[s] = pc[s]
      BY <3>1 DEF TypeInv, TypeOK
    <3>3. \A s \in Sound' : s = r \/ s \in Sound
      BY <3>1, <3>2 DEF Sound
    <3>4. \A s \in Restore : r \notin during[s] /\ during[r] = {}
      BY <2>5, <3>1
    <3>5. \A s, t \in Sound' : s # t => s \notin during[t]
      BY <3>3, <3>4 DEF ApartInv, Sound
    <3>6. QED
      BY <3>1, <3>2, <3>4, <3>5 DEF ApartInv
  <2>7. ASSUME NEW r \in Restore, BeginSwap(r) PROVE ApartInv'
    <3>1. /\ pc[r] = "swap" /\ pc' = [pc EXCEPT ![r] = "leads"] /\ lock' = lock
          /\ during' = [w \in Request \union Restore |->
                            IF w = r THEN InSwap
                            ELSE IF w \in InSwap THEN during[w] \union {r} ELSE during[w]]
      BY <2>7 DEF BeginSwap, Goes
    <3>2. pc'[r] = "leads" /\ \A s \in Restore : s # r => pc'[s] = pc[s]
      BY <3>1 DEF TypeInv, TypeOK
    <3>3. Sound' = Sound
      BY <3>1, <3>2 DEF Sound
    \* Another sound one is not in its swap if r is sound, as it does not hold
    \* the lock.
    <3>4. \A s \in Sound : s # r /\ r \in Sound => s \notin InSwap
      BY <3>1 DEF Sound, InSwap, TypeInv, TypeOK
    <3>5. \A s \in Restore : pc[s] \in Young => s \notin InSwap
      BY DEF InSwap
    <3>6. ASSUME NEW s \in Sound, NEW t \in Sound, s # t PROVE s \notin during'[t]
      <4>1. s \in Restore /\ t \in Restore /\ s \notin during[t]
        BY <3>6 DEF Sound, ApartInv
      <4>2. CASE t = r
        BY <3>1, <3>4, <3>6, <4>1, <4>2
      <4>3. CASE t # r
        BY <3>1, <3>4, <3>6, <4>1, <4>3
      <4>4. QED
        BY <4>2, <4>3
    <3>7. \A s \in Restore : pc'[s] \in Young => during'[s] = {}
      BY <2>5, <3>1, <3>2, <3>5
    <3>8. QED
      BY <3>3, <3>6, <3>7 DEF ApartInv
  <2>8. CASE UNCHANGED vars
    BY <2>1, <2>8 DEF vars, metVars
  <2>9. QED
    BY <2>2, <2>3, <2>4, <2>6, <2>7, <2>8 DEF Next, AddCard, AddLead, DeleteCard
<1>3. ApartInv => SuccessesTakeTurns
  BY DEF ApartInv, SuccessesTakeTurns, Sound
<1>4. QED
  BY <1>1, <1>2, <1>3, BasicsCorrect, TurnInvariant, BesideInvariant, PTL DEF Spec
=============================================================================
