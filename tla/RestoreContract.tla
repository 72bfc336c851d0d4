--------------------------- MODULE RestoreContract ---------------------------
(***************************************************************************)
(* What backups and restores promise about the rows of a workspace, beside *)
(* requests that go on writing them.  A backup is the rows of one moment.  *)
(* A restore fetches one that is whole, and later puts all of it in the    *)
(* place of the rows in a single step.  Nothing of the rows outlives that  *)
(* step unless it was written while the restore was swapping; whatever     *)
(* else a restore does leaves the rows alone.                              *)
(***************************************************************************)
CONSTANTS
    Request,    \* those who write rows, one row each at the most
    Restore,
    Backup

VARIABLES
    rows,       \* the rows; each says who wrote it
    whole,      \* the backups that are or were complete: who has one open keeps it
    kept,       \* what each of them holds
    stage,      \* how far each restore has come
    source,     \* what it has fetched
    beside      \* the restores that were swapping when a writer wrote

Swapping == {r \in Restore : stage[r] = "swapping"}

Copies(S, r) == {[x EXCEPT !.by = r] : x \in S}

Init ==
    /\ whole \subseteq Backup
    /\ kept = [b \in Backup |-> IF b \in whole THEN rows ELSE {}]
    /\ stage = [r \in Restore |-> "away"]
    /\ source = [r \in Restore |-> {}]
    /\ beside = [w \in Request \union Restore |-> {}]

Write(q) ==
    /\ \A x \in rows' \ rows : x.by = q
    /\ beside' = [beside EXCEPT ![q] = Swapping]
    /\ UNCHANGED <<whole, kept, stage, source>>

TakeBackup(b) ==
    /\ b \notin whole
    /\ whole' = whole \union {b}
    /\ kept' = [kept EXCEPT ![b] = rows]
    /\ UNCHANGED <<rows, stage, source, beside>>

Fetch(r) ==
    /\ stage[r] = "away"
    /\ stage' = [stage EXCEPT ![r] = "fetched"]
    /\ \E b \in whole : source' = [source EXCEPT ![r] = kept[b]]
    /\ UNCHANGED <<rows, whole, kept, beside>>

BeginSwap(r) ==
    /\ stage[r] = "fetched"
    /\ stage' = [stage EXCEPT ![r] = "swapping"]
    /\ beside' = [w \in Request \union Restore |->
                     IF w = r THEN Swapping
                     ELSE IF w \in Swapping THEN beside[w] \union {r} ELSE beside[w]]
    /\ UNCHANGED <<rows, whole, kept, source>>

Over(r) ==
    /\ stage' = [stage EXCEPT ![r] = "over"]
    /\ source' = [source EXCEPT ![r] = {}]
    /\ UNCHANGED <<whole, kept>>

Swap(r) ==
    /\ stage[r] = "swapping"
    /\ Copies(source[r], r) \subseteq rows'
    /\ \A x \in rows' \ Copies(source[r], r) :
          x \in rows /\ x.by \in Request \union Restore /\ r \in beside[x.by]
    /\ Over(r)
    /\ UNCHANGED beside

\* A restore that is given up is one that nobody wrote beside.
GiveUp(r) ==
    /\ stage[r] # "over"
    /\ Over(r)
    /\ beside' = [w \in Request \union Restore |-> beside[w] \ {r}]
    /\ UNCHANGED rows

Next ==
    \/ \E q \in Request : Write(q)
    \/ \E b \in Backup : TakeBackup(b)
    \/ \E r \in Restore : Fetch(r) \/ BeginSwap(r) \/ Swap(r) \/ GiveUp(r)

vars == <<rows, whole, kept, stage, source, beside>>

Spec == Init /\ [][Next]_vars
===============================================================================
