----------------------------- MODULE Provisioning -----------------------------
(***************************************************************************)
(* How employees come to have users and cards: SCIM (src/routes/scim.ts),  *)
(* the first SSO sign-in (src/jit.ts), the import wizards                  *)
(* (src/dirimport.ts, src/routes/admin/console.ts), the card form and the  *)
(* API (src/routes/admin/cards.ts, src/routes/api.ts); how the two rows    *)
(* are switched on and off; and the check of cards against the directory.  *)
(* Every request looks first and inserts in a later statement, and any two *)
(* may be under way.  The organisation has a store; the search for a slug  *)
(* that comes before each insert is in CardTurnover, here an insert may    *)
(* fail for that reason as for any other.                                  *)
(***************************************************************************)
EXTENDS Integers

CONSTANTS
    Address,    \* email addresses, as they are written
    Low,        \* the same address in lower case
    NoAddress,
    Sent,       \* addresses SCIM may send
    Signing,    \* addresses of people who sign in for the first time
    Written,    \* owners a form or an API client may write
    Files,      \* whom an import may select: sets of addresses
    Disabled,   \* people who are disabled in the directory
    Request,
    MaxCards    \* bound: cards ever made

ASSUME ProvisioningAssumption ==
    /\ NoAddress \notin Address
    /\ Low \in [Address -> Address]
    /\ Sent \union Written \subseteq Address
    /\ Signing \subseteq {a \in Address : Low[a] = a}
    /\ Files \subseteq (SUBSET {a \in Address : Low[a] = a}) \ {{}}
    /\ MaxCards \in Nat

Card == 1 .. MaxCards

VARIABLES
    user,       \* User rows by their email, active or not
    row,        \* whether each card is in the database
    owner,      \* Card.ownerEmail
    active,     \* Card.active
    holder,     \* Card.userId, as the email of the user
    pc,         \* where each request stands
    kind,       \* what it is
    rows,       \* the people it is about, then those it is to create
    todo,       \* those of them it has not come to
    taken,      \* those with a user, between its two lookups
    page,       \* the cards a directory check lists, or is to switch off
    late,       \* history: cards made or given an owner since a request began
    loose       \* history: cards switched on or off without their user

cardVars == <<row, owner, active, holder>>
requestVars == <<pc, kind, rows, todo, taken, page>>
vars == <<user, cardVars, requestVars, late, loose>>

TypeOK ==
    /\ user \in [Address -> {"none", "active", "inactive"}]
    /\ row \in [Card -> {"none", "stored", "gone"}]
    /\ owner \in [Card -> Address \union {NoAddress}]
    /\ active \in [Card -> BOOLEAN]
    /\ holder \in [Card -> Address \union {NoAddress}]
    /\ pc \in [Request -> {"idle", "users", "cards", "insert", "done", "page", "sync"}]
    /\ kind \in [Request -> {"none", "scim", "jit", "import", "sync"}]
    /\ rows \in [Request -> SUBSET Address]
    /\ todo \in [Request -> SUBSET Address]
    /\ \A r \in Request : pc[r] \in {"users", "cards"} => todo[r] = rows[r]
    /\ \A r \in Request : pc[r] \in {"users", "cards", "insert"} => todo[r] # {}
    /\ taken \in [Request -> SUBSET Address]
    /\ page \in [Request -> SUBSET Card]
    /\ late \in [Request -> SUBSET Card]
    /\ loose \subseteq Card

Init ==
    /\ user = [a \in Address |-> "none"]
    /\ row = [c \in Card |-> "none"]
    /\ owner = [c \in Card |-> NoAddress]
    /\ active = [c \in Card |-> FALSE]
    /\ holder = [c \in Card |-> NoAddress]
    /\ pc = [r \in Request |-> "idle"]
    /\ kind = [r \in Request |-> "none"]
    /\ rows = [r \in Request |-> {}]
    /\ todo = [r \in Request |-> {}]
    /\ taken = [r \in Request |-> {}]
    /\ page = [r \in Request |-> {}]
    /\ late = [r \in Request |-> {}]
    /\ loose = {}

Stored == {c \in Card : row[c] = "stored"}

Held(c) == holder[c] # NoAddress

\* Every request under way may have looked before card c came to be as it is.
Overtaken(c) ==
    [r \in Request |-> IF pc[r] \in {"users", "cards", "insert"} THEN late[r] \union {c}
                                                                 ELSE late[r]]

\* The request is over and nothing is left of it.
Close(r) ==
    /\ pc' = [pc EXCEPT ![r] = "idle"]
    /\ kind' = [kind EXCEPT ![r] = "none"]
    /\ rows' = [rows EXCEPT ![r] = {}]
    /\ todo' = [todo EXCEPT ![r] = {}]
    /\ taken' = [taken EXCEPT ![r] = {}]
    /\ page' = [page EXCEPT ![r] = {}]

CloseUnseen(r) == Close(r) /\ late' = [late EXCEPT ![r] = {}]

\* Mutant: the end of the list is not noticed.
EndlessList(left) == "insert"

AfterRow(left) == IF left = {} THEN "done" ELSE "insert"

\* An import goes on with who is left of its list, then shows its counts.
GoOn(r, left) ==
    /\ todo' = [todo EXCEPT ![r] = left]
    /\ pc' = [pc EXCEPT ![r] = AfterRow(left)]
    /\ UNCHANGED <<kind, page>>
-----------------------------------------------------------------------------
(* The lookups *)

Ask(r, k, list) ==
    /\ pc[r] = "idle"
    /\ pc' = [pc EXCEPT ![r] = "users"]
    /\ kind' = [kind EXCEPT ![r] = k]
    /\ rows' = [rows EXCEPT ![r] = list]
    /\ todo' = [todo EXCEPT ![r] = list]
    /\ UNCHANGED <<user, cardVars, taken, page, late, loose>>

\* SCIM takes the address as it is sent.
AskScim(r, a) == Ask(r, "scim", {a})

AskJit(r, a) == Ask(r, "jit", {a})

\* The people ticked among those of the directory, which is fetched again when
\* the import is applied, or of a spreadsheet.  Who is disabled in the
\* directory is left out; an import of nobody does nothing.
AskDirectory(r, f) == f \ Disabled # {} /\ Ask(r, "import", f \ Disabled)

AskCsv(r, f) == Ask(r, "import", f)

\* Who is created alone is created only if the lookup finds nobody.
Alone(r) == kind[r] \in {"scim", "jit"}

AfterUsers(r) == IF kind[r] = "scim" THEN "insert" ELSE "cards"

\* Mutant: the lookup takes only active users for existing ones.
ActiveUsers(r) == {a \in rows[r] : user[a] = "active"}

\* Users are looked up by the very address.
UsersFound(r) == {a \in rows[r] : user[a] # "none"}

FindUser(r) ==
    /\ pc[r] = "users"
    /\ Alone(r)
    /\ UsersFound(r) # {}
    /\ CloseUnseen(r)
    /\ UNCHANGED <<user, cardVars, loose>>

ReadUsers(r) ==
    /\ pc[r] = "users"
    /\ ~Alone(r) \/ UsersFound(r) = {}
    /\ taken' = [taken EXCEPT ![r] = UsersFound(r)]
    /\ pc' = [pc EXCEPT ![r] = AfterUsers(r)]
    /\ UNCHANGED <<user, cardVars, kind, rows, todo, page, late, loose>>

\* Mutant: the owner's address is compared as it is written.
OwnedExactly(a) == \E c \in Stored : owner[c] = a

\* Cards are looked up by their owner's address in either case.
Owned(a) == \E c \in Stored : owner[c] # NoAddress /\ Low[owner[c]] = a

CardsFound(r) == {a \in rows[r] : Owned(a)}

FindCard(r) ==
    /\ pc[r] = "cards"
    /\ Alone(r)
    /\ CardsFound(r) # {}
    /\ CloseUnseen(r)
    /\ UNCHANGED <<user, cardVars, loose>>

FindNoCard(r) ==
    /\ pc[r] = "cards"
    /\ Alone(r)
    /\ CardsFound(r) = {}
    /\ pc' = [pc EXCEPT ![r] = "insert"]
    /\ UNCHANGED <<user, cardVars, kind, rows, todo, taken, page, late, loose>>

\* An import drops who has a user or a card.
Screen(r) ==
    /\ pc[r] = "cards"
    /\ ~Alone(r)
    /\ LET fresh == rows[r] \ (taken[r] \union CardsFound(r))
       IN  rows' = [rows EXCEPT ![r] = fresh] /\ GoOn(r, fresh)
    /\ taken' = [taken EXCEPT ![r] = {}]
    /\ UNCHANGED <<user, cardVars, late, loose>>
-----------------------------------------------------------------------------
(* The insert *)

\* Card ids are given in order.
IsNext(c) == row[c] = "none" /\ \A d \in Card : d < c => row[d] # "none"

NewCard(c, a, of, on) ==
    /\ IsNext(c)
    /\ row' = [row EXCEPT ![c] = "stored"]
    /\ owner' = [owner EXCEPT ![c] = a]
    /\ active' = [active EXCEPT ![c] = on]
    /\ holder' = [holder EXCEPT ![c] = of]

\* One transaction makes the user, whose address the unique index
\* User(orgId, email) must allow, and the card.
NewEmployee(a, c, on) ==
    /\ user[a] = "none"
    /\ NewCard(c, a, a, on)
    /\ user' = [user EXCEPT ![a] = IF on THEN "active" ELSE "inactive"]

\* Only SCIM may make them inactive.
Insert(r, a, c, on) ==
    /\ pc[r] = "insert"
    /\ Alone(r)
    /\ a \in todo[r]
    /\ on \/ kind[r] = "scim"
    /\ NewEmployee(a, c, on)
    /\ Close(r)
    /\ late' = [Overtaken(c) EXCEPT ![r] = {}]
    /\ UNCHANGED loose

\* An import goes through its list in the order of its source.
InsertRow(r, a, c) ==
    /\ pc[r] = "insert"
    /\ ~Alone(r)
    /\ a \in todo[r]
    /\ NewEmployee(a, c, TRUE)
    /\ GoOn(r, todo[r] \ {a})
    /\ late' = Overtaken(c)
    /\ UNCHANGED <<rows, taken, loose>>

\* Mutant: every error counts as a row to skip.
SkipRow(r, a) ==
    \/ Alone(r) /\ CloseUnseen(r)
    \/ ~Alone(r) /\ GoOn(r, todo[r] \ {a}) /\ UNCHANGED <<rows, taken, late>>

AfterFailure(r, a) == CloseUnseen(r)

\* It fails, as it must when the index forbids it, or the slug was taken, or
\* the address is in the import twice: only the limit error, which nothing
\* throws any more, would skip a row; any other ends the request.
InsertFails(r, a) ==
    /\ pc[r] = "insert"
    /\ a \in todo[r]
    /\ AfterFailure(r, a)
    /\ UNCHANGED <<user, cardVars, loose>>

\* The card form and the API look nobody up, make no user, and may name no
\* owner.
InsertByHand(c, a, on) ==
    /\ NewCard(c, a, NoAddress, on)
    /\ late' = Overtaken(c)
    /\ UNCHANGED <<user, requestVars, loose>>

\* A refusal, an error, a crash, or an admin who leaves the page.
Abandon(r) ==
    /\ pc[r] # "idle"
    /\ CloseUnseen(r)
    /\ UNCHANGED <<user, cardVars, loose>>
-----------------------------------------------------------------------------
(* Changes of what is there *)

\* SCIM PUT, PATCH and DELETE: the user and its card in one statement, which
\* fails as a whole when the card was deleted.
SetActive(a, on) ==
    /\ user[a] # "none"
    /\ \E c \in Stored : holder[c] = a
    /\ user' = [user EXCEPT ![a] = IF on THEN "active" ELSE "inactive"]
    /\ active' = [c \in Card |-> IF c \in Stored /\ holder[c] = a THEN on ELSE active[c]]
    /\ loose' = {c \in loose : holder[c] # a}
    /\ UNCHANGED <<row, owner, holder, requestVars, late>>

\* PATCH /cards/:id with a value of active.
SetCardActive(c, on) ==
    /\ c \in Stored
    /\ active' = [active EXCEPT ![c] = on]
    /\ loose' = IF Held(c) THEN loose \union {c} ELSE loose
    /\ UNCHANGED <<user, row, owner, holder, requestVars, late>>

\* The card editor, or PATCH /cards/:id, with another owner or none.
SetOwner(c, a) ==
    /\ c \in Stored
    /\ owner' = [owner EXCEPT ![c] = a]
    /\ late' = Overtaken(c)
    /\ UNCHANGED <<user, row, active, holder, requestVars, loose>>

\* The turnover form switches the card off and leaves the user.
Offboard(c) ==
    /\ c \in Stored
    /\ active' = [active EXCEPT ![c] = FALSE]
    /\ owner' = [owner EXCEPT ![c] = NoAddress]
    /\ loose' = IF Held(c) THEN loose \union {c} ELSE loose
    /\ UNCHANGED <<user, row, holder, requestVars, late>>

\* The user stays, without a card.
DeleteCard(c) ==
    /\ c \in Stored
    /\ row' = [row EXCEPT ![c] = "gone"]
    /\ owner' = [owner EXCEPT ![c] = NoAddress]
    /\ active' = [active EXCEPT ![c] = FALSE]
    /\ loose' = loose \ {c}
    /\ UNCHANGED <<user, holder, requestVars, late>>
-----------------------------------------------------------------------------
(* The check of cards against the directory *)

\* The owners of some active cards are not in the directory, or disabled there.
SyncCheck(r, orphans) ==
    /\ pc[r] = "idle"
    /\ \A c \in orphans : c \in Stored /\ active[c] /\ owner[c] # NoAddress
    /\ pc' = [pc EXCEPT ![r] = "page"]
    /\ kind' = [kind EXCEPT ![r] = "sync"]
    /\ page' = [page EXCEPT ![r] = orphans]
    /\ UNCHANGED <<user, cardVars, rows, todo, taken, late, loose>>

\* The cards ticked on the page, however old, that are still in the database.
SyncRead(r, ticked) ==
    /\ pc[r] = "page"
    /\ ticked \subseteq page[r]
    /\ pc' = [pc EXCEPT ![r] = "sync"]
    /\ page' = [page EXCEPT ![r] = ticked \intersect Stored]
    /\ UNCHANGED <<user, cardVars, kind, rows, todo, taken, late, loose>>

\* Mutant: the users are left active.
NoUsers(r) == {}

UsersOf(r) == {holder[c] : c \in page[r]}

\* One transaction, over the cards that are left and the users read before.
SyncCommit(r) ==
    /\ pc[r] = "sync"
    /\ active' = [c \in Card |-> active[c] /\ c \notin page[r]]
    /\ user' = [a \in Address |-> IF a \in UsersOf(r) THEN "inactive" ELSE user[a]]
    /\ loose' = loose \ page[r]
    /\ CloseUnseen(r)
    /\ UNCHANGED <<row, owner, holder>>
-----------------------------------------------------------------------------
Next ==
    \/ \E r \in Request :
        \/ \E a \in Sent : AskScim(r, a)
        \/ \E a \in Signing : AskJit(r, a)
        \/ \E f \in Files : AskDirectory(r, f) \/ AskCsv(r, f)
        \/ FindUser(r) \/ ReadUsers(r) \/ FindCard(r) \/ FindNoCard(r) \/ Screen(r)
        \/ \E a \in todo[r], c \in Card, on \in BOOLEAN : Insert(r, a, c, on)
        \/ \E a \in todo[r], c \in Card : InsertRow(r, a, c)
        \/ \E a \in todo[r] : InsertFails(r, a)
        \/ Abandon(r)
        \/ \E orphans \in SUBSET Card : SyncCheck(r, orphans)
        \/ \E ticked \in SUBSET Card : SyncRead(r, ticked)
        \/ SyncCommit(r)
    \/ \E a \in Address, on \in BOOLEAN : SetActive(a, on)
    \/ \E c \in Card, a \in Written \union {NoAddress}, on \in BOOLEAN : InsertByHand(c, a, on)
    \/ \E c \in Card, a \in Written \union {NoAddress} : SetOwner(c, a)
    \/ \E c \in Card, on \in BOOLEAN : SetCardActive(c, on)
    \/ \E c \in Card : Offboard(c) \/ DeleteCard(c)

Spec == Init /\ [][Next]_vars
-----------------------------------------------------------------------------
(* Properties *)

\* JIT and the imports are to create a person "if (and only if) this email has
\* neither" user nor card (jit.ts:71).  A card that is theirs in any spelling
\* when they are created came to be theirs after the request had begun.
NoOldOwner ==
    \A r \in Request :
        pc[r] = "insert" /\ kind[r] \in {"jit", "import"} =>
            \A c \in Stored :
                owner[c] # NoAddress /\ Low[owner[c]] \in todo[r] => c \in late[r]

\* An insert is refused because the user exists only if the user was created
\* after the request had begun (scim.ts:145, jit.ts:79, dirimport.ts:214).
RefusalIsRace ==
    \A r \in Request :
        pc[r] = "insert" =>
            \A a \in todo[r] : user[a] # "none" => \E c \in late[r] : holder[c] = a

\* A user and its card are switched on and off together, by SCIM and by the
\* directory check; only turnover and the API leave them apart.
InStep ==
    \A c \in Stored \ loose :
        Held(c) => (active[c] <=> user[holder[c]] = "active")

\* An import that reports its counts has left nobody out (dirimport.ts:245-295):
\* everybody who was not there when it looked has a user.
FinishedImportIsComplete ==
    \A r \in Request :
        pc[r] = "done" => \A a \in rows[r] : user[a] # "none"
===============================================================================
