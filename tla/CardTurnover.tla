----------------------------- MODULE CardTurnover -----------------------------
(***************************************************************************)
(* The cards of one location and their leads when employees leave: the     *)
(* turnover form (src/routes/admin/cards.ts, src/turnover.ts), with the    *)
(* card editor, the card API (src/routes/api.ts), the capture of leads     *)
(* (src/routes/cards.ts) and the search for a free slug (src/slug.ts)      *)
(* around it.  A turnover moves the leads, switches the card off and makes *)
(* the replacement in statements of their own, and may stop after any.     *)
(*                                                                         *)
(* Each request is made once, and the card or the lead it creates bears    *)
(* its name.  All employees have the same name, so the slugs are jo-doe,   *)
(* jo-doe-2, ...: the number is the slug.                                  *)
(***************************************************************************)
EXTENDS Integers

CONSTANTS
    Request,
    Old,        \* the cards that are there in the beginning
    OldSlug,    \* their slugs
    None

ASSUME CardTurnoverAssumption ==
    /\ OldSlug \subseteq Nat \ {0}
    /\ Old \intersect Request = {}
    /\ None \notin Old \union Request

Name == Old \union Request
Maybe == Name \union {None}

VARIABLES
    row,        \* Card: absent, active, inactive or deleted
    slug,       \* Card.slug
    owned,      \* the cards with an ownerEmail
    redirect,   \* the slug in Card.redirectUrl, 0 when it leads to no card
    at,         \* Lead.cardId, None for a lead not stored or deleted
    pc,         \* where each request stands
    card,       \* the card it is about
    choice,     \* the slug its form redirects to
    target,     \* the card its form transfers the leads to
    shown,      \* the ownerEmail its page showed, or its admin typed
    cand,       \* the slug its search has come to
    met,        \* history: the requests that were under way with it
    by,         \* history: the turnover that switched the card off
    arrived,    \* history: who put the lead where it is
    stray,      \* history: leads handed to a card that was turned over already
    woken       \* history: cards switched on again after a turnover

cardVars == <<row, slug, owned, redirect, by, woken>>
leadVars == <<at, arrived, stray>>
formVars == <<card, choice, target, shown, cand>>
vars == <<cardVars, leadVars, formVars, pc, met>>

There(c) == row[c] \in {"on", "off"}

TypeOK ==
    /\ row \in [Name -> {"none", "on", "off", "gone"}]
    /\ slug \in [Name -> Nat]
    /\ owned \subseteq Name
    /\ redirect \in [Name -> Nat]
    /\ at \in [Request -> Maybe]
    /\ pc \in [Request -> {"idle", "check", "target", "move", "offboard", "probe",
                           "insert", "store", "save", "saved", "done"}]
    /\ card \in [Request -> Maybe]
    /\ choice \in [Request -> Nat]
    /\ target \in [Request -> Maybe]
    /\ shown \in [Request -> {"nobody", "owner", "typed"}]
    /\ cand \in [Request -> Nat]
    /\ met \in [Request -> SUBSET Request]
    /\ by \in [Name -> Request \union {None}]
    /\ arrived \in [Request -> Request]
    /\ stray \subseteq Request
    /\ woken \subseteq Name
    /\ \A l \in Request : at[l] # None => There(at[l])
    /\ \A c \in Name : There(c) =>
          slug[c] # 0 /\ \A d \in Name : There(d) /\ slug[d] = slug[c] => d = c

Init ==
    /\ row = [c \in Name |-> IF c \in Old THEN "on" ELSE "none"]
    /\ \E f \in [Old -> OldSlug] :
          /\ \A c, d \in Old : f[c] = f[d] => c = d
          /\ slug = [c \in Name |-> IF c \in Old THEN f[c] ELSE 0]
    /\ owned = Old
    /\ redirect = [c \in Name |-> 0]
    /\ at = [l \in Request |-> None]
    /\ pc = [r \in Request |-> "idle"]
    /\ card = [r \in Request |-> None]
    /\ choice = [r \in Request |-> 0]
    /\ target = [r \in Request |-> None]
    /\ shown = [r \in Request |-> "nobody"]
    /\ cand = [r \in Request |-> 0]
    /\ met = [r \in Request |-> {}]
    /\ by = [c \in Name |-> None]
    /\ arrived = [l \in Request |-> l]
    /\ stray = {}
    /\ woken = {}

UnderWay == {q \in Request : pc[q] \notin {"idle", "saved", "done"}}

\* Request r, about card c, begins and goes to step p.
Begin(r, c, p) ==
    /\ pc[r] = "idle"
    /\ pc' = [pc EXCEPT ![r] = p]
    /\ card' = [card EXCEPT ![r] = c]
    /\ met' = [q \in Request |-> IF q = r THEN UnderWay
                                 ELSE IF q \in UnderWay THEN met[q] \union {r} ELSE met[q]]

GoTo(r, from, to) ==
    /\ pc[r] = from
    /\ pc' = [pc EXCEPT ![r] = to]
    /\ UNCHANGED <<card, met>>

\* It ends, and what it held is forgotten.
End(r, from) ==
    /\ pc[r] = from
    /\ pc' = [pc EXCEPT ![r] = "done"]
    /\ card' = [card EXCEPT ![r] = None]
    /\ choice' = [choice EXCEPT ![r] = 0]
    /\ cand' = [cand EXCEPT ![r] = 0]
    /\ shown' = [shown EXCEPT ![r] = "nobody"]
    /\ UNCHANGED met
-----------------------------------------------------------------------------
(* Turnover *)

\* The cards an old page may offer besides c.
Offered(c) == {d \in Name : slug[d] \notin {0, slug[c]}}

\* What is left to look up before the card goes off.
AfterRedirect(x) == IF x = None THEN "offboard" ELSE "target"

\* The form arrives: redirect to the card d, hand the leads to the card x.
StartTurnover(r, c, d, x) ==
    /\ There(c)
    /\ Begin(r, c, IF d = None THEN AfterRedirect(x) ELSE "check")
    /\ choice' = [choice EXCEPT ![r] = IF d = None THEN 0 ELSE slug[d]]
    /\ target' = [target EXCEPT ![r] = x]
    /\ UNCHANGED <<cardVars, leadVars, shown, cand>>

\* Mutant: the redirect target need only exist.
AnyCard(d) == There(d)

Redirectable(d) == row[d] = "on"

CheckRedirect(r) ==
    /\ GoTo(r, "check", AfterRedirect(target[r]))
    /\ choice' = IF \E d \in Name : slug[d] = choice[r] /\ Redirectable(d)
                 THEN choice ELSE [choice EXCEPT ![r] = 0]
    /\ UNCHANGED <<cardVars, leadVars, target, shown, cand>>

\* The new holder of the leads need not be active.
FindTarget(r) ==
    /\ GoTo(r, "target", "move")
    /\ There(target[r])
    /\ UNCHANGED <<cardVars, leadVars, choice, target, shown, cand>>

KeepLeads(r) ==
    /\ GoTo(r, "target", "offboard")
    /\ ~There(target[r])
    /\ target' = [target EXCEPT ![r] = None]
    /\ UNCHANGED <<cardVars, leadVars, choice, shown, cand>>

LeadsOf(c) == {l \in Request : at[l] = c}

\* The foreign key refuses a target that was deleted since (see Stop).
MoveLeads(r) ==
    /\ GoTo(r, "move", "offboard")
    /\ There(target[r]) \/ LeadsOf(card[r]) = {}
    /\ at' = [l \in Request |-> IF at[l] = card[r] THEN target[r] ELSE at[l]]
    /\ arrived' = [l \in Request |-> IF at[l] = card[r] THEN r ELSE arrived[l]]
    /\ stray' = IF by[target[r]] = None THEN stray \ LeadsOf(card[r])
                                       ELSE stray \union LeadsOf(card[r])
    /\ UNCHANGED <<cardVars, formVars>>

\* Mutant: the owner stays.
OwnerKept(c) == owned

\* What offboardCardUpdate makes of the owners.
OwnersLeft(c) == owned \ {c}

\* The card goes off, and the form may ask for a replacement.
Offboard(r) ==
    /\ \/ End(r, "offboard")
       \/ /\ GoTo(r, "offboard", "probe")
          /\ cand' = [cand EXCEPT ![r] = 1]
          /\ UNCHANGED <<choice, shown>>
    /\ There(card[r])
    /\ row' = [row EXCEPT ![card[r]] = "off"]
    /\ owned' = OwnersLeft(card[r])
    /\ redirect' = [redirect EXCEPT ![card[r]] = choice[r]]
    /\ by' = [by EXCEPT ![card[r]] = r]
    /\ UNCHANGED <<slug, woken, leadVars, target>>
-----------------------------------------------------------------------------
(* New cards, by the form, the API or a turnover *)

CreateCard(r) ==
    /\ Begin(r, None, "probe")
    /\ cand' = [cand EXCEPT ![r] = 1]
    /\ UNCHANGED <<cardVars, leadVars, choice, target, shown>>

\* Mutant: the search looks at active cards only.
TakenByActive(s) == \E c \in Name : row[c] = "on" /\ slug[c] = s

Taken(s) == \E c \in Name : There(c) /\ slug[c] = s

\* uniqueSlug
ProbeNext(r) ==
    /\ Taken(cand[r])
    /\ GoTo(r, "probe", "probe")
    /\ cand' = [cand EXCEPT ![r] = cand[r] + 1]
    /\ UNCHANGED <<cardVars, leadVars, choice, target, shown>>

ProbeFree(r) ==
    /\ ~Taken(cand[r])
    /\ GoTo(r, "probe", "insert")
    /\ UNCHANGED <<cardVars, leadVars, choice, target, shown, cand>>

\* The unique index refuses a slug taken since (see Stop).
Insert(r) ==
    /\ \A c \in Name : There(c) => slug[c] # cand[r]
    /\ End(r, "insert")
    /\ row' = [row EXCEPT ![r] = "on"]
    /\ slug' = [slug EXCEPT ![r] = cand[r]]
    /\ owned' = owned \union {r}
    /\ UNCHANGED <<redirect, by, woken, leadVars, target>>
-----------------------------------------------------------------------------
(* What goes on meanwhile *)

\* Mutant: a deactivated card still takes leads.
AnyServed(c) == There(c)

\* loadCard
Served(c) == row[c] = "on"

Connect(r, c) ==
    /\ Served(c)
    /\ Begin(r, c, "store")
    /\ UNCHANGED <<cardVars, leadVars, choice, target, shown, cand>>

StoreLead(r) ==
    /\ End(r, "store")
    /\ There(card[r])
    /\ at' = [at EXCEPT ![r] = card[r]]
    /\ arrived' = [arrived EXCEPT ![r] = r]
    /\ UNCHANGED <<cardVars, target, stray>>

\* The editor's page shows the owner's address, and the admin leaves it as it is
\* or types one in; the form writes it with everything else.
OpenEditor(r, c, typed) ==
    /\ There(c)
    /\ Begin(r, c, "save")
    /\ shown' = [shown EXCEPT ![r] = IF typed THEN "typed"
                                     ELSE IF c \in owned THEN "owner" ELSE "nobody"]
    /\ UNCHANGED <<cardVars, leadVars, choice, target, cand>>

SaveCard(r) ==
    /\ GoTo(r, "save", "saved")
    /\ There(card[r])
    /\ owned' = IF shown[r] = "nobody" THEN owned \ {card[r]} ELSE owned \union {card[r]}
    /\ UNCHANGED <<row, slug, redirect, by, woken, leadVars, choice, target, shown, cand>>

\* Mutant: the leads of a deleted card stay.
Orphans(c) == at

Cascade(c) == [l \in Request |-> IF at[l] = c THEN None ELSE at[l]]

DeleteCard(r, c) ==
    /\ There(c)
    /\ Begin(r, None, "done")
    /\ row' = [row EXCEPT ![c] = "gone"]
    /\ at' = Cascade(c)
    /\ owned' = owned \ {c} /\ woken' = woken \ {c} /\ stray' = stray \ LeadsOf(c)
    /\ redirect' = [redirect EXCEPT ![c] = 0] /\ by' = [by EXCEPT ![c] = None]
    /\ UNCHANGED <<slug, arrived, choice, target, shown, cand>>

\* PATCH /cards/:id with { active }, which leaves the redirect where it is.  One
\* with { ownerEmail } does what an editor with a typed address does (SaveCard).
PatchActive(r, c, b) ==
    /\ There(c)
    /\ Begin(r, None, "done")
    /\ row' = [row EXCEPT ![c] = IF b THEN "on" ELSE "off"]
    /\ woken' = IF b /\ row[c] = "off" /\ by[c] # None THEN woken \union {c} ELSE woken
    /\ UNCHANGED <<slug, owned, redirect, by, leadVars, choice, target, shown, cand>>

\* A handler ends early: 404, an error of the database, or a crash.
Stop(r) ==
    /\ r \in UnderWay
    /\ End(r, pc[r])
    /\ target' = IF pc[r] \in {"probe", "insert"} THEN target ELSE [target EXCEPT ![r] = None]
    /\ UNCHANGED <<cardVars, leadVars>>

Next ==
    \E r \in Request :
        \/ \E c \in Name : \E d, x \in Offered(c) \union {None} : StartTurnover(r, c, d, x)
        \/ CheckRedirect(r) \/ FindTarget(r) \/ KeepLeads(r)
        \/ MoveLeads(r) \/ Offboard(r)
        \/ CreateCard(r) \/ ProbeNext(r) \/ ProbeFree(r) \/ Insert(r)
        \/ \E c \in Name : Connect(r, c)
        \/ StoreLead(r)
        \/ \E c \in Name, typed \in BOOLEAN : OpenEditor(r, c, typed)
        \/ SaveCard(r)
        \/ \E c \in Name : DeleteCard(r, c)
        \/ \E c \in Name, b \in BOOLEAN : PatchActive(r, c, b)
        \/ Stop(r)

Spec == Init /\ [][Next]_vars
-----------------------------------------------------------------------------
(* Properties *)

\* A lead on a card whose leads a turnover handed over was captured or moved
\* there while that turnover was under way, though they move in one statement
\* and the card goes off in a later one; or an old page handed it to that card,
\* or the card was switched on again
\* (routes/admin/cards.ts:276-287, routes/cards.ts:194-213).
NoLeadLeftBehind ==
    \A c \in Name \ woken : by[c] # None /\ target[by[c]] # None =>
        \A l \in LeadsOf(c) \ stray : arrived[l] \in met[by[c]]

Redirecting == {c \in Name : row[c] = "off" /\ redirect[c] # 0}

\* Redirecting cards that lead to each other in a circle.
Circle(S) ==
    /\ S # {}
    /\ \A c \in S : \E d \in S : slug[d] = redirect[c]

\* Redirects lead in a circle only where two of the turnovers overlapped or a
\* card was switched on again: a turnover takes an active card for its target,
\* and what it found is stale when it is stored (routes/admin/cards.ts:263-287).
LoopsNeedOverlap ==
    \A S \in SUBSET (Redirecting \ woken) :
        Circle(S) => \E c, d \in S : by[c] \in met[by[d]]

\* After a turnover the card has an owner again only by an editor that was open
\* meanwhile, whose form writes back the address its page showed, or by an admin
\* who typed one in (routes/admin/cards.ts:137,199-213, turnover.ts:24-29).
OwnerStaysGone ==
    \A c \in owned : by[c] # None =>
        \E q \in Request : /\ pc[q] = "saved" /\ card[q] = c
                           /\ shown[q] = "typed" \/ q \in met[by[c]]

\* The slug a request is to insert is taken only by a card created while it was
\* under way, deleted cards and inactive ones included in the search (slug.ts:13-24).
ClashIsRace ==
    \A r \in Request : pc[r] = "insert" =>
        \A c \in Name : There(c) /\ slug[c] = cand[r] => c \in met[r]
===============================================================================
