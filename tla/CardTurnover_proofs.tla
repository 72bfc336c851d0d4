------------------------ MODULE CardTurnover_proofs ------------------------
(***************************************************************************)
(* Proofs of the safety properties of CardTurnover for any number of cards *)
(* and requests.                                                           *)
(***************************************************************************)
EXTENDS CardTurnover, FiniteSetTheorems, TLAPS

USE CardTurnoverAssumption DEF Name, Maybe

\* What is true of a request at each of its steps, and of a card not made yet.
Steps ==
    /\ \A r \in Request : pc[r] \in {"check", "target", "move", "offboard", "store",
                                     "save", "saved"} => card[r] \in Name
    /\ \A r \in Request : pc[r] \in {"target", "move"} => target[r] \in Name
    /\ \A r \in Request : pc[r] \in {"check", "target", "move", "offboard"} =>
          /\ target[r] # card[r] /\ row[card[r]] # "none"
          /\ There(card[r]) /\ choice[r] # 0 => slug[card[r]] # choice[r]
    /\ \A r \in Request : pc[r] # "done" => row[r] = "none"
    /\ \A r \in Request : pc[r] \in {"probe", "insert"} => cand[r] # 0
    /\ \A c \in Name : There(c) => slug[c] # 0
    /\ \A c \in Name : by[c] # None => There(c) /\ (row[c] = "on" => c \in woken)
    /\ \A c \in Name : redirect[c] # 0 => by[c] # None
    /\ \A c \in Name : by[c] # None => pc[by[c]] \in {"probe", "insert", "done"}

TypeInv == TypeOK /\ Steps

\* Every variable keeps its type, slugs stay unique, and no lead refers to a card
\* that is not there.
THEOREM TypesAndSteps == Spec => []TypeInv
<1>1. Init => TypeInv
  <2> SUFFICES ASSUME Init PROVE TypeInv
    OBVIOUS
  <2> USE DEF Init, There
  <2>1. PICK f \in [Old -> OldSlug] :
          /\ \A c, d \in Old : f[c] = f[d] => c = d
          /\ slug = [c \in Name |-> IF c \in Old THEN f[c] ELSE 0]
    OBVIOUS
  <2>2. \A c \in Name : slug[c] \in Nat /\ (There(c) => c \in Old /\ slug[c] # 0)
    BY <2>1
  <2>3. \A c, d \in Name : There(c) /\ There(d) /\ slug[d] = slug[c] => d = c
    BY <2>1, <2>2
  <2>4. slug \in [Name -> Nat]
    BY <2>1, <2>2
  <2>5. TypeOK
    BY <2>2, <2>3, <2>4 DEF TypeOK
  <2>6. Steps
    BY <2>2 DEF Steps
  <2>7. QED
    BY <2>5, <2>6 DEF TypeInv
<1>2. TypeInv /\ [Next]_vars => TypeInv'
  <2> SUFFICES ASSUME TypeInv, [Next]_vars PROVE TypeInv'
    OBVIOUS
  <2> USE DEF TypeInv, TypeOK, Steps
  <2>1. ASSUME NEW r \in Request, NEW c \in Name,
               NEW d \in Offered(c) \union {None}, NEW x \in Offered(c) \union {None},
               StartTurnover(r, c, d, x)
        PROVE  TypeInv'
    <3>1. c \in Name /\ (d # None => slug[d] \in Nat \ {0} /\ slug[d] # slug[c])
            /\ x \in Maybe /\ x # c
      BY DEF Offered
    <3>2. choice'[r] = 0 \/ choice'[r] # slug[c]
      BY <3>1, <2>1 DEF StartTurnover
    <3>3. choice' \in [Request -> Nat] /\ target' \in [Request -> Maybe] /\ card'[r] = c
            /\ target'[r] = x /\ pc'[r] \in {"check", "target", "offboard"}
            /\ (pc'[r] = "target" => x # None)
      BY <3>1, <2>1 DEF StartTurnover, Begin, AfterRedirect
    <3>4. \A q \in Request : q # r => /\ pc'[q] = pc[q] /\ card'[q] = card[q]
                                     /\ choice'[q] = choice[q] /\ target'[q] = target[q]
      BY <2>1 DEF StartTurnover, Begin
    <3>5. UNCHANGED <<cardVars, leadVars, shown, cand>> /\ There(c)
      BY <2>1 DEF StartTurnover
    <3>6. Steps'
      <4> USE DEF There, cardVars
      <4>1. pc[r] = "idle"
        BY <2>1 DEF StartTurnover, Begin
      <4>2. \A q \in Request :
               /\ pc'[q] \in {"check", "target", "move", "offboard", "store", "save",
                              "saved"} => card'[q] \in Name
               /\ pc'[q] \in {"target", "move"} => target'[q] \in Name
               /\ pc'[q] # "done" => row'[q] = "none"
               /\ pc'[q] \in {"probe", "insert"} => cand'[q] # 0
        BY <3>1, <3>3, <3>4, <3>5, <4>1
      <4>3. \A q \in Request : pc'[q] \in {"check", "target", "move", "offboard"} =>
               /\ target'[q] # card'[q] /\ row'[card'[q]] # "none"
               /\ row'[card'[q]] \in {"on", "off"} /\ choice'[q] # 0
                     => slug'[card'[q]] # choice'[q]
        BY <3>1, <3>2, <3>3, <3>4, <3>5
      <4>4. \A e \in Name : by[e] # None => pc'[by[e]] = pc[by[e]]
        BY <3>4, <4>1
      <4>5. QED
        BY <3>5, <4>2, <4>3, <4>4
    <3>7. TypeOK'
      BY <3>3, <3>5, <2>1 DEF StartTurnover, Begin, UnderWay, There, cardVars,
          leadVars,
          AfterRedirect
    <3>8. QED
      BY <3>6, <3>7
  <2>2. ASSUME NEW r \in Request, CheckRedirect(r) PROVE TypeInv'
    BY <2>2 DEF CheckRedirect, cardVars, leadVars, GoTo, AfterRedirect,
        Redirectable, There
  <2>3. ASSUME NEW r \in Request, FindTarget(r) PROVE TypeInv'
    BY <2>3 DEF FindTarget, cardVars, leadVars, GoTo, There
  <2>4. ASSUME NEW r \in Request, KeepLeads(r) PROVE TypeInv'
    BY <2>4 DEF KeepLeads, cardVars, leadVars, GoTo, There
  <2>5. ASSUME NEW r \in Request, MoveLeads(r) PROVE TypeInv'
    BY <2>5 DEF MoveLeads, cardVars, formVars, GoTo, LeadsOf, There
  <2>6. ASSUME NEW r \in Request, Offboard(r) PROVE TypeInv'
    <3> USE DEF There
    <3>1. /\ pc[r] = "offboard" /\ card[r] \in Name
          /\ row' = [row EXCEPT ![card[r]] = "off"] /\ There(card[r])
          /\ redirect' = [redirect EXCEPT ![card[r]] = choice[r]]
          /\ by' = [by EXCEPT ![card[r]] = r] /\ owned' = owned \ {card[r]}
          /\ UNCHANGED <<slug, woken, leadVars, target, met>>
      BY <2>6 DEF Offboard, OwnersLeft, GoTo, End
    <3>2. /\ pc'[r] \in {"done", "probe"} /\ pc' = [pc EXCEPT ![r] = pc'[r]]
          /\ (pc'[r] = "probe" => cand'[r] = 1)
          /\ cand' = [cand EXCEPT ![r] = cand'[r]] /\ cand'[r] \in {0, 1}
          /\ (card' = card \/ card' = [card EXCEPT ![r] = None])
          /\ (shown' = shown \/ shown' = [shown EXCEPT ![r] = "nobody"])
          /\ (choice' = choice \/ choice' = [choice EXCEPT ![r] = 0])
      <4>1. CASE End(r, "offboard")
        BY <4>1 DEF End
      <4>2. CASE GoTo(r, "offboard", "probe") /\ cand' = [cand EXCEPT ![r] = 1]
                 /\ UNCHANGED <<choice, shown>>
        BY <4>2 DEF GoTo
      <4>3. QED
        BY <4>1, <4>2, <2>6 DEF Offboard
    <3>3. TypeOK'
      <4>1. at' = at /\ arrived' = arrived /\ stray' = stray
        BY <3>1 DEF leadVars
      <4>2. \A c \in Name : row'[c] \in {"on", "off"} <=> row[c] \in {"on", "off"}
        BY <3>1
      <4>3. pc' \in [Request -> {"idle", "check", "target", "move", "offboard", "probe",
                               "insert", "store", "save", "saved", "done"}]
        BY <3>2
      <4>4. /\ card' \in [Request -> Maybe]
            /\ shown' \in [Request -> {"nobody", "owner", "typed"}]
            /\ choice' \in [Request -> Nat]
        <5>1. "nobody" \in {"nobody", "owner", "typed"} /\ 0 \in Nat /\ None \in Maybe
          OBVIOUS
        <5>2. card' \in [Request -> Maybe]
          BY <3>2, <5>1
        <5>3. shown' \in [Request -> {"nobody", "owner", "typed"}]
          BY <3>2, <5>1
        <5>4. choice' \in [Request -> Nat]
          BY <3>2, <5>1
        <5>5. QED
          BY <5>2, <5>3, <5>4
      <4>5. cand' \in [Request -> Nat]
        BY <3>2
      <4>6. /\ row' \in [Name -> {"none", "on", "off", "gone"}]
            /\ redirect' \in [Name -> Nat] /\ by' \in [Name -> Request \union {None}]
            /\ owned' \subseteq Name
        BY <3>1
      <4>7. QED
        BY <3>1, <4>1, <4>2, <4>3, <4>4, <4>5, <4>6
    <3>4. \A q \in Request : q # r => /\ pc'[q] = pc[q] /\ card'[q] = card[q]
                                     /\ choice'[q] = choice[q] /\ cand'[q] = cand[q]
      BY <3>2
    <3>5. \A c \in Name : There(c)' <=> There(c)
      BY <3>1
    <3>6. \A c \in Name : by'[c] # None =>
             /\ There(c)' /\ (row'[c] = "on" => c \in woken')
             /\ pc'[by'[c]] \in {"probe", "insert", "done"}
      BY <3>1, <3>2, <3>4
    <3>7. \A q \in Request :
               /\ pc'[q] \in {"check", "target", "move", "offboard", "store", "save",
                              "saved"} => card'[q] \in Name
               /\ pc'[q] \in {"target", "move"} => target'[q] \in Name
               /\ pc'[q] # "done" => row'[q] = "none"
               /\ pc'[q] \in {"probe", "insert"} => cand'[q] # 0
      <4>1. pc'[r] = "probe" => row'[r] = "none" /\ cand'[r] # 0
        BY <3>1, <3>2
      <4>2. \A q \in Request : pc[q] # "done" => row'[q] = "none"
        BY <3>1
      <4>3. QED
        BY <4>1, <4>2, <3>1, <3>2, <3>4
    <3>8. \A q \in Request : pc'[q] \in {"check", "target", "move", "offboard"} =>
               /\ target'[q] # card'[q] /\ row'[card'[q]] # "none"
               /\ row'[card'[q]] \in {"on", "off"} /\ choice'[q] # 0
                     => slug'[card'[q]] # choice'[q]
      BY <3>1, <3>2, <3>4
    <3>9. \A c \in Name : redirect'[c] # 0 => by'[c] # None
      BY <3>1
    <3>10. Steps'
      BY <3>1, <3>5, <3>6, <3>7, <3>8, <3>9
    <3>11. QED
      BY <3>3, <3>10
  <2>7. ASSUME NEW r \in Request, CreateCard(r) PROVE TypeInv'
    BY <2>7 DEF CreateCard, cardVars, leadVars, Begin, UnderWay, There
  <2>8. ASSUME NEW r \in Request, ProbeNext(r) PROVE TypeInv'
    BY <2>8 DEF ProbeNext, cardVars, leadVars, GoTo, Taken, There
  <2>9. ASSUME NEW r \in Request, ProbeFree(r) PROVE TypeInv'
    BY <2>9 DEF ProbeFree, cardVars, leadVars, GoTo, Taken, There
  <2>10. ASSUME NEW r \in Request, Insert(r) PROVE TypeInv'
    <3> USE DEF There
    <3>1. /\ pc[r] = "insert" /\ row[r] = "none" /\ cand[r] \in Nat /\ cand[r] # 0
          /\ row' = [row EXCEPT ![r] = "on"] /\ slug' = [slug EXCEPT ![r] = cand[r]]
          /\ UNCHANGED <<redirect, by, woken, leadVars, target, met>>
          /\ pc' = [pc EXCEPT ![r] = "done"] /\ card' = [card EXCEPT ![r] = None]
      BY <2>10 DEF Insert, End
    <3>2. \A c \in Name : c # r => row'[c] = row[c] /\ slug'[c] = slug[c]
      BY <3>1
    <3>3. row'[r] = "on" /\ slug'[r] = cand[r] /\ by[r] = None /\ redirect[r] = 0
      BY <3>1
    <3>4. \A c \in Name : There(c)' =>
            slug'[c] # 0 /\ \A d \in Name : There(d)' /\ slug'[d] = slug'[c] => d = c
      BY <3>1, <3>2, <3>3, <2>10 DEF Insert
    <3>5. \A l \in Request : at'[l] # None => row'[at'[l]] \in {"on", "off"}
      <4>1. at' = at
        BY <3>1 DEF leadVars
      <4>2. QED
        BY <4>1, <3>2, <3>3
    <3>6. TypeOK'
      BY <3>1, <3>4, <3>5, <2>10 DEF Insert, End, leadVars
    <3>7. \A q \in Request : pc'[q] \in {"check", "target", "move", "offboard"} =>
            /\ target'[q] # card'[q] /\ row'[card'[q]] # "none"
            /\ row'[card'[q]] \in {"on", "off"} /\ choice'[q] # 0
                  => slug'[card'[q]] # choice'[q]
      <4> SUFFICES ASSUME NEW q \in Request,
                          pc'[q] \in {"check", "target", "move", "offboard"}
                   PROVE  /\ target'[q] # card'[q] /\ row'[card'[q]] # "none"
                          /\ row'[card'[q]] \in {"on", "off"} /\ choice'[q] # 0
                                => slug'[card'[q]] # choice'[q]
        OBVIOUS
      <4>1. q # r /\ pc[q] = pc'[q] /\ card'[q] = card[q] /\ target'[q] = target[q]
               /\ choice'[q] = choice[q]
        BY <3>1, <2>10 DEF Insert, End
      <4>2. CASE card[q] = r
        BY <4>1, <4>2, <3>1
      <4>3. CASE card[q] # r
        BY <4>1, <4>3, <3>2
      <4>4. QED
        BY <4>2, <4>3
    <3>8. QED
      <4>1. \A q \in Request : q # r =>
               pc'[q] = pc[q] /\ card'[q] = card[q] /\ cand'[q] = cand[q]
        BY <2>10 DEF Insert, End
      <4>2. \A q \in Request :
               /\ pc'[q] \in {"check", "target", "move", "offboard", "store", "save",
                              "saved"} => card'[q] \in Name
               /\ pc'[q] \in {"target", "move"} => target'[q] \in Name
               /\ pc'[q] # "done" => row'[q] = "none"
               /\ pc'[q] \in {"probe", "insert"} => cand'[q] # 0
        BY <3>1, <3>2, <4>1
      <4>3. \A c \in Name : by[c] # None => c # r /\ pc'[by[c]] \in {"probe", "insert", "done"}
        BY <3>1, <3>3, <4>1
      <4>4. Steps'
        BY <3>1, <3>2, <3>3, <3>4, <3>7, <4>2, <4>3
      <4>5. QED
        BY <4>4, <3>6
  <2>11. ASSUME NEW r \in Request, NEW c \in Name, Connect(r, c) PROVE TypeInv'
    BY <2>11 DEF Connect, cardVars, leadVars, Begin, UnderWay, Served, There
  <2>12. ASSUME NEW r \in Request, StoreLead(r) PROVE TypeInv'
    BY <2>12 DEF StoreLead, cardVars, End, There
  <2>13. ASSUME NEW r \in Request, NEW c \in Name, NEW typed \in BOOLEAN,
                OpenEditor(r, c, typed)
         PROVE  TypeInv'
    BY <2>13 DEF OpenEditor, cardVars, leadVars, Begin, UnderWay, There
  <2>14. ASSUME NEW r \in Request, SaveCard(r) PROVE TypeInv'
    BY <2>14 DEF SaveCard, leadVars, GoTo, There
  <2>15. ASSUME NEW r \in Request, NEW c \in Name, DeleteCard(r, c) PROVE TypeInv'
    BY <2>15 DEF DeleteCard, Begin, UnderWay, LeadsOf, Cascade, There
  <2>16. ASSUME NEW r \in Request, NEW c \in Name, NEW b \in BOOLEAN,
                PatchActive(r, c, b)
         PROVE  TypeInv'
    BY <2>16 DEF PatchActive, leadVars, Begin, UnderWay, There
  <2>17. ASSUME NEW r \in Request, Stop(r) PROVE TypeInv'
    BY <2>17 DEF Stop, cardVars, leadVars, End, UnderWay, There
  <2>18. CASE UNCHANGED vars
    BY <2>18 DEF vars, cardVars, leadVars, formVars, There
  <2> HIDE DEF TypeInv, TypeOK, Steps
  <2>19. QED
    BY <2>1, <2>2, <2>3, <2>4, <2>5, <2>6, <2>7, <2>8, <2>9, <2>10, <2>11, <2>12,
       <2>13, <2>14, <2>15, <2>16, <2>17, <2>18 DEF Next
<1>3. QED
  BY <1>1, <1>2, PTL DEF Spec
-----------------------------------------------------------------------------
THEOREM TypeCorrect == Spec => []TypeOK
<1>1. TypeInv => TypeOK
  BY DEF TypeInv
<1>2. QED
  BY <1>1, TypesAndSteps, PTL
-----------------------------------------------------------------------------
\* What switching the card off changes.
LEMMA OffboardStep ==
    ASSUME TypeInv, NEW r \in Request, Offboard(r)
    PROVE  /\ pc[r] = "offboard" /\ card[r] \in Name /\ There(card[r])
           /\ row' = [row EXCEPT ![card[r]] = "off"] /\ owned' = owned \ {card[r]}
           /\ redirect' = [redirect EXCEPT ![card[r]] = choice[r]]
           /\ by' = [by EXCEPT ![card[r]] = r]
           /\ UNCHANGED <<slug, woken, at, arrived, stray, target, met>>
           /\ pc'[r] \in {"done", "probe"}
           /\ \A q \in Request : q # r => /\ pc'[q] = pc[q] /\ card'[q] = card[q]
                                          /\ choice'[q] = choice[q] /\ shown'[q] = shown[q]
                                          /\ cand'[q] = cand[q]
<1> USE DEF TypeInv, TypeOK
<1>1. CASE End(r, "offboard")
  BY <1>1 DEF Offboard, OwnersLeft, leadVars, End, Steps
<1>2. CASE GoTo(r, "offboard", "probe") /\ cand' = [cand EXCEPT ![r] = 1]
           /\ UNCHANGED <<choice, shown>>
  BY <1>2 DEF Offboard, OwnersLeft, leadVars, GoTo, Steps
<1>3. QED
  BY <1>1, <1>2 DEF Offboard
-----------------------------------------------------------------------------
\* Two requests that are under way have met.
MetInv ==
    /\ \A q, r \in Request :
          /\ q # r
          /\ pc[q] \notin {"idle", "saved", "done"} /\ pc[r] \notin {"idle", "saved", "done"}
          => q \in met[r]
    /\ \A r \in Request : pc[r] = "idle" => met[r] = {}

THEOREM Meetings == Spec => []MetInv
<1>1. Init => MetInv
  BY DEF Init, MetInv
<1>2. TypeInv /\ MetInv /\ [Next]_vars => MetInv'
  <2> SUFFICES ASSUME TypeInv, MetInv, [Next]_vars PROVE MetInv'
    OBVIOUS
  <2> USE DEF TypeInv, TypeOK, MetInv
  <2>1. ASSUME NEW r \in Request, NEW c \in Name,
               NEW d \in Offered(c) \union {None}, NEW x \in Offered(c) \union {None},
               StartTurnover(r, c, d, x)
        PROVE  MetInv'
    BY <2>1 DEF StartTurnover, cardVars, leadVars, Begin, UnderWay, AfterRedirect
  <2>2. ASSUME NEW r \in Request, CheckRedirect(r) PROVE MetInv'
    BY <2>2 DEF CheckRedirect, cardVars, leadVars, GoTo, AfterRedirect, UnderWay
  <2>3. ASSUME NEW r \in Request, FindTarget(r) PROVE MetInv'
    BY <2>3 DEF FindTarget, cardVars, leadVars, GoTo, UnderWay
  <2>4. ASSUME NEW r \in Request, KeepLeads(r) PROVE MetInv'
    BY <2>4 DEF KeepLeads, cardVars, leadVars, GoTo, UnderWay
  <2>5. ASSUME NEW r \in Request, MoveLeads(r) PROVE MetInv'
    BY <2>5 DEF MoveLeads, cardVars, formVars, GoTo, UnderWay
  <2>6. ASSUME NEW r \in Request, Offboard(r) PROVE MetInv'
    <3>1. /\ \A q \in Request : pc'[q] \notin {"idle", "saved", "done"}
                                  => pc[q] \notin {"idle", "saved", "done"}
          /\ \A q \in Request : pc'[q] = "idle" => pc[q] = "idle"
          /\ met' = met
      BY OffboardStep, <2>6
    <3>2. QED
      BY <3>1
  <2>7. ASSUME NEW r \in Request, CreateCard(r) PROVE MetInv'
    BY <2>7 DEF CreateCard, cardVars, leadVars, Begin, UnderWay
  <2>8. ASSUME NEW r \in Request, ProbeNext(r) PROVE MetInv'
    BY <2>8 DEF ProbeNext, cardVars, leadVars, GoTo, UnderWay
  <2>9. ASSUME NEW r \in Request, ProbeFree(r) PROVE MetInv'
    BY <2>9 DEF ProbeFree, cardVars, leadVars, GoTo, UnderWay
  <2>10. ASSUME NEW r \in Request, Insert(r) PROVE MetInv'
    BY <2>10 DEF Insert, leadVars, End, UnderWay
  <2>11. ASSUME NEW r \in Request, NEW c \in Name, Connect(r, c) PROVE MetInv'
    BY <2>11 DEF Connect, cardVars, leadVars, Begin, UnderWay
  <2>12. ASSUME NEW r \in Request, StoreLead(r) PROVE MetInv'
    BY <2>12 DEF StoreLead, cardVars, End, UnderWay
  <2>13. ASSUME NEW r \in Request, NEW c \in Name, NEW typed \in BOOLEAN,
                OpenEditor(r, c, typed)
         PROVE  MetInv'
    BY <2>13 DEF OpenEditor, cardVars, leadVars, Begin, UnderWay
  <2>14. ASSUME NEW r \in Request, SaveCard(r) PROVE MetInv'
    BY <2>14 DEF SaveCard, leadVars, GoTo, UnderWay
  <2>15. ASSUME NEW r \in Request, NEW c \in Name, DeleteCard(r, c) PROVE MetInv'
    BY <2>15 DEF DeleteCard, Begin, UnderWay
  <2>16. ASSUME NEW r \in Request, NEW c \in Name, NEW b \in BOOLEAN,
                PatchActive(r, c, b)
         PROVE  MetInv'
    BY <2>16 DEF PatchActive, leadVars, Begin, UnderWay
  <2>17. ASSUME NEW r \in Request, Stop(r) PROVE MetInv'
    BY <2>17 DEF Stop, cardVars, leadVars, End, UnderWay
  <2>18. CASE UNCHANGED vars
    BY <2>18 DEF vars, cardVars, leadVars, formVars, UnderWay
  <2> HIDE DEF TypeInv, TypeOK, MetInv
  <2>19. QED
    BY <2>1, <2>2, <2>3, <2>4, <2>5, <2>6, <2>7, <2>8, <2>9, <2>10, <2>11, <2>12,
       <2>13, <2>14, <2>15, <2>16, <2>17, <2>18 DEF Next
<1>3. QED
  BY <1>1, <1>2, TypesAndSteps, PTL DEF Spec
-----------------------------------------------------------------------------
Basics == TypeInv /\ MetInv

LEMMA BasicsCorrect == Spec => []Basics
<1>1. TypeInv /\ MetInv => Basics
  BY DEF Basics
<1>2. QED
  BY <1>1, TypesAndSteps, Meetings, PTL
-----------------------------------------------------------------------------
\* What the first step of a request changes.
LEMMA BeginStep ==
    ASSUME Basics, NEW r \in Request, NEW c, NEW p, Begin(r, c, p)
    PROVE  /\ pc[r] = "idle" /\ pc' = [pc EXCEPT ![r] = p] /\ card' = [card EXCEPT ![r] = c]
           /\ \A q \in Request : met[q] \subseteq met'[q]
<1>1. pc[r] = "idle" /\ pc' = [pc EXCEPT ![r] = p] /\ card' = [card EXCEPT ![r] = c]
  BY DEF Begin
<1>2. ASSUME NEW q \in Request PROVE met[q] \subseteq met'[q]
  <2>1. CASE q = r
    BY <2>1, <1>1 DEF Basics, MetInv
  <2>2. CASE q # r
    BY <2>2 DEF Begin, Basics, TypeInv, TypeOK
  <2>3. QED
    BY <2>1, <2>2
<1>3. QED
  BY <1>1, <1>2
-----------------------------------------------------------------------------
\* A slug taken from under a search was taken by a card made meanwhile.
THEOREM ClashesAreRaces == Spec => []ClashIsRace
<1>1. Init => ClashIsRace
  BY DEF Init, ClashIsRace
<1>2. Basics /\ ClashIsRace /\ [Next]_vars => ClashIsRace'
  <2> SUFFICES ASSUME Basics, ClashIsRace, [Next]_vars PROVE ClashIsRace'
    OBVIOUS
  <2> USE DEF Basics, TypeInv, TypeOK, Steps, ClashIsRace, There
  <2>1. ASSUME NEW r \in Request, NEW c \in Name,
               NEW d \in Offered(c) \union {None}, NEW x \in Offered(c) \union {None},
               StartTurnover(r, c, d, x)
        PROVE  ClashIsRace'
    BY <2>1 DEF StartTurnover, cardVars, leadVars, Begin, UnderWay, AfterRedirect,
        Taken
  <2>2. ASSUME NEW r \in Request, CheckRedirect(r) PROVE ClashIsRace'
    BY <2>2 DEF CheckRedirect, cardVars, leadVars, GoTo, AfterRedirect, Taken
  <2>3. ASSUME NEW r \in Request, FindTarget(r) PROVE ClashIsRace'
    BY <2>3 DEF FindTarget, cardVars, leadVars, GoTo, Taken
  <2>4. ASSUME NEW r \in Request, KeepLeads(r) PROVE ClashIsRace'
    BY <2>4 DEF KeepLeads, cardVars, leadVars, GoTo, Taken
  <2>5. ASSUME NEW r \in Request, MoveLeads(r) PROVE ClashIsRace'
    BY <2>5 DEF MoveLeads, cardVars, formVars, GoTo, Taken
  <2>6. ASSUME NEW r \in Request, Offboard(r) PROVE ClashIsRace'
    <3>1. \A q \in Request : pc'[q] = "insert" => pc[q] = "insert" /\ cand'[q] = cand[q]
      BY OffboardStep, <2>6
    <3>2. \A e \in Name : row'[e] \in {"on", "off"} <=> row[e] \in {"on", "off"}
      BY OffboardStep, <2>6
    <3>3. UNCHANGED <<slug, met>>
      BY OffboardStep, <2>6
    <3>4. QED
      BY <3>1, <3>2, <3>3
  <2>7. ASSUME NEW r \in Request, CreateCard(r) PROVE ClashIsRace'
    BY <2>7 DEF CreateCard, cardVars, leadVars, Begin, UnderWay, Taken
  <2>8. ASSUME NEW r \in Request, ProbeNext(r) PROVE ClashIsRace'
    BY <2>8 DEF ProbeNext, cardVars, leadVars, GoTo, Taken
  <2>9. ASSUME NEW r \in Request, ProbeFree(r) PROVE ClashIsRace'
    BY <2>9 DEF ProbeFree, cardVars, leadVars, GoTo, Taken
  <2>10. ASSUME NEW r \in Request, Insert(r) PROVE ClashIsRace'
    <3>1. pc'[r] = "done" /\ \A q \in Request : q # r => pc'[q] = pc[q] /\ cand'[q] = cand[q]
      BY <2>10 DEF Insert, End
    <3>2. \A c \in Name : c # r => row'[c] = row[c] /\ slug'[c] = slug[c]
      BY <2>10 DEF Insert
    <3>3. \A q \in Request : pc[q] = "insert" /\ q # r => r \in met[q]
      BY <2>10 DEF Insert, End, MetInv, UnderWay
    <3>4. met' = met
      BY <2>10 DEF Insert, End
    <3>5. QED
      BY <3>1, <3>2, <3>3, <3>4
  <2>11. ASSUME NEW r \in Request, NEW c \in Name, Connect(r, c) PROVE ClashIsRace'
    BY <2>11 DEF Connect, cardVars, leadVars, Begin, UnderWay, Taken
  <2>12. ASSUME NEW r \in Request, StoreLead(r) PROVE ClashIsRace'
    BY <2>12 DEF StoreLead, cardVars, End, Taken
  <2>13. ASSUME NEW r \in Request, NEW c \in Name, NEW typed \in BOOLEAN,
                OpenEditor(r, c, typed)
         PROVE  ClashIsRace'
    BY <2>13 DEF OpenEditor, cardVars, leadVars, Begin, UnderWay, Taken
  <2>14. ASSUME NEW r \in Request, SaveCard(r) PROVE ClashIsRace'
    BY <2>14 DEF SaveCard, leadVars, GoTo, Taken
  <2>15. ASSUME NEW r \in Request, NEW c \in Name,
                DeleteCard(r, c)
         PROVE  ClashIsRace'
    BY <2>15 DEF DeleteCard, Begin, UnderWay, Taken
  <2>16. ASSUME NEW r \in Request, NEW c \in Name, NEW b \in BOOLEAN,
                PatchActive(r, c, b)
         PROVE  ClashIsRace'
    BY <2>16 DEF PatchActive, leadVars, Begin, UnderWay, Taken
  <2>17. ASSUME NEW r \in Request, Stop(r) PROVE ClashIsRace'
    BY <2>17 DEF Stop, cardVars, leadVars, End, UnderWay, Taken
  <2>18. CASE UNCHANGED vars
    BY <2>18 DEF vars, cardVars, leadVars, formVars, Taken
  <2> HIDE DEF Basics, TypeInv, TypeOK, Steps, ClashIsRace, There
  <2>19. QED
    BY <2>1, <2>2, <2>3, <2>4, <2>5, <2>6, <2>7, <2>8, <2>9, <2>10, <2>11, <2>12,
       <2>13, <2>14, <2>15, <2>16, <2>17, <2>18 DEF Next
<1>3. QED
  BY <1>1, <1>2, BasicsCorrect, PTL DEF Spec
-----------------------------------------------------------------------------
\* The owner a page shows was there when no turnover had taken it away, or came
\* back as OwnerStaysGone says.
CameBack(c) ==
    \E q \in Request : /\ pc[q] = "saved" /\ card[q] = c
                       /\ shown[q] = "typed" \/ q \in met[by[c]]

OwnerInv ==
    /\ \A c \in owned : by[c] # None => CameBack(c)
    /\ \A q \in Request : pc[q] = "save" /\ shown[q] = "owner" /\ by[card[q]] # None
          => q \in met[by[card[q]]] \/ CameBack(card[q])

\* A step keeps OwnerInv if it gives no card an owner, shows no page of the editor
\* and leaves the saved ones as they are.
LEMMA OwnersKept ==
    ASSUME Basics, OwnerInv,
           \A c \in Name : by'[c] # None => by'[c] = by[c] /\ (c \in owned' => c \in owned),
           \A q \in Request : pc'[q] = "save" /\ shown'[q] = "owner" =>
               pc[q] = "save" /\ shown[q] = "owner" /\ card'[q] = card[q],
           \A q \in Request : pc[q] = "saved" =>
               pc'[q] = "saved" /\ card'[q] = card[q] /\ shown'[q] = shown[q],
           \A q \in Request : met[q] \subseteq met'[q],
           owned' \subseteq Name
    PROVE  OwnerInv'
<1> USE DEF Basics, TypeInv, TypeOK
<1>1. ASSUME NEW c \in Name, by'[c] # None, CameBack(c) PROVE CameBack(c)'
  BY <1>1 DEF CameBack
<1>2. \A c \in owned' : by'[c] # None => CameBack(c)'
  BY <1>1 DEF OwnerInv
<1>3. ASSUME NEW q \in Request, pc'[q] = "save", shown'[q] = "owner", by'[card'[q]] # None
      PROVE  q \in met'[by'[card'[q]]] \/ \E c \in Name : c = card'[q] /\ CameBack(c)'
  <2>1. card[q] \in Name /\ card'[q] = card[q]
    BY <1>3 DEF Steps
  <2>2. by'[card[q]] = by[card[q]] /\ by[card[q]] \in Request
    BY <2>1, <1>3
  <2>3. q \in met[by[card[q]]] \/ CameBack(card[q])
    BY <2>1, <2>2, <1>3 DEF OwnerInv
  <2>4. QED
    BY <2>1, <2>2, <2>3, <1>1, <1>3
<1>4. QED
  BY <1>2, <1>3 DEF OwnerInv, CameBack

\* The departing owner's address comes back only by an editor open meanwhile.
THEOREM OwnersStayGone == Spec => []OwnerStaysGone
<1>1. Init => OwnerInv
  BY DEF Init, OwnerInv, CameBack
<1>2. Basics /\ OwnerInv /\ [Next]_vars => OwnerInv'
  <2> SUFFICES ASSUME Basics, OwnerInv, [Next]_vars PROVE OwnerInv'
    OBVIOUS
  <2>1. ASSUME NEW r \in Request, NEW c \in Name,
               NEW d \in Offered(c) \union {None}, NEW x \in Offered(c) \union {None},
               StartTurnover(r, c, d, x)
        PROVE  OwnerInv'
    <3>1. \A e \in Name : by'[e] # None => by'[e] = by[e] /\ (e \in owned' => e \in owned)
      BY <2>1 DEF StartTurnover, cardVars, leadVars, Begin, UnderWay, AfterRedirect,
          Basics, TypeInv, TypeOK, Steps, There
    <3>2. \A q \in Request : pc'[q] = "save" /\ shown'[q] = "owner" =>
             pc[q] = "save" /\ shown[q] = "owner" /\ card'[q] = card[q]
      BY <2>1 DEF StartTurnover, cardVars, leadVars, Begin, UnderWay, AfterRedirect,
          Basics, TypeInv, TypeOK
    <3>3. \A q \in Request : pc[q] = "saved" =>
             pc'[q] = "saved" /\ card'[q] = card[q] /\ shown'[q] = shown[q]
      BY <2>1 DEF StartTurnover, cardVars, leadVars, Begin, UnderWay, AfterRedirect,
          Basics, TypeInv, TypeOK
    <3>4. \A q \in Request : met[q] \subseteq met'[q]
      BY BeginStep, <2>1 DEF StartTurnover
    <3>5. owned' \subseteq Name
      BY <2>1 DEF StartTurnover, cardVars, leadVars, Begin, UnderWay, AfterRedirect,
          Basics, TypeInv, TypeOK
    <3>6. QED
      BY <3>1, <3>2, <3>3, <3>4, <3>5, OwnersKept
  <2>2. ASSUME NEW r \in Request, CheckRedirect(r) PROVE OwnerInv'
    <3>1. \A e \in Name : by'[e] # None => by'[e] = by[e] /\ (e \in owned' => e \in owned)
      BY <2>2 DEF CheckRedirect, cardVars, leadVars, GoTo, AfterRedirect, Basics,
          TypeInv, TypeOK, Steps, There
    <3>2. \A q \in Request : pc'[q] = "save" /\ shown'[q] = "owner" =>
             pc[q] = "save" /\ shown[q] = "owner" /\ card'[q] = card[q]
      BY <2>2 DEF CheckRedirect, cardVars, leadVars, GoTo, AfterRedirect, Basics,
          TypeInv, TypeOK
    <3>3. \A q \in Request : pc[q] = "saved" =>
             pc'[q] = "saved" /\ card'[q] = card[q] /\ shown'[q] = shown[q]
      BY <2>2 DEF CheckRedirect, cardVars, leadVars, GoTo, AfterRedirect, Basics,
          TypeInv, TypeOK
    <3>4. \A q \in Request : met[q] \subseteq met'[q]
      BY <2>2 DEF CheckRedirect, cardVars, leadVars, GoTo, AfterRedirect
    <3>5. owned' \subseteq Name
      BY <2>2 DEF CheckRedirect, cardVars, leadVars, GoTo, AfterRedirect, Basics,
          TypeInv, TypeOK
    <3>6. QED
      BY <3>1, <3>2, <3>3, <3>4, <3>5, OwnersKept
  <2>3. ASSUME NEW r \in Request, FindTarget(r) PROVE OwnerInv'
    <3>1. \A e \in Name : by'[e] # None => by'[e] = by[e] /\ (e \in owned' => e \in owned)
      BY <2>3 DEF FindTarget, cardVars, leadVars, GoTo, Basics, TypeInv, TypeOK,
          Steps, There
    <3>2. \A q \in Request : pc'[q] = "save" /\ shown'[q] = "owner" =>
             pc[q] = "save" /\ shown[q] = "owner" /\ card'[q] = card[q]
      BY <2>3 DEF FindTarget, cardVars, leadVars, GoTo, Basics, TypeInv, TypeOK
    <3>3. \A q \in Request : pc[q] = "saved" =>
             pc'[q] = "saved" /\ card'[q] = card[q] /\ shown'[q] = shown[q]
      BY <2>3 DEF FindTarget, cardVars, leadVars, GoTo, Basics, TypeInv, TypeOK
    <3>4. \A q \in Request : met[q] \subseteq met'[q]
      BY <2>3 DEF FindTarget, cardVars, leadVars, GoTo
    <3>5. owned' \subseteq Name
      BY <2>3 DEF FindTarget, cardVars, leadVars, GoTo, Basics, TypeInv, TypeOK
    <3>6. QED
      BY <3>1, <3>2, <3>3, <3>4, <3>5, OwnersKept
  <2>4. ASSUME NEW r \in Request, KeepLeads(r) PROVE OwnerInv'
    <3>1. \A e \in Name : by'[e] # None => by'[e] = by[e] /\ (e \in owned' => e \in owned)
      BY <2>4 DEF KeepLeads, cardVars, leadVars, GoTo, Basics, TypeInv, TypeOK,
          Steps, There
    <3>2. \A q \in Request : pc'[q] = "save" /\ shown'[q] = "owner" =>
             pc[q] = "save" /\ shown[q] = "owner" /\ card'[q] = card[q]
      BY <2>4 DEF KeepLeads, cardVars, leadVars, GoTo, Basics, TypeInv, TypeOK
    <3>3. \A q \in Request : pc[q] = "saved" =>
             pc'[q] = "saved" /\ card'[q] = card[q] /\ shown'[q] = shown[q]
      BY <2>4 DEF KeepLeads, cardVars, leadVars, GoTo, Basics, TypeInv, TypeOK
    <3>4. \A q \in Request : met[q] \subseteq met'[q]
      BY <2>4 DEF KeepLeads, cardVars, leadVars, GoTo
    <3>5. owned' \subseteq Name
      BY <2>4 DEF KeepLeads, cardVars, leadVars, GoTo, Basics, TypeInv, TypeOK
    <3>6. QED
      BY <3>1, <3>2, <3>3, <3>4, <3>5, OwnersKept
  <2>5. ASSUME NEW r \in Request, MoveLeads(r) PROVE OwnerInv'
    <3>1. \A e \in Name : by'[e] # None => by'[e] = by[e] /\ (e \in owned' => e \in owned)
      BY <2>5 DEF MoveLeads, cardVars, formVars, GoTo, Basics, TypeInv, TypeOK,
          Steps, There
    <3>2. \A q \in Request : pc'[q] = "save" /\ shown'[q] = "owner" =>
             pc[q] = "save" /\ shown[q] = "owner" /\ card'[q] = card[q]
      BY <2>5 DEF MoveLeads, cardVars, formVars, GoTo, Basics, TypeInv, TypeOK
    <3>3. \A q \in Request : pc[q] = "saved" =>
             pc'[q] = "saved" /\ card'[q] = card[q] /\ shown'[q] = shown[q]
      BY <2>5 DEF MoveLeads, cardVars, formVars, GoTo, Basics, TypeInv, TypeOK
    <3>4. \A q \in Request : met[q] \subseteq met'[q]
      BY <2>5 DEF MoveLeads, cardVars, formVars, GoTo
    <3>5. owned' \subseteq Name
      BY <2>5 DEF MoveLeads, cardVars, formVars, GoTo, Basics, TypeInv, TypeOK
    <3>6. QED
      BY <3>1, <3>2, <3>3, <3>4, <3>5, OwnersKept
  <2>6. ASSUME NEW r \in Request, Offboard(r) PROVE OwnerInv'
    <3> USE DEF Basics, TypeInv, TypeOK, Steps, There
    <3>1. /\ pc[r] = "offboard" /\ card[r] \in Name /\ There(card[r])
          /\ owned' = owned \ {card[r]} /\ by' = [by EXCEPT ![card[r]] = r] /\ met' = met
          /\ pc'[r] \in {"done", "probe"}
          /\ \A q \in Request : q # r => /\ pc'[q] = pc[q] /\ card'[q] = card[q]
                                         /\ shown'[q] = shown[q]
      BY OffboardStep, <2>6
    <3>2. ASSUME NEW c \in Name, c # card[r], by[c] # None, CameBack(c) PROVE CameBack(c)'
      BY <3>1, <3>2 DEF CameBack
    <3>3. \A c \in owned' : by'[c] # None => CameBack(c)'
      BY <3>1, <3>2 DEF OwnerInv
    <3>4. ASSUME NEW q \in Request, pc'[q] = "save", shown'[q] = "owner", by'[card'[q]] # None
          PROVE  q \in met'[by'[card'[q]]] \/ CameBack(card[q])'
      <4>1. q # r /\ pc[q] = "save" /\ shown[q] = "owner" /\ card[q] \in Name /\ card'[q] = card[q]
        BY <3>1, <3>4
      <4>2. CASE card[q] = card[r]
        <5>1. q \in met[r]
          BY <4>1, <3>1 DEF MetInv
        <5>2. QED
          BY <5>1, <4>1, <4>2, <3>1
      <4>3. CASE card[q] # card[r]
        BY <4>1, <4>3, <3>1, <3>2, <3>4 DEF OwnerInv
      <4>4. QED
        BY <4>2, <4>3
    <3>5. \A q \in Request : pc'[q] = "save" => card'[q] = card[q]
      BY <3>1
    <3>6. QED
      BY <3>3, <3>4, <3>5 DEF OwnerInv, CameBack
  <2>7. ASSUME NEW r \in Request, CreateCard(r) PROVE OwnerInv'
    <3>1. \A e \in Name : by'[e] # None => by'[e] = by[e] /\ (e \in owned' => e \in owned)
      BY <2>7 DEF CreateCard, cardVars, leadVars, Begin, UnderWay, Basics, TypeInv,
          TypeOK, Steps, There
    <3>2. \A q \in Request : pc'[q] = "save" /\ shown'[q] = "owner" =>
             pc[q] = "save" /\ shown[q] = "owner" /\ card'[q] = card[q]
      BY <2>7 DEF CreateCard, cardVars, leadVars, Begin, UnderWay, Basics, TypeInv,
          TypeOK
    <3>3. \A q \in Request : pc[q] = "saved" =>
             pc'[q] = "saved" /\ card'[q] = card[q] /\ shown'[q] = shown[q]
      BY <2>7 DEF CreateCard, cardVars, leadVars, Begin, UnderWay, Basics, TypeInv,
          TypeOK
    <3>4. \A q \in Request : met[q] \subseteq met'[q]
      BY BeginStep, <2>7 DEF CreateCard
    <3>5. owned' \subseteq Name
      BY <2>7 DEF CreateCard, cardVars, leadVars, Begin, UnderWay, Basics, TypeInv,
          TypeOK
    <3>6. QED
      BY <3>1, <3>2, <3>3, <3>4, <3>5, OwnersKept
  <2>8. ASSUME NEW r \in Request, ProbeNext(r) PROVE OwnerInv'
    <3>1. \A e \in Name : by'[e] # None => by'[e] = by[e] /\ (e \in owned' => e \in owned)
      BY <2>8 DEF ProbeNext, cardVars, leadVars, GoTo, Basics, TypeInv, TypeOK,
          Steps, There
    <3>2. \A q \in Request : pc'[q] = "save" /\ shown'[q] = "owner" =>
             pc[q] = "save" /\ shown[q] = "owner" /\ card'[q] = card[q]
      BY <2>8 DEF ProbeNext, cardVars, leadVars, GoTo, Basics, TypeInv, TypeOK
    <3>3. \A q \in Request : pc[q] = "saved" =>
             pc'[q] = "saved" /\ card'[q] = card[q] /\ shown'[q] = shown[q]
      BY <2>8 DEF ProbeNext, cardVars, leadVars, GoTo, Basics, TypeInv, TypeOK
    <3>4. \A q \in Request : met[q] \subseteq met'[q]
      BY <2>8 DEF ProbeNext, cardVars, leadVars, GoTo
    <3>5. owned' \subseteq Name
      BY <2>8 DEF ProbeNext, cardVars, leadVars, GoTo, Basics, TypeInv, TypeOK
    <3>6. QED
      BY <3>1, <3>2, <3>3, <3>4, <3>5, OwnersKept
  <2>9. ASSUME NEW r \in Request, ProbeFree(r) PROVE OwnerInv'
    <3>1. \A e \in Name : by'[e] # None => by'[e] = by[e] /\ (e \in owned' => e \in owned)
      BY <2>9 DEF ProbeFree, cardVars, leadVars, GoTo, Basics, TypeInv, TypeOK,
          Steps, There
    <3>2. \A q \in Request : pc'[q] = "save" /\ shown'[q] = "owner" =>
             pc[q] = "save" /\ shown[q] = "owner" /\ card'[q] = card[q]
      BY <2>9 DEF ProbeFree, cardVars, leadVars, GoTo, Basics, TypeInv, TypeOK
    <3>3. \A q \in Request : pc[q] = "saved" =>
             pc'[q] = "saved" /\ card'[q] = card[q] /\ shown'[q] = shown[q]
      BY <2>9 DEF ProbeFree, cardVars, leadVars, GoTo, Basics, TypeInv, TypeOK
    <3>4. \A q \in Request : met[q] \subseteq met'[q]
      BY <2>9 DEF ProbeFree, cardVars, leadVars, GoTo
    <3>5. owned' \subseteq Name
      BY <2>9 DEF ProbeFree, cardVars, leadVars, GoTo, Basics, TypeInv, TypeOK
    <3>6. QED
      BY <3>1, <3>2, <3>3, <3>4, <3>5, OwnersKept
  <2>10. ASSUME NEW r \in Request, Insert(r) PROVE OwnerInv'
    <3>1. \A e \in Name : by'[e] # None => by'[e] = by[e] /\ (e \in owned' => e \in owned)
      BY <2>10 DEF Insert, leadVars, End, Basics, TypeInv, TypeOK, Steps, There
    <3>2. \A q \in Request : pc'[q] = "save" /\ shown'[q] = "owner" =>
             pc[q] = "save" /\ shown[q] = "owner" /\ card'[q] = card[q]
      BY <2>10 DEF Insert, leadVars, End, Basics, TypeInv, TypeOK
    <3>3. \A q \in Request : pc[q] = "saved" =>
             pc'[q] = "saved" /\ card'[q] = card[q] /\ shown'[q] = shown[q]
      BY <2>10 DEF Insert, leadVars, End, Basics, TypeInv, TypeOK
    <3>4. \A q \in Request : met[q] \subseteq met'[q]
      BY <2>10 DEF Insert, leadVars, End
    <3>5. owned' \subseteq Name
      BY <2>10 DEF Insert, leadVars, End, Basics, TypeInv, TypeOK
    <3>6. QED
      BY <3>1, <3>2, <3>3, <3>4, <3>5, OwnersKept
  <2>11. ASSUME NEW r \in Request, NEW c \in Name, Connect(r, c) PROVE OwnerInv'
    <3>1. \A e \in Name : by'[e] # None => by'[e] = by[e] /\ (e \in owned' => e \in owned)
      BY <2>11 DEF Connect, cardVars, leadVars, Begin, UnderWay, Basics, TypeInv,
          TypeOK, Steps, There
    <3>2. \A q \in Request : pc'[q] = "save" /\ shown'[q] = "owner" =>
             pc[q] = "save" /\ shown[q] = "owner" /\ card'[q] = card[q]
      BY <2>11 DEF Connect, cardVars, leadVars, Begin, UnderWay, Basics, TypeInv,
          TypeOK
    <3>3. \A q \in Request : pc[q] = "saved" =>
             pc'[q] = "saved" /\ card'[q] = card[q] /\ shown'[q] = shown[q]
      BY <2>11 DEF Connect, cardVars, leadVars, Begin, UnderWay, Basics, TypeInv,
          TypeOK
    <3>4. \A q \in Request : met[q] \subseteq met'[q]
      BY BeginStep, <2>11 DEF Connect
    <3>5. owned' \subseteq Name
      BY <2>11 DEF Connect, cardVars, leadVars, Begin, UnderWay, Basics, TypeInv,
          TypeOK
    <3>6. QED
      BY <3>1, <3>2, <3>3, <3>4, <3>5, OwnersKept
  <2>12. ASSUME NEW r \in Request, StoreLead(r) PROVE OwnerInv'
    <3>1. \A e \in Name : by'[e] # None => by'[e] = by[e] /\ (e \in owned' => e \in owned)
      BY <2>12 DEF StoreLead, cardVars, End, Basics, TypeInv, TypeOK, Steps, There
    <3>2. \A q \in Request : pc'[q] = "save" /\ shown'[q] = "owner" =>
             pc[q] = "save" /\ shown[q] = "owner" /\ card'[q] = card[q]
      BY <2>12 DEF StoreLead, cardVars, End, Basics, TypeInv, TypeOK
    <3>3. \A q \in Request : pc[q] = "saved" =>
             pc'[q] = "saved" /\ card'[q] = card[q] /\ shown'[q] = shown[q]
      BY <2>12 DEF StoreLead, cardVars, End, Basics, TypeInv, TypeOK
    <3>4. \A q \in Request : met[q] \subseteq met'[q]
      BY <2>12 DEF StoreLead, cardVars, End
    <3>5. owned' \subseteq Name
      BY <2>12 DEF StoreLead, cardVars, End, Basics, TypeInv, TypeOK
    <3>6. QED
      BY <3>1, <3>2, <3>3, <3>4, <3>5, OwnersKept
  <2>13. ASSUME NEW r \in Request, NEW c \in Name, NEW typed \in BOOLEAN,
                OpenEditor(r, c, typed)
         PROVE  OwnerInv'
    <3> USE DEF Basics, TypeInv, TypeOK
    <3>1. /\ pc[r] = "idle" /\ pc' = [pc EXCEPT ![r] = "save"] /\ card' = [card EXCEPT ![r] = c]
          /\ \A q \in Request : met[q] \subseteq met'[q]
      BY BeginStep, <2>13 DEF OpenEditor
    <3>2. /\ UNCHANGED <<owned, by>> /\ (shown'[r] = "owner" => c \in owned)
          /\ \A q \in Request : q # r => shown'[q] = shown[q]
      BY <2>13 DEF OpenEditor, cardVars
    <3>3. ASSUME NEW e \in Name, by[e] # None, CameBack(e) PROVE CameBack(e)'
      BY <3>1, <3>2, <3>3 DEF CameBack
    <3>4. \A e \in owned' : by'[e] # None => CameBack(e)'
      BY <3>2, <3>3 DEF OwnerInv
    <3>5. ASSUME NEW q \in Request, pc'[q] = "save", shown'[q] = "owner", by'[card'[q]] # None
          PROVE  q \in met'[by'[card'[q]]] \/ \E e \in Name : e = card'[q] /\ CameBack(e)'
      <4>1. CASE q = r
        BY <4>1, <3>1, <3>2, <3>4, <3>5
      <4>2. CASE q # r
        <5>1. pc[q] = "save" /\ shown[q] = "owner" /\ card[q] \in Name /\ card'[q] = card[q]
          BY <4>2, <3>1, <3>2, <3>5 DEF Steps
        <5>2. by[card[q]] # None /\ by'[card[q]] = by[card[q]]
          BY <5>1, <3>2, <3>5
        <5>3. q \in met[by[card[q]]] \/ CameBack(card[q])
          BY <5>1, <5>2 DEF OwnerInv
        <5>4. QED
          BY <5>1, <5>2, <5>3, <3>1, <3>3
      <4>3. QED
        BY <4>1, <4>2
    <3>6. QED
      BY <3>4, <3>5 DEF OwnerInv, CameBack
  <2>14. ASSUME NEW r \in Request, SaveCard(r) PROVE OwnerInv'
    <3> USE DEF Basics, TypeInv, TypeOK
    <3>1. /\ pc[r] = "save" /\ pc' = [pc EXCEPT ![r] = "saved"] /\ card[r] \in Name
          /\ UNCHANGED <<card, met, by, shown>>
          /\ owned' = IF shown[r] = "nobody" THEN owned \ {card[r]} ELSE owned \union {card[r]}
      BY <2>14 DEF SaveCard, GoTo, Steps
    <3>2. ASSUME NEW e \in Name, by[e] # None, CameBack(e) PROVE CameBack(e)'
      BY <3>1, <3>2 DEF CameBack
    <3>3. ASSUME NEW e \in owned', by'[e] # None PROVE CameBack(e)'
      <4>1. CASE e \in owned
        BY <4>1, <3>1, <3>2, <3>3 DEF OwnerInv
      <4>2. CASE e \notin owned
        <5>1. e = card[r] /\ shown[r] \in {"owner", "typed"}
          BY <4>2, <3>1, <3>3
        <5>2. CASE shown[r] = "typed"
          BY <5>1, <5>2, <3>1 DEF CameBack
        <5>3. CASE shown[r] = "owner" /\ r \in met[by[e]]
          BY <5>1, <5>3, <3>1 DEF CameBack
        <5>4. CASE shown[r] = "owner" /\ CameBack(e)
          BY <5>1, <5>4, <3>1, <3>2, <3>3
        <5>5. QED
          BY <5>1, <5>2, <5>3, <5>4, <3>1, <3>3 DEF OwnerInv
      <4>3. QED
        BY <4>1, <4>2
    <3>4. ASSUME NEW q \in Request, pc'[q] = "save", shown'[q] = "owner", by'[card'[q]] # None
          PROVE  q \in met'[by'[card'[q]]] \/ \E e \in Name : e = card'[q] /\ CameBack(e)'
      <4>1. pc[q] = "save" /\ shown[q] = "owner" /\ card[q] \in Name /\ by[card[q]] # None
        BY <3>1, <3>4 DEF Steps
      <4>2. q \in met[by[card[q]]] \/ CameBack(card[q])
        BY <4>1 DEF OwnerInv
      <4>3. QED
        BY <4>1, <4>2, <3>1, <3>2
    <3>5. QED
      BY <3>3, <3>4 DEF OwnerInv, CameBack
  <2>15. ASSUME NEW r \in Request, NEW c \in Name, DeleteCard(r, c) PROVE OwnerInv'
    <3>1. \A e \in Name : by'[e] # None => by'[e] = by[e] /\ (e \in owned' => e \in owned)
      BY <2>15 DEF DeleteCard, Begin, UnderWay, Basics, TypeInv, TypeOK, Steps, There
    <3>2. \A q \in Request : pc'[q] = "save" /\ shown'[q] = "owner" =>
             pc[q] = "save" /\ shown[q] = "owner" /\ card'[q] = card[q]
      BY <2>15 DEF DeleteCard, Begin, UnderWay, Basics, TypeInv, TypeOK
    <3>3. \A q \in Request : pc[q] = "saved" =>
             pc'[q] = "saved" /\ card'[q] = card[q] /\ shown'[q] = shown[q]
      BY <2>15 DEF DeleteCard, Begin, UnderWay, Basics, TypeInv, TypeOK
    <3>4. \A q \in Request : met[q] \subseteq met'[q]
      BY BeginStep, <2>15 DEF DeleteCard
    <3>5. owned' \subseteq Name
      BY <2>15 DEF DeleteCard, Begin, UnderWay, Basics, TypeInv, TypeOK
    <3>6. QED
      BY <3>1, <3>2, <3>3, <3>4, <3>5, OwnersKept
  <2>16. ASSUME NEW r \in Request, NEW c \in Name, NEW b \in BOOLEAN,
                PatchActive(r, c, b)
         PROVE  OwnerInv'
    <3>1. \A e \in Name : by'[e] # None => by'[e] = by[e] /\ (e \in owned' => e \in owned)
      BY <2>16 DEF PatchActive, leadVars, Begin, UnderWay, Basics, TypeInv, TypeOK,
          Steps, There
    <3>2. \A q \in Request : pc'[q] = "save" /\ shown'[q] = "owner" =>
             pc[q] = "save" /\ shown[q] = "owner" /\ card'[q] = card[q]
      BY <2>16 DEF PatchActive, leadVars, Begin, UnderWay, Basics, TypeInv, TypeOK
    <3>3. \A q \in Request : pc[q] = "saved" =>
             pc'[q] = "saved" /\ card'[q] = card[q] /\ shown'[q] = shown[q]
      BY <2>16 DEF PatchActive, leadVars, Begin, UnderWay, Basics, TypeInv, TypeOK
    <3>4. \A q \in Request : met[q] \subseteq met'[q]
      BY BeginStep, <2>16 DEF PatchActive
    <3>5. owned' \subseteq Name
      BY <2>16 DEF PatchActive, leadVars, Begin, UnderWay, Basics, TypeInv, TypeOK
    <3>6. QED
      BY <3>1, <3>2, <3>3, <3>4, <3>5, OwnersKept
  <2>17. ASSUME NEW r \in Request, Stop(r) PROVE OwnerInv'
    <3>1. \A e \in Name : by'[e] # None => by'[e] = by[e] /\ (e \in owned' => e \in owned)
      BY <2>17 DEF Stop, cardVars, leadVars, End, UnderWay, Basics, TypeInv, TypeOK,
          Steps, There
    <3>2. \A q \in Request : pc'[q] = "save" /\ shown'[q] = "owner" =>
             pc[q] = "save" /\ shown[q] = "owner" /\ card'[q] = card[q]
      BY <2>17 DEF Stop, cardVars, leadVars, End, UnderWay, Basics, TypeInv, TypeOK
    <3>3. \A q \in Request : pc[q] = "saved" =>
             pc'[q] = "saved" /\ card'[q] = card[q] /\ shown'[q] = shown[q]
      BY <2>17 DEF Stop, cardVars, leadVars, End, UnderWay, Basics, TypeInv, TypeOK
    <3>4. \A q \in Request : met[q] \subseteq met'[q]
      BY <2>17 DEF Stop, cardVars, leadVars, End, UnderWay
    <3>5. owned' \subseteq Name
      BY <2>17 DEF Stop, cardVars, leadVars, End, UnderWay, Basics, TypeInv, TypeOK
    <3>6. QED
      BY <3>1, <3>2, <3>3, <3>4, <3>5, OwnersKept
  <2>18. CASE UNCHANGED vars
    <3>1. \A e \in Name : by'[e] # None => by'[e] = by[e] /\ (e \in owned' => e \in owned)
      BY <2>18 DEF vars, cardVars, leadVars, formVars, Basics, TypeInv, TypeOK,
          Steps, There
    <3>2. \A q \in Request : pc'[q] = "save" /\ shown'[q] = "owner" =>
             pc[q] = "save" /\ shown[q] = "owner" /\ card'[q] = card[q]
      BY <2>18 DEF vars, cardVars, leadVars, formVars, Basics, TypeInv, TypeOK
    <3>3. \A q \in Request : pc[q] = "saved" =>
             pc'[q] = "saved" /\ card'[q] = card[q] /\ shown'[q] = shown[q]
      BY <2>18 DEF vars, cardVars, leadVars, formVars, Basics, TypeInv, TypeOK
    <3>4. \A q \in Request : met[q] \subseteq met'[q]
      BY <2>18 DEF vars, cardVars, leadVars, formVars
    <3>5. owned' \subseteq Name
      BY <2>18 DEF vars, cardVars, leadVars, formVars, Basics, TypeInv, TypeOK
    <3>6. QED
      BY <3>1, <3>2, <3>3, <3>4, <3>5, OwnersKept
  <2>19. QED
    BY <2>1, <2>2, <2>3, <2>4, <2>5, <2>6, <2>7, <2>8, <2>9, <2>10, <2>11, <2>12,
       <2>13, <2>14, <2>15, <2>16, <2>17, <2>18 DEF Next
<1>3. Basics /\ OwnerInv => OwnerStaysGone
  BY DEF OwnerInv, OwnerStaysGone, CameBack
<1>4. QED
  BY <1>1, <1>2, <1>3, BasicsCorrect, PTL DEF Spec
-----------------------------------------------------------------------------
\* Leads that arrive while a turnover is between moving the leads and switching
\* the card off, and submissions that found the card before it went off.
MovedInv ==
    \A t \in Request : pc[t] = "offboard" /\ target[t] # None =>
        \A l \in Request : at[l] = card[t] => arrived[l] \in met[t]

StoreInv ==
    \A q \in Request : pc[q] = "store" /\ by[card[q]] # None /\ card[q] \notin woken
        => q \in met[by[card[q]]]

LeadInv == NoLeadLeftBehind /\ MovedInv /\ StoreInv

\* What a turnover leaves behind came while it was under way.
THEOREM NoLeadsLeftBehind == Spec => []NoLeadLeftBehind
<1>1. Init => LeadInv
  BY DEF Init, LeadInv, NoLeadLeftBehind, MovedInv, StoreInv, LeadsOf
<1>2. Basics /\ LeadInv /\ [Next]_vars => LeadInv'
  <2> SUFFICES ASSUME Basics, LeadInv, [Next]_vars PROVE LeadInv'
    OBVIOUS
  <2> USE DEF Basics, TypeInv, TypeOK, Steps, LeadInv
  <2>1. ASSUME NEW r \in Request, NEW c \in Name,
               NEW d \in Offered(c) \union {None}, NEW x \in Offered(c) \union {None},
               StartTurnover(r, c, d, x)
        PROVE  LeadInv'
    BY <2>1 DEF StartTurnover, cardVars, leadVars, Begin, UnderWay, AfterRedirect,
        NoLeadLeftBehind, MovedInv, StoreInv, LeadsOf
  <2>2. ASSUME NEW r \in Request, CheckRedirect(r) PROVE LeadInv'
    BY <2>2 DEF CheckRedirect, cardVars, leadVars, GoTo, AfterRedirect,
        NoLeadLeftBehind, MovedInv, StoreInv, LeadsOf
  <2>3. ASSUME NEW r \in Request, FindTarget(r) PROVE LeadInv'
    BY <2>3 DEF FindTarget, cardVars, leadVars, GoTo, NoLeadLeftBehind, MovedInv,
        StoreInv, LeadsOf
  <2>4. ASSUME NEW r \in Request, KeepLeads(r) PROVE LeadInv'
    BY <2>4 DEF KeepLeads, cardVars, leadVars, GoTo, NoLeadLeftBehind, MovedInv,
        StoreInv, LeadsOf
  <2>5. ASSUME NEW r \in Request, MoveLeads(r) PROVE LeadInv'
    <3>1. /\ pc[r] = "move" /\ pc' = [pc EXCEPT ![r] = "offboard"]
          /\ UNCHANGED <<card, met, target, by, woken>>
          /\ card[r] \in Name /\ target[r] \in Name /\ target[r] # card[r]
      BY <2>5 DEF MoveLeads, GoTo, formVars, cardVars
    <3>2. ASSUME NEW l \in Request, at[l] = card[r]
          PROVE  /\ at'[l] = target[r] /\ arrived'[l] = r
                 /\ l \notin stray' => by[target[r]] = None
      BY <3>2, <2>5 DEF MoveLeads, LeadsOf
    <3>3. ASSUME NEW l \in Request, at[l] # card[r]
          PROVE  at'[l] = at[l] /\ arrived'[l] = arrived[l] /\ (l \notin stray' => l \notin stray)
      BY <3>3, <2>5 DEF MoveLeads, LeadsOf
    <3>4. NoLeadLeftBehind'
      <4> SUFFICES ASSUME NEW c \in Name, c \notin woken, by[c] # None, target[by[c]] # None,
                          NEW l \in Request, at'[l] = c, l \notin stray'
                   PROVE  arrived'[l] \in met[by[c]]
        BY <3>1 DEF NoLeadLeftBehind, LeadsOf
      <4>1. at[l] # card[r]
        BY <3>1, <3>2
      <4>2. QED
        BY <4>1, <3>3 DEF NoLeadLeftBehind, LeadsOf
    <3>5. MovedInv'
      <4> SUFFICES ASSUME NEW t \in Request, pc'[t] = "offboard", target[t] # None,
                          NEW l \in Request, at'[l] = card[t]
                   PROVE  arrived'[l] \in met[t]
        BY <3>1 DEF MovedInv
      <4>1. CASE t = r
        BY <4>1, <3>1, <3>2, <3>3
      <4>2. CASE t # r /\ at[l] = card[r]
        BY <4>2, <3>1, <3>2 DEF MetInv
      <4>3. CASE t # r /\ at[l] # card[r]
        BY <4>3, <3>1, <3>3 DEF MovedInv
      <4>4. QED
        BY <4>1, <4>2, <4>3
    <3>6. StoreInv'
      BY <3>1 DEF StoreInv
    <3>7. QED
      BY <3>4, <3>5, <3>6
  <2>6. ASSUME NEW r \in Request, Offboard(r) PROVE LeadInv'
    <3>1. /\ pc[r] = "offboard" /\ card[r] \in Name
          /\ by' = [by EXCEPT ![card[r]] = r]
          /\ UNCHANGED <<woken, at, arrived, stray, target, met>>
          /\ pc'[r] \in {"done", "probe"}
          /\ \A q \in Request : q # r => pc'[q] = pc[q] /\ card'[q] = card[q]
      BY OffboardStep, <2>6
    <3>2. NoLeadLeftBehind'
      <4> SUFFICES ASSUME NEW c \in Name, c \notin woken, by'[c] # None, target[by'[c]] # None,
                          NEW l \in Request, at[l] = c, l \notin stray
                   PROVE  arrived[l] \in met[by'[c]]
        BY <3>1 DEF NoLeadLeftBehind, LeadsOf
      <4>1. CASE c = card[r]
        BY <4>1, <3>1 DEF MovedInv
      <4>2. CASE c # card[r]
        BY <4>2, <3>1 DEF NoLeadLeftBehind, LeadsOf
      <4>3. QED
        BY <4>1, <4>2
    <3>3. MovedInv'
      BY <3>1 DEF MovedInv
    <3>4. StoreInv'
      <4> SUFFICES ASSUME NEW q \in Request, pc'[q] = "store", by'[card'[q]] # None,
                          card'[q] \notin woken
                   PROVE  q \in met[by'[card'[q]]]
        BY <3>1 DEF StoreInv
      <4>1. q # r /\ pc[q] = "store" /\ card'[q] = card[q]
        BY <3>1
      <4>2. CASE card[q] = card[r]
        BY <4>1, <4>2, <3>1 DEF MetInv
      <4>3. CASE card[q] # card[r]
        BY <4>1, <4>3, <3>1 DEF StoreInv
      <4>4. QED
        BY <4>2, <4>3
    <3>5. QED
      BY <3>2, <3>3, <3>4
  <2>7. ASSUME NEW r \in Request, CreateCard(r) PROVE LeadInv'
    BY <2>7 DEF CreateCard, cardVars, leadVars, Begin, UnderWay, NoLeadLeftBehind,
        MovedInv, StoreInv, LeadsOf
  <2>8. ASSUME NEW r \in Request, ProbeNext(r) PROVE LeadInv'
    BY <2>8 DEF ProbeNext, cardVars, leadVars, GoTo, NoLeadLeftBehind, MovedInv,
        StoreInv, LeadsOf
  <2>9. ASSUME NEW r \in Request, ProbeFree(r) PROVE LeadInv'
    BY <2>9 DEF ProbeFree, cardVars, leadVars, GoTo, NoLeadLeftBehind, MovedInv,
        StoreInv, LeadsOf
  <2>10. ASSUME NEW r \in Request, Insert(r) PROVE LeadInv'
    BY <2>10 DEF Insert, leadVars, End, NoLeadLeftBehind, MovedInv, StoreInv,
        LeadsOf
  <2>11. ASSUME NEW r \in Request, NEW c \in Name, Connect(r, c) PROVE LeadInv'
    <3>1. /\ pc' = [pc EXCEPT ![r] = "store"] /\ card' = [card EXCEPT ![r] = c]
          /\ \A q \in Request : met[q] \subseteq met'[q]
      BY BeginStep, <2>11 DEF Connect
    <3>2. UNCHANGED <<at, arrived, stray, target, by, woken>> /\ (by[c] # None => c \in woken)
      BY <2>11 DEF Connect, Served, cardVars, leadVars
    <3>3. NoLeadLeftBehind'
      BY <3>1, <3>2 DEF NoLeadLeftBehind, LeadsOf
    <3>4. MovedInv'
      BY <3>1, <3>2 DEF MovedInv
    <3>5. StoreInv'
      BY <3>1, <3>2 DEF StoreInv
    <3>6. QED
      BY <3>3, <3>4, <3>5
  <2>12. ASSUME NEW r \in Request, StoreLead(r) PROVE LeadInv'
    <3>1. /\ pc[r] = "store" /\ card[r] \in Name /\ pc'[r] = "done"
          /\ \A q \in Request : q # r => pc'[q] = pc[q] /\ card'[q] = card[q]
          /\ UNCHANGED <<met, by, woken, stray, target>>
      BY <2>12 DEF StoreLead, End, cardVars
    <3>2. /\ at' = [at EXCEPT ![r] = card[r]] /\ arrived' = [arrived EXCEPT ![r] = r]
      BY <2>12 DEF StoreLead
    <3>3. NoLeadLeftBehind'
      <4> SUFFICES ASSUME NEW c \in Name, c \notin woken, by[c] # None, target[by[c]] # None,
                          NEW l \in Request, at'[l] = c, l \notin stray
                   PROVE  arrived'[l] \in met[by[c]]
        BY <3>1 DEF NoLeadLeftBehind, LeadsOf
      <4>1. CASE l = r
        BY <4>1, <3>1, <3>2 DEF StoreInv
      <4>2. CASE l # r
        BY <4>2, <3>2 DEF NoLeadLeftBehind, LeadsOf
      <4>3. QED
        BY <4>1, <4>2
    <3>4. MovedInv'
      <4> SUFFICES ASSUME NEW t \in Request, pc[t] = "offboard", t # r, target[t] # None,
                          NEW l \in Request, at'[l] = card[t]
                   PROVE  arrived'[l] \in met[t]
        BY <3>1 DEF MovedInv
      <4>1. CASE l = r
        <5>1. arrived'[l] = r /\ pc[r] = "store"
          BY <4>1, <3>1, <3>2
        <5>2. r \in met[t]
          BY <3>1 DEF MetInv
        <5>3. QED
          BY <5>1, <5>2
      <4>2. CASE l # r
        BY <4>2, <3>2 DEF MovedInv
      <4>3. QED
        BY <4>1, <4>2
    <3>5. StoreInv'
      BY <3>1 DEF StoreInv
    <3>6. QED
      BY <3>3, <3>4, <3>5
  <2>13. ASSUME NEW r \in Request, NEW c \in Name, NEW typed \in BOOLEAN,
                OpenEditor(r, c, typed)
         PROVE  LeadInv'
    BY <2>13, SMTT(40) DEF OpenEditor, cardVars, leadVars, Begin, UnderWay, NoLeadLeftBehind,
        MovedInv, StoreInv, LeadsOf
  <2>14. ASSUME NEW r \in Request, SaveCard(r) PROVE LeadInv'
    BY <2>14 DEF SaveCard, leadVars, GoTo, NoLeadLeftBehind, MovedInv, StoreInv,
        LeadsOf
  <2>15. ASSUME NEW r \in Request, NEW c \in Name, DeleteCard(r, c) PROVE LeadInv'
    <3>1. /\ pc' = [pc EXCEPT ![r] = "done"] /\ card' = [card EXCEPT ![r] = None]
          /\ \A q \in Request : met[q] \subseteq met'[q]
      BY BeginStep, <2>15 DEF DeleteCard
    <3>2. /\ UNCHANGED <<arrived, target>> /\ woken' = woken \ {c}
          /\ by' = [by EXCEPT ![c] = None]
          /\ \A l \in Request : at'[l] # None =>
                at'[l] = at[l] /\ at[l] # c /\ (l \notin stray' => l \notin stray)
      BY <2>15 DEF DeleteCard, Cascade, LeadsOf
    <3>3. NoLeadLeftBehind'
      <4> SUFFICES ASSUME NEW e \in Name, e \notin woken', by'[e] # None, target[by'[e]] # None,
                          NEW l \in Request, at'[l] = e, l \notin stray'
                   PROVE  arrived[l] \in met'[by'[e]]
        BY <3>2 DEF NoLeadLeftBehind, LeadsOf
      <4>1. e # c /\ by'[e] = by[e] /\ e \notin woken /\ at[l] = e /\ l \notin stray
        BY <3>2
      <4>2. QED
        BY <4>1, <3>1, <3>2 DEF NoLeadLeftBehind, LeadsOf
    <3>4. MovedInv'
      BY <3>1, <3>2 DEF MovedInv
    <3>5. StoreInv'
      BY <3>1, <3>2 DEF StoreInv
    <3>6. QED
      BY <3>3, <3>4, <3>5
  <2>16. ASSUME NEW r \in Request, NEW c \in Name, NEW b \in BOOLEAN,
                PatchActive(r, c, b)
         PROVE  LeadInv'
    <3>1. /\ pc' = [pc EXCEPT ![r] = "done"] /\ card' = [card EXCEPT ![r] = None]
          /\ \A q \in Request : met[q] \subseteq met'[q]
      BY BeginStep, <2>16 DEF PatchActive
    <3>2. UNCHANGED <<at, arrived, stray, target, by>> /\ woken \subseteq woken'
      BY <2>16 DEF PatchActive, leadVars
    <3>3. NoLeadLeftBehind'
      BY <3>1, <3>2 DEF NoLeadLeftBehind, LeadsOf
    <3>4. MovedInv'
      BY <3>1, <3>2 DEF MovedInv
    <3>5. StoreInv'
      BY <3>1, <3>2 DEF StoreInv
    <3>6. QED
      BY <3>3, <3>4, <3>5
  <2>17. ASSUME NEW r \in Request, Stop(r) PROVE LeadInv'
    BY <2>17 DEF Stop, cardVars, leadVars, End, UnderWay, NoLeadLeftBehind,
        MovedInv, StoreInv, LeadsOf
  <2>18. CASE UNCHANGED vars
    BY <2>18 DEF vars, cardVars, leadVars, formVars, NoLeadLeftBehind, MovedInv,
        StoreInv, LeadsOf
  <2> HIDE DEF Basics, TypeInv, TypeOK, Steps, LeadInv
  <2>19. QED
    BY <2>1, <2>2, <2>3, <2>4, <2>5, <2>6, <2>7, <2>8, <2>9, <2>10, <2>11, <2>12,
       <2>13, <2>14, <2>15, <2>16, <2>17, <2>18 DEF Next
<1>3. Basics /\ LeadInv => NoLeadLeftBehind
  BY DEF Basics, LeadInv, NoLeadLeftBehind
<1>4. QED
  BY <1>1, <1>2, <1>3, BasicsCorrect, PTL DEF Spec
-----------------------------------------------------------------------------
\* Between the check of the redirect target and the step that stores it, a
\* turnover has met whoever made the target redirect.
TargetInv ==
    \A t \in Request : pc[t] \in {"target", "move", "offboard"} /\ choice[t] # 0 =>
        \A d \in Name : row[d] = "off" /\ redirect[d] # 0 /\ d \notin woken /\ slug[d] = choice[t]
            => by[d] \in met[t]

THEOREM TargetsMet == Spec => []TargetInv
<1>1. Init => TargetInv
  BY DEF Init, TargetInv
<1>2. Basics /\ TargetInv /\ [Next]_vars => TargetInv'
  <2> SUFFICES ASSUME Basics, TargetInv, [Next]_vars PROVE TargetInv'
    OBVIOUS
  <2> USE DEF Basics, TypeInv, TypeOK, Steps, TargetInv
  <2>1. ASSUME NEW r \in Request, NEW c \in Name,
               NEW d \in Offered(c) \union {None}, NEW x \in Offered(c) \union {None},
               StartTurnover(r, c, d, x)
        PROVE  TargetInv'
    BY <2>1 DEF StartTurnover, cardVars, leadVars, Begin, UnderWay, AfterRedirect
  <2>2. ASSUME NEW r \in Request, CheckRedirect(r) PROVE TargetInv'
    <3>1. /\ pc[r] = "check" /\ UNCHANGED <<row, slug, redirect, by, woken, met>>
          /\ \A q \in Request : q # r => pc'[q] = pc[q] /\ choice'[q] = choice[q]
      BY <2>2 DEF CheckRedirect, GoTo, cardVars
    <3>2. choice'[r] # 0 =>
            choice'[r] = choice[r] /\ \E e \in Name : slug[e] = choice[r] /\ row[e] = "on"
      BY <2>2 DEF CheckRedirect, Redirectable
    <3>3. \A d \in Name : row[d] = "off" /\ slug[d] = choice'[r] => choice'[r] = 0
      BY <3>2 DEF There
    <3>4. QED
      BY <3>1, <3>3
  <2>3. ASSUME NEW r \in Request, FindTarget(r) PROVE TargetInv'
    BY <2>3 DEF FindTarget, cardVars, leadVars, GoTo
  <2>4. ASSUME NEW r \in Request, KeepLeads(r) PROVE TargetInv'
    BY <2>4 DEF KeepLeads, cardVars, leadVars, GoTo
  <2>5. ASSUME NEW r \in Request, MoveLeads(r) PROVE TargetInv'
    BY <2>5 DEF MoveLeads, cardVars, formVars, GoTo
  <2>6. ASSUME NEW r \in Request, Offboard(r) PROVE TargetInv'
    <3>1. /\ pc[r] = "offboard" /\ card[r] \in Name
          /\ row' = [row EXCEPT ![card[r]] = "off"]
          /\ redirect' = [redirect EXCEPT ![card[r]] = choice[r]]
          /\ by' = [by EXCEPT ![card[r]] = r]
          /\ UNCHANGED <<slug, woken, met>>
          /\ pc'[r] \in {"done", "probe"}
          /\ \A q \in Request : q # r => pc'[q] = pc[q] /\ choice'[q] = choice[q]
      BY OffboardStep, <2>6
    <3>2. \A t \in Request : t # r /\ pc[t] \in {"target", "move", "offboard"} => r \in met[t]
      BY <3>1 DEF MetInv
    <3>3. \A d \in Name : d # card[r] => row'[d] = row[d] /\ redirect'[d] = redirect[d]
                                         /\ by'[d] = by[d]
      BY <3>1
    <3>4. QED
      BY <3>1, <3>2, <3>3
  <2>7. ASSUME NEW r \in Request, CreateCard(r) PROVE TargetInv'
    BY <2>7 DEF CreateCard, cardVars, leadVars, Begin, UnderWay
  <2>8. ASSUME NEW r \in Request, ProbeNext(r) PROVE TargetInv'
    BY <2>8 DEF ProbeNext, cardVars, leadVars, GoTo
  <2>9. ASSUME NEW r \in Request, ProbeFree(r) PROVE TargetInv'
    BY <2>9 DEF ProbeFree, cardVars, leadVars, GoTo
  <2>10. ASSUME NEW r \in Request, Insert(r) PROVE TargetInv'
    BY <2>10 DEF Insert, leadVars, End
  <2>11. ASSUME NEW r \in Request, NEW c \in Name, Connect(r, c) PROVE TargetInv'
    BY <2>11 DEF Connect, cardVars, leadVars, Begin, UnderWay
  <2>12. ASSUME NEW r \in Request, StoreLead(r) PROVE TargetInv'
    BY <2>12 DEF StoreLead, cardVars, End
  <2>13. ASSUME NEW r \in Request, NEW c \in Name, NEW typed \in BOOLEAN,
                OpenEditor(r, c, typed)
         PROVE  TargetInv'
    BY <2>13 DEF OpenEditor, cardVars, leadVars, Begin, UnderWay
  <2>14. ASSUME NEW r \in Request, SaveCard(r) PROVE TargetInv'
    BY <2>14 DEF SaveCard, leadVars, GoTo
  <2>15. ASSUME NEW r \in Request, NEW c \in Name, DeleteCard(r, c) PROVE TargetInv'
    BY <2>15 DEF DeleteCard, Begin, UnderWay
  <2>16. ASSUME NEW r \in Request, NEW c \in Name, NEW b \in BOOLEAN,
                PatchActive(r, c, b)
         PROVE  TargetInv'
    <3>1. /\ pc' = [pc EXCEPT ![r] = "done"] /\ \A q \in Request : met[q] \subseteq met'[q]
      BY BeginStep, <2>16 DEF PatchActive
    <3>2. /\ row' = [row EXCEPT ![c] = IF b THEN "on" ELSE "off"] /\ woken \subseteq woken'
          /\ UNCHANGED <<slug, redirect, by, choice>>
      BY <2>16 DEF PatchActive
    <3>3. row[c] \in {"on", "off"} /\ (redirect[c] # 0 /\ row[c] = "on" => c \in woken)
      BY <2>16 DEF PatchActive, There
    <3>4. QED
      BY <3>1, <3>2, <3>3
  <2>17. ASSUME NEW r \in Request, Stop(r) PROVE TargetInv'
    BY <2>17 DEF Stop, cardVars, leadVars, End, UnderWay
  <2>18. CASE UNCHANGED vars
    BY <2>18 DEF vars, cardVars, leadVars, formVars
  <2> HIDE DEF Basics, TypeInv, TypeOK, Steps, TargetInv
  <2>19. QED
    BY <2>1, <2>2, <2>3, <2>4, <2>5, <2>6, <2>7, <2>8, <2>9, <2>10, <2>11, <2>12,
       <2>13, <2>14, <2>15, <2>16, <2>17, <2>18 DEF Next
<1>3. QED
  BY <1>1, <1>2, BasicsCorrect, PTL DEF Spec
-----------------------------------------------------------------------------
\* A step keeps LoopsNeedOverlap if it lets no more cards redirect and changes
\* nothing about those that do.
LEMMA NoNewLoop ==
    ASSUME LoopsNeedOverlap, Basics,
           \A c \in Name : row'[c] = "off" /\ redirect'[c] # 0 /\ c \notin woken'
               => row[c] = "off" /\ redirect'[c] = redirect[c] /\ c \notin woken
                  /\ slug'[c] = slug[c] /\ by'[c] = by[c],
           \A r \in Request : met[r] \subseteq met'[r]
    PROVE  LoopsNeedOverlap'
<1> SUFFICES ASSUME NEW S \in SUBSET (Redirecting \ woken)', Circle(S)'
             PROVE  \E c, d \in S : by'[c] \in met'[by'[d]]
  BY DEF LoopsNeedOverlap
<1>1. \A c \in S : /\ c \in Redirecting \ woken /\ redirect'[c] = redirect[c]
                   /\ slug'[c] = slug[c] /\ by'[c] = by[c]
  BY DEF Redirecting
<1>2. Circle(S)
  BY <1>1 DEF Circle
<1>3. PICK c \in S, d \in S : by[c] \in met[by[d]]
  BY <1>1, <1>2 DEF LoopsNeedOverlap
<1>4. by[d] \in Request
  BY <1>1 DEF Redirecting, Basics, TypeInv, TypeOK, Steps
<1>5. QED
  BY <1>1, <1>3, <1>4

\* Circles of redirects take overlapping turnovers, whatever their length.
THEOREM LoopsTakeOverlap == Spec => []LoopsNeedOverlap
<1>1. Init => LoopsNeedOverlap
  <2>1. Init => Redirecting = {}
    BY DEF Init, Redirecting
  <2>2. QED
    BY <2>1 DEF LoopsNeedOverlap, Circle
<1>2. Basics /\ TargetInv /\ LoopsNeedOverlap /\ [Next]_vars => LoopsNeedOverlap'
  <2> SUFFICES ASSUME Basics, TargetInv, LoopsNeedOverlap, [Next]_vars PROVE LoopsNeedOverlap'
    OBVIOUS
  <2>1. ASSUME NEW r \in Request, NEW c \in Name,
               NEW d \in Offered(c) \union {None}, NEW x \in Offered(c) \union {None},
               StartTurnover(r, c, d, x)
        PROVE  LoopsNeedOverlap'
    <3>1. \A e \in Name : row'[e] = "off" /\ redirect'[e] # 0 /\ e \notin woken'
             => row[e] = "off" /\ redirect'[e] = redirect[e] /\ e \notin woken
                /\ slug'[e] = slug[e] /\ by'[e] = by[e]
      BY <2>1 DEF StartTurnover, cardVars, leadVars, Begin, UnderWay, AfterRedirect,
          Basics, TypeInv, TypeOK, Steps, There
    <3>2. \A q \in Request : met[q] \subseteq met'[q]
      BY BeginStep, <2>1 DEF StartTurnover
    <3>3. QED
      BY <3>1, <3>2, NoNewLoop
  <2>2. ASSUME NEW r \in Request, CheckRedirect(r) PROVE LoopsNeedOverlap'
    <3>1. \A e \in Name : row'[e] = "off" /\ redirect'[e] # 0 /\ e \notin woken'
             => row[e] = "off" /\ redirect'[e] = redirect[e] /\ e \notin woken
                /\ slug'[e] = slug[e] /\ by'[e] = by[e]
      BY <2>2 DEF CheckRedirect, cardVars, leadVars, GoTo, AfterRedirect, Basics,
          TypeInv, TypeOK, Steps, There
    <3>2. \A q \in Request : met[q] \subseteq met'[q]
      BY <2>2 DEF CheckRedirect, cardVars, leadVars, GoTo, AfterRedirect
    <3>3. QED
      BY <3>1, <3>2, NoNewLoop
  <2>3. ASSUME NEW r \in Request, FindTarget(r) PROVE LoopsNeedOverlap'
    <3>1. \A e \in Name : row'[e] = "off" /\ redirect'[e] # 0 /\ e \notin woken'
             => row[e] = "off" /\ redirect'[e] = redirect[e] /\ e \notin woken
                /\ slug'[e] = slug[e] /\ by'[e] = by[e]
      BY <2>3 DEF FindTarget, cardVars, leadVars, GoTo, Basics, TypeInv, TypeOK,
          Steps, There
    <3>2. \A q \in Request : met[q] \subseteq met'[q]
      BY <2>3 DEF FindTarget, cardVars, leadVars, GoTo
    <3>3. QED
      BY <3>1, <3>2, NoNewLoop
  <2>4. ASSUME NEW r \in Request, KeepLeads(r) PROVE LoopsNeedOverlap'
    <3>1. \A e \in Name : row'[e] = "off" /\ redirect'[e] # 0 /\ e \notin woken'
             => row[e] = "off" /\ redirect'[e] = redirect[e] /\ e \notin woken
                /\ slug'[e] = slug[e] /\ by'[e] = by[e]
      BY <2>4 DEF KeepLeads, cardVars, leadVars, GoTo, Basics, TypeInv, TypeOK,
          Steps, There
    <3>2. \A q \in Request : met[q] \subseteq met'[q]
      BY <2>4 DEF KeepLeads, cardVars, leadVars, GoTo
    <3>3. QED
      BY <3>1, <3>2, NoNewLoop
  <2>5. ASSUME NEW r \in Request, MoveLeads(r) PROVE LoopsNeedOverlap'
    <3>1. \A e \in Name : row'[e] = "off" /\ redirect'[e] # 0 /\ e \notin woken'
             => row[e] = "off" /\ redirect'[e] = redirect[e] /\ e \notin woken
                /\ slug'[e] = slug[e] /\ by'[e] = by[e]
      BY <2>5 DEF MoveLeads, cardVars, formVars, GoTo, Basics, TypeInv, TypeOK,
          Steps, There
    <3>2. \A q \in Request : met[q] \subseteq met'[q]
      BY <2>5 DEF MoveLeads, cardVars, formVars, GoTo
    <3>3. QED
      BY <3>1, <3>2, NoNewLoop
  <2>6. ASSUME NEW r \in Request, Offboard(r) PROVE LoopsNeedOverlap'
    <3> USE DEF Basics, TypeInv, Steps
    <3> DEFINE c == card[r]
    <3>1. /\ pc[r] = "offboard" /\ c \in Name /\ There(c) /\ row' = [row EXCEPT ![c] = "off"]
          /\ redirect' = [redirect EXCEPT ![c] = choice[r]]
          /\ by' = [by EXCEPT ![c] = r]
          /\ UNCHANGED <<slug, woken, met>>
      BY <2>6, OffboardStep
    <3> HIDE DEF c
    <3> SUFFICES ASSUME NEW S \in SUBSET (Redirecting \ woken)', Circle(S)'
                 PROVE  \E e, d \in S : by'[e] \in met'[by'[d]]
      BY DEF LoopsNeedOverlap
    <3>2. \A d \in S : d \in Name /\ (d # c => /\ d \in Redirecting \ woken
                                              /\ redirect'[d] = redirect[d] /\ by'[d] = by[d])
      BY <3>1 DEF Redirecting, TypeOK
    <3>3. CASE c \notin S
      <4>1. \A d \in S : /\ d \in Redirecting \ woken /\ redirect'[d] = redirect[d]
                         /\ by'[d] = by[d]
        BY <3>2, <3>3
      <4>2. Circle(S)
        BY <4>1, <3>1 DEF Circle
      <4>3. S \in SUBSET (Redirecting \ woken)
        BY <4>1
      <4>4. PICK e \in S, d \in S : by[e] \in met[by[d]]
        BY <4>2, <4>3 DEF LoopsNeedOverlap
      <4>5. QED
        BY <4>1, <4>4, <3>1
    <3>4. CASE c \in S
      <4>1. redirect'[c] = choice[r] /\ by'[c] = r /\ redirect'[c] # 0
        BY <3>1, <3>4 DEF Redirecting, TypeOK
      <4>2. PICK d \in S : slug[d] = choice[r]
        BY <3>1, <3>4, <4>1 DEF Circle
      <4>3. d # c
        BY <4>1, <4>2, <3>1 DEF c
      <4>4. by[d] \in met[r] /\ by'[d] = by[d]
        BY <4>1, <4>2, <4>3, <3>1, <3>2 DEF TargetInv, Redirecting
      <4>5. QED
        BY <4>1, <4>4, <3>1, <3>4
    <3>5. QED
      BY <3>3, <3>4
  <2>7. ASSUME NEW r \in Request, CreateCard(r) PROVE LoopsNeedOverlap'
    <3>1. \A e \in Name : row'[e] = "off" /\ redirect'[e] # 0 /\ e \notin woken'
             => row[e] = "off" /\ redirect'[e] = redirect[e] /\ e \notin woken
                /\ slug'[e] = slug[e] /\ by'[e] = by[e]
      BY <2>7 DEF CreateCard, cardVars, leadVars, Begin, UnderWay, Basics, TypeInv,
          TypeOK, Steps, There
    <3>2. \A q \in Request : met[q] \subseteq met'[q]
      BY BeginStep, <2>7 DEF CreateCard
    <3>3. QED
      BY <3>1, <3>2, NoNewLoop
  <2>8. ASSUME NEW r \in Request, ProbeNext(r) PROVE LoopsNeedOverlap'
    <3>1. \A e \in Name : row'[e] = "off" /\ redirect'[e] # 0 /\ e \notin woken'
             => row[e] = "off" /\ redirect'[e] = redirect[e] /\ e \notin woken
                /\ slug'[e] = slug[e] /\ by'[e] = by[e]
      BY <2>8 DEF ProbeNext, cardVars, leadVars, GoTo, Basics, TypeInv, TypeOK,
          Steps, There
    <3>2. \A q \in Request : met[q] \subseteq met'[q]
      BY <2>8 DEF ProbeNext, cardVars, leadVars, GoTo
    <3>3. QED
      BY <3>1, <3>2, NoNewLoop
  <2>9. ASSUME NEW r \in Request, ProbeFree(r) PROVE LoopsNeedOverlap'
    <3>1. \A e \in Name : row'[e] = "off" /\ redirect'[e] # 0 /\ e \notin woken'
             => row[e] = "off" /\ redirect'[e] = redirect[e] /\ e \notin woken
                /\ slug'[e] = slug[e] /\ by'[e] = by[e]
      BY <2>9 DEF ProbeFree, cardVars, leadVars, GoTo, Basics, TypeInv, TypeOK,
          Steps, There
    <3>2. \A q \in Request : met[q] \subseteq met'[q]
      BY <2>9 DEF ProbeFree, cardVars, leadVars, GoTo
    <3>3. QED
      BY <3>1, <3>2, NoNewLoop
  <2>10. ASSUME NEW r \in Request, Insert(r) PROVE LoopsNeedOverlap'
    <3>1. \A e \in Name : row'[e] = "off" /\ redirect'[e] # 0 /\ e \notin woken'
             => row[e] = "off" /\ redirect'[e] = redirect[e] /\ e \notin woken
                /\ slug'[e] = slug[e] /\ by'[e] = by[e]
      BY <2>10 DEF Insert, leadVars, End, Basics, TypeInv, TypeOK, Steps, There
    <3>2. \A q \in Request : met[q] \subseteq met'[q]
      BY <2>10 DEF Insert, leadVars, End
    <3>3. QED
      BY <3>1, <3>2, NoNewLoop
  <2>11. ASSUME NEW r \in Request, NEW c \in Name,
                Connect(r, c)
         PROVE  LoopsNeedOverlap'
    <3>1. \A e \in Name : row'[e] = "off" /\ redirect'[e] # 0 /\ e \notin woken'
             => row[e] = "off" /\ redirect'[e] = redirect[e] /\ e \notin woken
                /\ slug'[e] = slug[e] /\ by'[e] = by[e]
      BY <2>11 DEF Connect, cardVars, leadVars, Begin, UnderWay, Basics, TypeInv,
          TypeOK, Steps, There
    <3>2. \A q \in Request : met[q] \subseteq met'[q]
      BY BeginStep, <2>11 DEF Connect
    <3>3. QED
      BY <3>1, <3>2, NoNewLoop
  <2>12. ASSUME NEW r \in Request, StoreLead(r) PROVE LoopsNeedOverlap'
    <3>1. \A e \in Name : row'[e] = "off" /\ redirect'[e] # 0 /\ e \notin woken'
             => row[e] = "off" /\ redirect'[e] = redirect[e] /\ e \notin woken
                /\ slug'[e] = slug[e] /\ by'[e] = by[e]
      BY <2>12 DEF StoreLead, cardVars, End, Basics, TypeInv, TypeOK, Steps, There
    <3>2. \A q \in Request : met[q] \subseteq met'[q]
      BY <2>12 DEF StoreLead, cardVars, End
    <3>3. QED
      BY <3>1, <3>2, NoNewLoop
  <2>13. ASSUME NEW r \in Request, NEW c \in Name, NEW typed \in BOOLEAN,
                OpenEditor(r, c, typed)
         PROVE  LoopsNeedOverlap'
    <3>1. \A e \in Name : row'[e] = "off" /\ redirect'[e] # 0 /\ e \notin woken'
             => row[e] = "off" /\ redirect'[e] = redirect[e] /\ e \notin woken
                /\ slug'[e] = slug[e] /\ by'[e] = by[e]
      BY <2>13 DEF OpenEditor, cardVars, leadVars, Begin, UnderWay, Basics, TypeInv,
          TypeOK, Steps, There
    <3>2. \A q \in Request : met[q] \subseteq met'[q]
      BY BeginStep, <2>13 DEF OpenEditor
    <3>3. QED
      BY <3>1, <3>2, NoNewLoop
  <2>14. ASSUME NEW r \in Request, SaveCard(r) PROVE LoopsNeedOverlap'
    <3>1. \A e \in Name : row'[e] = "off" /\ redirect'[e] # 0 /\ e \notin woken'
             => row[e] = "off" /\ redirect'[e] = redirect[e] /\ e \notin woken
                /\ slug'[e] = slug[e] /\ by'[e] = by[e]
      BY <2>14 DEF SaveCard, leadVars, GoTo, Basics, TypeInv, TypeOK, Steps, There
    <3>2. \A q \in Request : met[q] \subseteq met'[q]
      BY <2>14 DEF SaveCard, leadVars, GoTo
    <3>3. QED
      BY <3>1, <3>2, NoNewLoop
  <2>15. ASSUME NEW r \in Request, NEW c \in Name,
                DeleteCard(r, c)
         PROVE  LoopsNeedOverlap'
    <3>1. \A e \in Name : row'[e] = "off" /\ redirect'[e] # 0 /\ e \notin woken'
             => row[e] = "off" /\ redirect'[e] = redirect[e] /\ e \notin woken
                /\ slug'[e] = slug[e] /\ by'[e] = by[e]
      BY <2>15 DEF DeleteCard, Begin, UnderWay, Basics, TypeInv, TypeOK, Steps, There
    <3>2. \A q \in Request : met[q] \subseteq met'[q]
      BY BeginStep, <2>15 DEF DeleteCard
    <3>3. QED
      BY <3>1, <3>2, NoNewLoop
  <2>16. ASSUME NEW r \in Request, NEW c \in Name, NEW b \in BOOLEAN,
                PatchActive(r, c, b)
         PROVE  LoopsNeedOverlap'
    <3>1. \A e \in Name : row'[e] = "off" /\ redirect'[e] # 0 /\ e \notin woken'
             => row[e] = "off" /\ redirect'[e] = redirect[e] /\ e \notin woken
                /\ slug'[e] = slug[e] /\ by'[e] = by[e]
      BY <2>16 DEF PatchActive, leadVars, Begin, UnderWay, Basics, TypeInv, TypeOK,
          Steps, There
    <3>2. \A q \in Request : met[q] \subseteq met'[q]
      BY BeginStep, <2>16 DEF PatchActive
    <3>3. QED
      BY <3>1, <3>2, NoNewLoop
  <2>17. ASSUME NEW r \in Request, Stop(r) PROVE LoopsNeedOverlap'
    <3>1. \A e \in Name : row'[e] = "off" /\ redirect'[e] # 0 /\ e \notin woken'
             => row[e] = "off" /\ redirect'[e] = redirect[e] /\ e \notin woken
                /\ slug'[e] = slug[e] /\ by'[e] = by[e]
      BY <2>17 DEF Stop, cardVars, leadVars, End, UnderWay, Basics, TypeInv, TypeOK,
          Steps, There
    <3>2. \A q \in Request : met[q] \subseteq met'[q]
      BY <2>17 DEF Stop, cardVars, leadVars, End, UnderWay
    <3>3. QED
      BY <3>1, <3>2, NoNewLoop
  <2>18. CASE UNCHANGED vars
    <3>1. \A e \in Name : row'[e] = "off" /\ redirect'[e] # 0 /\ e \notin woken'
             => row[e] = "off" /\ redirect'[e] = redirect[e] /\ e \notin woken
                /\ slug'[e] = slug[e] /\ by'[e] = by[e]
      BY <2>18 DEF vars, cardVars, leadVars, formVars, Basics, TypeInv, TypeOK,
          Steps, There
    <3>2. \A q \in Request : met[q] \subseteq met'[q]
      BY <2>18 DEF vars, cardVars, leadVars, formVars
    <3>3. QED
      BY <3>1, <3>2, NoNewLoop
  <2>19. QED
    BY <2>1, <2>2, <2>3, <2>4, <2>5, <2>6, <2>7, <2>8, <2>9, <2>10, <2>11, <2>12,
       <2>13, <2>14, <2>15, <2>16, <2>17, <2>18 DEF Next
<1>3. QED
  BY <1>1, <1>2, BasicsCorrect, TargetsMet, PTL DEF Spec
-----------------------------------------------------------------------------
-----------------------------------------------------------------------------
\* Every number a search has gone past is the slug of a card that was made, and
\* a card that was not has none.
GapInv ==
    /\ \A c \in Name : row[c] = "none" => slug[c] = 0
    /\ \A r \in Request : \A i \in 1 .. cand[r] - 1 : \E c \in Name : slug[c] = i

\* The search for a slug goes past a number only if a card has or had it, however
\* many requests make and delete cards meanwhile (slug.ts:13-24).
SearchLeavesNoGap ==
    \A r \in Request : \A i \in 1 .. cand[r] - 1 : \E c \in Name : slug[c] = i

THEOREM SearchesLeaveNoGap == Spec => []SearchLeavesNoGap
<1>1. Init => GapInv
  <2> SUFFICES ASSUME Init PROVE GapInv
    OBVIOUS
  <2>1. \A c \in Name : row[c] = "none" => slug[c] = 0
    BY DEF Init
  <2>2. \A r \in Request : cand[r] = 0
    BY DEF Init
  <2>3. QED
    BY <2>1, <2>2 DEF GapInv
<1>2. Basics /\ GapInv /\ [Next]_vars => GapInv'
  <2> SUFFICES ASSUME Basics, GapInv, [Next]_vars PROVE GapInv'
    OBVIOUS
  <2> USE DEF Basics, TypeInv, TypeOK, GapInv
  <2>1. ASSUME NEW r \in Request, NEW c \in Name,
               NEW d \in Offered(c) \union {None}, NEW x \in Offered(c) \union {None},
               StartTurnover(r, c, d, x)
        PROVE  GapInv'
    BY <2>1 DEF StartTurnover, cardVars, leadVars, Begin, UnderWay, AfterRedirect,
        Taken
  <2>2. ASSUME NEW r \in Request, CheckRedirect(r) PROVE GapInv'
    BY <2>2 DEF CheckRedirect, cardVars, leadVars, GoTo, AfterRedirect, Taken
  <2>3. ASSUME NEW r \in Request, FindTarget(r) PROVE GapInv'
    BY <2>3 DEF FindTarget, cardVars, leadVars, GoTo, Taken
  <2>4. ASSUME NEW r \in Request, KeepLeads(r) PROVE GapInv'
    BY <2>4 DEF KeepLeads, cardVars, leadVars, GoTo, Taken
  <2>5. ASSUME NEW r \in Request, MoveLeads(r) PROVE GapInv'
    BY <2>5 DEF MoveLeads, cardVars, formVars, GoTo, Taken
  <2>6. ASSUME NEW r \in Request, Offboard(r) PROVE GapInv'
    <3>1. /\ \A q \in Request : cand'[q] \in {cand[q], 0, 1}
          /\ \A c \in Name : row'[c] = "none" => row[c] = "none"
          /\ slug' = slug
      BY <2>6 DEF Offboard, End, GoTo, Steps
    <3>2. \A q \in Request : cand[q] \in Nat
      OBVIOUS
    \* A search that begins has nothing behind it.
    <3>3. \A q \in Request : 1 .. cand'[q] - 1 \subseteq 1 .. cand[q] - 1
      <4> HIDE DEF Basics, TypeInv, TypeOK, GapInv
      <4> SUFFICES ASSUME NEW q \in Request
                   PROVE  1 .. cand'[q] - 1 \subseteq 1 .. cand[q] - 1
        OBVIOUS
      <4>1. cand'[q] = cand[q] \/ cand'[q] = 0 \/ cand'[q] = 1
        BY <3>1
      <4>2. CASE cand'[q] = cand[q]
        BY <4>2
      <4>3. CASE cand'[q] \in {0, 1}
        <5>1. 1 .. cand'[q] - 1 = {}
          BY <4>3
        <5>2. QED
          BY <5>1
      <4>4. QED
        BY <4>1, <4>2, <4>3
    <3>4. QED
      BY <3>1, <3>3
  <2>7. ASSUME NEW r \in Request, CreateCard(r) PROVE GapInv'
    BY <2>7 DEF CreateCard, cardVars, leadVars, Begin, UnderWay, Taken
  <2>8. ASSUME NEW r \in Request, ProbeNext(r) PROVE GapInv'
    BY <2>8 DEF ProbeNext, cardVars, leadVars, GoTo, Taken
  <2>9. ASSUME NEW r \in Request, ProbeFree(r) PROVE GapInv'
    BY <2>9 DEF ProbeFree, cardVars, leadVars, GoTo, Taken
  <2>10. ASSUME NEW r \in Request, Insert(r) PROVE GapInv'
    <3>1. /\ row' = [row EXCEPT ![r] = "on"]
          /\ slug' = [slug EXCEPT ![r] = cand[r]]
          /\ \A q \in Request : cand'[q] \in {cand[q], 0}
      BY <2>10 DEF Insert, End
    \* The card has no slug before, so none is lost.
    <3>2. slug[r] = 0
      BY <2>10 DEF Insert, End, Steps
    <3>3. \A c \in Name : slug[c] # 0 => slug'[c] = slug[c]
      BY <3>1, <3>2
    <3>4. QED
      BY <3>1, <3>3
  <2>11. ASSUME NEW r \in Request, NEW c \in Name, Connect(r, c) PROVE GapInv'
    BY <2>11 DEF Connect, cardVars, leadVars, Begin, UnderWay, Taken
  <2>12. ASSUME NEW r \in Request, StoreLead(r) PROVE GapInv'
    BY <2>12 DEF StoreLead, cardVars, End, Taken
  <2>13. ASSUME NEW r \in Request, NEW c \in Name, NEW typed \in BOOLEAN,
                OpenEditor(r, c, typed)
         PROVE  GapInv'
    BY <2>13 DEF OpenEditor, cardVars, leadVars, Begin, UnderWay, Taken
  <2>14. ASSUME NEW r \in Request, SaveCard(r) PROVE GapInv'
    BY <2>14 DEF SaveCard, leadVars, GoTo, Taken
  <2>15. ASSUME NEW r \in Request, NEW c \in Name,
                DeleteCard(r, c)
         PROVE  GapInv'
    BY <2>15 DEF DeleteCard, Begin, UnderWay, Taken
  <2>16. ASSUME NEW r \in Request, NEW c \in Name, NEW b \in BOOLEAN,
                PatchActive(r, c, b)
         PROVE  GapInv'
    BY <2>16 DEF PatchActive, leadVars, Begin, UnderWay, Taken
  <2>17. ASSUME NEW r \in Request, Stop(r) PROVE GapInv'
    BY <2>17 DEF Stop, cardVars, leadVars, End, UnderWay, Taken
  <2>18. CASE UNCHANGED vars
    BY <2>18 DEF vars, cardVars, leadVars, formVars, Taken
  <2> HIDE DEF Basics, TypeInv, TypeOK, GapInv
  <2>19. QED
    BY <2>1, <2>2, <2>3, <2>4, <2>5, <2>6, <2>7, <2>8, <2>9, <2>10, <2>11, <2>12,
       <2>13, <2>14, <2>15, <2>16, <2>17, <2>18 DEF Next
<1>3. GapInv => SearchLeavesNoGap
  BY DEF GapInv, SearchLeavesNoGap
<1>4. QED
  BY <1>1, <1>2, <1>3, BasicsCorrect, PTL DEF Spec

\* The loop of uniqueSlug, which has no other bound, ends after at most one
\* look-up for each card there ever was, and one more (slug.ts:13-24).
SearchIsShort == \A r \in Request : cand[r] <= Cardinality(Name) + 1

THEOREM SearchesAreShort ==
    ASSUME IsFiniteSet(Name) PROVE Spec => []SearchIsShort
<1>1. TypeOK /\ SearchLeavesNoGap => SearchIsShort
  <2> SUFFICES ASSUME TypeOK, SearchLeavesNoGap, NEW r \in Request
               PROVE  cand[r] <= Cardinality(Name) + 1
    BY DEF SearchIsShort
  <2> DEFINE slugs == {slug[c] : c \in Name}
             past == 1 .. cand[r] - 1
  <2>1. slug \in Surjection(Name, slugs)
    BY DEF TypeOK, Surjection
  <2>2. IsFiniteSet(slugs) /\ Cardinality(slugs) <= Cardinality(Name)
    BY <2>1, FS_Surjection
  <2>3. cand[r] \in Nat
    BY DEF TypeOK
  <2>4. past \subseteq slugs
    BY DEF SearchLeavesNoGap
  <2>5. Cardinality(past) <= Cardinality(slugs)
    BY <2>2, <2>4, FS_Subset
  <2>6. Cardinality(past) = IF 1 > cand[r] - 1 THEN 0 ELSE cand[r] - 1
    <3> HIDE DEF TypeOK, SearchLeavesNoGap, slugs
    <3>1. 1 \in Int /\ cand[r] - 1 \in Int
      BY <2>3
    <3>2. Cardinality(1 .. cand[r] - 1)
              = IF 1 > cand[r] - 1 THEN 0 ELSE cand[r] - 1 - 1 + 1
      BY <3>1, FS_Interval
    <3>3. cand[r] - 1 - 1 + 1 = cand[r] - 1
      BY <2>3
    <3>4. QED
      BY <3>2, <3>3
  <2>7. Cardinality(past) \in Nat /\ Cardinality(slugs) \in Nat /\ Cardinality(Name) \in Nat
    <3>1. Cardinality(Name) \in Nat
      BY FS_CardinalityType
    <3>2. Cardinality(slugs) \in Nat
      BY <2>2, FS_CardinalityType
    <3>3. Cardinality(past) \in Nat
      BY <2>3, <2>6
    <3>4. QED
      BY <3>1, <3>2, <3>3
  <2> HIDE DEF slugs, past
  <2>8. QED
    BY <2>2, <2>3, <2>5, <2>6, <2>7
<1>2. QED
  BY <1>1, TypeCorrect, SearchesLeaveNoGap, PTL
=============================================================================
