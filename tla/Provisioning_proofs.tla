------------------------ MODULE Provisioning_proofs -------------------------
(***************************************************************************)
(* Proofs of the safety properties of Provisioning for any addresses, any  *)
(* inputs and any number of requests and cards.                            *)
(***************************************************************************)
EXTENDS Provisioning, TLAPS

USE ProvisioningAssumption DEF Card

\* Whoever asks has somebody to make.
LEMMA AskKeepsTypes ==
    ASSUME TypeOK, NEW r \in Request, NEW k \in {"scim", "jit", "import"},
           NEW list \in SUBSET Address, list # {}, Ask(r, k, list)
    PROVE  TypeOK'
<1> USE DEF TypeOK
<1>1. /\ pc' = [pc EXCEPT ![r] = "users"]
      /\ kind' = [kind EXCEPT ![r] = k]
      /\ rows' = [rows EXCEPT ![r] = list]
      /\ todo' = [todo EXCEPT ![r] = list]
      /\ UNCHANGED <<user, cardVars, taken, page, late, loose>>
  BY DEF Ask
<1>2. QED
  BY <1>1 DEF cardVars

\* Every variable keeps its type, and who is to insert has somebody to insert.
THEOREM TypeCorrect == Spec => []TypeOK
<1>1. Init => TypeOK
  BY DEF Init, TypeOK
<1>2. TypeOK /\ [Next]_vars => TypeOK'
  <2> SUFFICES ASSUME TypeOK, [Next]_vars PROVE TypeOK'
    OBVIOUS
  <2> USE DEF TypeOK
  <2>1. ASSUME NEW r \in Request, NEW a \in Sent, AskScim(r, a) PROVE TypeOK'
    <3> HIDE DEF TypeOK
    <3>1. {a} \in SUBSET Address /\ {a} # {}
      OBVIOUS
    <3>2. QED
      BY <3>1, <2>1, AskKeepsTypes DEF AskScim
  <2>2. ASSUME NEW r \in Request, NEW a \in Signing, AskJit(r, a) PROVE TypeOK'
    <3> HIDE DEF TypeOK
    <3>1. {a} \in SUBSET Address /\ {a} # {}
      OBVIOUS
    <3>2. QED
      BY <3>1, <2>2, AskKeepsTypes DEF AskJit
  <2>3. ASSUME NEW r \in Request, NEW f \in Files, AskDirectory(r, f) PROVE TypeOK'
    BY <2>3 DEF AskDirectory, Ask, cardVars
  <2>4. ASSUME NEW r \in Request, NEW f \in Files, AskCsv(r, f) PROVE TypeOK'
    BY <2>4 DEF AskCsv, Ask, cardVars
  <2>5. ASSUME NEW r \in Request, FindUser(r) PROVE TypeOK'
    BY <2>5 DEF FindUser, cardVars, CloseUnseen, Close, UsersFound, Alone
  <2>6. ASSUME NEW r \in Request, ReadUsers(r) PROVE TypeOK'
    BY <2>6 DEF ReadUsers, cardVars, AfterUsers, UsersFound, Alone
  <2>7. ASSUME NEW r \in Request, FindCard(r) PROVE TypeOK'
    BY <2>7 DEF FindCard, cardVars, CloseUnseen, Close, CardsFound, Owned, Stored,
        Alone
  <2>8. ASSUME NEW r \in Request, FindNoCard(r) PROVE TypeOK'
    BY <2>8 DEF FindNoCard, cardVars, CardsFound, Owned, Stored, Alone
  <2>9. ASSUME NEW r \in Request, Screen(r) PROVE TypeOK'
    BY <2>9 DEF Screen, cardVars, GoOn, AfterRow, CardsFound, Owned, Stored, Alone
  <2>10. ASSUME NEW r \in Request, NEW a \in todo[r], NEW c \in Card, NEW on \in BOOLEAN,
                Insert(r, a, c, on)
         PROVE  TypeOK'
    <3>1. a \in Address /\ todo[r] \ {a} \in SUBSET Address
      BY <2>10 DEF Insert, InsertRow
    <3>2. Overtaken(c) \in [Request -> SUBSET Card]
      BY DEF Overtaken
    <3>3. late' \in [Request -> SUBSET Card]
      BY <3>2, <2>10 DEF Insert, InsertRow
    <3>4. QED
      BY <3>1, <3>3, <2>10 DEF Insert, Close, Alone, NewEmployee, NewCard, IsNext, Overtaken
  <2>11. ASSUME NEW r \in Request, NEW a \in todo[r], NEW c \in Card,
                InsertRow(r, a, c)
         PROVE  TypeOK'
    <3>1. a \in Address /\ todo[r] \ {a} \in SUBSET Address
      BY <2>11 DEF Insert, InsertRow
    <3>2. Overtaken(c) \in [Request -> SUBSET Card]
      BY DEF Overtaken
    <3>3. late' \in [Request -> SUBSET Card]
      BY <3>2, <2>11 DEF Insert, InsertRow
    <3>4. QED
      BY <3>1, <3>3, <2>11 DEF InsertRow, GoOn, AfterRow, Alone, NewEmployee, NewCard, IsNext, Overtaken
  <2>12. ASSUME NEW r \in Request, NEW a \in todo[r],
                InsertFails(r, a)
         PROVE  TypeOK'
    BY <2>12 DEF InsertFails, cardVars, AfterFailure, CloseUnseen, Close
  <2>13. ASSUME NEW r \in Request, Abandon(r) PROVE TypeOK'
    BY <2>13 DEF Abandon, cardVars, CloseUnseen, Close
  <2>14. ASSUME NEW r \in Request, NEW orphans \in SUBSET Card,
                SyncCheck(r, orphans)
         PROVE  TypeOK'
    BY <2>14 DEF SyncCheck, cardVars, Stored
  <2>15. ASSUME NEW r \in Request, NEW ticked \in SUBSET Card,
                SyncRead(r, ticked)
         PROVE  TypeOK'
    BY <2>15 DEF SyncRead, cardVars, Stored
  <2>16. ASSUME NEW r \in Request, SyncCommit(r) PROVE TypeOK'
    BY <2>16 DEF SyncCommit, CloseUnseen, Close, UsersOf
  <2>17. ASSUME NEW a \in Address, NEW on \in BOOLEAN,
                SetActive(a, on)
         PROVE  TypeOK'
    BY <2>17 DEF SetActive, requestVars, Stored
  <2>18. ASSUME NEW c \in Card, NEW a \in Written \union {NoAddress}, NEW on \in BOOLEAN,
                InsertByHand(c, a, on)
         PROVE  TypeOK'
    BY <2>18 DEF InsertByHand, requestVars, NewCard, IsNext, Overtaken
  <2>19. ASSUME NEW c \in Card, NEW a \in Written \union {NoAddress},
                SetOwner(c, a)
         PROVE  TypeOK'
    BY <2>19 DEF SetOwner, requestVars, Overtaken, Stored
  <2>20. ASSUME NEW c \in Card, NEW on \in BOOLEAN,
                SetCardActive(c, on)
         PROVE  TypeOK'
    BY <2>20 DEF SetCardActive, requestVars, Held, Stored
  <2>21. ASSUME NEW c \in Card, Offboard(c) PROVE TypeOK'
    BY <2>21 DEF Offboard, requestVars, Held, Stored
  <2>22. ASSUME NEW c \in Card, DeleteCard(c) PROVE TypeOK'
    BY <2>22 DEF DeleteCard, requestVars, Stored
  <2>23. CASE UNCHANGED vars
    BY <2>23 DEF vars, cardVars, requestVars
  <2> HIDE DEF TypeOK
  <2>24. QED
    BY <2>1, <2>2, <2>3, <2>4, <2>5, <2>6, <2>7, <2>8, <2>9, <2>10, <2>11, <2>12,
       <2>13, <2>14, <2>15, <2>16, <2>17, <2>18, <2>19, <2>20, <2>21, <2>22, <2>23 DEF Next
<1>3. QED
  BY <1>1, <1>2, PTL DEF Spec
-----------------------------------------------------------------------------
\* JIT and the imports create no second card for who has one, but for cards
\* that came to be theirs after the request had begun (jit.ts:71).
THEOREM NoSecondCard == Spec => []NoOldOwner
<1>1. Init => NoOldOwner
  BY DEF Init, NoOldOwner
<1>2. TypeOK /\ NoOldOwner /\ [Next]_vars => NoOldOwner'
  <2> SUFFICES ASSUME TypeOK, NoOldOwner, [Next]_vars PROVE NoOldOwner'
    OBVIOUS
  <2> USE DEF TypeOK, NoOldOwner
  <2>1. ASSUME NEW r \in Request, NEW a \in Sent, AskScim(r, a) PROVE NoOldOwner'
    BY <2>1 DEF AskScim, Ask, cardVars, Stored
  <2>2. ASSUME NEW r \in Request, NEW a \in Signing, AskJit(r, a) PROVE NoOldOwner'
    BY <2>2 DEF AskJit, Ask, cardVars, Stored
  <2>3. ASSUME NEW r \in Request, NEW f \in Files,
               AskDirectory(r, f)
        PROVE  NoOldOwner'
    BY <2>3 DEF AskDirectory, Ask, cardVars, Stored
  <2>4. ASSUME NEW r \in Request, NEW f \in Files, AskCsv(r, f) PROVE NoOldOwner'
    BY <2>4 DEF AskCsv, Ask, cardVars, Stored
  <2>5. ASSUME NEW r \in Request, FindUser(r) PROVE NoOldOwner'
    BY <2>5 DEF FindUser, cardVars, CloseUnseen, Close, UsersFound, Alone, Stored
  <2>6. ASSUME NEW r \in Request, ReadUsers(r) PROVE NoOldOwner'
    BY <2>6 DEF ReadUsers, cardVars, AfterUsers, UsersFound, Alone, Stored
  <2>7. ASSUME NEW r \in Request, FindCard(r) PROVE NoOldOwner'
    BY <2>7 DEF FindCard, cardVars, CloseUnseen, Close, CardsFound, Owned, Stored,
        Alone
  <2>8. ASSUME NEW r \in Request, FindNoCard(r) PROVE NoOldOwner'
    BY <2>8 DEF FindNoCard, cardVars, CardsFound, Owned, Stored, Alone
  <2>9. ASSUME NEW r \in Request, Screen(r) PROVE NoOldOwner'
    BY <2>9 DEF Screen, cardVars, GoOn, AfterRow, CardsFound, Owned, Stored, Alone
  <2>10. ASSUME NEW r \in Request, NEW a \in todo[r], NEW c \in Card, NEW on \in BOOLEAN,
                Insert(r, a, c, on)
         PROVE  NoOldOwner'
    BY <2>10 DEF Insert, Close, Alone, NewEmployee, NewCard, IsNext, Overtaken,
        Stored
  <2>11. ASSUME NEW r \in Request, NEW a \in todo[r], NEW c \in Card,
                InsertRow(r, a, c)
         PROVE  NoOldOwner'
    BY <2>11 DEF InsertRow, GoOn, AfterRow, Alone, NewEmployee, NewCard, IsNext,
        Overtaken, Stored
  <2>12. ASSUME NEW r \in Request, NEW a \in todo[r],
                InsertFails(r, a)
         PROVE  NoOldOwner'
    BY <2>12 DEF InsertFails, cardVars, AfterFailure, CloseUnseen, Close, Stored
  <2>13. ASSUME NEW r \in Request, Abandon(r) PROVE NoOldOwner'
    BY <2>13 DEF Abandon, cardVars, CloseUnseen, Close, Stored
  <2>14. ASSUME NEW r \in Request, NEW orphans \in SUBSET Card,
                SyncCheck(r, orphans)
         PROVE  NoOldOwner'
    BY <2>14 DEF SyncCheck, cardVars, Stored
  <2>15. ASSUME NEW r \in Request, NEW ticked \in SUBSET Card,
                SyncRead(r, ticked)
         PROVE  NoOldOwner'
    BY <2>15 DEF SyncRead, cardVars, Stored
  <2>16. ASSUME NEW r \in Request, SyncCommit(r) PROVE NoOldOwner'
    BY <2>16 DEF SyncCommit, CloseUnseen, Close, UsersOf, Stored
  <2>17. ASSUME NEW a \in Address, NEW on \in BOOLEAN,
                SetActive(a, on)
         PROVE  NoOldOwner'
    BY <2>17 DEF SetActive, requestVars, Stored
  <2>18. ASSUME NEW c \in Card, NEW a \in Written \union {NoAddress}, NEW on \in BOOLEAN,
                InsertByHand(c, a, on)
         PROVE  NoOldOwner'
    BY <2>18 DEF InsertByHand, requestVars, NewCard, IsNext, Overtaken, Stored
  <2>19. ASSUME NEW c \in Card, NEW a \in Written \union {NoAddress},
                SetOwner(c, a)
         PROVE  NoOldOwner'
    BY <2>19 DEF SetOwner, requestVars, Overtaken, Stored
  <2>20. ASSUME NEW c \in Card, NEW on \in BOOLEAN,
                SetCardActive(c, on)
         PROVE  NoOldOwner'
    BY <2>20 DEF SetCardActive, requestVars, Held, Stored
  <2>21. ASSUME NEW c \in Card, Offboard(c) PROVE NoOldOwner'
    BY <2>21 DEF Offboard, requestVars, Held, Stored
  <2>22. ASSUME NEW c \in Card, DeleteCard(c) PROVE NoOldOwner'
    BY <2>22 DEF DeleteCard, requestVars, Stored
  <2>23. CASE UNCHANGED vars
    BY <2>23 DEF vars, cardVars, requestVars, Stored
  <2> HIDE DEF TypeOK, NoOldOwner
  <2>24. QED
    BY <2>1, <2>2, <2>3, <2>4, <2>5, <2>6, <2>7, <2>8, <2>9, <2>10, <2>11, <2>12,
       <2>13, <2>14, <2>15, <2>16, <2>17, <2>18, <2>19, <2>20, <2>21, <2>22, <2>23 DEF Next
<1>3. QED
  BY <1>1, <1>2, TypeCorrect, PTL DEF Spec
-----------------------------------------------------------------------------
\* A card in a history has been made; a card's user exists; who is to insert
\* has looked, or the user was created since.
LookedInv ==
    /\ \A r \in Request : \A c \in late[r] : row[c] # "none"
    /\ \A c \in Card : Held(c) => row[c] # "none" /\ user[holder[c]] # "none"
    /\ \A r \in Request : pc[r] = "cards" =>
          /\ Alone(r) => taken[r] = {}
          /\ \A a \in todo[r] \ taken[r] : user[a] # "none" => \E c \in late[r] : holder[c] = a
    /\ RefusalIsRace

\* An insert is refused for a user that exists only if the user was created
\* after the request had begun (scim.ts:145, jit.ts:79).
THEOREM RefusalsAreRaces == Spec => []RefusalIsRace
<1>1. Init => LookedInv
  BY DEF Init, LookedInv, RefusalIsRace, Held
<1>2. TypeOK /\ LookedInv /\ [Next]_vars => LookedInv'
  <2> SUFFICES ASSUME TypeOK, LookedInv, [Next]_vars PROVE LookedInv'
    OBVIOUS
  <2> USE DEF TypeOK, LookedInv
  <2>1. ASSUME NEW r \in Request, NEW a \in Sent, AskScim(r, a) PROVE LookedInv'
    BY <2>1 DEF AskScim, Ask, cardVars, RefusalIsRace, Held, Alone
  <2>2. ASSUME NEW r \in Request, NEW a \in Signing, AskJit(r, a) PROVE LookedInv'
    BY <2>2 DEF AskJit, Ask, cardVars, RefusalIsRace, Held, Alone
  <2>3. ASSUME NEW r \in Request, NEW f \in Files,
               AskDirectory(r, f)
        PROVE  LookedInv'
    BY <2>3 DEF AskDirectory, Ask, cardVars, RefusalIsRace, Held, Alone
  <2>4. ASSUME NEW r \in Request, NEW f \in Files, AskCsv(r, f) PROVE LookedInv'
    BY <2>4 DEF AskCsv, Ask, cardVars, RefusalIsRace, Held, Alone
  <2>5. ASSUME NEW r \in Request, FindUser(r) PROVE LookedInv'
    BY <2>5 DEF FindUser, cardVars, CloseUnseen, Close, UsersFound, Alone,
        RefusalIsRace, Held
  <2>6. ASSUME NEW r \in Request, ReadUsers(r) PROVE LookedInv'
    BY <2>6 DEF ReadUsers, cardVars, AfterUsers, UsersFound, Alone, RefusalIsRace,
        Held
  <2>7. ASSUME NEW r \in Request, FindCard(r) PROVE LookedInv'
    BY <2>7 DEF FindCard, cardVars, CloseUnseen, Close, CardsFound, Owned, Stored,
        Alone, RefusalIsRace, Held
  <2>8. ASSUME NEW r \in Request, FindNoCard(r) PROVE LookedInv'
    <3> USE DEF FindNoCard, cardVars, Held
    <3>1. taken[r] = {} /\ pc[r] = "cards" /\ todo' = todo /\ taken' = taken /\ late' = late
      BY <2>8
    <3>2. \A q \in Request : q # r => pc'[q] = pc[q]
      BY <2>8
    <3>3. RefusalIsRace'
      <4> SUFFICES ASSUME NEW q \in Request, pc'[q] = "insert", NEW b \in todo'[q],
                          user'[b] # "none"
                   PROVE  \E d \in late'[q] : holder'[d] = b
        BY DEF RefusalIsRace
      <4>1. CASE q = r
        BY <4>1, <3>1, <2>8
      <4>2. CASE q # r
        BY <4>2, <3>1, <3>2, <2>8 DEF RefusalIsRace
      <4>3. QED
        BY <4>1, <4>2
    <3>4. QED
      BY <3>1, <3>2, <3>3, <2>8 DEF Alone
  <2>9. ASSUME NEW r \in Request, Screen(r) PROVE LookedInv'
    BY <2>9 DEF Screen, cardVars, GoOn, AfterRow, CardsFound, Owned, Stored, Alone,
        RefusalIsRace, Held
  <2>10. ASSUME NEW r \in Request, NEW a \in todo[r], NEW c \in Card, NEW on \in BOOLEAN,
                Insert(r, a, c, on)
         PROVE  LookedInv'
    <3> USE DEF NewEmployee, NewCard, IsNext, Overtaken, Held
    <3>1. row'[c] # "none" /\ holder'[c] = a /\ user'[a] # "none"
      BY <2>10 DEF Insert
    <3>2. \A d \in Card : row[d] # "none" => row'[d] # "none" /\ holder'[d] = holder[d]
      BY <2>10 DEF Insert
    <3>3. \A d \in Card : Held(d)' => row'[d] # "none" /\ user'[holder'[d]] # "none"
      BY <3>1, <3>2, <2>10 DEF Insert
    <3>4. \A q \in Request : q # r =>
            /\ pc'[q] = pc[q] /\ todo'[q] = todo[q] /\ taken'[q] = taken[q]
            /\ kind'[q] = kind[q]
      BY <2>10 DEF Insert, Close
    <3>5. pc'[r] = "idle" /\ late'[r] = {}
      BY <2>10 DEF Insert, Close
    <3>6. \A q \in Request : q # r /\ pc[q] \in {"cards", "insert"} =>
            c \in late'[q] /\ \A d \in late[q] : d \in late'[q]
      BY <2>10 DEF Insert
    <3> HIDE DEF NewEmployee, NewCard, IsNext
    <3>7. \A q \in Request : \A d \in late'[q] : d \in Card /\ (d \in late[q] \/ d = c)
      <4>1. ASSUME NEW q \in Request, q # r
            PROVE  \A d \in late'[q] : d \in Card /\ (d \in late[q] \/ d = c)
        <5>1. late'[q] = IF pc[q] \in {"users", "cards", "insert"} THEN late[q] \union {c}
                                                                  ELSE late[q]
          BY <4>1, <2>10 DEF Insert
        <5>2. QED
          BY <5>1
      <4>2. QED
        BY <4>1, <3>5
    <3>8. \A q \in Request : \A d \in late[q] : d \in Card /\ row[d] # "none"
      OBVIOUS
    <3>9. \A q \in Request : \A d \in late'[q] : row'[d] # "none"
      BY <3>1, <3>2, <3>7
    <3>10. ASSUME NEW q \in Request, pc'[q] = "cards" PROVE
            /\ Alone(q)' => taken'[q] = {}
            /\ \A b \in todo'[q] \ taken'[q] :
                 user'[b] # "none" => \E d \in late'[q] : holder'[d] = b
      <4>1. ASSUME NEW b \in todo'[q] \ taken'[q], user'[b] # "none"
            PROVE  \E d \in late'[q] : holder'[d] = b
        <5>1. CASE b = a
          BY <5>1, <3>1, <3>4, <3>5, <3>6, <3>10
        <5>2. CASE b # a
          <6>1. user[b] # "none" /\ q # r
            BY <5>2, <4>1, <3>4, <3>5, <3>10, <2>10 DEF Insert, NewEmployee
          <6>2. PICK d \in late[q] : holder[d] = b
            BY <6>1, <4>1, <3>4, <3>10
          <6>3. holder'[d] = holder[d]
            BY <6>2, <3>2, <3>8
          <6>4. d \in late'[q]
            BY <6>1, <6>2, <3>4, <3>6, <3>10
          <6>5. QED
            BY <6>2, <6>3, <6>4
        <5>3. QED
          BY <5>1, <5>2
      <4>2. QED
        BY <4>1, <3>4, <3>5, <3>10 DEF Alone
    <3>11. RefusalIsRace'
      <4> SUFFICES ASSUME NEW q \in Request, pc'[q] = "insert", NEW b \in todo'[q],
                          user'[b] # "none"
                   PROVE  \E d \in late'[q] : holder'[d] = b
        BY DEF RefusalIsRace
      <4>1. CASE b = a
        BY <4>1, <3>1, <3>4, <3>5, <3>6
      <4>2. CASE b # a
        <5>1. user[b] # "none" /\ q # r
          BY <4>2, <3>4, <3>5, <2>10 DEF Insert, NewEmployee
        <5>2. PICK d \in late[q] : holder[d] = b
          BY <5>1, <3>4 DEF RefusalIsRace
        <5>3. holder'[d] = holder[d]
          BY <5>2, <3>2, <3>8
        <5>4. d \in late'[q]
          BY <5>1, <5>2, <3>4, <3>6
        <5>5. QED
          BY <5>2, <5>3, <5>4
      <4>3. QED
        BY <4>1, <4>2
    <3>12. QED
      BY <3>3, <3>9, <3>10, <3>11
  <2>11. ASSUME NEW r \in Request, NEW a \in todo[r], NEW c \in Card,
                InsertRow(r, a, c)
         PROVE  LookedInv'
    BY <2>11 DEF InsertRow, GoOn, AfterRow, Alone, NewEmployee, NewCard, IsNext,
        Overtaken, RefusalIsRace, Held
  <2>12. ASSUME NEW r \in Request, NEW a \in todo[r],
                InsertFails(r, a)
         PROVE  LookedInv'
    BY <2>12 DEF InsertFails, cardVars, AfterFailure, CloseUnseen, Close,
        RefusalIsRace, Held, Alone
  <2>13. ASSUME NEW r \in Request, Abandon(r) PROVE LookedInv'
    BY <2>13 DEF Abandon, cardVars, CloseUnseen, Close, RefusalIsRace, Held, Alone
  <2>14. ASSUME NEW r \in Request, NEW orphans \in SUBSET Card,
                SyncCheck(r, orphans)
         PROVE  LookedInv'
    BY <2>14 DEF SyncCheck, cardVars, Stored, RefusalIsRace, Held, Alone
  <2>15. ASSUME NEW r \in Request, NEW ticked \in SUBSET Card,
                SyncRead(r, ticked)
         PROVE  LookedInv'
    BY <2>15 DEF SyncRead, cardVars, Stored, RefusalIsRace, Held, Alone
  <2>16. ASSUME NEW r \in Request, SyncCommit(r) PROVE LookedInv'
    BY <2>16 DEF SyncCommit, CloseUnseen, Close, UsersOf, RefusalIsRace, Held, Alone
  <2>17. ASSUME NEW a \in Address, NEW on \in BOOLEAN,
                SetActive(a, on)
         PROVE  LookedInv'
    BY <2>17 DEF SetActive, requestVars, Stored, RefusalIsRace, Held, Alone
  <2>18. ASSUME NEW c \in Card, NEW a \in Written \union {NoAddress}, NEW on \in BOOLEAN,
                InsertByHand(c, a, on)
         PROVE  LookedInv'
    BY <2>18 DEF InsertByHand, requestVars, NewCard, IsNext, Overtaken,
        RefusalIsRace, Held, Alone
  <2>19. ASSUME NEW c \in Card, NEW a \in Written \union {NoAddress},
                SetOwner(c, a)
         PROVE  LookedInv'
    BY <2>19 DEF SetOwner, requestVars, Overtaken, Stored, RefusalIsRace, Held,
        Alone
  <2>20. ASSUME NEW c \in Card, NEW on \in BOOLEAN,
                SetCardActive(c, on)
         PROVE  LookedInv'
    BY <2>20 DEF SetCardActive, requestVars, Held, Stored, RefusalIsRace, Alone
  <2>21. ASSUME NEW c \in Card, Offboard(c) PROVE LookedInv'
    BY <2>21 DEF Offboard, requestVars, Held, Stored, RefusalIsRace, Alone
  <2>22. ASSUME NEW c \in Card, DeleteCard(c) PROVE LookedInv'
    BY <2>22 DEF DeleteCard, requestVars, Stored, RefusalIsRace, Held, Alone
  <2>23. CASE UNCHANGED vars
    BY <2>23 DEF vars, cardVars, requestVars, RefusalIsRace, Held, Alone
  <2> HIDE DEF TypeOK, LookedInv
  <2>24. QED
    BY <2>1, <2>2, <2>3, <2>4, <2>5, <2>6, <2>7, <2>8, <2>9, <2>10, <2>11, <2>12,
       <2>13, <2>14, <2>15, <2>16, <2>17, <2>18, <2>19, <2>20, <2>21, <2>22, <2>23 DEF Next
<1>3. TypeOK /\ LookedInv => RefusalIsRace
  BY DEF TypeOK, LookedInv, RefusalIsRace
<1>4. QED
  BY <1>1, <1>2, <1>3, TypeCorrect, PTL DEF Spec
-----------------------------------------------------------------------------
\* A user has one card, and its user exists.
OneCardInv ==
    /\ \A c \in Card : Held(c) => row[c] # "none" /\ user[holder[c]] # "none"
    /\ \A c, d \in Card : Held(c) /\ holder[c] = holder[d] => c = d
    /\ InStep

LEMMA OneCardInvariant == Spec => []OneCardInv
<1>1. Init => OneCardInv
  BY DEF Init, OneCardInv, InStep, Held, Stored
<1>2. TypeOK /\ OneCardInv /\ [Next]_vars => OneCardInv'
  <2> SUFFICES ASSUME TypeOK, OneCardInv, [Next]_vars PROVE OneCardInv'
    OBVIOUS
  <2> USE DEF TypeOK, OneCardInv
  <2>1. ASSUME NEW r \in Request, NEW a \in Sent, AskScim(r, a) PROVE OneCardInv'
    BY <2>1 DEF AskScim, Ask, cardVars, InStep, Held, Stored
  <2>2. ASSUME NEW r \in Request, NEW a \in Signing, AskJit(r, a) PROVE OneCardInv'
    BY <2>2 DEF AskJit, Ask, cardVars, InStep, Held, Stored
  <2>3. ASSUME NEW r \in Request, NEW f \in Files,
               AskDirectory(r, f)
        PROVE  OneCardInv'
    BY <2>3 DEF AskDirectory, Ask, cardVars, InStep, Held, Stored
  <2>4. ASSUME NEW r \in Request, NEW f \in Files, AskCsv(r, f) PROVE OneCardInv'
    BY <2>4 DEF AskCsv, Ask, cardVars, InStep, Held, Stored
  <2>5. ASSUME NEW r \in Request, FindUser(r) PROVE OneCardInv'
    BY <2>5 DEF FindUser, cardVars, CloseUnseen, Close, UsersFound, Alone, InStep,
        Held, Stored
  <2>6. ASSUME NEW r \in Request, ReadUsers(r) PROVE OneCardInv'
    BY <2>6 DEF ReadUsers, cardVars, AfterUsers, UsersFound, Alone, InStep, Held,
        Stored
  <2>7. ASSUME NEW r \in Request, FindCard(r) PROVE OneCardInv'
    BY <2>7 DEF FindCard, cardVars, CloseUnseen, Close, CardsFound, Owned, Stored,
        Alone, InStep, Held
  <2>8. ASSUME NEW r \in Request, FindNoCard(r) PROVE OneCardInv'
    BY <2>8 DEF FindNoCard, cardVars, CardsFound, Owned, Stored, Alone, InStep, Held
  <2>9. ASSUME NEW r \in Request, Screen(r) PROVE OneCardInv'
    BY <2>9 DEF Screen, cardVars, GoOn, AfterRow, CardsFound, Owned, Stored, Alone,
        InStep, Held
  <2>10. ASSUME NEW r \in Request, NEW a \in todo[r], NEW c \in Card, NEW on \in BOOLEAN,
                Insert(r, a, c, on)
         PROVE  OneCardInv'
    BY <2>10 DEF Insert, Close, Alone, NewEmployee, NewCard, IsNext, Overtaken,
        InStep, Held, Stored
  <2>11. ASSUME NEW r \in Request, NEW a \in todo[r], NEW c \in Card,
                InsertRow(r, a, c)
         PROVE  OneCardInv'
    BY <2>11 DEF InsertRow, GoOn, AfterRow, Alone, NewEmployee, NewCard, IsNext,
        Overtaken, InStep, Held, Stored
  <2>12. ASSUME NEW r \in Request, NEW a \in todo[r],
                InsertFails(r, a)
         PROVE  OneCardInv'
    BY <2>12 DEF InsertFails, cardVars, AfterFailure, CloseUnseen, Close, InStep,
        Held, Stored
  <2>13. ASSUME NEW r \in Request, Abandon(r) PROVE OneCardInv'
    BY <2>13 DEF Abandon, cardVars, CloseUnseen, Close, InStep, Held, Stored
  <2>14. ASSUME NEW r \in Request, NEW orphans \in SUBSET Card,
                SyncCheck(r, orphans)
         PROVE  OneCardInv'
    BY <2>14 DEF SyncCheck, cardVars, Stored, InStep, Held
  <2>15. ASSUME NEW r \in Request, NEW ticked \in SUBSET Card,
                SyncRead(r, ticked)
         PROVE  OneCardInv'
    BY <2>15 DEF SyncRead, cardVars, Stored, InStep, Held
  <2>16. ASSUME NEW r \in Request, SyncCommit(r) PROVE OneCardInv'
    <3> USE DEF Held
    <3>1. row' = row /\ holder' = holder /\ loose' = loose \ page[r]
      BY <2>16 DEF SyncCommit
    <3>2. ASSUME NEW c \in Card, Held(c) PROVE user'[holder[c]] # "none"
      BY <3>2, <2>16 DEF SyncCommit
    <3>3. ASSUME NEW c \in Stored, c \notin loose \ page[r], Held(c)
          PROVE  active'[c] <=> user'[holder[c]] = "active"
      <4> USE DEF Stored
      <4>1. CASE c \in page[r]
        <5>1. holder[c] \in Address /\ holder[c] \in UsersOf(r)
          BY <4>1, <3>3 DEF UsersOf
        <5>2. QED
          BY <5>1, <4>1, <3>3, <2>16 DEF SyncCommit
      <4>2. CASE c \notin page[r]
        <5>1. holder[c] \notin UsersOf(r)
          BY <4>2, <3>3 DEF UsersOf
        <5>2. QED
          BY <5>1, <4>2, <3>3, <2>16 DEF SyncCommit, InStep
      <4>3. QED
        BY <4>1, <4>2
    <3>4. QED
      BY <3>1, <3>2, <3>3 DEF InStep, Stored
  <2>17. ASSUME NEW a \in Address, NEW on \in BOOLEAN,
                SetActive(a, on)
         PROVE  OneCardInv'
    BY <2>17 DEF SetActive, requestVars, Stored, InStep, Held
  <2>18. ASSUME NEW c \in Card, NEW a \in Written \union {NoAddress}, NEW on \in BOOLEAN,
                InsertByHand(c, a, on)
         PROVE  OneCardInv'
    BY <2>18 DEF InsertByHand, requestVars, NewCard, IsNext, Overtaken, InStep,
        Held, Stored
  <2>19. ASSUME NEW c \in Card, NEW a \in Written \union {NoAddress},
                SetOwner(c, a)
         PROVE  OneCardInv'
    BY <2>19 DEF SetOwner, requestVars, Overtaken, Stored, InStep, Held
  <2>20. ASSUME NEW c \in Card, NEW on \in BOOLEAN,
                SetCardActive(c, on)
         PROVE  OneCardInv'
    BY <2>20 DEF SetCardActive, requestVars, Held, Stored, InStep
  <2>21. ASSUME NEW c \in Card, Offboard(c) PROVE OneCardInv'
    BY <2>21 DEF Offboard, requestVars, Held, Stored, InStep
  <2>22. ASSUME NEW c \in Card, DeleteCard(c) PROVE OneCardInv'
    BY <2>22 DEF DeleteCard, requestVars, Stored, InStep, Held
  <2>23. CASE UNCHANGED vars
    BY <2>23 DEF vars, cardVars, requestVars, InStep, Held, Stored
  <2> HIDE DEF TypeOK, OneCardInv
  <2>24. QED
    BY <2>1, <2>2, <2>3, <2>4, <2>5, <2>6, <2>7, <2>8, <2>9, <2>10, <2>11, <2>12,
       <2>13, <2>14, <2>15, <2>16, <2>17, <2>18, <2>19, <2>20, <2>21, <2>22, <2>23 DEF Next
<1>3. QED
  BY <1>1, <1>2, TypeCorrect, PTL DEF Spec

\* A user and its card are switched on and off together, whatever requests
\* race, unless turnover or the API touched the card alone (scim.ts:219-272,
\* console.ts:271-293).
THEOREM UserAndCardInStep == Spec => []InStep
<1>1. OneCardInv => InStep
  BY DEF OneCardInv
<1>2. QED
  BY <1>1, OneCardInvariant, PTL

\* No two cards were ever made for one user, though SCIM, sign-in and imports
\* create people side by side and cards are deleted under them: the index on
\* Card.userId (schema.prisma:400) refuses none of their inserts, which is why
\* the model's insert does not ask it.
OneCardEach == \A c, d \in Card : Held(c) /\ holder[c] = holder[d] => c = d

THEOREM NobodyHasTwoCards == Spec => []OneCardEach
<1>1. OneCardInv => OneCardEach
  BY DEF OneCardInv, OneCardEach
<1>2. QED
  BY <1>1, OneCardInvariant, PTL
-----------------------------------------------------------------------------
\* Who an import has come past has a user.
ImportInv ==
    \A r \in Request :
        /\ pc[r] = "done" => todo[r] = {}
        /\ pc[r] \in {"insert", "done"} => \A a \in rows[r] \ todo[r] : user[a] # "none"

\* An import that shows its counts has left nobody out (dirimport.ts:245-295).
THEOREM FinishedImportsAreComplete == Spec => []FinishedImportIsComplete
<1>1. Init => ImportInv
  BY DEF Init, ImportInv
<1>2. TypeOK /\ ImportInv /\ [Next]_vars => ImportInv'
  <2> SUFFICES ASSUME TypeOK, ImportInv, [Next]_vars PROVE ImportInv'
    OBVIOUS
  <2> USE DEF TypeOK, ImportInv
  <2>1. ASSUME NEW r \in Request, NEW a \in Sent, AskScim(r, a) PROVE ImportInv'
    BY <2>1 DEF AskScim, Ask, cardVars
  <2>2. ASSUME NEW r \in Request, NEW a \in Signing, AskJit(r, a) PROVE ImportInv'
    BY <2>2 DEF AskJit, Ask, cardVars
  <2>3. ASSUME NEW r \in Request, NEW f \in Files,
               AskDirectory(r, f)
        PROVE  ImportInv'
    BY <2>3 DEF AskDirectory, Ask, cardVars
  <2>4. ASSUME NEW r \in Request, NEW f \in Files, AskCsv(r, f) PROVE ImportInv'
    BY <2>4 DEF AskCsv, Ask, cardVars
  <2>5. ASSUME NEW r \in Request, FindUser(r) PROVE ImportInv'
    BY <2>5 DEF FindUser, cardVars, CloseUnseen, Close, UsersFound, Alone
  <2>6. ASSUME NEW r \in Request, ReadUsers(r) PROVE ImportInv'
    BY <2>6 DEF ReadUsers, cardVars, AfterUsers, UsersFound, Alone
  <2>7. ASSUME NEW r \in Request, FindCard(r) PROVE ImportInv'
    BY <2>7 DEF FindCard, cardVars, CloseUnseen, Close, CardsFound, Owned, Stored,
        Alone
  <2>8. ASSUME NEW r \in Request, FindNoCard(r) PROVE ImportInv'
    BY <2>8 DEF FindNoCard, cardVars, CardsFound, Owned, Stored, Alone
  <2>9. ASSUME NEW r \in Request, Screen(r) PROVE ImportInv'
    BY <2>9 DEF Screen, cardVars, GoOn, AfterRow, CardsFound, Owned, Stored, Alone
  <2>10. ASSUME NEW r \in Request, NEW a \in todo[r], NEW c \in Card, NEW on \in BOOLEAN,
                Insert(r, a, c, on)
         PROVE  ImportInv'
    BY <2>10 DEF Insert, Close, Alone, NewEmployee, NewCard, IsNext, Overtaken
  <2>11. ASSUME NEW r \in Request, NEW a \in todo[r], NEW c \in Card,
                InsertRow(r, a, c)
         PROVE  ImportInv'
    BY <2>11 DEF InsertRow, GoOn, AfterRow, Alone, NewEmployee, NewCard, IsNext,
        Overtaken
  <2>12. ASSUME NEW r \in Request, NEW a \in todo[r],
                InsertFails(r, a)
         PROVE  ImportInv'
    BY <2>12 DEF InsertFails, cardVars, AfterFailure, CloseUnseen, Close
  <2>13. ASSUME NEW r \in Request, Abandon(r) PROVE ImportInv'
    BY <2>13 DEF Abandon, cardVars, CloseUnseen, Close
  <2>14. ASSUME NEW r \in Request, NEW orphans \in SUBSET Card,
                SyncCheck(r, orphans)
         PROVE  ImportInv'
    BY <2>14 DEF SyncCheck, cardVars, Stored
  <2>15. ASSUME NEW r \in Request, NEW ticked \in SUBSET Card,
                SyncRead(r, ticked)
         PROVE  ImportInv'
    BY <2>15 DEF SyncRead, cardVars, Stored
  <2>16. ASSUME NEW r \in Request, SyncCommit(r) PROVE ImportInv'
    BY <2>16 DEF SyncCommit, CloseUnseen, Close, UsersOf
  <2>17. ASSUME NEW a \in Address, NEW on \in BOOLEAN,
                SetActive(a, on)
         PROVE  ImportInv'
    BY <2>17 DEF SetActive, requestVars, Stored
  <2>18. ASSUME NEW c \in Card, NEW a \in Written \union {NoAddress}, NEW on \in BOOLEAN,
                InsertByHand(c, a, on)
         PROVE  ImportInv'
    BY <2>18 DEF InsertByHand, requestVars, NewCard, IsNext, Overtaken
  <2>19. ASSUME NEW c \in Card, NEW a \in Written \union {NoAddress},
                SetOwner(c, a)
         PROVE  ImportInv'
    BY <2>19 DEF SetOwner, requestVars, Overtaken, Stored
  <2>20. ASSUME NEW c \in Card, NEW on \in BOOLEAN,
                SetCardActive(c, on)
         PROVE  ImportInv'
    BY <2>20 DEF SetCardActive, requestVars, Held, Stored
  <2>21. ASSUME NEW c \in Card, Offboard(c) PROVE ImportInv'
    BY <2>21 DEF Offboard, requestVars, Held, Stored
  <2>22. ASSUME NEW c \in Card, DeleteCard(c) PROVE ImportInv'
    BY <2>22 DEF DeleteCard, requestVars, Stored
  <2>23. CASE UNCHANGED vars
    BY <2>23 DEF vars, cardVars, requestVars
  <2> HIDE DEF TypeOK, ImportInv
  <2>24. QED
    BY <2>1, <2>2, <2>3, <2>4, <2>5, <2>6, <2>7, <2>8, <2>9, <2>10, <2>11, <2>12,
       <2>13, <2>14, <2>15, <2>16, <2>17, <2>18, <2>19, <2>20, <2>21, <2>22, <2>23 DEF Next
<1>3. TypeOK /\ ImportInv => FinishedImportIsComplete
  BY DEF TypeOK, ImportInv, FinishedImportIsComplete
<1>4. QED
  BY <1>1, <1>2, <1>3, TypeCorrect, PTL DEF Spec
-----------------------------------------------------------------------------
=============================================================================
