------------------------ MODULE AdminAccounts_proofs ------------------------
(***************************************************************************)
(* Proofs of the safety properties of AdminAccounts for any number of      *)
(* requests and codes.                                                     *)
(***************************************************************************)
EXTENDS AdminAccounts, TLAPS

USE DEF Name, Maybe

USE AdminAccountsAssumption

\* What a request does is of its kind, and what it made or found is there.
Steps ==
    \A r \in Request :
        /\ pc[r] = "idle" => kind[r] = "none" /\ link[r] = "none" /\ samlId[r] = "none"
        /\ pc[r] \in {"code", "list", "burn", "session"} => kind[r] = "login" /\ acct[r] # None
        /\ pc[r] \in {"clear", "link"} => kind[r] \in {"forgot", "create"} /\ link[r] = "none"
        /\ pc[r] \in {"spend", "account", "password"} => kind[r] = "use"
        /\ pc[r] = "save" => kind[r] = "owner"
        /\ pc[r] = "revoke" => kind[r] \in {"use", "owner"}
        /\ pc[r] = "enable" => kind[r] = "enable"
        /\ pc[r] = "regenerate" => kind[r] = "regenerate"
        /\ pc[r] = "consume" => kind[r] = "acs"
        /\ pc[r] = "cookie" => kind[r] \in {"acs", "oidc"}
        /\ kind[r] \in {"use", "acs"} => mark[r] \in Request
        /\ kind[r] = "acs" => samlId[mark[r]] # "none"

TypeInv == TypeOK /\ Steps

\* The types of the variables, and what the step of a request says of it.
THEOREM TypesAndSteps == Spec => []TypeInv
<1>1. Init => TypeInv
  <2> SUFFICES ASSUME Init PROVE TypeInv
    OBVIOUS
  <2>1. codes \subseteq Name \X Code /\ secret \in Maybe /\ mfa \in Maybe
    <3>1. CASE codes = {} /\ secret = None /\ mfa = None
      BY <3>1
    <3>2. CASE codes = AllCodes(First) /\ secret = First /\ mfa = First
      BY <3>2 DEF AllCodes
    <3>3. QED
      BY <3>1, <3>2 DEF Init
  <2>2. QED
    BY <2>1 DEF Init, TypeInv, TypeOK, Steps, Kind, Step
<1>2. TypeInv /\ [Next]_vars => TypeInv'
  <2> SUFFICES ASSUME TypeInv, [Next]_vars PROVE TypeInv'
    OBVIOUS
  <2> USE DEF TypeInv, TypeOK, Steps, Kind, Step
  <2>1. ASSUME NEW r \in Request, Login(r) PROVE TypeInv'
    BY <2>1 DEF Login, accountVars, factorVars, storeVars, Begin, UnderWay
  <2>2. ASSUME NEW r \in Request, EnterTotp(r) PROVE TypeInv'
    BY <2>2 DEF EnterTotp, accountVars, factorVars, storeVars, GoTo
  <2>3. ASSUME NEW r \in Request, FindCode(r) PROVE TypeInv'
    BY <2>3 DEF FindCode, accountVars, factorVars, storeVars, GoTo
  <2>4. ASSUME NEW r \in Request, MissCode(r) PROVE TypeInv'
    BY <2>4 DEF MissCode, accountVars, factorVars, storeVars, GoTo
  <2>5. ASSUME NEW r \in Request, BurnCode(r) PROVE TypeInv'
    BY <2>5 DEF BurnCode, accountVars, storeVars, localVars, GoTo, CodesLeft
  <2>6. ASSUME NEW r \in Request, CreateSession(r) PROVE TypeInv'
    BY <2>6 DEF CreateSession, accountVars, factorVars, localVars, GoTo
  <2>7. ASSUME NEW r \in Request, NEW c \in Name \X Code,
               EnterCode(r, c)
        PROVE  TypeInv'
    BY <2>7 DEF EnterCode, accountVars, factorVars, storeVars, GoTo
  <2>8. ASSUME NEW r \in Request, Forgot(r) PROVE TypeInv'
    BY <2>8 DEF Forgot, accountVars, factorVars, storeVars, localVars, Begin,
        UnderWay
  <2>9. ASSUME NEW r \in Request, ClearLinks(r) PROVE TypeInv'
    BY <2>9 DEF ClearLinks, accountVars, factorVars, localVars, GoTo, SameLinks,
        LinkKind
  <2>10. ASSUME NEW r \in Request, CreateLink(r) PROVE TypeInv'
    BY <2>10 DEF CreateLink, accountVars, factorVars, localVars, GoTo
  <2>11. ASSUME NEW r \in Request, NEW t \in Request, OpenLink(r, t) PROVE TypeInv'
    BY <2>11 DEF OpenLink, accountVars, factorVars, storeVars, Begin, UnderWay
  <2>12. ASSUME NEW r \in Request, SpendLink(r) PROVE TypeInv'
    BY <2>12 DEF SpendLink, accountVars, factorVars, localVars, GoTo, Unused
  <2>13. ASSUME NEW r \in Request, FindAccount(r) PROVE TypeInv'
    BY <2>13 DEF FindAccount, accountVars, factorVars, storeVars, GoTo
  <2>14. ASSUME NEW r \in Request, SetPassword(r) PROVE TypeInv'
    BY <2>14 DEF SetPassword, factorVars, storeVars, localVars, GoTo, LinkKind
  <2>15. ASSUME NEW r \in Request, RevokeAll(r) PROVE TypeInv'
    BY <2>15 DEF RevokeAll, accountVars, factorVars, localVars, GoTo, EndSessions,
        NotEnded
  <2>16. ASSUME NEW r \in Request, NEW then \in {"password", "invite", "nothing"},
                CreateAccount(r, then)
         PROVE  TypeInv'
    BY <2>16 DEF CreateAccount, storeVars, localVars, Begin, UnderWay
  <2>17. ASSUME NEW r \in Request, FindTarget(r) PROVE TypeInv'
    BY <2>17 DEF FindTarget, accountVars, factorVars, storeVars, Begin, UnderWay
  <2>18. ASSUME NEW r \in Request, DeleteAccount(r) PROVE TypeInv'
    BY <2>18 DEF DeleteAccount, localVars, GoTo, EndSessions, Cascade
  <2>19. ASSUME NEW r \in Request, MakeAdmin(r) PROVE TypeInv'
    BY <2>19 DEF MakeAdmin, storeVars, localVars, Begin, UnderWay
  <2>20. ASSUME NEW r \in Request, NEW on \in BOOLEAN, NEW p \in BOOLEAN, NEW m \in BOOLEAN,
                SaveAccount(r, on, p, m)
         PROVE  TypeInv'
    BY <2>20 DEF SaveAccount, factorVars, storeVars, localVars, GoTo
  <2>21. ASSUME NEW r \in Request, MfaStart(r) PROVE TypeInv'
    BY <2>21 DEF MfaStart, accountVars, storeVars, localVars, Begin, UnderWay,
        OffUntilVerified
  <2>22. ASSUME NEW r \in Request, MfaVerify(r) PROVE TypeInv'
    BY <2>22 DEF MfaVerify, accountVars, factorVars, storeVars, Begin, UnderWay
  <2>23. ASSUME NEW r \in Request, MfaEnable(r) PROVE TypeInv'
    BY <2>23 DEF MfaEnable, accountVars, storeVars, localVars, GoTo, AllCodes
  <2>24. ASSUME NEW r \in Request, MfaIsOn(r) PROVE TypeInv'
    BY <2>24 DEF MfaIsOn, accountVars, factorVars, storeVars, localVars, Begin,
        UnderWay
  <2>25. ASSUME NEW r \in Request, Regenerate(r) PROVE TypeInv'
    BY <2>25 DEF Regenerate, accountVars, storeVars, localVars, GoTo, AllCodes
  <2>26. ASSUME NEW r \in Request, MfaDisable(r) PROVE TypeInv'
    BY <2>26 DEF MfaDisable, accountVars, storeVars, localVars, Begin, UnderWay
  <2>27. ASSUME NEW r \in Request, NEW here \in Maybe,
                RevokeOthers(r, here)
         PROVE  TypeInv'
    BY <2>27 DEF RevokeOthers, accountVars, factorVars, localVars, Begin, UnderWay,
        EndSessions
  <2>28. ASSUME NEW r \in Request, SamlLogin(r) PROVE TypeInv'
    BY <2>28 DEF SamlLogin, accountVars, factorVars, localVars, Begin, UnderWay
  <2>29. ASSUME NEW r \in Request, ConsumeSamlId(r) PROVE TypeInv'
    BY <2>29 DEF ConsumeSamlId, accountVars, factorVars, localVars, GoTo
  <2>30. ASSUME NEW r \in Request, OidcCallback(r) PROVE TypeInv'
    BY <2>30 DEF OidcCallback, accountVars, factorVars, storeVars, localVars, Begin,
        UnderWay
  <2>31. ASSUME NEW r \in Request, SetCookie(r) PROVE TypeInv'
    BY <2>31 DEF SetCookie, accountVars, factorVars, localVars, GoTo
  <2>32. ASSUME NEW r \in Request, NEW t \in Request,
                FindSamlId(r, t)
         PROVE  TypeInv'
    BY <2>32 DEF FindSamlId, accountVars, factorVars, storeVars, Begin, UnderWay
  <2>33. ASSUME NEW r \in Request, LinkExpires(r) PROVE TypeInv'
    BY <2>33 DEF LinkExpires, accountVars, factorVars, localVars
  <2>34. ASSUME NEW r \in Request, SamlIdExpires(r) PROVE TypeInv'
    BY <2>34 DEF SamlIdExpires, accountVars, factorVars, localVars
  <2>35. ASSUME NEW r \in Request, DropExpiredId(r) PROVE TypeInv'
    BY <2>35 DEF DropExpiredId, accountVars, factorVars, localVars
  <2>36. ASSUME NEW r \in Request, Stop(r) PROVE TypeInv'
    BY <2>36 DEF Stop, accountVars, factorVars, storeVars, localVars, UnderWay
  <2>37. ASSUME NEW s \in Name, EndSession(s) PROVE TypeInv'
    BY <2>37 DEF EndSession, accountVars, factorVars, localVars
  <2>38. CASE CookieEnds
    <3>1. sso' = FALSE
      BY <2>38 DEF CookieEnds
    <3>2. /\ account' = account /\ active' = active /\ password' = password
          /\ secret' = secret /\ mfa' = mfa /\ codes' = codes /\ issuer' = issuer
          /\ link' = link /\ session' = session /\ samlId' = samlId
      BY <2>38 DEF CookieEnds, accountVars, factorVars, localVars
    <3>3. /\ acct' = acct /\ mark' = mark /\ used' = used /\ list' = list
          /\ pc' = pc /\ kind' = kind /\ met' = met /\ signOut' = signOut
      BY <2>38 DEF CookieEnds, accountVars, factorVars, localVars
    <3>4. /\ account' \in Maybe /\ active' \in BOOLEAN /\ password' \in Maybe
          /\ secret' \in Maybe /\ mfa' \in Maybe /\ issuer' \in Name
          /\ codes' \subseteq Name \X Code
      BY <3>2
    <3>5. TypeOK'
      <4>1. sso' \in BOOLEAN
        BY <3>1
      <4>2. /\ link' \in [Request -> {"none", "live", "used", "expired"}]
            /\ session' \in [Name -> {"none", "live", "over"}]
            /\ samlId' \in [Request -> {"none", "saved", "expired", "gone"}]
            /\ account' = None => \A s \in Name : session'[s] # "live"
        BY <3>2
      <4>3. /\ pc' \in [Request -> Step] /\ kind' \in [Request -> Kind]
            /\ met' \in [Request -> SUBSET Request] /\ signOut' \in Name
        BY <3>3
      <4>4. /\ acct' \in [Request -> Maybe] /\ mark' \in [Request -> Maybe]
            /\ used' \in [Request -> (Name \X Code) \union {None}]
            /\ list' \in [Request -> SUBSET (Name \X Code)]
        BY <3>3
      <4>5. QED
        BY <3>4, <4>1, <4>2, <4>3, <4>4
    <3>6. Steps'
      BY <3>2, <3>3
    <3>7. QED
      BY <3>5, <3>6
  <2>39. CASE UNCHANGED vars
    BY <2>39 DEF vars, accountVars, factorVars, storeVars, localVars
  <2> HIDE DEF TypeInv, TypeOK, Steps, Kind, Step
  <2>40. QED
    BY <2>1, <2>2, <2>3, <2>4, <2>5, <2>6, <2>7, <2>8, <2>9, <2>10, <2>11, <2>12,
       <2>13, <2>14, <2>15, <2>16, <2>17, <2>18, <2>19, <2>20, <2>21, <2>22, <2>23,
       <2>24, <2>25, <2>26, <2>27, <2>28, <2>29, <2>30, <2>31, <2>32, <2>33, <2>34,
       <2>35, <2>36, <2>37, <2>38, <2>39 DEF Next
<1>3. QED
  BY <1>1, <1>2, PTL DEF Spec
-----------------------------------------------------------------------------
\* The type invariant of the code's state (account.ts, the routes of the admins).
THEOREM TypeCorrect == Spec => []TypeOK
<1>1. TypeInv => TypeOK
  BY DEF TypeInv
<1>2. QED
  BY <1>1, TypesAndSteps, PTL
-----------------------------------------------------------------------------
\* Whoever are under way together have met, and only requests that began have.
MetInv ==
    /\ \A r, q \in Request :
          r # q /\ pc[r] \notin {"idle", "done", "stopped"} /\ pc[q] \notin {"idle", "done", "stopped"}
          => r \in met[q]
    /\ \A r, q \in Request : r \in met[q] => q \in met[r] /\ pc[r] # "idle"

\* Requests under way at the same time know of each other.
THEOREM Meetings == Spec => []MetInv
<1>1. Init => MetInv
  BY DEF Init, MetInv
<1>2. TypeInv /\ MetInv /\ [Next]_vars => MetInv'
  <2> SUFFICES ASSUME TypeInv, MetInv, [Next]_vars PROVE MetInv'
    OBVIOUS
  <2> USE DEF TypeInv, TypeOK, MetInv
  <2>1. ASSUME NEW r \in Request, Login(r) PROVE MetInv'
    BY <2>1 DEF Login, accountVars, factorVars, storeVars, Begin, UnderWay
  <2>2. ASSUME NEW r \in Request, EnterTotp(r) PROVE MetInv'
    BY <2>2 DEF EnterTotp, accountVars, factorVars, storeVars, GoTo
  <2>3. ASSUME NEW r \in Request, FindCode(r) PROVE MetInv'
    BY <2>3 DEF FindCode, accountVars, factorVars, storeVars, GoTo
  <2>4. ASSUME NEW r \in Request, MissCode(r) PROVE MetInv'
    BY <2>4 DEF MissCode, accountVars, factorVars, storeVars, GoTo
  <2>5. ASSUME NEW r \in Request, BurnCode(r) PROVE MetInv'
    BY <2>5 DEF BurnCode, accountVars, storeVars, localVars, GoTo, CodesLeft
  <2>6. ASSUME NEW r \in Request, CreateSession(r) PROVE MetInv'
    BY <2>6 DEF CreateSession, accountVars, factorVars, localVars, GoTo
  <2>7. ASSUME NEW r \in Request, NEW c \in Name \X Code,
               EnterCode(r, c)
        PROVE  MetInv'
    BY <2>7 DEF EnterCode, accountVars, factorVars, storeVars, GoTo
  <2>8. ASSUME NEW r \in Request, Forgot(r) PROVE MetInv'
    BY <2>8 DEF Forgot, accountVars, factorVars, storeVars, localVars, Begin,
        UnderWay
  <2>9. ASSUME NEW r \in Request, ClearLinks(r) PROVE MetInv'
    BY <2>9 DEF ClearLinks, accountVars, factorVars, localVars, GoTo, SameLinks,
        LinkKind
  <2>10. ASSUME NEW r \in Request, CreateLink(r) PROVE MetInv'
    BY <2>10 DEF CreateLink, accountVars, factorVars, localVars, GoTo
  <2>11. ASSUME NEW r \in Request, NEW t \in Request, OpenLink(r, t) PROVE MetInv'
    BY <2>11 DEF OpenLink, accountVars, factorVars, storeVars, Begin, UnderWay
  <2>12. ASSUME NEW r \in Request, SpendLink(r) PROVE MetInv'
    BY <2>12 DEF SpendLink, accountVars, factorVars, localVars, GoTo, Unused
  <2>13. ASSUME NEW r \in Request, FindAccount(r) PROVE MetInv'
    BY <2>13 DEF FindAccount, accountVars, factorVars, storeVars, GoTo
  <2>14. ASSUME NEW r \in Request, SetPassword(r) PROVE MetInv'
    BY <2>14 DEF SetPassword, factorVars, storeVars, localVars, GoTo, LinkKind
  <2>15. ASSUME NEW r \in Request, RevokeAll(r) PROVE MetInv'
    BY <2>15 DEF RevokeAll, accountVars, factorVars, localVars, GoTo, EndSessions,
        NotEnded
  <2>16. ASSUME NEW r \in Request, NEW then \in {"password", "invite", "nothing"},
                CreateAccount(r, then)
         PROVE  MetInv'
    BY <2>16 DEF CreateAccount, storeVars, localVars, Begin, UnderWay
  <2>17. ASSUME NEW r \in Request, FindTarget(r) PROVE MetInv'
    BY <2>17 DEF FindTarget, accountVars, factorVars, storeVars, Begin, UnderWay
  <2>18. ASSUME NEW r \in Request, DeleteAccount(r) PROVE MetInv'
    BY <2>18 DEF DeleteAccount, localVars, GoTo, EndSessions, Cascade
  <2>19. ASSUME NEW r \in Request, MakeAdmin(r) PROVE MetInv'
    BY <2>19 DEF MakeAdmin, storeVars, localVars, Begin, UnderWay
  <2>20. ASSUME NEW r \in Request, NEW on \in BOOLEAN, NEW p \in BOOLEAN, NEW m \in BOOLEAN,
                SaveAccount(r, on, p, m)
         PROVE  MetInv'
    BY <2>20 DEF SaveAccount, factorVars, storeVars, localVars, GoTo
  <2>21. ASSUME NEW r \in Request, MfaStart(r) PROVE MetInv'
    BY <2>21 DEF MfaStart, accountVars, storeVars, localVars, Begin, UnderWay,
        OffUntilVerified
  <2>22. ASSUME NEW r \in Request, MfaVerify(r) PROVE MetInv'
    BY <2>22 DEF MfaVerify, accountVars, factorVars, storeVars, Begin, UnderWay
  <2>23. ASSUME NEW r \in Request, MfaEnable(r) PROVE MetInv'
    BY <2>23 DEF MfaEnable, accountVars, storeVars, localVars, GoTo, AllCodes
  <2>24. ASSUME NEW r \in Request, MfaIsOn(r) PROVE MetInv'
    BY <2>24 DEF MfaIsOn, accountVars, factorVars, storeVars, localVars, Begin,
        UnderWay
  <2>25. ASSUME NEW r \in Request, Regenerate(r) PROVE MetInv'
    BY <2>25 DEF Regenerate, accountVars, storeVars, localVars, GoTo, AllCodes
  <2>26. ASSUME NEW r \in Request, MfaDisable(r) PROVE MetInv'
    BY <2>26 DEF MfaDisable, accountVars, storeVars, localVars, Begin, UnderWay
  <2>27. ASSUME NEW r \in Request, NEW here \in Maybe,
                RevokeOthers(r, here)
         PROVE  MetInv'
    BY <2>27 DEF RevokeOthers, accountVars, factorVars, localVars, Begin, UnderWay,
        EndSessions
  <2>28. ASSUME NEW r \in Request, SamlLogin(r) PROVE MetInv'
    BY <2>28 DEF SamlLogin, accountVars, factorVars, localVars, Begin, UnderWay
  <2>29. ASSUME NEW r \in Request, ConsumeSamlId(r) PROVE MetInv'
    BY <2>29 DEF ConsumeSamlId, accountVars, factorVars, localVars, GoTo
  <2>30. ASSUME NEW r \in Request, OidcCallback(r) PROVE MetInv'
    BY <2>30 DEF OidcCallback, accountVars, factorVars, storeVars, localVars, Begin,
        UnderWay
  <2>31. ASSUME NEW r \in Request, SetCookie(r) PROVE MetInv'
    BY <2>31 DEF SetCookie, accountVars, factorVars, localVars, GoTo
  <2>32. ASSUME NEW r \in Request, NEW t \in Request, FindSamlId(r, t) PROVE MetInv'
    BY <2>32 DEF FindSamlId, accountVars, factorVars, storeVars, Begin, UnderWay
  <2>33. ASSUME NEW r \in Request, LinkExpires(r) PROVE MetInv'
    BY <2>33 DEF LinkExpires, accountVars, factorVars, localVars
  <2>34. ASSUME NEW r \in Request, SamlIdExpires(r) PROVE MetInv'
    BY <2>34 DEF SamlIdExpires, accountVars, factorVars, localVars
  <2>35. ASSUME NEW r \in Request, DropExpiredId(r) PROVE MetInv'
    BY <2>35 DEF DropExpiredId, accountVars, factorVars, localVars
  <2>36. ASSUME NEW r \in Request, Stop(r) PROVE MetInv'
    BY <2>36 DEF Stop, accountVars, factorVars, storeVars, localVars, UnderWay
  <2>37. ASSUME NEW s \in Name, EndSession(s) PROVE MetInv'
    BY <2>37 DEF EndSession, accountVars, factorVars, localVars
  <2>38. CASE CookieEnds
    BY <2>38 DEF CookieEnds, accountVars, factorVars, localVars
  <2>39. CASE UNCHANGED vars
    BY <2>39 DEF vars, accountVars, factorVars, storeVars, localVars
  <2> HIDE DEF TypeInv, TypeOK, MetInv
  <2>40. QED
    BY <2>1, <2>2, <2>3, <2>4, <2>5, <2>6, <2>7, <2>8, <2>9, <2>10, <2>11, <2>12,
       <2>13, <2>14, <2>15, <2>16, <2>17, <2>18, <2>19, <2>20, <2>21, <2>22, <2>23,
       <2>24, <2>25, <2>26, <2>27, <2>28, <2>29, <2>30, <2>31, <2>32, <2>33, <2>34,
       <2>35, <2>36, <2>37, <2>38, <2>39 DEF Next
<1>3. QED
  BY <1>1, <1>2, TypesAndSteps, PTL DEF Spec
-----------------------------------------------------------------------------
Basics == TypeInv /\ MetInv

\* Both together, for the proofs below.
THEOREM BasicsCorrect == Spec => []Basics
<1>1. TypeInv /\ MetInv => Basics
  BY DEF Basics
<1>2. QED
  BY <1>1, TypesAndSteps, Meetings, PTL
-----------------------------------------------------------------------------
\* Who is to make a link has taken the others back, or met who made them.
LinkInv ==
    /\ OnlyNewestLink
    /\ \A r, u \in Request :
          pc[r] = "link" /\ u # r /\ link[u] = "live" /\ LinkKind(u) = LinkKind(r) => u \in met[r]

\* Two links of a kind are alive only if their requests overlapped
\* (account.ts:22-40).
THEOREM NewestLinks == Spec => []OnlyNewestLink
<1>1. Init => LinkInv
  BY DEF Init, LinkInv, OnlyNewestLink, LinkKind
<1>2. Basics /\ LinkInv /\ [Next]_vars => LinkInv'
  <2> SUFFICES ASSUME Basics, LinkInv, [Next]_vars PROVE LinkInv'
    OBVIOUS
  <2> USE DEF Basics, TypeInv, TypeOK, MetInv, Steps, LinkInv
  <2>1. ASSUME NEW r \in Request, Login(r) PROVE LinkInv'
    BY <2>1 DEF Login, accountVars, factorVars, storeVars, Begin, UnderWay,
        OnlyNewestLink, LinkKind
  <2>2. ASSUME NEW r \in Request, EnterTotp(r) PROVE LinkInv'
    BY <2>2 DEF EnterTotp, accountVars, factorVars, storeVars, GoTo, OnlyNewestLink,
        LinkKind
  <2>3. ASSUME NEW r \in Request, FindCode(r) PROVE LinkInv'
    BY <2>3 DEF FindCode, accountVars, factorVars, storeVars, GoTo, OnlyNewestLink,
        LinkKind
  <2>4. ASSUME NEW r \in Request, MissCode(r) PROVE LinkInv'
    BY <2>4 DEF MissCode, accountVars, factorVars, storeVars, GoTo, OnlyNewestLink,
        LinkKind
  <2>5. ASSUME NEW r \in Request, BurnCode(r) PROVE LinkInv'
    BY <2>5 DEF BurnCode, accountVars, storeVars, localVars, GoTo, CodesLeft,
        OnlyNewestLink, LinkKind
  <2>6. ASSUME NEW r \in Request, CreateSession(r) PROVE LinkInv'
    BY <2>6 DEF CreateSession, accountVars, factorVars, localVars, GoTo,
        OnlyNewestLink, LinkKind
  <2>7. ASSUME NEW r \in Request, NEW c \in Name \X Code,
               EnterCode(r, c)
        PROVE  LinkInv'
    BY <2>7 DEF EnterCode, accountVars, factorVars, storeVars, GoTo, OnlyNewestLink,
        LinkKind
  <2>8. ASSUME NEW r \in Request, Forgot(r) PROVE LinkInv'
    BY <2>8 DEF Forgot, accountVars, factorVars, storeVars, localVars, Begin,
        UnderWay, OnlyNewestLink, LinkKind
  <2>9. ASSUME NEW r \in Request, ClearLinks(r) PROVE LinkInv'
    BY <2>9 DEF ClearLinks, accountVars, factorVars, localVars, GoTo, SameLinks,
        LinkKind, OnlyNewestLink
  <2>10. ASSUME NEW r \in Request, CreateLink(r) PROVE LinkInv'
    BY <2>10 DEF CreateLink, accountVars, factorVars, localVars, GoTo,
        OnlyNewestLink, LinkKind
  <2>11. ASSUME NEW r \in Request, NEW t \in Request, OpenLink(r, t) PROVE LinkInv'
    BY <2>11 DEF OpenLink, accountVars, factorVars, storeVars, Begin, UnderWay,
        OnlyNewestLink, LinkKind
  <2>12. ASSUME NEW r \in Request, SpendLink(r) PROVE LinkInv'
    BY <2>12 DEF SpendLink, accountVars, factorVars, localVars, GoTo, Unused,
        OnlyNewestLink, LinkKind
  <2>13. ASSUME NEW r \in Request, FindAccount(r) PROVE LinkInv'
    BY <2>13 DEF FindAccount, accountVars, factorVars, storeVars, GoTo,
        OnlyNewestLink, LinkKind
  <2>14. ASSUME NEW r \in Request, SetPassword(r) PROVE LinkInv'
    BY <2>14 DEF SetPassword, factorVars, storeVars, localVars, GoTo, LinkKind,
        OnlyNewestLink
  <2>15. ASSUME NEW r \in Request, RevokeAll(r) PROVE LinkInv'
    BY <2>15 DEF RevokeAll, accountVars, factorVars, localVars, GoTo, EndSessions,
        NotEnded, OnlyNewestLink, LinkKind
  <2>16. ASSUME NEW r \in Request, NEW then \in {"password", "invite", "nothing"},
                CreateAccount(r, then)
         PROVE  LinkInv'
    BY <2>16 DEF CreateAccount, storeVars, localVars, Begin, UnderWay,
        OnlyNewestLink, LinkKind
  <2>17. ASSUME NEW r \in Request, FindTarget(r) PROVE LinkInv'
    BY <2>17 DEF FindTarget, accountVars, factorVars, storeVars, Begin, UnderWay,
        OnlyNewestLink, LinkKind
  <2>18. ASSUME NEW r \in Request, DeleteAccount(r) PROVE LinkInv'
    BY <2>18 DEF DeleteAccount, localVars, GoTo, EndSessions, Cascade,
        OnlyNewestLink, LinkKind
  <2>19. ASSUME NEW r \in Request, MakeAdmin(r) PROVE LinkInv'
    BY <2>19 DEF MakeAdmin, storeVars, localVars, Begin, UnderWay, OnlyNewestLink,
        LinkKind
  <2>20. ASSUME NEW r \in Request, NEW on \in BOOLEAN, NEW p \in BOOLEAN, NEW m \in BOOLEAN,
                SaveAccount(r, on, p, m)
         PROVE  LinkInv'
    BY <2>20 DEF SaveAccount, factorVars, storeVars, localVars, GoTo,
        OnlyNewestLink, LinkKind
  <2>21. ASSUME NEW r \in Request, MfaStart(r) PROVE LinkInv'
    BY <2>21 DEF MfaStart, accountVars, storeVars, localVars, Begin, UnderWay,
        OffUntilVerified, OnlyNewestLink, LinkKind
  <2>22. ASSUME NEW r \in Request, MfaVerify(r) PROVE LinkInv'
    BY <2>22 DEF MfaVerify, accountVars, factorVars, storeVars, Begin, UnderWay,
        OnlyNewestLink, LinkKind
  <2>23. ASSUME NEW r \in Request, MfaEnable(r) PROVE LinkInv'
    BY <2>23 DEF MfaEnable, accountVars, storeVars, localVars, GoTo, AllCodes,
        OnlyNewestLink, LinkKind
  <2>24. ASSUME NEW r \in Request, MfaIsOn(r) PROVE LinkInv'
    BY <2>24 DEF MfaIsOn, accountVars, factorVars, storeVars, localVars, Begin,
        UnderWay, OnlyNewestLink, LinkKind
  <2>25. ASSUME NEW r \in Request, Regenerate(r) PROVE LinkInv'
    BY <2>25 DEF Regenerate, accountVars, storeVars, localVars, GoTo, AllCodes,
        OnlyNewestLink, LinkKind
  <2>26. ASSUME NEW r \in Request, MfaDisable(r) PROVE LinkInv'
    BY <2>26 DEF MfaDisable, accountVars, storeVars, localVars, Begin, UnderWay,
        OnlyNewestLink, LinkKind
  <2>27. ASSUME NEW r \in Request, NEW here \in Maybe,
                RevokeOthers(r, here)
         PROVE  LinkInv'
    BY <2>27 DEF RevokeOthers, accountVars, factorVars, localVars, Begin, UnderWay,
        EndSessions, OnlyNewestLink, LinkKind
  <2>28. ASSUME NEW r \in Request, SamlLogin(r) PROVE LinkInv'
    BY <2>28 DEF SamlLogin, accountVars, factorVars, localVars, Begin, UnderWay,
        OnlyNewestLink, LinkKind
  <2>29. ASSUME NEW r \in Request, ConsumeSamlId(r) PROVE LinkInv'
    BY <2>29 DEF ConsumeSamlId, accountVars, factorVars, localVars, GoTo,
        OnlyNewestLink, LinkKind
  <2>30. ASSUME NEW r \in Request, OidcCallback(r) PROVE LinkInv'
    BY <2>30 DEF OidcCallback, accountVars, factorVars, storeVars, localVars, Begin,
        UnderWay, OnlyNewestLink, LinkKind
  <2>31. ASSUME NEW r \in Request, SetCookie(r) PROVE LinkInv'
    BY <2>31 DEF SetCookie, accountVars, factorVars, localVars, GoTo,
        OnlyNewestLink, LinkKind
  <2>32. ASSUME NEW r \in Request, NEW t \in Request,
                FindSamlId(r, t)
         PROVE  LinkInv'
    BY <2>32 DEF FindSamlId, accountVars, factorVars, storeVars, Begin, UnderWay,
        OnlyNewestLink, LinkKind
  <2>33. ASSUME NEW r \in Request, LinkExpires(r) PROVE LinkInv'
    BY <2>33 DEF LinkExpires, accountVars, factorVars, localVars, OnlyNewestLink,
        LinkKind
  <2>34. ASSUME NEW r \in Request, SamlIdExpires(r) PROVE LinkInv'
    BY <2>34 DEF SamlIdExpires, accountVars, factorVars, localVars, OnlyNewestLink,
        LinkKind
  <2>35. ASSUME NEW r \in Request, DropExpiredId(r) PROVE LinkInv'
    BY <2>35 DEF DropExpiredId, accountVars, factorVars, localVars, OnlyNewestLink,
        LinkKind
  <2>36. ASSUME NEW r \in Request, Stop(r) PROVE LinkInv'
    BY <2>36 DEF Stop, accountVars, factorVars, storeVars, localVars, UnderWay,
        OnlyNewestLink, LinkKind
  <2>37. ASSUME NEW s \in Name, EndSession(s) PROVE LinkInv'
    BY <2>37 DEF EndSession, accountVars, factorVars, localVars, OnlyNewestLink,
        LinkKind
  <2>38. CASE CookieEnds
    BY <2>38 DEF CookieEnds, accountVars, factorVars, localVars, OnlyNewestLink,
        LinkKind
  <2>39. CASE UNCHANGED vars
    BY <2>39 DEF vars, accountVars, factorVars, storeVars, localVars,
        OnlyNewestLink, LinkKind
  <2> HIDE DEF Basics, TypeInv, TypeOK, MetInv, Steps, LinkInv
  <2>40. QED
    BY <2>1, <2>2, <2>3, <2>4, <2>5, <2>6, <2>7, <2>8, <2>9, <2>10, <2>11, <2>12,
       <2>13, <2>14, <2>15, <2>16, <2>17, <2>18, <2>19, <2>20, <2>21, <2>22, <2>23,
       <2>24, <2>25, <2>26, <2>27, <2>28, <2>29, <2>30, <2>31, <2>32, <2>33, <2>34,
       <2>35, <2>36, <2>37, <2>38, <2>39 DEF Next
<1>3. Basics /\ LinkInv => OnlyNewestLink
  BY DEF Basics, LinkInv, OnlyNewestLink
<1>4. QED
  BY <1>1, <1>2, <1>3, BasicsCorrect, PTL DEF Spec
-----------------------------------------------------------------------------
\* A link that was spent stays so, and has one user; a SAML id that was
\* consumed stays so, and those who found it have met.
OnceInv ==
    /\ \A r \in Request :
          /\ kind[r] = "use" /\ pc[r] \in {"account", "password", "revoke", "done"} => link[mark[r]] = "used"
          /\ kind[r] = "acs" /\ pc[r] \in {"cookie", "done"} => samlId[mark[r]] = "gone"
    /\ \A r, q \in Request :
          r # q /\ mark[r] = mark[q] =>
              /\ ~ (/\ kind[r] = "use" /\ pc[r] \in {"account", "password", "revoke", "done"}
                    /\ kind[q] = "use" /\ pc[q] \in {"account", "password", "revoke", "done"})
              /\ /\ kind[r] = "acs" /\ pc[r] \in {"consume", "cookie", "done"}
                 /\ kind[q] = "acs" /\ pc[q] \in {"consume", "cookie", "done"}
                 => r \in met[q]

\* A link is used once, and a SAML id but by responses that arrive together
\* (account.ts:51-59, saml-cache.ts:34-49).
THEOREM SingleUses == Spec => []SingleUse
<1>1. Init => OnceInv
  BY DEF Init, OnceInv
<1>2. Basics /\ OnceInv /\ [Next]_vars => OnceInv'
  <2> SUFFICES ASSUME Basics, OnceInv, [Next]_vars PROVE OnceInv'
    OBVIOUS
  <2> USE DEF Basics, TypeInv, TypeOK, MetInv, Steps, OnceInv
  <2>1. ASSUME NEW r \in Request, Login(r) PROVE OnceInv'
    BY <2>1 DEF Login, accountVars, factorVars, storeVars, Begin, UnderWay, OnceInv
  <2>2. ASSUME NEW r \in Request, EnterTotp(r) PROVE OnceInv'
    BY <2>2 DEF EnterTotp, accountVars, factorVars, storeVars, GoTo, OnceInv
  <2>3. ASSUME NEW r \in Request, FindCode(r) PROVE OnceInv'
    BY <2>3 DEF FindCode, accountVars, factorVars, storeVars, GoTo, OnceInv
  <2>4. ASSUME NEW r \in Request, MissCode(r) PROVE OnceInv'
    BY <2>4 DEF MissCode, accountVars, factorVars, storeVars, GoTo, OnceInv
  <2>5. ASSUME NEW r \in Request, BurnCode(r) PROVE OnceInv'
    BY <2>5 DEF BurnCode, accountVars, storeVars, localVars, GoTo, CodesLeft,
        OnceInv
  <2>6. ASSUME NEW r \in Request, CreateSession(r) PROVE OnceInv'
    BY <2>6 DEF CreateSession, accountVars, factorVars, localVars, GoTo, OnceInv
  <2>7. ASSUME NEW r \in Request, NEW c \in Name \X Code,
               EnterCode(r, c)
        PROVE  OnceInv'
    BY <2>7 DEF EnterCode, accountVars, factorVars, storeVars, GoTo, OnceInv
  <2>8. ASSUME NEW r \in Request, Forgot(r) PROVE OnceInv'
    BY <2>8 DEF Forgot, accountVars, factorVars, storeVars, localVars, Begin,
        UnderWay, OnceInv
  <2>9. ASSUME NEW r \in Request, ClearLinks(r) PROVE OnceInv'
    BY <2>9 DEF ClearLinks, accountVars, factorVars, localVars, GoTo, SameLinks,
        LinkKind, OnceInv
  <2>10. ASSUME NEW r \in Request, CreateLink(r) PROVE OnceInv'
    BY SMTT(30), <2>10 DEF CreateLink, accountVars, factorVars, localVars, GoTo,
        OnceInv
  <2>11. ASSUME NEW r \in Request, NEW t \in Request, OpenLink(r, t) PROVE OnceInv'
    BY <2>11 DEF OpenLink, accountVars, factorVars, storeVars, Begin, UnderWay,
        OnceInv
  <2>12. ASSUME NEW r \in Request, SpendLink(r) PROVE OnceInv'
    BY <2>12 DEF SpendLink, accountVars, factorVars, localVars, GoTo, Unused,
        OnceInv
  <2>13. ASSUME NEW r \in Request, FindAccount(r) PROVE OnceInv'
    BY <2>13 DEF FindAccount, accountVars, factorVars, storeVars, GoTo, OnceInv
  <2>14. ASSUME NEW r \in Request, SetPassword(r) PROVE OnceInv'
    BY SMTT(30), <2>14 DEF SetPassword, factorVars, storeVars, localVars, GoTo,
        LinkKind, OnceInv
  <2>15. ASSUME NEW r \in Request, RevokeAll(r) PROVE OnceInv'
    BY <2>15 DEF RevokeAll, accountVars, factorVars, localVars, GoTo, EndSessions,
        NotEnded, OnceInv
  <2>16. ASSUME NEW r \in Request, NEW then \in {"password", "invite", "nothing"},
                CreateAccount(r, then)
         PROVE  OnceInv'
    BY <2>16 DEF CreateAccount, storeVars, localVars, Begin, UnderWay, OnceInv
  <2>17. ASSUME NEW r \in Request, FindTarget(r) PROVE OnceInv'
    BY <2>17 DEF FindTarget, accountVars, factorVars, storeVars, Begin, UnderWay,
        OnceInv
  <2>18. ASSUME NEW r \in Request, DeleteAccount(r) PROVE OnceInv'
    BY <2>18 DEF DeleteAccount, localVars, GoTo, EndSessions, Cascade, OnceInv
  <2>19. ASSUME NEW r \in Request, MakeAdmin(r) PROVE OnceInv'
    BY <2>19 DEF MakeAdmin, storeVars, localVars, Begin, UnderWay, OnceInv
  <2>20. ASSUME NEW r \in Request, NEW on \in BOOLEAN, NEW p \in BOOLEAN, NEW m \in BOOLEAN,
                SaveAccount(r, on, p, m)
         PROVE  OnceInv'
    BY <2>20 DEF SaveAccount, factorVars, storeVars, localVars, GoTo, OnceInv
  <2>21. ASSUME NEW r \in Request, MfaStart(r) PROVE OnceInv'
    BY <2>21 DEF MfaStart, accountVars, storeVars, localVars, Begin, UnderWay,
        OffUntilVerified, OnceInv
  <2>22. ASSUME NEW r \in Request, MfaVerify(r) PROVE OnceInv'
    BY <2>22 DEF MfaVerify, accountVars, factorVars, storeVars, Begin, UnderWay,
        OnceInv
  <2>23. ASSUME NEW r \in Request, MfaEnable(r) PROVE OnceInv'
    BY <2>23 DEF MfaEnable, accountVars, storeVars, localVars, GoTo, AllCodes,
        OnceInv
  <2>24. ASSUME NEW r \in Request, MfaIsOn(r) PROVE OnceInv'
    BY <2>24 DEF MfaIsOn, accountVars, factorVars, storeVars, localVars, Begin,
        UnderWay, OnceInv
  <2>25. ASSUME NEW r \in Request, Regenerate(r) PROVE OnceInv'
    BY <2>25 DEF Regenerate, accountVars, storeVars, localVars, GoTo, AllCodes,
        OnceInv
  <2>26. ASSUME NEW r \in Request, MfaDisable(r) PROVE OnceInv'
    BY <2>26 DEF MfaDisable, accountVars, storeVars, localVars, Begin, UnderWay,
        OnceInv
  <2>27. ASSUME NEW r \in Request, NEW here \in Maybe,
                RevokeOthers(r, here)
         PROVE  OnceInv'
    BY <2>27 DEF RevokeOthers, accountVars, factorVars, localVars, Begin, UnderWay,
        EndSessions, OnceInv
  <2>28. ASSUME NEW r \in Request, SamlLogin(r) PROVE OnceInv'
    BY <2>28 DEF SamlLogin, accountVars, factorVars, localVars, Begin, UnderWay,
        OnceInv
  <2>29. ASSUME NEW r \in Request, ConsumeSamlId(r) PROVE OnceInv'
    BY <2>29 DEF ConsumeSamlId, accountVars, factorVars, localVars, GoTo, OnceInv
  <2>30. ASSUME NEW r \in Request, OidcCallback(r) PROVE OnceInv'
    BY <2>30 DEF OidcCallback, accountVars, factorVars, storeVars, localVars, Begin,
        UnderWay, OnceInv
  <2>31. ASSUME NEW r \in Request, SetCookie(r) PROVE OnceInv'
    BY <2>31 DEF SetCookie, accountVars, factorVars, localVars, GoTo, OnceInv
  <2>32. ASSUME NEW r \in Request, NEW t \in Request,
                FindSamlId(r, t)
         PROVE  OnceInv'
    BY <2>32 DEF FindSamlId, accountVars, factorVars, storeVars, Begin, UnderWay,
        OnceInv
  <2>33. ASSUME NEW r \in Request, LinkExpires(r) PROVE OnceInv'
    BY <2>33 DEF LinkExpires, accountVars, factorVars, localVars, OnceInv
  <2>34. ASSUME NEW r \in Request, SamlIdExpires(r) PROVE OnceInv'
    BY <2>34 DEF SamlIdExpires, accountVars, factorVars, localVars, OnceInv
  <2>35. ASSUME NEW r \in Request, DropExpiredId(r) PROVE OnceInv'
    BY <2>35 DEF DropExpiredId, accountVars, factorVars, localVars, OnceInv
  <2>36. ASSUME NEW r \in Request, Stop(r) PROVE OnceInv'
    BY <2>36 DEF Stop, accountVars, factorVars, storeVars, localVars, UnderWay,
        OnceInv
  <2>37. ASSUME NEW s \in Name, EndSession(s) PROVE OnceInv'
    BY <2>37 DEF EndSession, accountVars, factorVars, localVars, OnceInv
  <2>38. CASE CookieEnds
    BY <2>38 DEF CookieEnds, accountVars, factorVars, localVars, OnceInv
  <2>39. CASE UNCHANGED vars
    BY <2>39 DEF vars, accountVars, factorVars, storeVars, localVars, OnceInv
  <2> HIDE DEF Basics, TypeInv, TypeOK, MetInv, Steps, OnceInv
  <2>40. QED
    BY <2>1, <2>2, <2>3, <2>4, <2>5, <2>6, <2>7, <2>8, <2>9, <2>10, <2>11, <2>12,
       <2>13, <2>14, <2>15, <2>16, <2>17, <2>18, <2>19, <2>20, <2>21, <2>22, <2>23,
       <2>24, <2>25, <2>26, <2>27, <2>28, <2>29, <2>30, <2>31, <2>32, <2>33, <2>34,
       <2>35, <2>36, <2>37, <2>38, <2>39 DEF Next
<1>3. Basics /\ OnceInv => SingleUse
  BY DEF Basics, OnceInv, SingleUse
<1>4. QED
  BY <1>1, <1>2, <1>3, BasicsCorrect, PTL DEF Spec
-----------------------------------------------------------------------------
\* A login that has passed and has no session yet has met the last that is to
\* end the sessions, or began after it.
SignOutInv ==
    /\ NoStaleSession
    /\ signOut \in Request => pc[signOut] \in {"revoke", "done", "stopped"} /\ kind[signOut] # "login"
    /\ \A s \in Request :
          /\ session[s] # "none" => pc[s] # "idle" /\ kind[s] = "login"
          /\ /\ signOut \in Request /\ pc[s] \in {"code", "list", "burn", "session"}
             /\ mark[s] # signOut
             => s \in met[signOut]

\* A session allowed by the account as it was before a reset, a new password
\* or a deactivation is that of a login under way with it (auth.ts:116-129,
\* accounts.ts:109-133).
THEOREM NoStaleSessions == Spec => []NoStaleSession
<1>1. Init => SignOutInv
  BY DEF Init, SignOutInv, NoStaleSession
<1>2. Basics /\ SignOutInv /\ [Next]_vars => SignOutInv'
  <2> SUFFICES ASSUME Basics, SignOutInv, [Next]_vars PROVE SignOutInv'
    OBVIOUS
  <2> USE DEF Basics, TypeInv, TypeOK, MetInv, Steps, SignOutInv
  <2>1. ASSUME NEW r \in Request, Login(r) PROVE SignOutInv'
    BY <2>1 DEF Login, accountVars, factorVars, storeVars, Begin, UnderWay,
        NoStaleSession
  <2>2. ASSUME NEW r \in Request, EnterTotp(r) PROVE SignOutInv'
    BY <2>2 DEF EnterTotp, accountVars, factorVars, storeVars, GoTo, NoStaleSession
  <2>3. ASSUME NEW r \in Request, FindCode(r) PROVE SignOutInv'
    BY <2>3 DEF FindCode, accountVars, factorVars, storeVars, GoTo, NoStaleSession
  <2>4. ASSUME NEW r \in Request, MissCode(r) PROVE SignOutInv'
    BY <2>4 DEF MissCode, accountVars, factorVars, storeVars, GoTo, NoStaleSession
  <2>5. ASSUME NEW r \in Request, BurnCode(r) PROVE SignOutInv'
    BY <2>5 DEF BurnCode, accountVars, storeVars, localVars, GoTo, CodesLeft,
        NoStaleSession
  <2>6. ASSUME NEW r \in Request, CreateSession(r) PROVE SignOutInv'
    BY <2>6 DEF CreateSession, accountVars, factorVars, localVars, GoTo,
        NoStaleSession
  <2>7. ASSUME NEW r \in Request, NEW c \in Name \X Code,
               EnterCode(r, c)
        PROVE  SignOutInv'
    BY <2>7 DEF EnterCode, accountVars, factorVars, storeVars, GoTo, NoStaleSession
  <2>8. ASSUME NEW r \in Request, Forgot(r) PROVE SignOutInv'
    BY <2>8 DEF Forgot, accountVars, factorVars, storeVars, localVars, Begin,
        UnderWay, NoStaleSession
  <2>9. ASSUME NEW r \in Request, ClearLinks(r) PROVE SignOutInv'
    BY <2>9 DEF ClearLinks, accountVars, factorVars, localVars, GoTo, SameLinks,
        LinkKind, NoStaleSession
  <2>10. ASSUME NEW r \in Request, CreateLink(r) PROVE SignOutInv'
    BY <2>10 DEF CreateLink, accountVars, factorVars, localVars, GoTo,
        NoStaleSession
  <2>11. ASSUME NEW r \in Request, NEW t \in Request,
                OpenLink(r, t)
         PROVE  SignOutInv'
    BY <2>11 DEF OpenLink, accountVars, factorVars, storeVars, Begin, UnderWay,
        NoStaleSession
  <2>12. ASSUME NEW r \in Request, SpendLink(r) PROVE SignOutInv'
    BY <2>12 DEF SpendLink, accountVars, factorVars, localVars, GoTo, Unused,
        NoStaleSession
  <2>13. ASSUME NEW r \in Request, FindAccount(r) PROVE SignOutInv'
    BY <2>13 DEF FindAccount, accountVars, factorVars, storeVars, GoTo,
        NoStaleSession
  <2>14. ASSUME NEW r \in Request, SetPassword(r) PROVE SignOutInv'
    BY <2>14 DEF SetPassword, factorVars, storeVars, localVars, GoTo, LinkKind,
        NoStaleSession
  <2>15. ASSUME NEW r \in Request, RevokeAll(r) PROVE SignOutInv'
    BY <2>15 DEF RevokeAll, accountVars, factorVars, localVars, GoTo, EndSessions,
        NotEnded, NoStaleSession
  <2>16. ASSUME NEW r \in Request, NEW then \in {"password", "invite", "nothing"},
                CreateAccount(r, then)
         PROVE  SignOutInv'
    BY <2>16 DEF CreateAccount, storeVars, localVars, Begin, UnderWay,
        NoStaleSession
  <2>17. ASSUME NEW r \in Request, FindTarget(r) PROVE SignOutInv'
    BY <2>17 DEF FindTarget, accountVars, factorVars, storeVars, Begin, UnderWay,
        NoStaleSession
  <2>18. ASSUME NEW r \in Request, DeleteAccount(r) PROVE SignOutInv'
    BY <2>18 DEF DeleteAccount, localVars, GoTo, EndSessions, Cascade,
        NoStaleSession
  <2>19. ASSUME NEW r \in Request, MakeAdmin(r) PROVE SignOutInv'
    BY <2>19 DEF MakeAdmin, storeVars, localVars, Begin, UnderWay, NoStaleSession
  <2>20. ASSUME NEW r \in Request, NEW on \in BOOLEAN, NEW p \in BOOLEAN, NEW m \in BOOLEAN,
                SaveAccount(r, on, p, m)
         PROVE  SignOutInv'
    BY <2>20 DEF SaveAccount, factorVars, storeVars, localVars, GoTo, NoStaleSession
  <2>21. ASSUME NEW r \in Request, MfaStart(r) PROVE SignOutInv'
    BY <2>21 DEF MfaStart, accountVars, storeVars, localVars, Begin, UnderWay,
        OffUntilVerified, NoStaleSession
  <2>22. ASSUME NEW r \in Request, MfaVerify(r) PROVE SignOutInv'
    BY <2>22 DEF MfaVerify, accountVars, factorVars, storeVars, Begin, UnderWay,
        NoStaleSession
  <2>23. ASSUME NEW r \in Request, MfaEnable(r) PROVE SignOutInv'
    BY <2>23 DEF MfaEnable, accountVars, storeVars, localVars, GoTo, AllCodes,
        NoStaleSession
  <2>24. ASSUME NEW r \in Request, MfaIsOn(r) PROVE SignOutInv'
    BY <2>24 DEF MfaIsOn, accountVars, factorVars, storeVars, localVars, Begin,
        UnderWay, NoStaleSession
  <2>25. ASSUME NEW r \in Request, Regenerate(r) PROVE SignOutInv'
    BY <2>25 DEF Regenerate, accountVars, storeVars, localVars, GoTo, AllCodes,
        NoStaleSession
  <2>26. ASSUME NEW r \in Request, MfaDisable(r) PROVE SignOutInv'
    BY <2>26 DEF MfaDisable, accountVars, storeVars, localVars, Begin, UnderWay,
        NoStaleSession
  <2>27. ASSUME NEW r \in Request, NEW here \in Maybe,
                RevokeOthers(r, here)
         PROVE  SignOutInv'
    BY <2>27 DEF RevokeOthers, accountVars, factorVars, localVars, Begin, UnderWay,
        EndSessions, NoStaleSession
  <2>28. ASSUME NEW r \in Request, SamlLogin(r) PROVE SignOutInv'
    BY <2>28 DEF SamlLogin, accountVars, factorVars, localVars, Begin, UnderWay,
        NoStaleSession
  <2>29. ASSUME NEW r \in Request, ConsumeSamlId(r) PROVE SignOutInv'
    BY <2>29 DEF ConsumeSamlId, accountVars, factorVars, localVars, GoTo,
        NoStaleSession
  <2>30. ASSUME NEW r \in Request, OidcCallback(r) PROVE SignOutInv'
    BY <2>30 DEF OidcCallback, accountVars, factorVars, storeVars, localVars, Begin,
        UnderWay, NoStaleSession
  <2>31. ASSUME NEW r \in Request, SetCookie(r) PROVE SignOutInv'
    BY <2>31 DEF SetCookie, accountVars, factorVars, localVars, GoTo, NoStaleSession
  <2>32. ASSUME NEW r \in Request, NEW t \in Request,
                FindSamlId(r, t)
         PROVE  SignOutInv'
    BY <2>32 DEF FindSamlId, accountVars, factorVars, storeVars, Begin, UnderWay,
        NoStaleSession
  <2>33. ASSUME NEW r \in Request, LinkExpires(r) PROVE SignOutInv'
    BY <2>33 DEF LinkExpires, accountVars, factorVars, localVars, NoStaleSession
  <2>34. ASSUME NEW r \in Request, SamlIdExpires(r) PROVE SignOutInv'
    BY <2>34 DEF SamlIdExpires, accountVars, factorVars, localVars, NoStaleSession
  <2>35. ASSUME NEW r \in Request, DropExpiredId(r) PROVE SignOutInv'
    BY <2>35 DEF DropExpiredId, accountVars, factorVars, localVars, NoStaleSession
  <2>36. ASSUME NEW r \in Request, Stop(r) PROVE SignOutInv'
    BY <2>36 DEF Stop, accountVars, factorVars, storeVars, localVars, UnderWay,
        NoStaleSession
  <2>37. ASSUME NEW s \in Name, EndSession(s) PROVE SignOutInv'
    BY <2>37 DEF EndSession, accountVars, factorVars, localVars, NoStaleSession
  <2>38. CASE CookieEnds
    BY <2>38 DEF CookieEnds, accountVars, factorVars, localVars, NoStaleSession
  <2>39. CASE UNCHANGED vars
    BY <2>39 DEF vars, accountVars, factorVars, storeVars, localVars, NoStaleSession
  <2> HIDE DEF Basics, TypeInv, TypeOK, MetInv, Steps, SignOutInv
  <2>40. QED
    BY <2>1, <2>2, <2>3, <2>4, <2>5, <2>6, <2>7, <2>8, <2>9, <2>10, <2>11, <2>12,
       <2>13, <2>14, <2>15, <2>16, <2>17, <2>18, <2>19, <2>20, <2>21, <2>22, <2>23,
       <2>24, <2>25, <2>26, <2>27, <2>28, <2>29, <2>30, <2>31, <2>32, <2>33, <2>34,
       <2>35, <2>36, <2>37, <2>38, <2>39 DEF Next
<1>3. Basics /\ SignOutInv => NoStaleSession
  BY DEF Basics, SignOutInv, NoStaleSession
<1>4. QED
  BY <1>1, <1>2, <1>3, BasicsCorrect, PTL DEF Spec
-----------------------------------------------------------------------------
\* It was given a recovery code that it has found.
GaveCode(q) == used[q] # None /\ pc[q] # "list"

\* A set of codes was handed out when its request was done.
Issued(g) == g \in Request => pc[g] = "done"

CodesInv ==
    /\ \A r \in Request :
          /\ pc[r] \in {"idle", "code"} => used[r] = None
          /\ used[r] # None => kind[r] = "login"
          /\ pc[r] = "burn" => used[r] # None /\ used[r] \notin list[r]
          /\ pc[r] \in {"burn", "session", "done"} /\ used[r] # None => Issued(used[r][1])
          /\ pc[r] = "burn" => \A c \in list[r] : Issued(c[1])
    /\ issuer # First => pc[issuer] # "idle"
    /\ \A c \in codes : Issued(c[1])
    /\ \A r \in Request :
          pc[r] \in {"session", "done"} /\ used[r] \in codes =>
              \E q \in met[r] : GaveCode(q) /\ used[q] # used[r]
    /\ \A r, x \in Request :
          pc[r] \in {"session", "done"} /\ pc[x] = "burn" /\ used[r] \in list[x] =>
              \E q \in met[r] : GaveCode(q) /\ used[q] # used[r]
    /\ \A c \in codes :
          c[1] # issuer => issuer # First /\ \E q \in met[issuer] : GaveCode(q)
    /\ \A r \in Request : \A c \in list[r] :
          pc[r] = "burn" /\ c[1] # issuer => issuer # First /\ \E q \in met[issuer] : GaveCode(q)

\* A recovery code is dead once it was used or replaced, but for what an
\* overlapping login with another code brings back (account.ts:136-148).
THEOREM DeadCodes == Spec => []CodesStayDead
<1>1. Init => CodesInv
  BY DEF Init, CodesInv, GaveCode, Issued, AllCodes
<1>2. Basics /\ CodesInv /\ [Next]_vars => CodesInv'
  <2> SUFFICES ASSUME Basics, CodesInv, [Next]_vars PROVE CodesInv'
    OBVIOUS
  <2> USE DEF Basics, TypeInv, TypeOK, MetInv, Steps, CodesInv
  <2>1. ASSUME NEW r \in Request, Login(r) PROVE CodesInv'
    BY <2>1 DEF Login, accountVars, factorVars, storeVars, Begin, UnderWay,
        GaveCode, Issued
  <2>2. ASSUME NEW r \in Request, EnterTotp(r) PROVE CodesInv'
    BY <2>2 DEF EnterTotp, accountVars, factorVars, storeVars, GoTo, GaveCode,
        Issued
  <2>3. ASSUME NEW r \in Request, FindCode(r) PROVE CodesInv'
    BY <2>3 DEF FindCode, accountVars, factorVars, storeVars, GoTo, GaveCode, Issued
  <2>4. ASSUME NEW r \in Request, MissCode(r) PROVE CodesInv'
    <3>1. UNCHANGED <<codes, issuer, list, met, kind>> /\ pc[r] = "list" /\ pc'[r] = "code"
      BY <2>4 DEF MissCode, accountVars, factorVars, storeVars, GoTo, GaveCode,
          Issued
    <3>2. \A q \in Request : q # r => pc'[q] = pc[q] /\ used'[q] = used[q]
      BY <2>4 DEF MissCode, accountVars, factorVars, storeVars, GoTo, GaveCode,
          Issued
    <3>3. used'[r] = None
      BY <2>4 DEF MissCode, accountVars, factorVars, storeVars, GoTo, GaveCode,
          Issued
    <3>4. \A q \in Request : GaveCode(q) => GaveCode(q)' /\ q # r
      BY <3>1, <3>2 DEF GaveCode
    <3>5. \A g : Issued(g) => Issued(g)'
      BY <3>1, <3>2 DEF Issued
    <3>6. ASSUME NEW q \in Request, pc'[q] \in {"session", "done"},
                 \E d \in met[q] : GaveCode(d) /\ used[d] # used[q]
          PROVE  \E d \in met'[q] : GaveCode(d)' /\ used'[d] # used'[q]
      <4>1. q # r
        BY <3>1, <3>6
      <4>2. PICK d \in met[q] : GaveCode(d) /\ used[d] # used[q]
        BY <3>6
      <4>3. d \in Request /\ used'[d] = used[d] /\ used'[q] = used[q]
        BY <3>2, <3>4, <4>1, <4>2
      <4>4. QED
        BY <3>1, <3>4, <4>2, <4>3
    <3>7. ASSUME NEW q \in Request, pc'[q] \in {"session", "done"}
          PROVE  /\ used'[q] \in codes' => \E d \in met'[q] : GaveCode(d)' /\ used'[d] # used'[q]
                 /\ \A x \in Request :
                      pc'[x] = "burn" /\ used'[q] \in list'[x] =>
                          \E d \in met'[q] : GaveCode(d)' /\ used'[d] # used'[q]
      BY <3>1, <3>2, <3>6, <3>7
    <3>8. issuer # First => issuer \in Request /\ pc'[issuer] # "idle"
      BY <3>1, <3>2
    <3>9. issuer # First /\ (\E d \in met[issuer] : GaveCode(d)) => \E d \in met'[issuer'] : GaveCode(d)'
      BY <3>1, <3>4, <3>8
    <3>10. /\ \A d \in codes' : d[1] # issuer' => issuer' # First /\ \E q \in met'[issuer'] : GaveCode(q)'
           /\ \A q \in Request : \A d \in list'[q] :
                pc'[q] = "burn" /\ d[1] # issuer' =>
                    issuer' # First /\ \E x \in met'[issuer'] : GaveCode(x)'
      BY <3>1, <3>2, <3>9
    <3>11. /\ \A q \in Request :
                /\ pc'[q] \in {"idle", "code"} => used'[q] = None
                /\ used'[q] # None => kind'[q] = "login"
                /\ pc'[q] = "burn" => used'[q] # None /\ used'[q] \notin list'[q]
                /\ pc'[q] \in {"burn", "session", "done"} /\ used'[q] # None => Issued(used[q][1])'
                /\ pc'[q] = "burn" => \A d \in list'[q] : Issued(d[1])'
           /\ \A d \in codes' : Issued(d[1])'
      <4>1. \A g : Issued(g)' <=> Issued(g)
        BY <3>1, <3>2 DEF Issued
      <4>2. ASSUME NEW q \in Request PROVE
                /\ pc'[q] \in {"idle", "code"} => used'[q] = None
                /\ used'[q] # None => kind'[q] = "login"
                /\ pc'[q] = "burn" => used'[q] # None /\ used'[q] \notin list'[q]
                /\ pc'[q] \in {"burn", "session", "done"} /\ used'[q] # None => Issued(used'[q][1])
                /\ pc'[q] = "burn" => \A d \in list'[q] : Issued(d[1])
        <5>1. CASE q = r
          BY <3>1, <3>3, <5>1
        <5>2. CASE q # r
          BY <3>1, <3>2, <5>2
        <5>3. QED
          BY <5>1, <5>2
      <4>3. ASSUME NEW q \in Request
            PROVE  /\ Issued(used[q][1])' <=> Issued(used'[q][1])
                   /\ \A d \in list'[q] : Issued(d[1])' <=> Issued(d[1])
        BY <3>1, <3>2 DEF Issued
      <4>4. \A d \in codes' : Issued(d[1])'
        BY <4>1, <3>1
      <4>5. QED
        BY <4>2, <4>3, <4>4
    <3>12. QED
      BY <3>7, <3>8, <3>10, <3>11, <3>1
  <2>5. ASSUME NEW r \in Request, BurnCode(r) PROVE CodesInv'
    <3>1. UNCHANGED <<issuer, used, list, met, kind>> /\ pc[r] = "burn" /\ pc'[r] = "session"
      BY <2>5 DEF BurnCode, accountVars, storeVars, localVars, GoTo, CodesLeft,
          GaveCode, Issued
    <3>2. codes' = list[r] /\ \A q \in Request : q # r => pc'[q] = pc[q]
      BY <2>5 DEF BurnCode, accountVars, storeVars, localVars, GoTo, CodesLeft,
          GaveCode, Issued
    <3>3. \A q \in Request : GaveCode(q) <=> GaveCode(q)'
      BY <3>1, <3>2 DEF GaveCode
    <3>4. \A g : Issued(g) <=> Issued(g)'
      BY <3>1, <3>2 DEF Issued
    <3>5. used[r] # None /\ used[r] \notin codes' /\ Issued(used[r][1]) /\ \A c \in codes' : Issued(c[1])
      BY <3>1, <3>2
    <3>6. ASSUME NEW x \in Request, pc'[x] = "burn", used[r] \in list[x]
          PROVE  \E q \in met[r] : GaveCode(q) /\ used[q] # used[r]
      <4>1. x # r /\ pc[x] = "burn" /\ x \in met[r]
        BY <3>1, <3>2, <3>6
      <4>2. GaveCode(x) /\ used[x] # used[r]
        BY <3>6, <4>1 DEF GaveCode
      <4>3. QED
        BY <4>1, <4>2
    <3>7. ASSUME NEW q \in Request, q # r, pc[q] \in {"session", "done"}, used[q] \in codes'
          PROVE  \E d \in met[q] : GaveCode(d) /\ used[d] # used[q]
      BY <3>1, <3>2, <3>7
    <3>8. \A c \in codes' : c[1] # issuer => issuer # First /\ \E q \in met[issuer] : GaveCode(q)
      BY <3>1, <3>2
    <3>9. issuer # First => issuer \in Request /\ pc'[issuer] # "idle"
      BY <3>1, <3>2
    <3>10. ASSUME NEW q \in Request, pc'[q] \in {"session", "done"},
                  used[q] \in codes' \/ \E x \in Request : pc'[x] = "burn" /\ used[q] \in list[x]
           PROVE  \E d \in met[q] : GaveCode(d) /\ used[d] # used[q]
      <4>1. CASE q = r
        BY <3>5, <3>6, <3>10, <4>1
      <4>2. CASE q # r
        BY <3>1, <3>2, <3>7, <3>10, <4>2
      <4>3. QED
        BY <4>1, <4>2
    <3>11. ASSUME NEW q \in Request
           PROVE  /\ pc'[q] \in {"idle", "code"} => used[q] = None
                  /\ pc'[q] = "burn" => used[q] # None /\ used[q] \notin list[q]
                  /\ pc'[q] \in {"burn", "session", "done"} /\ used[q] # None => Issued(used[q][1])
                  /\ pc'[q] = "burn" => \A c \in list[q] : Issued(c[1])
                  /\ used[q] # None => kind[q] = "login"
      BY <3>1, <3>2, <3>5
    <3>12. ASSUME NEW q \in Request, NEW c \in list[q], pc'[q] = "burn", c[1] # issuer
           PROVE  issuer # First /\ \E d \in met[issuer] : GaveCode(d)
      BY <3>1, <3>2, <3>12
    <3> HIDE DEF GaveCode, Issued
    <3>13. QED
      BY <3>1, <3>3, <3>4, <3>5, <3>8, <3>9, <3>10, <3>11, <3>12
  <2>6. ASSUME NEW r \in Request, CreateSession(r) PROVE CodesInv'
    BY <2>6 DEF CreateSession, accountVars, factorVars, localVars, GoTo, GaveCode,
        Issued
  <2>7. ASSUME NEW r \in Request, NEW c \in Name \X Code,
               EnterCode(r, c)
        PROVE  CodesInv'
    <3>1. UNCHANGED <<codes, issuer, list, met, kind>> /\ pc[r] = "code" /\ pc'[r] = "list"
      BY <2>7 DEF EnterCode, accountVars, factorVars, storeVars, GoTo, GaveCode,
          Issued
    <3>2. \A q \in Request : q # r => pc'[q] = pc[q] /\ used'[q] = used[q]
      BY <2>7 DEF EnterCode, accountVars, factorVars, storeVars, GoTo, GaveCode,
          Issued
    <3>3. kind[r] = "login" /\ used[r] = None
      BY <3>1
    <3>4. \A q \in Request : GaveCode(q) => GaveCode(q)' /\ q # r
      BY <3>2, <3>3 DEF GaveCode
    <3>5. \A g : Issued(g) => Issued(g)'
      BY <3>1, <3>2 DEF Issued
    <3>6. ASSUME NEW q \in Request, pc'[q] \in {"session", "done"},
                 \E d \in met[q] : GaveCode(d) /\ used[d] # used[q]
          PROVE  \E d \in met'[q] : GaveCode(d)' /\ used'[d] # used'[q]
      <4>1. q # r
        BY <3>1, <3>6
      <4>2. PICK d \in met[q] : GaveCode(d) /\ used[d] # used[q]
        BY <3>6
      <4>3. d \in Request /\ used'[d] = used[d] /\ used'[q] = used[q]
        BY <3>2, <3>4, <4>1, <4>2
      <4>4. QED
        BY <3>1, <3>4, <4>2, <4>3
    <3>7. ASSUME NEW q \in Request, pc'[q] \in {"session", "done"}
          PROVE  /\ used'[q] \in codes' => \E d \in met'[q] : GaveCode(d)' /\ used'[d] # used'[q]
                 /\ \A x \in Request :
                      pc'[x] = "burn" /\ used'[q] \in list'[x] =>
                          \E d \in met'[q] : GaveCode(d)' /\ used'[d] # used'[q]
      BY <3>1, <3>2, <3>6, <3>7
    <3>8. issuer # First => issuer \in Request /\ pc'[issuer] # "idle"
      BY <3>1, <3>2
    <3>9. issuer # First /\ (\E d \in met[issuer] : GaveCode(d)) => \E d \in met'[issuer'] : GaveCode(d)'
      BY <3>1, <3>4, <3>8
    <3>10. /\ \A d \in codes' : d[1] # issuer' => issuer' # First /\ \E q \in met'[issuer'] : GaveCode(q)'
           /\ \A q \in Request : \A d \in list'[q] :
                pc'[q] = "burn" /\ d[1] # issuer' =>
                    issuer' # First /\ \E x \in met'[issuer'] : GaveCode(x)'
      BY <3>1, <3>2, <3>9
    <3>11. /\ \A q \in Request :
                /\ pc'[q] \in {"idle", "code"} => used'[q] = None
                /\ used'[q] # None => kind'[q] = "login"
                /\ pc'[q] = "burn" => used'[q] # None /\ used'[q] \notin list'[q]
                /\ pc'[q] \in {"burn", "session", "done"} /\ used'[q] # None => Issued(used[q][1])'
                /\ pc'[q] = "burn" => \A d \in list'[q] : Issued(d[1])'
           /\ \A d \in codes' : Issued(d[1])'
      <4>1. \A g : Issued(g)' <=> Issued(g)
        BY <3>1, <3>2 DEF Issued
      <4>2. ASSUME NEW q \in Request PROVE
                /\ pc'[q] \in {"idle", "code"} => used'[q] = None
                /\ used'[q] # None => kind'[q] = "login"
                /\ pc'[q] = "burn" => used'[q] # None /\ used'[q] \notin list'[q]
                /\ pc'[q] \in {"burn", "session", "done"} /\ used'[q] # None => Issued(used'[q][1])
                /\ pc'[q] = "burn" => \A d \in list'[q] : Issued(d[1])
        <5>1. CASE q = r
          BY <3>1, <3>3, <5>1
        <5>2. CASE q # r
          BY <3>1, <3>2, <5>2
        <5>3. QED
          BY <5>1, <5>2
      <4>3. ASSUME NEW q \in Request
            PROVE  /\ Issued(used[q][1])' <=> Issued(used'[q][1])
                   /\ \A d \in list'[q] : Issued(d[1])' <=> Issued(d[1])
        BY <3>1, <3>2 DEF Issued
      <4>4. \A d \in codes' : Issued(d[1])'
        BY <4>1, <3>1
      <4>5. QED
        BY <4>2, <4>3, <4>4
    <3>12. QED
      BY <3>7, <3>8, <3>10, <3>11, <3>1
  <2>8. ASSUME NEW r \in Request, Forgot(r) PROVE CodesInv'
    BY <2>8 DEF Forgot, accountVars, factorVars, storeVars, localVars, Begin,
        UnderWay, GaveCode, Issued
  <2>9. ASSUME NEW r \in Request, ClearLinks(r) PROVE CodesInv'
    BY <2>9 DEF ClearLinks, accountVars, factorVars, localVars, GoTo, SameLinks,
        LinkKind, GaveCode, Issued
  <2>10. ASSUME NEW r \in Request, CreateLink(r) PROVE CodesInv'
    BY <2>10 DEF CreateLink, accountVars, factorVars, localVars, GoTo, GaveCode,
        Issued
  <2>11. ASSUME NEW r \in Request, NEW t \in Request, OpenLink(r, t) PROVE CodesInv'
    BY <2>11 DEF OpenLink, accountVars, factorVars, storeVars, Begin, UnderWay,
        GaveCode, Issued
  <2>12. ASSUME NEW r \in Request, SpendLink(r) PROVE CodesInv'
    BY <2>12 DEF SpendLink, accountVars, factorVars, localVars, GoTo, Unused,
        GaveCode, Issued
  <2>13. ASSUME NEW r \in Request, FindAccount(r) PROVE CodesInv'
    BY <2>13 DEF FindAccount, accountVars, factorVars, storeVars, GoTo, GaveCode,
        Issued
  <2>14. ASSUME NEW r \in Request, SetPassword(r) PROVE CodesInv'
    <3>1. UNCHANGED <<codes, issuer, used, list, met, kind>>
      BY <2>14 DEF SetPassword, factorVars, storeVars, localVars, GoTo, LinkKind,
          GaveCode, Issued
    <3>2. \A q \in Request : q # r => pc'[q] = pc[q]
      BY <2>14 DEF SetPassword, factorVars, storeVars, localVars, GoTo, LinkKind,
          GaveCode, Issued
    <3>3. used[r] = None /\ pc[r] = "password" /\ pc'[r] \in {"revoke", "done"}
      BY <2>14 DEF SetPassword, factorVars, storeVars, localVars, GoTo, LinkKind,
          GaveCode, Issued
    <3>4. \A q \in Request : GaveCode(q) => GaveCode(q)' /\ q # r
      BY <3>1, <3>2, <3>3 DEF GaveCode
    <3>5. \A g : Issued(g) => Issued(g)'
      BY <3>2, <3>3 DEF Issued
    <3>6. None \notin codes /\ \A q \in Request : None \notin list[q]
      OBVIOUS
    <3>7. QED
      BY <3>1, <3>2, <3>3, <3>4, <3>5, <3>6, SMTT(30)
  <2>15. ASSUME NEW r \in Request, RevokeAll(r) PROVE CodesInv'
    BY <2>15 DEF RevokeAll, accountVars, factorVars, localVars, GoTo, EndSessions,
        NotEnded, GaveCode, Issued
  <2>16. ASSUME NEW r \in Request, NEW then \in {"password", "invite", "nothing"},
                CreateAccount(r, then)
         PROVE  CodesInv'
    <3>1. UNCHANGED <<used, list>> /\ codes' = {} /\ issuer' = r
      BY <2>16 DEF CreateAccount, storeVars, localVars, Begin, UnderWay, GaveCode,
          Issued
    <3>2. pc[r] = "idle" /\ pc'[r] \in {"clear", "done"} /\ \A q \in Request : q # r => pc'[q] = pc[q] /\ kind'[q] = kind[q]
      BY <2>16 DEF CreateAccount, storeVars, localVars, Begin, UnderWay, GaveCode,
          Issued
    <3>3. \A q \in Request : \A d \in met[q] : d \in met'[q] /\ d # r
      BY <2>16 DEF CreateAccount, storeVars, localVars, Begin, UnderWay, GaveCode,
          Issued
    <3>4. \A q \in Request : pc[q] = "burn" => q \in met'[r] /\ GaveCode(q)
      BY <2>16 DEF CreateAccount, storeVars, localVars, Begin, UnderWay, GaveCode,
          Issued
    <3>5. used[r] = None /\ used'[r] = None
      BY <3>1, <3>2
    <3>6. \A q \in Request : GaveCode(q) => GaveCode(q)' /\ q # r
      BY <3>1, <3>2, <3>5 DEF GaveCode
    <3>7. \A g : Issued(g) => Issued(g)'
      BY <3>2 DEF Issued
    <3>8. None \notin codes /\ \A q \in Request : None \notin list[q]
      OBVIOUS
    <3>9. ASSUME NEW q \in Request, NEW x \in Request, pc'[q] \in {"session", "done"},
                 pc'[x] = "burn", used[q] \in list[x]
          PROVE  \E d \in met'[q] : GaveCode(d)' /\ used[d] # used[q]
      <4>1. q # r /\ x # r
        BY <3>2, <3>5, <3>8, <3>9
      <4>2. PICK d \in met[q] : GaveCode(d) /\ used[d] # used[q]
        BY <3>2, <3>9, <4>1
      <4>3. QED
        BY <3>3, <3>6, <4>2
    <3>10. QED
      BY <3>1, <3>2, <3>3, <3>4, <3>5, <3>6, <3>7, <3>9
  <2>17. ASSUME NEW r \in Request, FindTarget(r) PROVE CodesInv'
    BY <2>17 DEF FindTarget, accountVars, factorVars, storeVars, Begin, UnderWay,
        GaveCode, Issued
  <2>18. ASSUME NEW r \in Request, DeleteAccount(r) PROVE CodesInv'
    BY SMTT(30), <2>18 DEF DeleteAccount, localVars, GoTo, EndSessions, Cascade,
        GaveCode, Issued
  <2>19. ASSUME NEW r \in Request, MakeAdmin(r) PROVE CodesInv'
    BY <2>19 DEF MakeAdmin, storeVars, localVars, Begin, UnderWay, GaveCode, Issued
  <2>20. ASSUME NEW r \in Request, NEW on \in BOOLEAN, NEW p \in BOOLEAN, NEW m \in BOOLEAN,
                SaveAccount(r, on, p, m)
         PROVE  CodesInv'
    <3>1. UNCHANGED <<used, list, met, kind>> /\ pc[r] = "save" /\ pc'[r] \in {"revoke", "done"}
      BY <2>20 DEF SaveAccount, factorVars, storeVars, localVars, GoTo, GaveCode,
          Issued
    <3>2. \A q \in Request : q # r => pc'[q] = pc[q]
      BY <2>20 DEF SaveAccount, factorVars, storeVars, localVars, GoTo, GaveCode,
          Issued
    <3>3. (codes' = {} /\ issuer' = r) \/ (codes' = codes /\ issuer' = issuer)
      BY <2>20 DEF SaveAccount, factorVars, storeVars, localVars, GoTo, GaveCode,
          Issued
    <3>4. used[r] = None
      BY <3>1
    <3>5. \A q \in Request : GaveCode(q) => GaveCode(q)' /\ q # r
      BY <3>1, <3>2, <3>4 DEF GaveCode
    <3>6. \A g : Issued(g) => Issued(g)'
      BY <3>1, <3>2 DEF Issued
    <3>7. None \notin codes /\ \A q \in Request : None \notin list[q]
      OBVIOUS
    <3>8. \A q \in Request : pc[q] = "burn" => q \in met[r] /\ GaveCode(q)
      BY <3>1 DEF GaveCode
    <3>9. CASE codes' = {} /\ issuer' = r
      BY <3>1, <3>2, <3>4, <3>5, <3>6, <3>7, <3>8, <3>9, SMTT(60)
    <3>10. CASE codes' = codes /\ issuer' = issuer
      BY <3>1, <3>2, <3>4, <3>5, <3>6, <3>7, <3>10, SMTT(60)
    <3>11. QED
      BY <3>3, <3>9, <3>10
  <2>21. ASSUME NEW r \in Request, MfaStart(r) PROVE CodesInv'
    BY <2>21 DEF MfaStart, accountVars, storeVars, localVars, Begin, UnderWay,
        OffUntilVerified, GaveCode, Issued
  <2>22. ASSUME NEW r \in Request, MfaVerify(r) PROVE CodesInv'
    BY <2>22 DEF MfaVerify, accountVars, factorVars, storeVars, Begin, UnderWay,
        GaveCode, Issued
  <2>23. ASSUME NEW r \in Request, MfaEnable(r) PROVE CodesInv'
    <3>1. UNCHANGED <<used, list, met, kind>> /\ pc[r] \in {"enable", "regenerate"} /\ pc'[r] = "done"
      BY <2>23 DEF MfaEnable, accountVars, storeVars, localVars, GoTo, AllCodes,
          GaveCode, Issued
    <3>2. \A q \in Request : q # r => pc'[q] = pc[q]
      BY <2>23 DEF MfaEnable, accountVars, storeVars, localVars, GoTo, AllCodes,
          GaveCode, Issued
    <3>3. codes' = AllCodes(r) /\ issuer' = r
      BY <2>23 DEF MfaEnable, accountVars, storeVars, localVars, GoTo, AllCodes,
          GaveCode, Issued
    <3>4. \A c \in codes' : c[1] = r /\ c # None
      BY <3>3 DEF AllCodes
    <3>5. used[r] = None
      BY <3>1
    <3>6. \A q \in Request : GaveCode(q) => GaveCode(q)' /\ q # r
      BY <3>1, <3>2, <3>5 DEF GaveCode
    <3>7. Issued(r)' /\ ~ Issued(r) /\ \A g : Issued(g) => Issued(g)'
      BY <3>1, <3>2 DEF Issued
    <3>8. \A q \in Request : pc'[q] \in {"session", "done"} => used[q] \notin codes'
      BY <3>1, <3>2, <3>4, <3>5, <3>7
    <3>9. \A q \in Request : pc[q] = "burn" => q \in met[r] /\ GaveCode(q)
      BY <3>1 DEF GaveCode
    <3>10. None \notin codes /\ \A q \in Request : None \notin list[q]
      OBVIOUS
    <3>11. ASSUME NEW q \in Request, NEW x \in Request, pc'[q] \in {"session", "done"},
                  pc'[x] = "burn", used[q] \in list[x]
           PROVE  \E d \in met[q] : GaveCode(d)' /\ used[d] # used[q]
      <4>1. q # r /\ x # r
        BY <3>1, <3>5, <3>10, <3>11
      <4>2. PICK d \in met[q] : GaveCode(d) /\ used[d] # used[q]
        BY <3>2, <3>11, <4>1
      <4>3. QED
        BY <3>6, <4>2
    <3>12. ASSUME NEW q \in Request
           PROVE  /\ pc'[q] \in {"idle", "code"} => used[q] = None
                  /\ used[q] # None => kind[q] = "login"
                  /\ pc'[q] = "burn" => used[q] # None /\ used[q] \notin list[q]
                  /\ pc'[q] \in {"burn", "session", "done"} /\ used[q] # None => Issued(used[q][1])'
                  /\ pc'[q] = "burn" => \A c \in list[q] : Issued(c[1])'
      <4>1. \A g : Issued(g)' <=> (Issued(g) \/ g = r)
        BY <3>1, <3>2 DEF Issued
      <4>2. CASE q = r
        BY <3>1, <3>5, <4>2
      <4>3. CASE q # r
        BY <3>1, <3>2, <4>1, <4>3 DEF Issued
      <4>4. QED
        BY <4>2, <4>3
    <3> HIDE DEF GaveCode
    <3>13. QED
      BY <3>1, <3>2, <3>3, <3>4, <3>6, <3>7, <3>8, <3>9, <3>11, <3>12
  <2>24. ASSUME NEW r \in Request, MfaIsOn(r) PROVE CodesInv'
    BY <2>24 DEF MfaIsOn, accountVars, factorVars, storeVars, localVars, Begin,
        UnderWay, GaveCode, Issued
  <2>25. ASSUME NEW r \in Request, Regenerate(r) PROVE CodesInv'
    <3>1. UNCHANGED <<used, list, met, kind>> /\ pc[r] \in {"enable", "regenerate"} /\ pc'[r] = "done"
      BY <2>25 DEF Regenerate, accountVars, storeVars, localVars, GoTo, AllCodes,
          GaveCode, Issued
    <3>2. \A q \in Request : q # r => pc'[q] = pc[q]
      BY <2>25 DEF Regenerate, accountVars, storeVars, localVars, GoTo, AllCodes,
          GaveCode, Issued
    <3>3. codes' = AllCodes(r) /\ issuer' = r
      BY <2>25 DEF Regenerate, accountVars, storeVars, localVars, GoTo, AllCodes,
          GaveCode, Issued
    <3>4. \A c \in codes' : c[1] = r /\ c # None
      BY <3>3 DEF AllCodes
    <3>5. used[r] = None
      BY <3>1
    <3>6. \A q \in Request : GaveCode(q) => GaveCode(q)' /\ q # r
      BY <3>1, <3>2, <3>5 DEF GaveCode
    <3>7. Issued(r)' /\ ~ Issued(r) /\ \A g : Issued(g) => Issued(g)'
      BY <3>1, <3>2 DEF Issued
    <3>8. \A q \in Request : pc'[q] \in {"session", "done"} => used[q] \notin codes'
      BY <3>1, <3>2, <3>4, <3>5, <3>7
    <3>9. \A q \in Request : pc[q] = "burn" => q \in met[r] /\ GaveCode(q)
      BY <3>1 DEF GaveCode
    <3>10. None \notin codes /\ \A q \in Request : None \notin list[q]
      OBVIOUS
    <3>11. ASSUME NEW q \in Request, NEW x \in Request, pc'[q] \in {"session", "done"},
                  pc'[x] = "burn", used[q] \in list[x]
           PROVE  \E d \in met[q] : GaveCode(d)' /\ used[d] # used[q]
      <4>1. q # r /\ x # r
        BY <3>1, <3>5, <3>10, <3>11
      <4>2. PICK d \in met[q] : GaveCode(d) /\ used[d] # used[q]
        BY <3>2, <3>11, <4>1
      <4>3. QED
        BY <3>6, <4>2
    <3>12. ASSUME NEW q \in Request
           PROVE  /\ pc'[q] \in {"idle", "code"} => used[q] = None
                  /\ used[q] # None => kind[q] = "login"
                  /\ pc'[q] = "burn" => used[q] # None /\ used[q] \notin list[q]
                  /\ pc'[q] \in {"burn", "session", "done"} /\ used[q] # None => Issued(used[q][1])'
                  /\ pc'[q] = "burn" => \A c \in list[q] : Issued(c[1])'
      <4>1. \A g : Issued(g)' <=> (Issued(g) \/ g = r)
        BY <3>1, <3>2 DEF Issued
      <4>2. CASE q = r
        BY <3>1, <3>5, <4>2
      <4>3. CASE q # r
        BY <3>1, <3>2, <4>1, <4>3 DEF Issued
      <4>4. QED
        BY <4>2, <4>3
    <3> HIDE DEF GaveCode
    <3>13. QED
      BY <3>1, <3>2, <3>3, <3>4, <3>6, <3>7, <3>8, <3>9, <3>11, <3>12
  <2>26. ASSUME NEW r \in Request, MfaDisable(r) PROVE CodesInv'
    BY <2>26 DEF MfaDisable, accountVars, storeVars, localVars, Begin, UnderWay,
        GaveCode, Issued
  <2>27. ASSUME NEW r \in Request, NEW here \in Maybe,
                RevokeOthers(r, here)
         PROVE  CodesInv'
    BY <2>27 DEF RevokeOthers, accountVars, factorVars, localVars, Begin, UnderWay,
        EndSessions, GaveCode, Issued
  <2>28. ASSUME NEW r \in Request, SamlLogin(r) PROVE CodesInv'
    BY <2>28 DEF SamlLogin, accountVars, factorVars, localVars, Begin, UnderWay,
        GaveCode, Issued
  <2>29. ASSUME NEW r \in Request, ConsumeSamlId(r) PROVE CodesInv'
    BY <2>29 DEF ConsumeSamlId, accountVars, factorVars, localVars, GoTo, GaveCode,
        Issued
  <2>30. ASSUME NEW r \in Request, OidcCallback(r) PROVE CodesInv'
    BY <2>30 DEF OidcCallback, accountVars, factorVars, storeVars, localVars, Begin,
        UnderWay, GaveCode, Issued
  <2>31. ASSUME NEW r \in Request, SetCookie(r) PROVE CodesInv'
    BY <2>31 DEF SetCookie, accountVars, factorVars, localVars, GoTo, GaveCode,
        Issued
  <2>32. ASSUME NEW r \in Request, NEW t \in Request,
                FindSamlId(r, t)
         PROVE  CodesInv'
    BY <2>32 DEF FindSamlId, accountVars, factorVars, storeVars, Begin, UnderWay,
        GaveCode, Issued
  <2>33. ASSUME NEW r \in Request, LinkExpires(r) PROVE CodesInv'
    BY <2>33 DEF LinkExpires, accountVars, factorVars, localVars, GaveCode, Issued
  <2>34. ASSUME NEW r \in Request, SamlIdExpires(r) PROVE CodesInv'
    BY <2>34 DEF SamlIdExpires, accountVars, factorVars, localVars, GaveCode, Issued
  <2>35. ASSUME NEW r \in Request, DropExpiredId(r) PROVE CodesInv'
    BY <2>35 DEF DropExpiredId, accountVars, factorVars, localVars, GaveCode, Issued
  <2>36. ASSUME NEW r \in Request, Stop(r) PROVE CodesInv'
    BY <2>36 DEF Stop, accountVars, factorVars, storeVars, localVars, UnderWay,
        GaveCode, Issued
  <2>37. ASSUME NEW s \in Name, EndSession(s) PROVE CodesInv'
    BY <2>37 DEF EndSession, accountVars, factorVars, localVars, GaveCode, Issued
  <2>38. CASE CookieEnds
    BY <2>38 DEF CookieEnds, accountVars, factorVars, localVars, GaveCode, Issued
  <2>39. CASE UNCHANGED vars
    BY <2>39 DEF vars, accountVars, factorVars, storeVars, localVars, GaveCode,
        Issued
  <2> HIDE DEF Basics, TypeInv, TypeOK, MetInv, Steps, CodesInv
  <2>40. QED
    BY <2>1, <2>2, <2>3, <2>4, <2>5, <2>6, <2>7, <2>8, <2>9, <2>10, <2>11, <2>12,
       <2>13, <2>14, <2>15, <2>16, <2>17, <2>18, <2>19, <2>20, <2>21, <2>22, <2>23,
       <2>24, <2>25, <2>26, <2>27, <2>28, <2>29, <2>30, <2>31, <2>32, <2>33, <2>34,
       <2>35, <2>36, <2>37, <2>38, <2>39 DEF Next
<1>3. Basics /\ CodesInv => CodesStayDead
  BY DEF Basics, TypeInv, TypeOK, CodesInv, CodesStayDead, GaveCode
<1>4. QED
  BY <1>1, <1>2, <1>3, BasicsCorrect, PTL DEF Spec
-----------------------------------------------------------------------------
\* The same of a request that has verified a code and is to switch the second
\* factor on.
FactorInv ==
    /\ FactorWasVerified
    /\ mfa \in Request => pc[mfa] # "idle"
    /\ \A r \in Request :
          pc[r] = "enable" =>
              (account # None /\ secret = mark[r]) \/ \E q \in met[r] : DropsFactor(q)

\* The second factor that is on was verified, or another request dropped it
\* meanwhile (security.ts:56-71).
THEOREM VerifiedFactors == Spec => []FactorWasVerified
<1>1. Init => FactorInv
  BY DEF Init, FactorInv, FactorWasVerified
<1>2. Basics /\ FactorInv /\ [Next]_vars => FactorInv'
  <2> SUFFICES ASSUME Basics, FactorInv, [Next]_vars PROVE FactorInv'
    OBVIOUS
  <2> USE DEF Basics, TypeInv, TypeOK, MetInv, Steps, FactorInv
  <2>1. ASSUME NEW r \in Request, Login(r) PROVE FactorInv'
    <3>1. \A q \in Request : \A d \in met[q] : d \in met'[q] /\ (DropsFactor(d) => DropsFactor(d)')
      BY <2>1 DEF Login, accountVars, factorVars, storeVars, Begin, UnderWay,
          FactorWasVerified, DropsFactor
    <3>2. \A q \in Request : q # r => pc'[q] = pc[q] /\ mark'[q] = mark[q]
      BY <2>1 DEF Login, accountVars, factorVars, storeVars, Begin, UnderWay,
          FactorWasVerified, DropsFactor
    <3>3. secret' = secret /\ mfa' = mfa /\ account' = account
      BY <2>1 DEF Login, accountVars, factorVars, storeVars, Begin, UnderWay,
          FactorWasVerified, DropsFactor
    <3>4. pc[r] = "idle" /\ pc'[r] # "idle" /\ (pc'[r] = "enable" => account # None /\ mark'[r] = secret)
      BY <2>1 DEF Login, accountVars, factorVars, storeVars, Begin, UnderWay,
          FactorWasVerified, DropsFactor
    <3>5. FactorWasVerified'
      <4> HIDE DEF DropsFactor
      <4>1. QED
        BY <3>1, <3>2, <3>3, <3>4 DEF FactorWasVerified
    <3>6. ASSUME NEW q \in Request, pc'[q] = "enable"
          PROVE  (account' # None /\ secret' = mark'[q]) \/ \E d \in met'[q] : DropsFactor(d)'
      <4> HIDE DEF DropsFactor
      <4>1. CASE q = r
        BY <3>3, <3>4, <3>6, <4>1
      <4>2. CASE q # r
        BY <3>1, <3>2, <3>3, <3>6, <4>2
      <4>3. QED
        BY <4>1, <4>2
    <3>7. QED
      BY <3>2, <3>3, <3>4, <3>5, <3>6
  <2>2. ASSUME NEW r \in Request, EnterTotp(r) PROVE FactorInv'
    BY <2>2 DEF EnterTotp, accountVars, factorVars, storeVars, GoTo,
        FactorWasVerified, DropsFactor
  <2>3. ASSUME NEW r \in Request, FindCode(r) PROVE FactorInv'
    BY <2>3 DEF FindCode, accountVars, factorVars, storeVars, GoTo,
        FactorWasVerified, DropsFactor
  <2>4. ASSUME NEW r \in Request, MissCode(r) PROVE FactorInv'
    BY <2>4 DEF MissCode, accountVars, factorVars, storeVars, GoTo,
        FactorWasVerified, DropsFactor
  <2>5. ASSUME NEW r \in Request, BurnCode(r) PROVE FactorInv'
    BY <2>5 DEF BurnCode, accountVars, storeVars, localVars, GoTo, CodesLeft,
        FactorWasVerified, DropsFactor
  <2>6. ASSUME NEW r \in Request, CreateSession(r) PROVE FactorInv'
    BY <2>6 DEF CreateSession, accountVars, factorVars, localVars, GoTo,
        FactorWasVerified, DropsFactor
  <2>7. ASSUME NEW r \in Request, NEW c \in Name \X Code,
               EnterCode(r, c)
        PROVE  FactorInv'
    BY <2>7 DEF EnterCode, accountVars, factorVars, storeVars, GoTo,
        FactorWasVerified, DropsFactor
  <2>8. ASSUME NEW r \in Request, Forgot(r) PROVE FactorInv'
    <3>1. \A q \in Request : \A d \in met[q] : d \in met'[q] /\ (DropsFactor(d) => DropsFactor(d)')
      BY <2>8 DEF Forgot, accountVars, factorVars, storeVars, localVars, Begin,
          UnderWay, FactorWasVerified, DropsFactor
    <3>2. \A q \in Request : q # r => pc'[q] = pc[q] /\ mark'[q] = mark[q]
      BY <2>8 DEF Forgot, accountVars, factorVars, storeVars, localVars, Begin,
          UnderWay, FactorWasVerified, DropsFactor
    <3>3. secret' = secret /\ mfa' = mfa /\ account' = account
      BY <2>8 DEF Forgot, accountVars, factorVars, storeVars, localVars, Begin,
          UnderWay, FactorWasVerified, DropsFactor
    <3>4. pc[r] = "idle" /\ pc'[r] # "idle" /\ (pc'[r] = "enable" => account # None /\ mark'[r] = secret)
      BY <2>8 DEF Forgot, accountVars, factorVars, storeVars, localVars, Begin,
          UnderWay, FactorWasVerified, DropsFactor
    <3>5. FactorWasVerified'
      <4> HIDE DEF DropsFactor
      <4>1. QED
        BY <3>1, <3>2, <3>3, <3>4 DEF FactorWasVerified
    <3>6. ASSUME NEW q \in Request, pc'[q] = "enable"
          PROVE  (account' # None /\ secret' = mark'[q]) \/ \E d \in met'[q] : DropsFactor(d)'
      <4> HIDE DEF DropsFactor
      <4>1. CASE q = r
        BY <3>3, <3>4, <3>6, <4>1
      <4>2. CASE q # r
        BY <3>1, <3>2, <3>3, <3>6, <4>2
      <4>3. QED
        BY <4>1, <4>2
    <3>7. QED
      BY <3>2, <3>3, <3>4, <3>5, <3>6
  <2>9. ASSUME NEW r \in Request, ClearLinks(r) PROVE FactorInv'
    BY <2>9 DEF ClearLinks, accountVars, factorVars, localVars, GoTo, SameLinks,
        LinkKind, FactorWasVerified, DropsFactor
  <2>10. ASSUME NEW r \in Request, CreateLink(r) PROVE FactorInv'
    BY <2>10 DEF CreateLink, accountVars, factorVars, localVars, GoTo,
        FactorWasVerified, DropsFactor
  <2>11. ASSUME NEW r \in Request, NEW t \in Request,
                OpenLink(r, t)
         PROVE  FactorInv'
    <3>1. \A q \in Request : \A d \in met[q] : d \in met'[q] /\ (DropsFactor(d) => DropsFactor(d)')
      BY <2>11 DEF OpenLink, accountVars, factorVars, storeVars, Begin, UnderWay,
          FactorWasVerified, DropsFactor
    <3>2. \A q \in Request : q # r => pc'[q] = pc[q] /\ mark'[q] = mark[q]
      BY <2>11 DEF OpenLink, accountVars, factorVars, storeVars, Begin, UnderWay,
          FactorWasVerified, DropsFactor
    <3>3. secret' = secret /\ mfa' = mfa /\ account' = account
      BY <2>11 DEF OpenLink, accountVars, factorVars, storeVars, Begin, UnderWay,
          FactorWasVerified, DropsFactor
    <3>4. pc[r] = "idle" /\ pc'[r] # "idle" /\ (pc'[r] = "enable" => account # None /\ mark'[r] = secret)
      BY <2>11 DEF OpenLink, accountVars, factorVars, storeVars, Begin, UnderWay,
          FactorWasVerified, DropsFactor
    <3>5. FactorWasVerified'
      <4> HIDE DEF DropsFactor
      <4>1. QED
        BY <3>1, <3>2, <3>3, <3>4 DEF FactorWasVerified
    <3>6. ASSUME NEW q \in Request, pc'[q] = "enable"
          PROVE  (account' # None /\ secret' = mark'[q]) \/ \E d \in met'[q] : DropsFactor(d)'
      <4> HIDE DEF DropsFactor
      <4>1. CASE q = r
        BY <3>3, <3>4, <3>6, <4>1
      <4>2. CASE q # r
        BY <3>1, <3>2, <3>3, <3>6, <4>2
      <4>3. QED
        BY <4>1, <4>2
    <3>7. QED
      BY <3>2, <3>3, <3>4, <3>5, <3>6
  <2>12. ASSUME NEW r \in Request, SpendLink(r) PROVE FactorInv'
    BY <2>12 DEF SpendLink, accountVars, factorVars, localVars, GoTo, Unused,
        FactorWasVerified, DropsFactor
  <2>13. ASSUME NEW r \in Request, FindAccount(r) PROVE FactorInv'
    BY <2>13 DEF FindAccount, accountVars, factorVars, storeVars, GoTo,
        FactorWasVerified, DropsFactor
  <2>14. ASSUME NEW r \in Request, SetPassword(r) PROVE FactorInv'
    BY <2>14 DEF SetPassword, factorVars, storeVars, localVars, GoTo, LinkKind,
        FactorWasVerified, DropsFactor
  <2>15. ASSUME NEW r \in Request, RevokeAll(r) PROVE FactorInv'
    BY <2>15 DEF RevokeAll, accountVars, factorVars, localVars, GoTo, EndSessions,
        NotEnded, FactorWasVerified, DropsFactor
  <2>16. ASSUME NEW r \in Request, NEW then \in {"password", "invite", "nothing"},
                CreateAccount(r, then)
         PROVE  FactorInv'
    BY <2>16 DEF CreateAccount, storeVars, localVars, Begin, UnderWay,
        FactorWasVerified, DropsFactor
  <2>17. ASSUME NEW r \in Request, FindTarget(r) PROVE FactorInv'
    BY <2>17 DEF FindTarget, accountVars, factorVars, storeVars, Begin, UnderWay,
        FactorWasVerified, DropsFactor
  <2>18. ASSUME NEW r \in Request, DeleteAccount(r) PROVE FactorInv'
    BY <2>18 DEF DeleteAccount, localVars, GoTo, EndSessions, Cascade,
        FactorWasVerified, DropsFactor
  <2>19. ASSUME NEW r \in Request, MakeAdmin(r) PROVE FactorInv'
    BY <2>19 DEF MakeAdmin, storeVars, localVars, Begin, UnderWay,
        FactorWasVerified, DropsFactor
  <2>20. ASSUME NEW r \in Request, NEW on \in BOOLEAN, NEW p \in BOOLEAN, NEW m \in BOOLEAN,
                SaveAccount(r, on, p, m)
         PROVE  FactorInv'
    BY <2>20 DEF SaveAccount, factorVars, storeVars, localVars, GoTo,
        FactorWasVerified, DropsFactor
  <2>21. ASSUME NEW r \in Request, MfaStart(r) PROVE FactorInv'
    BY <2>21 DEF MfaStart, accountVars, storeVars, localVars, Begin, UnderWay,
        OffUntilVerified, FactorWasVerified, DropsFactor
  <2>22. ASSUME NEW r \in Request, MfaVerify(r) PROVE FactorInv'
    <3>1. \A q \in Request : \A d \in met[q] : d \in met'[q] /\ (DropsFactor(d) => DropsFactor(d)')
      BY <2>22 DEF MfaVerify, accountVars, factorVars, storeVars, Begin, UnderWay,
          SignedIn, FactorWasVerified, DropsFactor
    <3>2. \A q \in Request : q # r => pc'[q] = pc[q] /\ mark'[q] = mark[q]
      BY <2>22 DEF MfaVerify, accountVars, factorVars, storeVars, Begin, UnderWay,
          SignedIn, FactorWasVerified, DropsFactor
    <3>3. secret' = secret /\ mfa' = mfa /\ account' = account
      BY <2>22 DEF MfaVerify, accountVars, factorVars, storeVars, Begin, UnderWay,
          SignedIn, FactorWasVerified, DropsFactor
    <3>4. pc[r] = "idle" /\ pc'[r] # "idle" /\ (pc'[r] = "enable" => account # None /\ mark'[r] = secret)
      BY <2>22 DEF MfaVerify, accountVars, factorVars, storeVars, Begin, UnderWay,
          SignedIn, FactorWasVerified, DropsFactor
    <3>5. FactorWasVerified'
      <4> HIDE DEF DropsFactor
      <4>1. QED
        BY <3>1, <3>2, <3>3, <3>4 DEF FactorWasVerified
    <3>6. ASSUME NEW q \in Request, pc'[q] = "enable"
          PROVE  (account' # None /\ secret' = mark'[q]) \/ \E d \in met'[q] : DropsFactor(d)'
      <4> HIDE DEF DropsFactor
      <4>1. CASE q = r
        BY <3>3, <3>4, <3>6, <4>1
      <4>2. CASE q # r
        BY <3>1, <3>2, <3>3, <3>6, <4>2
      <4>3. QED
        BY <4>1, <4>2
    <3>7. QED
      BY <3>2, <3>3, <3>4, <3>5, <3>6
  <2>23. ASSUME NEW r \in Request, MfaEnable(r) PROVE FactorInv'
    BY <2>23 DEF MfaEnable, accountVars, storeVars, localVars, GoTo, AllCodes,
        FactorWasVerified, DropsFactor
  <2>24. ASSUME NEW r \in Request, MfaIsOn(r) PROVE FactorInv'
    <3>1. \A q \in Request : \A d \in met[q] : d \in met'[q] /\ (DropsFactor(d) => DropsFactor(d)')
      BY <2>24 DEF MfaIsOn, accountVars, factorVars, storeVars, localVars, Begin,
          UnderWay, FactorWasVerified, DropsFactor
    <3>2. \A q \in Request : q # r => pc'[q] = pc[q] /\ mark'[q] = mark[q]
      BY <2>24 DEF MfaIsOn, accountVars, factorVars, storeVars, localVars, Begin,
          UnderWay, FactorWasVerified, DropsFactor
    <3>3. secret' = secret /\ mfa' = mfa /\ account' = account
      BY <2>24 DEF MfaIsOn, accountVars, factorVars, storeVars, localVars, Begin,
          UnderWay, FactorWasVerified, DropsFactor
    <3>4. pc[r] = "idle" /\ pc'[r] # "idle" /\ (pc'[r] = "enable" => account # None /\ mark'[r] = secret)
      BY <2>24 DEF MfaIsOn, accountVars, factorVars, storeVars, localVars, Begin,
          UnderWay, FactorWasVerified, DropsFactor
    <3>5. FactorWasVerified'
      <4> HIDE DEF DropsFactor
      <4>1. QED
        BY <3>1, <3>2, <3>3, <3>4 DEF FactorWasVerified
    <3>6. ASSUME NEW q \in Request, pc'[q] = "enable"
          PROVE  (account' # None /\ secret' = mark'[q]) \/ \E d \in met'[q] : DropsFactor(d)'
      <4> HIDE DEF DropsFactor
      <4>1. CASE q = r
        BY <3>3, <3>4, <3>6, <4>1
      <4>2. CASE q # r
        BY <3>1, <3>2, <3>3, <3>6, <4>2
      <4>3. QED
        BY <4>1, <4>2
    <3>7. QED
      BY <3>2, <3>3, <3>4, <3>5, <3>6
  <2>25. ASSUME NEW r \in Request, Regenerate(r) PROVE FactorInv'
    BY <2>25 DEF Regenerate, accountVars, storeVars, localVars, GoTo, AllCodes,
        FactorWasVerified, DropsFactor
  <2>26. ASSUME NEW r \in Request, MfaDisable(r) PROVE FactorInv'
    BY <2>26 DEF MfaDisable, accountVars, storeVars, localVars, Begin, UnderWay,
        FactorWasVerified, DropsFactor
  <2>27. ASSUME NEW r \in Request, NEW here \in Maybe,
                RevokeOthers(r, here)
         PROVE  FactorInv'
    <3>1. \A q \in Request : \A d \in met[q] : d \in met'[q] /\ (DropsFactor(d) => DropsFactor(d)')
      BY <2>27 DEF RevokeOthers, accountVars, factorVars, localVars, Begin,
          UnderWay, EndSessions, FactorWasVerified, DropsFactor
    <3>2. \A q \in Request : q # r => pc'[q] = pc[q] /\ mark'[q] = mark[q]
      BY <2>27 DEF RevokeOthers, accountVars, factorVars, localVars, Begin,
          UnderWay, EndSessions, FactorWasVerified, DropsFactor
    <3>3. secret' = secret /\ mfa' = mfa /\ account' = account
      BY <2>27 DEF RevokeOthers, accountVars, factorVars, localVars, Begin,
          UnderWay, EndSessions, FactorWasVerified, DropsFactor
    <3>4. pc[r] = "idle" /\ pc'[r] # "idle" /\ (pc'[r] = "enable" => account # None /\ mark'[r] = secret)
      BY <2>27 DEF RevokeOthers, accountVars, factorVars, localVars, Begin,
          UnderWay, EndSessions, FactorWasVerified, DropsFactor
    <3>5. FactorWasVerified'
      <4> HIDE DEF DropsFactor
      <4>1. QED
        BY <3>1, <3>2, <3>3, <3>4 DEF FactorWasVerified
    <3>6. ASSUME NEW q \in Request, pc'[q] = "enable"
          PROVE  (account' # None /\ secret' = mark'[q]) \/ \E d \in met'[q] : DropsFactor(d)'
      <4> HIDE DEF DropsFactor
      <4>1. CASE q = r
        BY <3>3, <3>4, <3>6, <4>1
      <4>2. CASE q # r
        BY <3>1, <3>2, <3>3, <3>6, <4>2
      <4>3. QED
        BY <4>1, <4>2
    <3>7. QED
      BY <3>2, <3>3, <3>4, <3>5, <3>6
  <2>28. ASSUME NEW r \in Request, SamlLogin(r) PROVE FactorInv'
    <3>1. \A q \in Request : \A d \in met[q] : d \in met'[q] /\ (DropsFactor(d) => DropsFactor(d)')
      BY <2>28 DEF SamlLogin, accountVars, factorVars, localVars, Begin, UnderWay,
          FactorWasVerified, DropsFactor
    <3>2. \A q \in Request : q # r => pc'[q] = pc[q] /\ mark'[q] = mark[q]
      BY <2>28 DEF SamlLogin, accountVars, factorVars, localVars, Begin, UnderWay,
          FactorWasVerified, DropsFactor
    <3>3. secret' = secret /\ mfa' = mfa /\ account' = account
      BY <2>28 DEF SamlLogin, accountVars, factorVars, localVars, Begin, UnderWay,
          FactorWasVerified, DropsFactor
    <3>4. pc[r] = "idle" /\ pc'[r] # "idle" /\ (pc'[r] = "enable" => account # None /\ mark'[r] = secret)
      BY <2>28 DEF SamlLogin, accountVars, factorVars, localVars, Begin, UnderWay,
          FactorWasVerified, DropsFactor
    <3>5. FactorWasVerified'
      <4> HIDE DEF DropsFactor
      <4>1. QED
        BY <3>1, <3>2, <3>3, <3>4 DEF FactorWasVerified
    <3>6. ASSUME NEW q \in Request, pc'[q] = "enable"
          PROVE  (account' # None /\ secret' = mark'[q]) \/ \E d \in met'[q] : DropsFactor(d)'
      <4> HIDE DEF DropsFactor
      <4>1. CASE q = r
        BY <3>3, <3>4, <3>6, <4>1
      <4>2. CASE q # r
        BY <3>1, <3>2, <3>3, <3>6, <4>2
      <4>3. QED
        BY <4>1, <4>2
    <3>7. QED
      BY <3>2, <3>3, <3>4, <3>5, <3>6
  <2>29. ASSUME NEW r \in Request, ConsumeSamlId(r) PROVE FactorInv'
    BY <2>29 DEF ConsumeSamlId, accountVars, factorVars, localVars, GoTo,
        FactorWasVerified, DropsFactor
  <2>30. ASSUME NEW r \in Request, OidcCallback(r) PROVE FactorInv'
    <3>1. \A q \in Request : \A d \in met[q] : d \in met'[q] /\ (DropsFactor(d) => DropsFactor(d)')
      BY <2>30 DEF OidcCallback, accountVars, factorVars, storeVars, localVars,
          Begin, UnderWay, FactorWasVerified, DropsFactor
    <3>2. \A q \in Request : q # r => pc'[q] = pc[q] /\ mark'[q] = mark[q]
      BY <2>30 DEF OidcCallback, accountVars, factorVars, storeVars, localVars,
          Begin, UnderWay, FactorWasVerified, DropsFactor
    <3>3. secret' = secret /\ mfa' = mfa /\ account' = account
      BY <2>30 DEF OidcCallback, accountVars, factorVars, storeVars, localVars,
          Begin, UnderWay, FactorWasVerified, DropsFactor
    <3>4. pc[r] = "idle" /\ pc'[r] # "idle" /\ (pc'[r] = "enable" => account # None /\ mark'[r] = secret)
      BY <2>30 DEF OidcCallback, accountVars, factorVars, storeVars, localVars,
          Begin, UnderWay, FactorWasVerified, DropsFactor
    <3>5. FactorWasVerified'
      <4> HIDE DEF DropsFactor
      <4>1. QED
        BY <3>1, <3>2, <3>3, <3>4 DEF FactorWasVerified
    <3>6. ASSUME NEW q \in Request, pc'[q] = "enable"
          PROVE  (account' # None /\ secret' = mark'[q]) \/ \E d \in met'[q] : DropsFactor(d)'
      <4> HIDE DEF DropsFactor
      <4>1. CASE q = r
        BY <3>3, <3>4, <3>6, <4>1
      <4>2. CASE q # r
        BY <3>1, <3>2, <3>3, <3>6, <4>2
      <4>3. QED
        BY <4>1, <4>2
    <3>7. QED
      BY <3>2, <3>3, <3>4, <3>5, <3>6
  <2>31. ASSUME NEW r \in Request, SetCookie(r) PROVE FactorInv'
    BY <2>31 DEF SetCookie, accountVars, factorVars, localVars, GoTo,
        FactorWasVerified, DropsFactor
  <2>32. ASSUME NEW r \in Request, NEW t \in Request,
                FindSamlId(r, t)
         PROVE  FactorInv'
    <3>1. \A q \in Request : \A d \in met[q] : d \in met'[q] /\ (DropsFactor(d) => DropsFactor(d)')
      BY <2>32 DEF FindSamlId, accountVars, factorVars, storeVars, Begin, UnderWay,
          FactorWasVerified, DropsFactor
    <3>2. \A q \in Request : q # r => pc'[q] = pc[q] /\ mark'[q] = mark[q]
      BY <2>32 DEF FindSamlId, accountVars, factorVars, storeVars, Begin, UnderWay,
          FactorWasVerified, DropsFactor
    <3>3. secret' = secret /\ mfa' = mfa /\ account' = account
      BY <2>32 DEF FindSamlId, accountVars, factorVars, storeVars, Begin, UnderWay,
          FactorWasVerified, DropsFactor
    <3>4. pc[r] = "idle" /\ pc'[r] # "idle" /\ (pc'[r] = "enable" => account # None /\ mark'[r] = secret)
      BY <2>32 DEF FindSamlId, accountVars, factorVars, storeVars, Begin, UnderWay,
          FactorWasVerified, DropsFactor
    <3>5. FactorWasVerified'
      <4> HIDE DEF DropsFactor
      <4>1. QED
        BY <3>1, <3>2, <3>3, <3>4 DEF FactorWasVerified
    <3>6. ASSUME NEW q \in Request, pc'[q] = "enable"
          PROVE  (account' # None /\ secret' = mark'[q]) \/ \E d \in met'[q] : DropsFactor(d)'
      <4> HIDE DEF DropsFactor
      <4>1. CASE q = r
        BY <3>3, <3>4, <3>6, <4>1
      <4>2. CASE q # r
        BY <3>1, <3>2, <3>3, <3>6, <4>2
      <4>3. QED
        BY <4>1, <4>2
    <3>7. QED
      BY <3>2, <3>3, <3>4, <3>5, <3>6
  <2>33. ASSUME NEW r \in Request, LinkExpires(r) PROVE FactorInv'
    BY <2>33 DEF LinkExpires, accountVars, factorVars, localVars, FactorWasVerified,
        DropsFactor
  <2>34. ASSUME NEW r \in Request, SamlIdExpires(r) PROVE FactorInv'
    BY <2>34 DEF SamlIdExpires, accountVars, factorVars, localVars,
        FactorWasVerified, DropsFactor
  <2>35. ASSUME NEW r \in Request, DropExpiredId(r) PROVE FactorInv'
    BY <2>35 DEF DropExpiredId, accountVars, factorVars, localVars,
        FactorWasVerified, DropsFactor
  <2>36. ASSUME NEW r \in Request, Stop(r) PROVE FactorInv'
    BY <2>36 DEF Stop, accountVars, factorVars, storeVars, localVars, UnderWay,
        FactorWasVerified, DropsFactor
  <2>37. ASSUME NEW s \in Name, EndSession(s) PROVE FactorInv'
    BY <2>37 DEF EndSession, accountVars, factorVars, localVars, FactorWasVerified,
        DropsFactor
  <2>38. CASE CookieEnds
    BY <2>38 DEF CookieEnds, accountVars, factorVars, localVars, FactorWasVerified,
        DropsFactor
  <2>39. CASE UNCHANGED vars
    BY <2>39 DEF vars, accountVars, factorVars, storeVars, localVars,
        FactorWasVerified, DropsFactor
  <2> HIDE DEF Basics, TypeInv, TypeOK, MetInv, Steps, FactorInv
  <2>40. QED
    BY <2>1, <2>2, <2>3, <2>4, <2>5, <2>6, <2>7, <2>8, <2>9, <2>10, <2>11, <2>12,
       <2>13, <2>14, <2>15, <2>16, <2>17, <2>18, <2>19, <2>20, <2>21, <2>22, <2>23,
       <2>24, <2>25, <2>26, <2>27, <2>28, <2>29, <2>30, <2>31, <2>32, <2>33, <2>34,
       <2>35, <2>36, <2>37, <2>38, <2>39 DEF Next
<1>3. Basics /\ FactorInv => FactorWasVerified
  BY DEF Basics, FactorInv, FactorWasVerified
<1>4. QED
  BY <1>1, <1>2, <1>3, BasicsCorrect, PTL DEF Spec
-----------------------------------------------------------------------------
\* Whose session s is: the account that a login found, or the first one's.
OwnerOf(s) == IF s = First THEN First ELSE acct[s]

\* A live session is one of the account as it is: when an account is deleted and
\* another is made with its address, the old sessions do not open the new one,
\* not even that of a login which was under way meanwhile (account.ts:65-90,
\* accounts.ts:135-143).
SessionsFollowAccount == \A s \in Name : session[s] = "live" => account = OwnerOf(s)

\* Only a login that has ended has a session.
SessionInv ==
    /\ \A r \in Request : session[r] # "none" => pc[r] = "done"
    /\ SessionsFollowAccount

LEMMA SessionInvariant == Spec => []SessionInv
<1>1. Init => SessionInv
  <2> SUFFICES ASSUME Init PROVE SessionInv
    OBVIOUS
  <2>1. account = First /\ \A r \in Request : session[r] = "none"
    BY DEF Init
  <2>2. QED
    BY <2>1 DEF SessionInv, SessionsFollowAccount, OwnerOf
<1>2. TypeInv /\ SessionInv /\ [Next]_vars => SessionInv'
  <2> SUFFICES ASSUME TypeInv, SessionInv, [Next]_vars PROVE SessionInv'
    OBVIOUS
  <2> USE DEF TypeInv, TypeOK, SessionInv, SessionsFollowAccount, OwnerOf
  <2>1. ASSUME NEW r \in Request, Login(r) PROVE SessionInv'
    BY <2>1 DEF Login, accountVars, factorVars, storeVars, Begin, UnderWay
  <2>2. ASSUME NEW r \in Request, EnterTotp(r) PROVE SessionInv'
    BY <2>2 DEF EnterTotp, accountVars, factorVars, storeVars, GoTo
  <2>3. ASSUME NEW r \in Request, FindCode(r) PROVE SessionInv'
    BY <2>3 DEF FindCode, accountVars, factorVars, storeVars, GoTo
  <2>4. ASSUME NEW r \in Request, MissCode(r) PROVE SessionInv'
    BY <2>4 DEF MissCode, accountVars, factorVars, storeVars, GoTo
  <2>5. ASSUME NEW r \in Request, BurnCode(r) PROVE SessionInv'
    BY <2>5 DEF BurnCode, accountVars, storeVars, localVars, GoTo, CodesLeft
  <2>6. ASSUME NEW r \in Request, CreateSession(r) PROVE SessionInv'
    BY <2>6 DEF CreateSession, accountVars, factorVars, localVars, GoTo
  <2>7. ASSUME NEW r \in Request, NEW c \in Name \X Code,
               EnterCode(r, c)
        PROVE  SessionInv'
    BY <2>7 DEF EnterCode, accountVars, factorVars, storeVars, GoTo
  <2>8. ASSUME NEW r \in Request, Forgot(r) PROVE SessionInv'
    BY <2>8 DEF Forgot, accountVars, factorVars, storeVars, localVars, Begin,
        UnderWay
  <2>9. ASSUME NEW r \in Request, ClearLinks(r) PROVE SessionInv'
    BY <2>9 DEF ClearLinks, accountVars, factorVars, localVars, GoTo, SameLinks,
        LinkKind
  <2>10. ASSUME NEW r \in Request, CreateLink(r) PROVE SessionInv'
    BY <2>10 DEF CreateLink, accountVars, factorVars, localVars, GoTo
  <2>11. ASSUME NEW r \in Request, NEW t \in Request, OpenLink(r, t) PROVE SessionInv'
    BY <2>11 DEF OpenLink, accountVars, factorVars, storeVars, Begin, UnderWay
  <2>12. ASSUME NEW r \in Request, SpendLink(r) PROVE SessionInv'
    BY <2>12 DEF SpendLink, accountVars, factorVars, localVars, GoTo, Unused
  <2>13. ASSUME NEW r \in Request, FindAccount(r) PROVE SessionInv'
    BY <2>13 DEF FindAccount, accountVars, factorVars, storeVars, GoTo
  <2>14. ASSUME NEW r \in Request, SetPassword(r) PROVE SessionInv'
    BY <2>14 DEF SetPassword, factorVars, storeVars, localVars, GoTo, LinkKind
  <2>15. ASSUME NEW r \in Request, RevokeAll(r) PROVE SessionInv'
    BY <2>15 DEF RevokeAll, accountVars, factorVars, localVars, GoTo, EndSessions,
        NotEnded
  <2>16. ASSUME NEW r \in Request, NEW then \in {"password", "invite", "nothing"},
                CreateAccount(r, then)
         PROVE  SessionInv'
    BY <2>16 DEF CreateAccount, storeVars, localVars, Begin, UnderWay
  <2>17. ASSUME NEW r \in Request, FindTarget(r) PROVE SessionInv'
    BY <2>17 DEF FindTarget, accountVars, factorVars, storeVars, Begin, UnderWay
  <2>18. ASSUME NEW r \in Request, DeleteAccount(r) PROVE SessionInv'
    BY <2>18 DEF DeleteAccount, localVars, GoTo, EndSessions, Cascade
  <2>19. ASSUME NEW r \in Request, MakeAdmin(r) PROVE SessionInv'
    BY <2>19 DEF MakeAdmin, storeVars, localVars, Begin, UnderWay
  <2>20. ASSUME NEW r \in Request, NEW on \in BOOLEAN, NEW p \in BOOLEAN, NEW m \in BOOLEAN,
                SaveAccount(r, on, p, m)
         PROVE  SessionInv'
    BY <2>20 DEF SaveAccount, factorVars, storeVars, localVars, GoTo
  <2>21. ASSUME NEW r \in Request, MfaStart(r) PROVE SessionInv'
    BY <2>21 DEF MfaStart, accountVars, storeVars, localVars, Begin, UnderWay,
        OffUntilVerified
  <2>22. ASSUME NEW r \in Request, MfaVerify(r) PROVE SessionInv'
    BY <2>22 DEF MfaVerify, accountVars, factorVars, storeVars, Begin, UnderWay
  <2>23. ASSUME NEW r \in Request, MfaEnable(r) PROVE SessionInv'
    BY <2>23 DEF MfaEnable, accountVars, storeVars, localVars, GoTo, AllCodes
  <2>24. ASSUME NEW r \in Request, MfaIsOn(r) PROVE SessionInv'
    BY <2>24 DEF MfaIsOn, accountVars, factorVars, storeVars, localVars, Begin,
        UnderWay
  <2>25. ASSUME NEW r \in Request, Regenerate(r) PROVE SessionInv'
    BY <2>25 DEF Regenerate, accountVars, storeVars, localVars, GoTo, AllCodes
  <2>26. ASSUME NEW r \in Request, MfaDisable(r) PROVE SessionInv'
    BY <2>26 DEF MfaDisable, accountVars, storeVars, localVars, Begin, UnderWay
  <2>27. ASSUME NEW r \in Request, NEW here \in Maybe,
                RevokeOthers(r, here)
         PROVE  SessionInv'
    BY <2>27 DEF RevokeOthers, accountVars, factorVars, localVars, Begin, UnderWay,
        EndSessions
  <2>28. ASSUME NEW r \in Request, SamlLogin(r) PROVE SessionInv'
    BY <2>28 DEF SamlLogin, accountVars, factorVars, localVars, Begin, UnderWay
  <2>29. ASSUME NEW r \in Request, ConsumeSamlId(r) PROVE SessionInv'
    BY <2>29 DEF ConsumeSamlId, accountVars, factorVars, localVars, GoTo
  <2>30. ASSUME NEW r \in Request, OidcCallback(r) PROVE SessionInv'
    BY <2>30 DEF OidcCallback, accountVars, factorVars, storeVars, localVars, Begin,
        UnderWay
  <2>31. ASSUME NEW r \in Request, SetCookie(r) PROVE SessionInv'
    BY <2>31 DEF SetCookie, accountVars, factorVars, localVars, GoTo
  <2>32. ASSUME NEW r \in Request, NEW t \in Request, FindSamlId(r, t) PROVE SessionInv'
    BY <2>32 DEF FindSamlId, accountVars, factorVars, storeVars, Begin, UnderWay
  <2>33. ASSUME NEW r \in Request, LinkExpires(r) PROVE SessionInv'
    BY <2>33 DEF LinkExpires, accountVars, factorVars, localVars
  <2>34. ASSUME NEW r \in Request, SamlIdExpires(r) PROVE SessionInv'
    BY <2>34 DEF SamlIdExpires, accountVars, factorVars, localVars
  <2>35. ASSUME NEW r \in Request, DropExpiredId(r) PROVE SessionInv'
    BY <2>35 DEF DropExpiredId, accountVars, factorVars, localVars
  <2>36. ASSUME NEW r \in Request, Stop(r) PROVE SessionInv'
    BY <2>36 DEF Stop, accountVars, factorVars, storeVars, localVars, UnderWay
  <2>37. ASSUME NEW s \in Name, EndSession(s) PROVE SessionInv'
    BY <2>37 DEF EndSession, accountVars, factorVars, localVars
  <2>38. CASE CookieEnds
    BY <2>38 DEF CookieEnds, accountVars, factorVars, localVars
  <2>39. CASE UNCHANGED vars
    BY <2>39 DEF vars, accountVars, factorVars, storeVars, localVars
  <2> HIDE DEF TypeInv, TypeOK, SessionInv, SessionsFollowAccount, OwnerOf
  <2>40. QED
    BY <2>1, <2>2, <2>3, <2>4, <2>5, <2>6, <2>7, <2>8, <2>9, <2>10, <2>11, <2>12,
       <2>13, <2>14, <2>15, <2>16, <2>17, <2>18, <2>19, <2>20, <2>21, <2>22, <2>23,
       <2>24, <2>25, <2>26, <2>27, <2>28, <2>29, <2>30, <2>31, <2>32, <2>33, <2>34,
       <2>35, <2>36, <2>37, <2>38, <2>39 DEF Next
<1>3. QED
  BY <1>1, <1>2, TypesAndSteps, PTL DEF Spec

THEOREM SessionsAreOfTheAccount == Spec => []SessionsFollowAccount
<1>1. SessionInv => SessionsFollowAccount
  BY DEF SessionInv
<1>2. QED
  BY <1>1, SessionInvariant, PTL

\* What has ended stays ended: no request, however late, brings back a session
\* that is over, a link that was used or has run out, or the id of an answered
\* sign-in (account.ts:44-103, saml-cache.ts:29-53).
NothingRevives ==
    [][/\ \A s \in Name : session[s] = "over" => session'[s] = "over"
       /\ \A t \in Request : link[t] = "used" => link'[t] = "used"
       /\ \A t \in Request : link[t] = "expired" => link'[t] \in {"expired", "used"}
       /\ \A t \in Request : samlId[t] = "gone" => samlId'[t] = "gone"
       /\ \A t \in Request : samlId[t] = "expired" => samlId'[t] \in {"expired", "gone"}]_vars

THEOREM WhatEndedStays == Spec => NothingRevives
<1> DEFINE Stays ==
       /\ \A s \in Name : session[s] = "over" => session'[s] = "over"
       /\ \A t \in Request : link[t] = "used" => link'[t] = "used"
       /\ \A t \in Request : link[t] = "expired" => link'[t] \in {"expired", "used"}
       /\ \A t \in Request : samlId[t] = "gone" => samlId'[t] = "gone"
       /\ \A t \in Request : samlId[t] = "expired" => samlId'[t] \in {"expired", "gone"}
<1>1. TypeInv /\ SessionInv /\ [Next]_vars => [Stays]_vars
  <2> SUFFICES ASSUME TypeInv, SessionInv, [Next]_vars PROVE Stays
    OBVIOUS
  <2> USE DEF TypeInv, TypeOK, Steps, SessionInv
  <2>1. ASSUME NEW r \in Request, Login(r) PROVE Stays
    BY <2>1 DEF Login, accountVars, factorVars, storeVars, Begin, UnderWay
  <2>2. ASSUME NEW r \in Request, EnterTotp(r) PROVE Stays
    BY <2>2 DEF EnterTotp, accountVars, factorVars, storeVars, GoTo
  <2>3. ASSUME NEW r \in Request, FindCode(r) PROVE Stays
    BY <2>3 DEF FindCode, accountVars, factorVars, storeVars, GoTo
  <2>4. ASSUME NEW r \in Request, MissCode(r) PROVE Stays
    BY <2>4 DEF MissCode, accountVars, factorVars, storeVars, GoTo
  <2>5. ASSUME NEW r \in Request, BurnCode(r) PROVE Stays
    BY <2>5 DEF BurnCode, accountVars, storeVars, localVars, GoTo, CodesLeft
  <2>6. ASSUME NEW r \in Request, CreateSession(r) PROVE Stays
    BY <2>6 DEF CreateSession, accountVars, factorVars, localVars, GoTo
  <2>7. ASSUME NEW r \in Request, NEW c \in Name \X Code,
               EnterCode(r, c)
        PROVE  Stays
    BY <2>7 DEF EnterCode, accountVars, factorVars, storeVars, GoTo
  <2>8. ASSUME NEW r \in Request, Forgot(r) PROVE Stays
    BY <2>8 DEF Forgot, accountVars, factorVars, storeVars, localVars, Begin,
        UnderWay
  <2>9. ASSUME NEW r \in Request, ClearLinks(r) PROVE Stays
    BY <2>9 DEF ClearLinks, accountVars, factorVars, localVars, GoTo, SameLinks,
        LinkKind
  <2>10. ASSUME NEW r \in Request, CreateLink(r) PROVE Stays
    BY <2>10 DEF CreateLink, accountVars, factorVars, localVars, GoTo
  <2>11. ASSUME NEW r \in Request, NEW t \in Request, OpenLink(r, t) PROVE Stays
    BY <2>11 DEF OpenLink, accountVars, factorVars, storeVars, Begin, UnderWay
  <2>12. ASSUME NEW r \in Request, SpendLink(r) PROVE Stays
    BY <2>12 DEF SpendLink, accountVars, factorVars, localVars, GoTo, Unused
  <2>13. ASSUME NEW r \in Request, FindAccount(r) PROVE Stays
    BY <2>13 DEF FindAccount, accountVars, factorVars, storeVars, GoTo
  <2>14. ASSUME NEW r \in Request, SetPassword(r) PROVE Stays
    BY <2>14 DEF SetPassword, factorVars, storeVars, localVars, GoTo, LinkKind
  <2>15. ASSUME NEW r \in Request, RevokeAll(r) PROVE Stays
    BY <2>15 DEF RevokeAll, accountVars, factorVars, localVars, GoTo, EndSessions,
        NotEnded
  <2>16. ASSUME NEW r \in Request, NEW then \in {"password", "invite", "nothing"},
                CreateAccount(r, then)
         PROVE  Stays
    BY <2>16 DEF CreateAccount, storeVars, localVars, Begin, UnderWay
  <2>17. ASSUME NEW r \in Request, FindTarget(r) PROVE Stays
    BY <2>17 DEF FindTarget, accountVars, factorVars, storeVars, Begin, UnderWay
  <2>18. ASSUME NEW r \in Request, DeleteAccount(r) PROVE Stays
    BY <2>18 DEF DeleteAccount, localVars, GoTo, EndSessions, Cascade
  <2>19. ASSUME NEW r \in Request, MakeAdmin(r) PROVE Stays
    BY <2>19 DEF MakeAdmin, storeVars, localVars, Begin, UnderWay
  <2>20. ASSUME NEW r \in Request, NEW on \in BOOLEAN, NEW p \in BOOLEAN, NEW m \in BOOLEAN,
                SaveAccount(r, on, p, m)
         PROVE  Stays
    BY <2>20 DEF SaveAccount, factorVars, storeVars, localVars, GoTo
  <2>21. ASSUME NEW r \in Request, MfaStart(r) PROVE Stays
    BY <2>21 DEF MfaStart, accountVars, storeVars, localVars, Begin, UnderWay,
        OffUntilVerified
  <2>22. ASSUME NEW r \in Request, MfaVerify(r) PROVE Stays
    BY <2>22 DEF MfaVerify, accountVars, factorVars, storeVars, Begin, UnderWay
  <2>23. ASSUME NEW r \in Request, MfaEnable(r) PROVE Stays
    BY <2>23 DEF MfaEnable, accountVars, storeVars, localVars, GoTo, AllCodes
  <2>24. ASSUME NEW r \in Request, MfaIsOn(r) PROVE Stays
    BY <2>24 DEF MfaIsOn, accountVars, factorVars, storeVars, localVars, Begin,
        UnderWay
  <2>25. ASSUME NEW r \in Request, Regenerate(r) PROVE Stays
    BY <2>25 DEF Regenerate, accountVars, storeVars, localVars, GoTo, AllCodes
  <2>26. ASSUME NEW r \in Request, MfaDisable(r) PROVE Stays
    BY <2>26 DEF MfaDisable, accountVars, storeVars, localVars, Begin, UnderWay
  <2>27. ASSUME NEW r \in Request, NEW here \in Maybe,
                RevokeOthers(r, here)
         PROVE  Stays
    BY <2>27 DEF RevokeOthers, accountVars, factorVars, localVars, Begin, UnderWay,
        EndSessions
  <2>28. ASSUME NEW r \in Request, SamlLogin(r) PROVE Stays
    BY <2>28 DEF SamlLogin, accountVars, factorVars, localVars, Begin, UnderWay
  <2>29. ASSUME NEW r \in Request, ConsumeSamlId(r) PROVE Stays
    BY <2>29 DEF ConsumeSamlId, accountVars, factorVars, localVars, GoTo
  <2>30. ASSUME NEW r \in Request, OidcCallback(r) PROVE Stays
    BY <2>30 DEF OidcCallback, accountVars, factorVars, storeVars, localVars, Begin,
        UnderWay
  <2>31. ASSUME NEW r \in Request, SetCookie(r) PROVE Stays
    BY <2>31 DEF SetCookie, accountVars, factorVars, localVars, GoTo
  <2>32. ASSUME NEW r \in Request, NEW t \in Request, FindSamlId(r, t) PROVE Stays
    BY <2>32 DEF FindSamlId, accountVars, factorVars, storeVars, Begin, UnderWay
  <2>33. ASSUME NEW r \in Request, LinkExpires(r) PROVE Stays
    BY <2>33 DEF LinkExpires, accountVars, factorVars, localVars
  <2>34. ASSUME NEW r \in Request, SamlIdExpires(r) PROVE Stays
    BY <2>34 DEF SamlIdExpires, accountVars, factorVars, localVars
  <2>35. ASSUME NEW r \in Request, DropExpiredId(r) PROVE Stays
    BY <2>35 DEF DropExpiredId, accountVars, factorVars, localVars
  <2>36. ASSUME NEW r \in Request, Stop(r) PROVE Stays
    BY <2>36 DEF Stop, accountVars, factorVars, storeVars, localVars, UnderWay
  <2>37. ASSUME NEW s \in Name, EndSession(s) PROVE Stays
    BY <2>37 DEF EndSession, accountVars, factorVars, localVars
  <2>38. CASE CookieEnds
    BY <2>38 DEF CookieEnds, accountVars, factorVars, localVars
  <2>39. CASE UNCHANGED vars
    BY <2>39 DEF vars, accountVars, factorVars, storeVars, localVars
  <2> HIDE DEF TypeInv, TypeOK, Steps, SessionInv, Stays
  <2>40. QED
    BY <2>1, <2>2, <2>3, <2>4, <2>5, <2>6, <2>7, <2>8, <2>9, <2>10, <2>11, <2>12,
       <2>13, <2>14, <2>15, <2>16, <2>17, <2>18, <2>19, <2>20, <2>21, <2>22, <2>23,
       <2>24, <2>25, <2>26, <2>27, <2>28, <2>29, <2>30, <2>31, <2>32, <2>33, <2>34,
       <2>35, <2>36, <2>37, <2>38, <2>39 DEF Next
<1>2. QED
  BY <1>1, TypesAndSteps, SessionInvariant, PTL DEF Spec, NothingRevives
===============================================================================
