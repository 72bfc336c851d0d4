----------------------------- MODULE AdminAccounts -----------------------------
(***************************************************************************)
(* The account of one admin: password, links by mail, sessions, second     *)
(* factor and recovery codes (src/account.ts, src/routes/admin/auth.ts,    *)
(* src/routes/admin/security.ts, src/routes/admin/accounts.ts,             *)
(* src/rbac.ts), and the sign-in by the identity provider                  *)
(* (src/saml-cache.ts, src/routes/selfservice.ts).  A handler takes        *)
(* several statements, and any two handlers may be under way.              *)
(*                                                                         *)
(* Each request is made once.  What it creates bears its name: the account *)
(* it made, the password it set, its session, link, secret, set of         *)
(* recovery codes and SAML request id.                                     *)
(***************************************************************************)
CONSTANTS
    Request,
    First,      \* names what is there in the beginning
    None,
    Code        \* the codes of one set of recovery codes

ASSUME AdminAccountsAssumption ==
    /\ First \notin Request
    /\ None \notin Request \union {First} \union (Request \union {First}) \X Code

Name == Request \union {First}
Maybe == Name \union {None}

VARIABLES
    account,    \* AdminUser.id, or None
    active,     \* AdminUser.active
    password,   \* AdminUser.passwordHash
    secret,     \* AdminUser.mfaSecret
    mfa,        \* who set AdminUser.mfaEnabled, None when it is off
    codes,      \* AdminUser.recoveryCodes
    link,       \* AuthToken
    session,    \* AdminSession
    samlId,     \* SamlRequestId
    sso,        \* somebody has the cookie oc_emp of the account's address
    pc,         \* where each request stands
    kind,       \* what it is
    acct,       \* the account it found
    mark,       \* the link, id or secret it found; of a login, signOut then
    used,       \* the recovery code it was given
    list,       \* the codes it is to write back
    met,        \* history: the requests that were under way with it
    signOut,    \* history: the last that is to end every session
    issuer      \* history: the last that replaced the recovery codes

accountVars == <<account, active, password>>
factorVars == <<secret, mfa, codes, issuer>>
storeVars == <<link, session, samlId, sso>>
localVars == <<acct, mark, used, list>>
vars == <<accountVars, factorVars, storeVars, localVars, pc, kind, met, signOut>>

Kind == {"none", "login", "forgot", "create", "use", "owner", "start", "enable",
         "regenerate", "disable", "revoke", "script", "saml", "acs", "oidc"}

Step == {"idle", "code", "list", "burn", "session", "clear", "link", "spend", "account",
         "password", "revoke", "save", "enable", "regenerate", "consume", "cookie",
         "done", "stopped"}

TypeOK ==
    /\ account \in Maybe /\ active \in BOOLEAN /\ password \in Maybe
    /\ secret \in Maybe /\ mfa \in Maybe /\ issuer \in Name
    /\ codes \subseteq Name \X Code
    /\ link \in [Request -> {"none", "live", "used", "expired"}]
    /\ session \in [Name -> {"none", "live", "over"}]
    /\ samlId \in [Request -> {"none", "saved", "expired", "gone"}]
    /\ sso \in BOOLEAN
    /\ pc \in [Request -> Step]
    /\ kind \in [Request -> Kind]
    /\ acct \in [Request -> Maybe]
    /\ mark \in [Request -> Maybe]
    /\ used \in [Request -> (Name \X Code) \union {None}]
    /\ list \in [Request -> SUBSET (Name \X Code)]
    /\ met \in [Request -> SUBSET Request]
    /\ signOut \in Name
    /\ account = None => \A s \in Name : session[s] # "live"

AllCodes(r) == {r} \X Code

Init ==
    /\ account = First /\ active = TRUE /\ password = First
    /\ \/ secret = None /\ mfa = None /\ codes = {}
       \/ secret = First /\ mfa = First /\ codes = AllCodes(First)
    /\ link = [r \in Request |-> "none"]
    /\ session = [s \in Name |-> IF s = First THEN "live" ELSE "none"]
    /\ samlId = [r \in Request |-> "none"]
    /\ sso = FALSE
    /\ pc = [r \in Request |-> "idle"]
    /\ kind = [r \in Request |-> "none"]
    /\ acct = [r \in Request |-> None]
    /\ mark = [r \in Request |-> None]
    /\ used = [r \in Request |-> None]
    /\ list = [r \in Request |-> {}]
    /\ met = [r \in Request |-> {}]
    /\ signOut = First /\ issuer = First

UnderWay == {q \in Request : pc[q] \notin {"idle", "done", "stopped"}}

\* Request r begins as a request of kind k, and goes to step p.
Begin(r, k, p) ==
    /\ pc[r] = "idle"
    /\ pc' = [pc EXCEPT ![r] = p]
    /\ kind' = [kind EXCEPT ![r] = k]
    /\ met' = [q \in Request |-> IF q = r THEN UnderWay
                                 ELSE IF q \in UnderWay THEN met[q] \union {r} ELSE met[q]]

GoTo(r, from, to) ==
    /\ pc[r] = from
    /\ pc' = [pc EXCEPT ![r] = to]
    /\ UNCHANGED <<kind, met>>

\* A live session of an active account, or else the cookie.
SignedIn ==
    /\ account # None /\ active
    /\ sso \/ \E s \in Name : session[s] = "live"

EndSessions(kept) ==
    session' = [s \in Name |-> IF session[s] = "live" /\ s \notin kept THEN "over"
                                                                      ELSE session[s]]
-----------------------------------------------------------------------------
(* Signing in with the password *)

\* The right password, for now.
Login(r) ==
    /\ account # None /\ active /\ password # None
    /\ Begin(r, "login", IF mfa # None /\ secret # None THEN "code" ELSE "session")
    /\ acct' = [acct EXCEPT ![r] = account]
    /\ mark' = [mark EXCEPT ![r] = signOut]
    /\ UNCHANGED <<accountVars, factorVars, storeVars, used, list, signOut>>

\* The second form finds the account by its address again, active or not.
EnterTotp(r) ==
    /\ account # None /\ secret # None
    /\ GoTo(r, "code", "session")
    /\ acct' = [acct EXCEPT ![r] = account]
    /\ UNCHANGED <<accountVars, factorVars, storeVars, mark, used, list, signOut>>

EnterCode(r, c) ==
    /\ account # None /\ secret # None
    /\ GoTo(r, "code", "list")
    /\ acct' = [acct EXCEPT ![r] = account]
    /\ used' = [used EXCEPT ![r] = c]
    /\ UNCHANGED <<accountVars, factorVars, storeVars, mark, list, signOut>>

FindCode(r) ==
    /\ account = acct[r] /\ used[r] \in codes
    /\ GoTo(r, "list", "burn")
    /\ list' = [list EXCEPT ![r] = codes \ {used[r]}]
    /\ UNCHANGED <<accountVars, factorVars, storeVars, acct, mark, used, signOut>>

MissCode(r) ==
    /\ account # acct[r] \/ used[r] \notin codes
    /\ GoTo(r, "list", "code")
    /\ used' = [used EXCEPT ![r] = None]
    /\ UNCHANGED <<accountVars, factorVars, storeVars, acct, mark, list, signOut>>

\* Mutant: the list is written back as it was.
CodesAsRead(r) == list[r] \union {used[r]}

CodesLeft(r) == list[r]

BurnCode(r) ==
    /\ account = acct[r]
    /\ GoTo(r, "burn", "session")
    /\ codes' = CodesLeft(r)
    /\ UNCHANGED <<accountVars, secret, mfa, issuer, storeVars, localVars, signOut>>

CreateSession(r) ==
    /\ account = acct[r]
    /\ GoTo(r, "session", "done")
    /\ session' = [session EXCEPT ![r] = "live"]
    /\ UNCHANGED <<accountVars, factorVars, link, samlId, sso, localVars, signOut>>

\* It is signed out, revoked by its owner, or twelve hours old.
EndSession(s) ==
    /\ session[s] = "live"
    /\ session' = [session EXCEPT ![s] = "over"]
    /\ UNCHANGED <<accountVars, factorVars, link, samlId, sso, localVars, pc, kind, met, signOut>>
-----------------------------------------------------------------------------
(* Links by mail *)

LinkKind(t) == IF kind[t] = "create" THEN "invite" ELSE "reset"

Forgot(r) ==
    /\ account # None /\ active
    /\ Begin(r, "forgot", "clear")
    /\ UNCHANGED <<accountVars, factorVars, storeVars, localVars, signOut>>

\* Mutant: the links of the other kind are taken back instead.
OtherLinks(r) == {t \in Request : LinkKind(t) # LinkKind(r)}

SameLinks(r) == {t \in Request : LinkKind(t) = LinkKind(r)}

\* issueToken takes the older links back, then makes the new one.
ClearLinks(r) ==
    /\ GoTo(r, "clear", "link")
    /\ link' = [t \in Request |-> IF link[t] # "none" /\ t \in SameLinks(r) THEN "used" ELSE link[t]]
    /\ UNCHANGED <<accountVars, factorVars, session, samlId, sso, localVars, signOut>>

CreateLink(r) ==
    /\ GoTo(r, "link", "done")
    /\ link' = [link EXCEPT ![r] = "live"]
    /\ UNCHANGED <<accountVars, factorVars, session, samlId, sso, localVars, signOut>>

LinkExpires(t) ==
    /\ link[t] = "live"
    /\ link' = [link EXCEPT ![t] = "expired"]
    /\ UNCHANGED <<accountVars, factorVars, session, samlId, sso, localVars, pc, kind, met, signOut>>

OpenLink(r, t) ==
    /\ link[t] = "live"
    /\ Begin(r, "use", "spend")
    /\ mark' = [mark EXCEPT ![r] = t]
    /\ UNCHANGED <<accountVars, factorVars, storeVars, acct, used, list, signOut>>

\* Mutant: the update does not ask whether the link is unused.
AnyLink(t) == TRUE

Unused(t) == link[t] \in {"live", "expired"}

\* One statement, and only one request gets the link.
SpendLink(r) ==
    /\ GoTo(r, "spend", "account")
    /\ Unused(mark[r])
    /\ link' = [link EXCEPT ![mark[r]] = "used"]
    /\ UNCHANGED <<accountVars, factorVars, session, samlId, sso, localVars, signOut>>

FindAccount(r) ==
    /\ account # None /\ active
    /\ GoTo(r, "account", "password")
    /\ acct' = [acct EXCEPT ![r] = account]
    /\ UNCHANGED <<accountVars, factorVars, storeVars, mark, used, list, signOut>>

\* A reset is to end the sessions, an accepted invitation is not.
SetPassword(r) ==
    /\ pc[r] = "password" /\ account = acct[r]
    /\ password' = r
    /\ \/ /\ LinkKind(mark[r]) = "reset"
          /\ GoTo(r, "password", "revoke")
          /\ signOut' = r
       \/ /\ LinkKind(mark[r]) = "invite"
          /\ GoTo(r, "password", "done")
          /\ UNCHANGED signOut
    /\ UNCHANGED <<account, active, factorVars, storeVars, localVars>>

\* Mutant: the session that is oldest is kept.
Oldest(r) == {First}

NotEnded(r) == {}

RevokeAll(r) ==
    /\ GoTo(r, "revoke", "done")
    /\ EndSessions(NotEnded(r))
    /\ UNCHANGED <<accountVars, factorVars, link, samlId, sso, localVars, signOut>>
-----------------------------------------------------------------------------
(* The owner of the workspace *)

\* A new account, with a password, or an invitation, or neither.
CreateAccount(r, then) ==
    /\ account = None
    /\ Begin(r, "create", IF then = "invite" THEN "clear" ELSE "done")
    /\ account' = r
    /\ active' = TRUE
    /\ password' = IF then = "password" THEN r ELSE None
    /\ secret' = None /\ mfa' = None /\ codes' = {} /\ issuer' = r
    /\ UNCHANGED <<storeVars, localVars, signOut>>

FindTarget(r) ==
    /\ account # None
    /\ Begin(r, "owner", "save")
    /\ acct' = [acct EXCEPT ![r] = account]
    /\ UNCHANGED <<accountVars, factorVars, storeVars, mark, used, list, signOut>>

SaveAccount(r, on, setsPassword, resetsMfa) ==
    /\ account = acct[r]
    /\ active' = on
    /\ password' = IF setsPassword THEN r ELSE password
    /\ \/ resetsMfa /\ secret' = None /\ mfa' = None /\ codes' = {} /\ issuer' = r
       \/ ~resetsMfa /\ UNCHANGED factorVars
    /\ \/ (setsPassword \/ ~on) /\ GoTo(r, "save", "revoke") /\ signOut' = r
       \/ ~setsPassword /\ on /\ GoTo(r, "save", "done") /\ UNCHANGED signOut
    /\ UNCHANGED <<account, storeVars, localVars>>

\* Mutant: deletion leaves the rows that refer to the account.
NoCascade == Name

Cascade == {}

\* Its sessions go with it; links are kept by address, and stay.
DeleteAccount(r) ==
    /\ account = acct[r]
    /\ GoTo(r, "save", "done")
    /\ account' = None
    /\ password' = None
    /\ secret' = None /\ mfa' = None /\ codes' = {} /\ issuer' = r
    /\ EndSessions(Cascade)
    /\ UNCHANGED <<active, link, samlId, sso, localVars, signOut>>
\* The script on the box: a new password and no second factor.  It leaves the
\* sessions and the codes alone.
MakeAdmin(r) ==
    /\ Begin(r, "script", "done")
    /\ account' = IF account = None THEN r ELSE account
    /\ active' = TRUE
    /\ password' = r
    /\ secret' = None /\ mfa' = None
    /\ UNCHANGED <<codes, issuer, storeVars, localVars, signOut>>
-----------------------------------------------------------------------------
(* The admin's own security page *)

\* Mutant: the second factor stays on with the new secret.
StaysOn == mfa

OffUntilVerified == None

MfaStart(r) ==
    /\ SignedIn
    /\ Begin(r, "start", "done")
    /\ secret' = r /\ mfa' = OffUntilVerified
    /\ UNCHANGED <<accountVars, codes, issuer, storeVars, localVars, signOut>>

\* The code fits the secret, which is read here and not written.
MfaVerify(r) ==
    /\ SignedIn /\ secret # None
    /\ Begin(r, "enable", "enable")
    /\ mark' = [mark EXCEPT ![r] = secret]
    /\ UNCHANGED <<accountVars, factorVars, storeVars, acct, used, list, signOut>>

\* The update goes by the address: the account may be another by now.
MfaEnable(r) ==
    /\ account # None
    /\ GoTo(r, "enable", "done")
    /\ mfa' = r /\ codes' = AllCodes(r) /\ issuer' = r
    /\ UNCHANGED <<accountVars, secret, storeVars, localVars, signOut>>

MfaIsOn(r) ==
    /\ SignedIn /\ mfa # None
    /\ Begin(r, "regenerate", "regenerate")
    /\ UNCHANGED <<accountVars, factorVars, storeVars, localVars, signOut>>

Regenerate(r) ==
    /\ account # None
    /\ GoTo(r, "regenerate", "done")
    /\ codes' = AllCodes(r) /\ issuer' = r
    /\ UNCHANGED <<accountVars, secret, mfa, storeVars, localVars, signOut>>

MfaDisable(r) ==
    /\ SignedIn
    /\ Begin(r, "disable", "done")
    /\ secret' = None /\ mfa' = None /\ codes' = {} /\ issuer' = r
    /\ UNCHANGED <<accountVars, storeVars, localVars, signOut>>

\* Signs out everywhere but here: in the session of this browser, or in none
\* when it has the cookie only.
RevokeOthers(r, here) ==
    /\ SignedIn
    /\ IF here = None THEN sso ELSE session[here] = "live"
    /\ Begin(r, "revoke", "done")
    /\ EndSessions({here})
    /\ UNCHANGED <<accountVars, factorVars, link, samlId, sso, localVars, signOut>>
-----------------------------------------------------------------------------
(* Signing in with the identity provider *)

SamlLogin(r) ==
    /\ Begin(r, "saml", "done")
    /\ samlId' = [samlId EXCEPT ![r] = "saved"]
    /\ UNCHANGED <<accountVars, factorVars, link, session, sso, localVars, signOut>>

SamlIdExpires(t) ==
    /\ samlId[t] = "saved"
    /\ samlId' = [samlId EXCEPT ![t] = "expired"]
    /\ UNCHANGED <<accountVars, factorVars, link, session, sso, localVars, pc, kind, met, signOut>>

\* The hourly job, or the answer that came too late.
DropExpiredId(t) ==
    /\ samlId[t] = "expired"
    /\ samlId' = [samlId EXCEPT ![t] = "gone"]
    /\ UNCHANGED <<accountVars, factorVars, link, session, sso, localVars, pc, kind, met, signOut>>

\* The library finds the id of the request the response answers.
FindSamlId(r, t) ==
    /\ samlId[t] = "saved"
    /\ Begin(r, "acs", "consume")
    /\ mark' = [mark EXCEPT ![r] = t]
    /\ UNCHANGED <<accountVars, factorVars, storeVars, acct, used, list, signOut>>

\* It removes the id, if it is still there.
ConsumeSamlId(r) ==
    /\ GoTo(r, "consume", "cookie")
    /\ samlId' = [samlId EXCEPT ![mark[r]] = "gone"]
    /\ UNCHANGED <<accountVars, factorVars, link, session, sso, localVars, signOut>>

\* The browser brings back the state it was given, and the provider exchanges
\* the code for an address.
OidcCallback(r) ==
    /\ Begin(r, "oidc", "cookie")
    /\ UNCHANGED <<accountVars, factorVars, storeVars, localVars, signOut>>

SetCookie(r) ==
    /\ GoTo(r, "cookie", "done")
    /\ sso' = TRUE
    /\ UNCHANGED <<accountVars, factorVars, link, session, samlId, localVars, signOut>>

\* The browser drops it, or it is twelve hours old.
CookieEnds ==
    /\ sso
    /\ sso' = FALSE
    /\ UNCHANGED <<accountVars, factorVars, link, session, samlId, localVars, pc, kind, met, signOut>>
-----------------------------------------------------------------------------
\* A refusal, a statement that fails because what it works on is gone, an error
\* of the database or a crash: the rest of the request is not done.
Stop(r) ==
    /\ r \in UnderWay
    /\ pc' = [pc EXCEPT ![r] = "stopped"]
    /\ UNCHANGED <<accountVars, factorVars, storeVars, localVars, kind, met, signOut>>

Next ==
    \/ \E r \in Request :
        \/ Login(r) \/ EnterTotp(r) \/ FindCode(r) \/ MissCode(r) \/ BurnCode(r) \/ CreateSession(r)
        \/ \E c \in Name \X Code : EnterCode(r, c)
        \/ Forgot(r) \/ ClearLinks(r) \/ CreateLink(r)
        \/ \E t \in Request : OpenLink(r, t)
        \/ SpendLink(r) \/ FindAccount(r) \/ SetPassword(r) \/ RevokeAll(r)
        \/ \E then \in {"password", "invite", "nothing"} : CreateAccount(r, then)
        \/ FindTarget(r) \/ DeleteAccount(r) \/ MakeAdmin(r)
        \/ \E on, setsPassword, resetsMfa \in BOOLEAN : SaveAccount(r, on, setsPassword, resetsMfa)
        \/ MfaStart(r) \/ MfaVerify(r) \/ MfaEnable(r) \/ MfaIsOn(r) \/ Regenerate(r) \/ MfaDisable(r)
        \/ \E here \in Maybe : RevokeOthers(r, here)
        \/ SamlLogin(r) \/ ConsumeSamlId(r) \/ OidcCallback(r) \/ SetCookie(r)
        \/ \E t \in Request : FindSamlId(r, t)
        \/ LinkExpires(r) \/ SamlIdExpires(r) \/ DropExpiredId(r) \/ Stop(r)
    \/ \E s \in Name : EndSession(s)
    \/ CookieEnds

Spec == Init /\ [][Next]_vars
-----------------------------------------------------------------------------
(* Properties *)

\* "Only the newest link works" (account.ts:25): two links of a kind are alive
\* only if the requests that made them overlapped.
OnlyNewestLink ==
    \A t, u \in Request :
        /\ t # u
        /\ link[t] = "live" /\ link[u] = "live"
        /\ LinkKind(t) = LinkKind(u)
        => t \in met[u]

\* A link sets one password (account.ts:50), and a SAML id signs in once
\* (saml-cache.ts:11), but for responses that arrive together.
SingleUse ==
    \A r, q \in Request :
        /\ r # q
        /\ mark[r] = mark[q] /\ kind[r] = kind[q]
        /\ pc[r] = "done" /\ pc[q] = "done"
        => kind[r] # "use" /\ (kind[r] = "acs" => r \in met[q])

\* A reset, a new password from the owner or a deactivation signs the admin out
\* everywhere (auth.ts:126, accounts.ts:130): once it is done, a session that
\* was allowed by the account as it was before is that of a login under way
\* with it.
NoStaleSession ==
    \A s \in Name :
        session[s] = "live" /\ signOut # First /\ pc[signOut] = "done" =>
            s # First /\ (mark[s] # signOut => s \in met[signOut])

\* A recovery code works once, and not after the codes were replaced
\* (security.ts:81), unless it was brought back by a login with another code
\* that had read the list before.
CodesStayDead ==
    /\ \A r \in Request :
          used[r] \in codes /\ pc[r] \in {"session", "done"} =>
              \E q \in met[r] : used[q] # None /\ used[q] # used[r]
    /\ \A c \in codes :
          c[1] # issuer => issuer # First /\ \E q \in met[issuer] : used[q] # None

DropsFactor(q) == kind[q] \in {"start", "disable", "owner", "script"}

\* The second factor that is on is the one whose code was verified, unless
\* another request replaced or dropped it between the check and the update
\* (security.ts:60-68).
FactorWasVerified ==
    mfa \in Request => secret = mark[mfa] \/ \E q \in met[mfa] : DropsFactor(q)
===============================================================================
