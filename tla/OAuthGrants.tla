------------------------------ MODULE OAuthGrants ------------------------------
(***************************************************************************)
(* The OAuth authorization-code flow: consent, exchange, userinfo and      *)
(* revocation over the tables oauth_auth_codes and oauth_access_tokens,    *)
(* beside the owner of a client who enables, disables or deletes it and    *)
(* accounts that change the sign-in by which both tables refer to them.    *)
(*                                                                         *)
(* Nothing of it is kept in memory: all that requests share is the         *)
(* database.  One action is one statement or transaction, together with    *)
(* what the handler does on its own before the next one.  Every statement  *)
(* may fail, which ends the request.                                       *)
(*                                                                         *)
(* Who may administer a client, and its secret, are the subject of another *)
(* module: here a request that authenticates as a client is that client.   *)
(***************************************************************************)

CONSTANTS
  Accounts,      \* rows of passport_accounts, registered or not yet
  SignIns,       \* e-mail addresses, the primary key of that table
  Clients,       \* results of randomToken for client_id
  Uris,          \* redirect URIs
  Codes,         \* results of randomToken for authorization codes
  Bearers,       \* results of randomToken for access tokens
  Requests,      \* goroutines serving HTTP requests
  None,          \* no row, no value yet
  SignInsReused  \* may an account take a sign-in another has held?

ASSUME NoneAssumption ==
  /\ None \notin Accounts
  /\ None \notin SignIns
  /\ None \notin Clients
  /\ None \notin Uris
  /\ None \notin Codes
  /\ None \notin Bearers
\* The rows of two tables.
ASSUME RowsAssumption == Codes \cap Bearers = {}
ASSUME ReuseAssumption == SignInsReused \in BOOLEAN

VARIABLES
  signIn,  \* passport_accounts.sign_in, None before registration
  status,  \* "new" and "deleted" clients have no row
  uris,    \* oauth_clients.redirect_uris
  code,    \* rows of oauth_auth_codes
  bearer,  \* rows of oauth_access_tokens
  stale,   \* codes and bearers whose expires_at has passed
  req,     \* what each goroutine is doing
  \* The rest is history, read by the properties only.
  granted,   \* what each code was granted for
  consenter, \* the account that consented to each code
  got,       \* for which code, by whom and where each bearer was fetched
  told,      \* the accounts whose profile was given out for each bearer
  raced,     \* clients switched off or deleted beside a request they had passed
  held       \* the first account to bear each sign-in

vars == <<signIn, status, uris, code, bearer, stale, req,
          granted, consenter, got, told, raced, held>>
tables == <<signIn, status, uris, code, bearer, stale>>
history == <<granted, consenter, got, told, raced, held>>

-----------------------------------------------------------------------------
(* What a goroutine holds in its local variables, and where it is. *)

Steps == {"idle", "findClient", "saveCode", "consume", "saveBearer", "profile"}

Request == [pc: Steps, acct: Accounts \cup {None}, signIn: SignIns \cup {None},
            client: Clients \cup {None}, uri: Uris \cup {None},
            ref: Codes \cup Bearers \cup {None}]

Idle == [pc |-> "idle", acct |-> None, signIn |-> None, client |-> None,
         uri |-> None, ref |-> None]

\* A consent of account a, whose sign-in was s when it was read.
Consenting(p, a, s, c, u) ==
  [pc |-> p, acct |-> a, signIn |-> s, client |-> c, uri |-> u, ref |-> None]

\* An exchange of code k, by client c.
Exchanging(p, s, c, u, k) ==
  [pc |-> p, acct |-> None, signIn |-> s, client |-> c, uri |-> u, ref |-> k]

\* A userinfo request with bearer b, issued for sign-in s.
Asking(s, b) ==
  [pc |-> "profile", acct |-> None, signIn |-> s, client |-> None,
   uri |-> None, ref |-> b]

CodeRow == [client: Clients, signIn: SignIns, uri: Uris, used: BOOLEAN]
BearerRow == [client: Clients, signIn: SignIns]

\* History: what a code was granted for, and what a bearer was fetched with.
Grant == [client: Clients, signIn: SignIns, uri: Uris]
Redemption == [code: Codes, client: Clients, uri: Uris]

ASSUME NoRowAssumption ==
  /\ None \notin CodeRow
  /\ None \notin BearerRow
  /\ None \notin Grant
  /\ None \notin Redemption

TypeOK ==
  /\ signIn \in [Accounts -> SignIns \cup {None}]
  /\ status \in [Clients -> {"new", "enabled", "disabled", "deleted"}]
  /\ uris \in [Clients -> SUBSET Uris]
  /\ code \in [Codes -> CodeRow \cup {None}]
  /\ bearer \in [Bearers -> BearerRow \cup {None}]
  /\ stale \subseteq Codes \cup Bearers
  /\ req \in [Requests -> Request]
  /\ granted \in [Codes -> Grant \cup {None}]
  /\ consenter \in [Codes -> Accounts \cup {None}]
  /\ got \in [Bearers -> Redemption \cup {None}]
  /\ told \in [Bearers -> SUBSET Accounts]
  /\ raced \subseteq Clients
  /\ held \in [SignIns -> Accounts \cup {None}]

Init ==
  /\ signIn = [a \in Accounts |-> None]
  /\ status = [c \in Clients |-> "new"]
  /\ uris = [c \in Clients |-> {}]
  /\ code = [k \in Codes |-> None]
  /\ bearer = [b \in Bearers |-> None]
  /\ stale = {}
  /\ req = [r \in Requests |-> Idle]
  /\ granted = [k \in Codes |-> None]
  /\ consenter = [k \in Codes |-> None]
  /\ got = [b \in Bearers |-> None]
  /\ told = [b \in Bearers |-> {}]
  /\ raced = {}
  /\ held = [s \in SignIns |-> None]

-----------------------------------------------------------------------------
(* Helpers *)

\* The enabled client with this redirect URI: what authorize and consent ask.
Admits(c, u) == status[c] = "enabled" /\ u \in uris[c]

\* History: the requests that have passed the check of client c.
Passed(c) == {r \in Requests : /\ req[r].client = c
                               /\ req[r].pc \in {"saveCode", "consume", "saveBearer"}}

\* The row an exchange looks for: of this client, unused and not expired.
Redeemable(k, c) ==
  code[k] # None /\ code[k].client = c /\ ~code[k].used /\ k \notin stale

End(r) == req' = [req EXCEPT ![r] = Idle]

-----------------------------------------------------------------------------
(* Accounts *)

\* The primary key keeps two accounts from bearing one sign-in.
TakeSignIn(a, s) ==
  /\ \A other \in Accounts : signIn[other] # s
  /\ SignInsReused \/ held[s] \in {None, a}
  /\ signIn' = [signIn EXCEPT ![a] = s]
  /\ held' = [held EXCEPT ![s] = IF @ = None THEN a ELSE @]
  /\ UNCHANGED <<status, uris, code, bearer, stale, req,
                 granted, consenter, got, told, raced>>

Register(a, s) == signIn[a] = None /\ TakeSignIn(a, s)

\* updateAccount with another e-mail address.  Its transaction does not
\* touch the OAuth tables.
ChangeSignIn(a, s) == signIn[a] # None /\ TakeSignIn(a, s)

-----------------------------------------------------------------------------
(* The owner of a client *)

CreateClient(c, U) ==
  /\ status[c] = "new"
  /\ U # {}
  /\ status' = [status EXCEPT ![c] = "enabled"]
  /\ uris' = [uris EXCEPT ![c] = U]
  /\ UNCHANGED <<signIn, code, bearer, stale, req, history>>

Enable(c) ==
  /\ status[c] \in {"enabled", "disabled"}
  /\ status' = [status EXCEPT ![c] = "enabled"]
  /\ raced' = raced \ {c}
  /\ UNCHANGED <<signIn, uris, code, bearer, stale, req,
                 granted, consenter, got, told, held>>

\* History: requests that passed the check of c while it was enabled go on.
Overtake(c) == raced' = IF Passed(c) # {} THEN raced \cup {c} ELSE raced

Disable(c) ==
  /\ status[c] \in {"enabled", "disabled"}
  /\ status' = [status EXCEPT ![c] = "disabled"]
  /\ Overtake(c)
  /\ UNCHANGED <<signIn, uris, code, bearer, stale, req,
                 granted, consenter, got, told, held>>

DeleteForgetsBearers(c) ==
  /\ status[c] \in {"enabled", "disabled"}
  /\ status' = [status EXCEPT ![c] = "deleted"]
  /\ uris' = [uris EXCEPT ![c] = {}]
  /\ code' = [k \in Codes |-> IF code[k] # None /\ code[k].client = c
                                THEN None ELSE code[k]]
  /\ Overtake(c)
  /\ UNCHANGED <<signIn, bearer, stale, req, granted, consenter, got, told, held>>

\* One transaction removes the client, its codes and its access tokens.
Delete(c) ==
  /\ status[c] \in {"enabled", "disabled"}
  /\ status' = [status EXCEPT ![c] = "deleted"]
  /\ uris' = [uris EXCEPT ![c] = {}]
  /\ code' = [k \in Codes |-> IF code[k] # None /\ code[k].client = c
                                THEN None ELSE code[k]]
  /\ bearer' = [b \in Bearers |-> IF bearer[b] # None /\ bearer[b].client = c
                                    THEN None ELSE bearer[b]]
  /\ Overtake(c)
  /\ UNCHANGED <<signIn, stale, req, granted, consenter, got, told, held>>

-----------------------------------------------------------------------------
(* Consent *)

\* handleOAuthConsent, up to the account behind the session.  The form says
\* for which client and which URI, whatever the page before it showed.
Consent(r, a, c, u) ==
  /\ req[r].pc = "idle"
  /\ signIn[a] # None
  /\ req' = [req EXCEPT ![r] = Consenting("findClient", a, signIn[a], c, u)]
  /\ UNCHANGED <<tables, history>>

FindsDisabled(r) ==
  /\ req[r].pc = "findClient"
  /\ \/ /\ req[r].uri \in uris[req[r].client]
        /\ req' = [req EXCEPT ![r] =
                     Consenting("saveCode", @.acct, @.signIn, @.client, @.uri)]
     \/ End(r)
  /\ UNCHANGED <<tables, history>>

\* The user may also deny, which ends the request as a wrong client does.
FindClient(r) ==
  /\ req[r].pc = "findClient"
  /\ \/ /\ Admits(req[r].client, req[r].uri)
        /\ req' = [req EXCEPT ![r] =
                     Consenting("saveCode", @.acct, @.signIn, @.client, @.uri)]
     \/ End(r)
  /\ UNCHANGED <<tables, history>>

\* The code leaves for the redirect URI in the same step.
SaveCode(r) ==
  /\ req[r].pc = "saveCode"
  /\ End(r)
  /\ LET q == req[r] IN
       \/ \E k \in Codes :
            /\ granted[k] = None
            /\ code' = [code EXCEPT ![k] = [client |-> q.client, signIn |-> q.signIn,
                                            uri |-> q.uri, used |-> FALSE]]
            /\ granted' = [granted EXCEPT ![k] =
                             [client |-> q.client, signIn |-> q.signIn, uri |-> q.uri]]
            /\ consenter' = [consenter EXCEPT ![k] = q.acct]
       \/ UNCHANGED <<code, granted, consenter>>
  /\ UNCHANGED <<signIn, status, uris, bearer, stale, got, told, raced, held>>

-----------------------------------------------------------------------------
(* Exchange *)

\* handleOAuthToken, up to authenticateOAuthClient: a client with its secret
\* sends a code that may be another client's, and any redirect URI.
Exchange(r, c, k, u) ==
  /\ req[r].pc = "idle"
  /\ status[c] = "enabled"
  /\ granted[k] # None
  /\ req' = [req EXCEPT ![r] = Exchanging("consume", None, c, u, k)]
  /\ UNCHANGED <<tables, history>>

ConsumeLeavesUnused(r) ==
  /\ req[r].pc = "consume"
  /\ \E k \in Codes :
       /\ k = req[r].ref
       /\ \/ /\ Redeemable(k, req[r].client)
             /\ code[k].uri = req[r].uri
             /\ req' = [req EXCEPT ![r] =
                          Exchanging("saveBearer", code[k].signIn, @.client, @.uri, k)]
          \/ End(r)
  /\ UNCHANGED <<tables, history>>

ConsumeReturnsNothing(r) ==
  /\ req[r].pc = "consume"
  /\ \E k \in Codes :
       /\ k = req[r].ref
       /\ \/ /\ Redeemable(k, req[r].client)
             /\ code[k].uri = req[r].uri
             /\ code' = [code EXCEPT ![k].used = TRUE]
             /\ req' = [req EXCEPT ![r] =
                          Exchanging("saveBearer", None, @.client, @.uri, k)]
          \/ End(r) /\ UNCHANGED code
  /\ UNCHANGED <<signIn, status, uris, bearer, stale, history>>

ConsumeAnyUri(r) ==
  /\ req[r].pc = "consume"
  /\ \E k \in Codes :
       /\ k = req[r].ref
       /\ \/ /\ Redeemable(k, req[r].client)
             /\ code' = [code EXCEPT ![k].used = TRUE]
             /\ req' = [req EXCEPT ![r] =
                          Exchanging("saveBearer", code[k].signIn, @.client, @.uri, k)]
          \/ End(r) /\ UNCHANGED code
  /\ UNCHANGED <<signIn, status, uris, bearer, stale, history>>

\* consumeOAuthAuthCode: read and mark in one transaction.
Consume(r) ==
  /\ req[r].pc = "consume"
  /\ \E k \in Codes :
       /\ k = req[r].ref
       /\ \/ /\ Redeemable(k, req[r].client)
             /\ code[k].uri = req[r].uri
             /\ code' = [code EXCEPT ![k] = [client |-> @.client, signIn |-> @.signIn,
                                             uri |-> @.uri, used |-> TRUE]]
             /\ req' = [req EXCEPT ![r] =
                          Exchanging("saveBearer", code[k].signIn, @.client, @.uri, k)]
          \/ End(r) /\ UNCHANGED code
  /\ UNCHANGED <<signIn, status, uris, bearer, stale, history>>

\* saveOAuthAccessToken; when it fails the code is spent all the same.
SaveBearer(r) ==
  /\ req[r].pc = "saveBearer"
  /\ End(r)
  /\ LET q == req[r] IN
       \/ \E b \in Bearers, k \in Codes :
            /\ k = q.ref
            /\ got[b] = None
            /\ bearer' = [bearer EXCEPT ![b] = [client |-> q.client, signIn |-> q.signIn]]
            /\ got' = [got EXCEPT ![b] = [code |-> k, client |-> q.client, uri |-> q.uri]]
       \/ UNCHANGED <<bearer, got>>
  /\ UNCHANGED <<signIn, status, uris, code, stale, granted, consenter, told, raced, held>>

-----------------------------------------------------------------------------
(* Access tokens *)

\* handleOAuthUserInfo, up to findOAuthAccessToken: the client is not looked at.
UserInfo(r, b) ==
  /\ req[r].pc = "idle"
  /\ bearer[b] # None
  /\ b \notin stale
  /\ req' = [req EXCEPT ![r] = Asking(bearer[b].signIn, b)]
  /\ UNCHANGED <<tables, history>>

ProfileOfAnybody(r) ==
  /\ req[r].pc = "profile"
  /\ End(r)
  /\ \/ \E a \in Accounts, b \in Bearers :
          /\ b = req[r].ref
          /\ signIn[a] # None
          /\ told' = [told EXCEPT ![b] = @ \cup {a}]
     \/ UNCHANGED told
  /\ UNCHANGED <<tables, granted, consenter, got, raced, held>>

\* The account that bears the sign-in now, if there is one.
Profile(r) ==
  /\ req[r].pc = "profile"
  /\ End(r)
  /\ \/ \E a \in Accounts, b \in Bearers :
          /\ b = req[r].ref
          /\ signIn[a] = req[r].signIn
          /\ told' = [told EXCEPT ![b] = @ \cup {a}]
     \/ UNCHANGED told
  /\ UNCHANGED <<tables, granted, consenter, got, raced, held>>

\* Whoever has the bearer may revoke it.
Revoke(b) ==
  /\ got[b] # None
  /\ bearer' = [bearer EXCEPT ![b] = None]
  /\ UNCHANGED <<signIn, status, uris, code, stale, req, history>>

-----------------------------------------------------------------------------
(* Time and restarts *)

\* oauthAuthCodeLifetime or oauthAccessTokenLifetime is over.
Expire(x) ==
  /\ x \notin stale
  /\ \/ x \in Codes /\ code[x] # None
     \/ x \in Bearers /\ bearer[x] # None
  /\ stale' = stale \cup {x}
  /\ UNCHANGED <<signIn, status, uris, code, bearer, req, history>>

\* The process dies and starts again on the same database.
Restart ==
  /\ req' = [r \in Requests |-> Idle]
  /\ UNCHANGED <<tables, history>>

-----------------------------------------------------------------------------
Administer ==
  \/ \E a \in Accounts, s \in SignIns : Register(a, s) \/ ChangeSignIn(a, s)
  \/ \E c \in Clients, U \in SUBSET Uris : CreateClient(c, U)
  \/ \E c \in Clients : Enable(c) \/ Disable(c) \/ Delete(c)

Begin(r) ==
  \/ \E a \in Accounts, c \in Clients, u \in Uris : Consent(r, a, c, u)
  \/ \E c \in Clients, k \in Codes, u \in Uris : Exchange(r, c, k, u)
  \/ \E b \in Bearers : UserInfo(r, b)

Serve(r) ==
  FindClient(r) \/ SaveCode(r) \/ Consume(r) \/ SaveBearer(r) \/ Profile(r)

Next ==
  \/ Administer
  \/ \E r \in Requests : Begin(r) \/ Serve(r)
  \/ \E b \in Bearers : Revoke(b)
  \/ \E x \in Codes \cup Bearers : Expire(x)
  \/ Restart

Spec == Init /\ [][Next]_vars

-----------------------------------------------------------------------------
(* Properties *)

\* A code is worth one access token at most, however many exchanges of it run
\* side by side and whenever the process restarts.
SingleUse ==
  \A b1, b2 \in Bearers :
    got[b1] # None /\ got[b2] # None /\ got[b1].code = got[b2].code => b1 = b2

\* A code waits at a URI its client registered, and a token goes to the client
\* and with the redirect URI the account consented to, and speaks for the
\* sign-in it had then.
TokenScope ==
  /\ \A k \in Codes :
       code[k] # None /\ status[code[k].client] # "deleted"
         => code[k].uri \in uris[code[k].client]
  /\ \A b \in Bearers : got[b] # None =>
       LET g == granted[got[b].code] IN
         /\ g # None
         /\ got[b].client = g.client /\ got[b].uri = g.uri
         /\ bearer[b] # None => bearer[b] = [client |-> g.client, signIn |-> g.signIn]

\* A deleted client leaves neither codes nor access tokens behind, and later
\* requests create none: except for requests that had passed its check when
\* it was deleted, whose rows nothing removes.
DeletedLeavesNothing ==
  \A c \in Clients : status[c] = "deleted" /\ c \notin raced =>
    /\ \A k \in Codes : code[k] # None => code[k].client # c
    /\ \A b \in Bearers : bearer[b] # None => bearer[b].client # c

\* A client that is disabled or deleted gets no new code and no new token,
\* except for requests that had passed its check before.
DisabledGetsNothing ==
  [][\A c \in Clients : status[c] # "enabled" /\ c \notin raced =>
       /\ \A k \in Codes : code'[k] # None /\ code'[k].client = c => code[k] # None
       /\ \A b \in Bearers : bearer'[b] # None /\ bearer'[b].client = c
                               => bearer[b] # None]_vars

\* While no sign-in is handed on from one account to another, a token gives out
\* the profile of the account that consented to it and of nobody else.  (After
\* that account has changed its sign-in it gives out none: userinfo says that
\* the "Account no longer exists", oauth.go:361, though none is ever deleted.)
UserInfoOwner ==
  ~SignInsReused =>
    \A b \in Bearers : told[b] # {} => told[b] = {consenter[got[b].code]}

\* What grants promise, in the words of GrantPromise.
Given == {k \in Codes : granted[k] # None}
CodeOf == [b \in Bearers |-> IF got[b] = None THEN None ELSE got[b].code]
Honoured == {b \in Bearers : bearer[b] # None /\ b \notin stale}
Promise == INSTANCE GrantPromise WITH given <- Given, token <- CodeOf, live <- Honoured
PromiseKept == Promise!Spec
=============================================================================
