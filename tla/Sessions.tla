------------------------------- MODULE Sessions -------------------------------
(***************************************************************************)
(* Passport sessions: the in-memory token cache (server.tokens), the       *)
(* passport_tokens table behind it, and the Passport names of the accounts *)
(* that both of them store instead of an account key.                      *)
(*                                                                         *)
(* Every HTTP request runs in its own goroutine.  One action of this       *)
(* module is one critical section of server.mu or one database statement   *)
(* (or transaction), so everything the handlers do between two of them can *)
(* interleave with every other request, with the clock and with a restart. *)
(*                                                                         *)
(* An account is identified by its row; its sign-in is abstracted (the     *)
(* overlap of sign-ins and Passport names is the subject of another        *)
(* module).  A request carries one token in one place, its `via'.          *)
(***************************************************************************)
EXTENDS Naturals

CONSTANTS
  Accounts,     \* rows of passport_accounts, registered or not yet
  Names,        \* Passport names
  Tokens,       \* results of randomToken, each drawn at most once
  Requests,     \* goroutines serving HTTP requests
  NoName,       \* no row, no cache entry, an account not registered yet
  NoAccount,
  NoToken,
  Vias,         \* where requests may carry their token
  MaxFaults,    \* bound on database errors in one behaviour
  NamesReused   \* may an account take a name that another one has held?

ASSUME NoNameAssumption == NoName \notin Names
ASSUME NoAccountAssumption == NoAccount \notin Accounts
ASSUME NoTokenAssumption == NoToken \notin Tokens
ASSUME ViasAssumption ==
  Vias \subseteq {"MSPAuth", "PPAuth", "Authorization"} /\ "MSPAuth" \in Vias
ASSUME MaxFaultsAssumption == MaxFaults \in Nat
ASSUME NamesReusedAssumption == NamesReused \in BOOLEAN

VARIABLES
  name,     \* passport_accounts.passport_name, NoName before registration
  row,      \* passport_tokens.passport_name, NoName when there is no row
  expired,  \* tokens whose expires_at has passed
  cache,    \* server.tokens, NoName when there is no entry
  faults,   \* database errors so far
  req,      \* what each goroutine is doing
  \* The rest is history, read by the properties only.
  owner,      \* the account that signed in to get this token
  issued,     \* tokens that reached a client
  closed,     \* tokens whose logout was answered with success
  overlapped, \* tokens whose logout ran beside another request with the token
  holder,     \* the first account to bear each name
  renamed     \* accounts that changed their name

vars == <<name, row, expired, cache, faults, req,
          owner, issued, closed, overlapped, holder, renamed>>
history == <<owner, issued, closed, overlapped, holder, renamed>>

-----------------------------------------------------------------------------
(* What a goroutine holds in its local variables, and where it is. *)

Steps == {"idle", "greet", "cacheNew", "save",
          "lookup", "findToken", "checkHit", "checkRow", "fill",
          "dropRow", "dropCache",
          "logoutRow", "resolve", "update", "rebindRow", "rebindCache"}

\* Which call of tokenUser this is: the only one of its handler, that of
\* requirePassportAuth, those of setPartnerTokenCookies and
\* profileBlobForToken, or that of handleProperties.
Stages == {"reply", "guard", "cookies", "blob", "form"}

Request == [pc: Steps, tok: Tokens \cup {NoToken}, name: Names \cup {NoName},
            acct: Accounts \cup {NoAccount}, stage: Stages, via: Vias]

\* A request with token t, name n and account a in hand.
Start(p, t, n, a) ==
  [pc |-> p, tok |-> t, name |-> n, acct |-> a, stage |-> "reply", via |-> "MSPAuth"]

Idle == Start("idle", NoToken, NoName, NoAccount)

\* A call of tokenUser about to read the cache.
Lookup(t, stage, via) ==
  [pc |-> "lookup", tok |-> t, name |-> NoName, acct |-> NoAccount,
   stage |-> stage, via |-> via]

\* Request q at another step, with a name or an account in hand.
Bear(q, p, n, a) ==
  [pc |-> p, tok |-> q.tok, name |-> n, acct |-> a, stage |-> q.stage, via |-> q.via]
Move(q, p) == Bear(q, p, q.name, q.acct)

TypeOK ==
  /\ name \in [Accounts -> Names \cup {NoName}]
  /\ row \in [Tokens -> Names \cup {NoName}]
  /\ cache \in [Tokens -> Names \cup {NoName}]
  /\ expired \subseteq Tokens
  /\ faults \in 0..MaxFaults
  /\ req \in [Requests -> Request]
  /\ owner \in [Tokens -> Accounts \cup {NoAccount}]
  /\ issued \subseteq Tokens
  /\ closed \subseteq Tokens
  /\ overlapped \subseteq Tokens
  /\ holder \in [Names -> Accounts \cup {NoAccount}]
  /\ renamed \subseteq Accounts

\* An empty database: both seed flags default to the empty string.
Init ==
  /\ name = [a \in Accounts |-> NoName]
  /\ row = [t \in Tokens |-> NoName]
  /\ cache = [t \in Tokens |-> NoName]
  /\ expired = {}
  /\ faults = 0
  /\ req = [r \in Requests |-> Idle]
  /\ owner = [t \in Tokens |-> NoAccount]
  /\ issued = {}
  /\ closed = {}
  /\ overlapped = {}
  /\ holder = [n \in Names |-> NoAccount]
  /\ renamed = {}

-----------------------------------------------------------------------------
(* Helpers *)

Named(n) == {a \in Accounts : name[a] = n}

\* A database statement fails, within the bound.
Fault == faults < MaxFaults /\ faults' = faults + 1

\* Passport names are not unique in the database.  With NamesReused = FALSE
\* the behaviours are those in which nobody takes a name another has held.
MayTake(a, n) == NamesReused \/ holder[n] \in {NoAccount, a}

Take(a, n) ==
  /\ MayTake(a, n)
  /\ name' = [name EXCEPT ![a] = n]
  /\ holder' = [holder EXCEPT ![n] = IF @ = NoAccount THEN a ELSE @]

\* randomToken: a token nobody has seen.
Fresh == {t \in Tokens : owner[t] = NoAccount}

\* Tokens for which a logout has promised that no session is left.
Ended == closed \ overlapped

\* History: the requests other than r that carry token t.
Others(r, t) == {q \in Requests \ {r} : req[q].tok = t}

\* History: a request with token t starts while t is being logged out.
MeetLogout(r, t) ==
  overlapped' =
    IF t \notin Ended /\ \E q \in Others(r, t) : req[q].pc = "logoutRow"
      THEN overlapped \cup {t} ELSE overlapped

\* tokenUser returned true: what the handler that called it does next.
\* requirePassportAuth renews the partner cookies unless MSPAuth is present,
\* and then calls handleProperties.
Accepted(q) ==
  CASE q.stage = "reply" -> Idle
    [] q.stage = "guard" ->
         Lookup(q.tok, IF q.via = "MSPAuth" THEN "form" ELSE "cookies", q.via)
    [] q.stage \in {"cookies", "blob"} -> Lookup(q.tok, "form", q.via)
    [] q.stage = "form" -> Move(q, "resolve")

\* tokenUser returned false.  setPartnerTokenCookies ignores it, and
\* profileBlobForToken asks again.
Refused(q) ==
  CASE q.stage = "cookies" -> Lookup(q.tok, "blob", q.via)
    [] q.stage = "blob" -> Lookup(q.tok, "form", q.via)
    [] q.stage \in {"reply", "guard", "form"} -> Idle

-----------------------------------------------------------------------------
(* Requests arrive *)

\* handleLogin, handleOAuthLogin and handleWizard, up to the draw of the
\* token: authenticate has read the account's name.
Login(r, a) ==
  /\ req[r].pc = "idle"
  /\ name[a] # NoName
  /\ \E t \in Fresh :
       /\ owner' = [owner EXCEPT ![t] = a]
       /\ req' = [req EXCEPT ![r] = Start("cacheNew", t, name[a], NoAccount)]
  /\ UNCHANGED <<name, row, expired, cache, faults,
                 issued, closed, overlapped, holder, renamed>>

\* handleOAuthRegister: createAccount.  Its find and its Create are one step:
\* the primary key lets only one Create of a sign-in succeed.
Register(r, a, n) ==
  /\ req[r].pc = "idle"
  /\ name[a] = NoName
  /\ Take(a, n)
  /\ req' = [req EXCEPT ![r] = Start("greet", NoToken, NoName, a)]
  /\ UNCHANGED <<row, expired, cache, faults,
                 owner, issued, closed, overlapped, renamed>>

\* A handler that calls tokenUser once: handleLogin without credentials,
\* handlePartnerVerify, handlePassportSignIn, browserPassportUser.
Present(r, t) ==
  /\ req[r].pc = "idle"
  /\ t \in issued
  /\ req' = [req EXCEPT ![r] = Lookup(t, "reply", "MSPAuth")]
  /\ MeetLogout(r, t)
  /\ UNCHANGED <<name, row, expired, cache, faults,
                 owner, issued, closed, holder, renamed>>

\* The profile editor behind requirePassportAuth.
Edit(r, t, via) ==
  /\ req[r].pc = "idle"
  /\ t \in issued
  /\ req' = [req EXCEPT ![r] = Lookup(t, "guard", via)]
  /\ MeetLogout(r, t)
  /\ UNCHANGED <<name, row, expired, cache, faults,
                 owner, issued, closed, holder, renamed>>

LogoutKeepsCache(r, t) ==
  /\ req[r].pc = "idle"
  /\ t \in issued
  /\ req' = [req EXCEPT ![r] = Start("logoutRow", t, NoName, NoAccount)]
  /\ overlapped' = IF t \in Ended THEN overlapped
                   ELSE IF Others(r, t) # {} THEN overlapped \cup {t}
                   ELSE overlapped \ {t}
  /\ UNCHANGED <<name, row, expired, cache, faults,
                 owner, issued, closed, holder, renamed>>

\* handleLogout: the cache entry goes first.
Logout(r, t) ==
  /\ req[r].pc = "idle"
  /\ t \in issued
  /\ cache' = [cache EXCEPT ![t] = NoName]
  /\ req' = [req EXCEPT ![r] = Start("logoutRow", t, NoName, NoAccount)]
  /\ overlapped' = IF t \in Ended THEN overlapped
                   ELSE IF Others(r, t) # {} THEN overlapped \cup {t}
                   ELSE overlapped \ {t}
  /\ UNCHANGED <<name, row, expired, faults,
                 owner, issued, closed, holder, renamed>>

-----------------------------------------------------------------------------
(* Signing in: rememberToken *)

\* handleOAuthRegister reads the new account back and draws a token.  Either
\* can fail.
Greet(r) ==
  /\ req[r].pc = "greet"
  /\ \/ \E t \in Fresh :
          /\ owner' = [owner EXCEPT ![t] = req[r].acct]
          /\ req' = [req EXCEPT ![r] =
                       Start("cacheNew", t, name[req[r].acct], NoAccount)]
     \/ req' = [req EXCEPT ![r] = Idle] /\ UNCHANGED owner
  /\ UNCHANGED <<name, row, expired, cache, faults,
                 issued, closed, overlapped, holder, renamed>>

\* The cache is written before the row.
CacheNew(r) ==
  /\ req[r].pc = "cacheNew"
  /\ cache' = [cache EXCEPT ![req[r].tok] = req[r].name]
  /\ req' = [req EXCEPT ![r] = Move(@, "save")]
  /\ UNCHANGED <<name, row, expired, faults, history>>

\* saveToken; the client gets its token only when it succeeds.
Save(r) ==
  /\ req[r].pc = "save"
  /\ req' = [req EXCEPT ![r] = Idle]
  /\ \/ /\ row' = [row EXCEPT ![req[r].tok] = req[r].name]
        /\ issued' = issued \cup {req[r].tok}
        /\ UNCHANGED faults
     \/ Fault /\ UNCHANGED <<row, issued>>
  /\ UNCHANGED <<name, expired, cache, owner, closed, overlapped, holder, renamed>>

-----------------------------------------------------------------------------
(* Resolving a token: tokenUser *)

ReadCache(r) ==
  /\ req[r].pc = "lookup"
  /\ LET n == cache[req[r].tok] IN
       req' = [req EXCEPT ![r] =
                 Bear(@, IF n = NoName THEN "findToken" ELSE "checkHit", n, NoAccount)]
  /\ UNCHANGED <<name, row, expired, cache, faults, history>>

\* Only this path looks at expires_at.
FindToken(r) ==
  /\ req[r].pc = "findToken"
  /\ LET n == row[req[r].tok]
         live == n # NoName /\ req[r].tok \notin expired IN
       \/ /\ live
          /\ req' = [req EXCEPT ![r] = Bear(@, "checkRow", n, NoAccount)]
          /\ UNCHANGED faults
       \/ /\ ~live
          /\ req' = [req EXCEPT ![r] = Refused(@)]
          /\ UNCHANGED faults
       \/ /\ req' = [req EXCEPT ![r] = Refused(@)]
          /\ Fault
  /\ UNCHANGED <<name, row, expired, cache, history>>

\* An error counts like a name nobody bears.
FindByPassportName(r) ==
  /\ req[r].pc \in {"checkHit", "checkRow"}
  /\ \/ /\ Named(req[r].name) # {}
        /\ req' = [req EXCEPT ![r] = IF req[r].pc = "checkHit"
                                       THEN Accepted(req[r])
                                       ELSE Move(req[r], "fill")]
        /\ UNCHANGED faults
     \/ /\ Named(req[r].name) = {}
        /\ req' = [req EXCEPT ![r] = Move(@, "dropRow")]
        /\ UNCHANGED faults
     \/ /\ req' = [req EXCEPT ![r] = Move(@, "dropRow")]
        /\ Fault
  /\ UNCHANGED <<name, row, expired, cache, history>>

FillCache(r) ==
  /\ req[r].pc = "fill"
  /\ cache' = [cache EXCEPT ![req[r].tok] = req[r].name]
  /\ req' = [req EXCEPT ![r] = Accepted(@)]
  /\ UNCHANGED <<name, row, expired, faults, history>>

\* The error of deleteToken is ignored.
DropRow(r) ==
  /\ req[r].pc = "dropRow"
  /\ \/ row' = [row EXCEPT ![req[r].tok] = NoName] /\ UNCHANGED faults
     \/ Fault /\ UNCHANGED row
  /\ req' = [req EXCEPT ![r] = Move(@, "dropCache")]
  /\ UNCHANGED <<name, expired, cache, history>>

DropCacheForgotten(r) ==
  /\ req[r].pc = "dropCache"
  /\ req' = [req EXCEPT ![r] = Refused(@)]
  /\ UNCHANGED <<name, row, cache, expired, faults, history>>

DropCache(r) ==
  /\ req[r].pc = "dropCache"
  /\ cache' = [cache EXCEPT ![req[r].tok] = NoName]
  /\ req' = [req EXCEPT ![r] = Refused(@)]
  /\ UNCHANGED <<name, row, expired, faults, history>>

-----------------------------------------------------------------------------
(* Editing the profile: handleProperties and rebindToken *)

\* passportAccountFromRequest: the account behind the name.  Among accounts
\* of one name the lowest sign-in wins; sign-ins are not modelled here.
Resolve(r) ==
  /\ req[r].pc = "resolve"
  /\ \/ \E a \in Named(req[r].name) :
          /\ req' = [req EXCEPT ![r] = Bear(@, "update", NoName, a)]
          /\ UNCHANGED faults
     \/ /\ Named(req[r].name) = {}
        /\ req' = [req EXCEPT ![r] = Idle]
        /\ UNCHANGED faults
     \/ /\ req' = [req EXCEPT ![r] = Idle]
        /\ Fault
  /\ UNCHANGED <<name, row, expired, cache, history>>

UpdateForgetsSessions(r) ==
  /\ req[r].pc = "update"
  /\ \E n \in Names :
       /\ Take(req[r].acct, n)
       /\ renamed' = IF n = name[req[r].acct] THEN renamed
                     ELSE renamed \cup {req[r].acct}
       /\ req' = [req EXCEPT ![r] =
                    IF req[r].via = "PPAuth" THEN Idle
                    ELSE Bear(req[r], "rebindRow", n, req[r].acct)]
  /\ UNCHANGED <<row, expired, cache, faults, owner, issued, closed, overlapped>>

UpdateTakesAnyRow(r) ==
  /\ req[r].pc = "update"
  /\ \E n \in Names :
       /\ Take(req[r].acct, n)
       /\ row' = [t \in Tokens |-> IF row[t] # NoName THEN n ELSE row[t]]
       /\ renamed' = IF n = name[req[r].acct] THEN renamed
                     ELSE renamed \cup {req[r].acct}
       /\ req' = [req EXCEPT ![r] =
                    IF req[r].via = "PPAuth" THEN Idle
                    ELSE Bear(req[r], "rebindRow", n, req[r].acct)]
  /\ UNCHANGED <<expired, cache, faults, owner, issued, closed, overlapped>>

\* updateAccount's transaction: the account's row and every token row that
\* bears its old name.  Then rebindToken(tokenFromRequest(r), ...), which
\* finds no token in a request that has only PPAuth and returns at once.
UpdateAccount(r) ==
  /\ req[r].pc = "update"
  /\ \E n \in Names :
       /\ Take(req[r].acct, n)
       /\ row' = [t \in Tokens |->
                    IF row[t] = name[req[r].acct] THEN n ELSE row[t]]
       /\ renamed' = IF n = name[req[r].acct] THEN renamed
                     ELSE renamed \cup {req[r].acct}
       /\ req' = [req EXCEPT ![r] =
                    IF req[r].via = "PPAuth" THEN Idle
                    ELSE Bear(req[r], "rebindRow", n, req[r].acct)]
  /\ UNCHANGED <<expired, cache, faults, owner, issued, closed, overlapped>>

\* A GET, a rejected form, or a transaction that failed.
EditEnds(r) ==
  /\ req[r].pc = "update"
  /\ req' = [req EXCEPT ![r] = Idle]
  /\ UNCHANGED <<name, row, expired, cache, faults, history>>

RebindStoresAccount(r) ==
  /\ req[r].pc = "rebindRow"
  /\ row' = [row EXCEPT ![req[r].tok] =
               IF @ = NoName THEN NoName ELSE req[r].acct]
  /\ req' = [req EXCEPT ![r] = Move(@, "rebindCache")]
  /\ UNCHANGED <<name, expired, cache, faults, history>>

RebindSavesRow(r) ==
  /\ req[r].pc = "rebindRow"
  /\ \/ /\ row' = [row EXCEPT ![req[r].tok] = req[r].name]
        /\ req' = [req EXCEPT ![r] = Move(@, "rebindCache")]
        /\ UNCHANGED faults
     \/ req' = [req EXCEPT ![r] = Idle] /\ Fault /\ UNCHANGED row
  /\ UNCHANGED <<name, expired, cache, history>>

\* updateTokenIdentity: an UPDATE, so a row that is gone stays gone, and
\* that is no error.
RebindRow(r) ==
  /\ req[r].pc = "rebindRow"
  /\ \/ /\ row' = [row EXCEPT ![req[r].tok] =
                     IF @ = NoName THEN NoName ELSE req[r].name]
        /\ req' = [req EXCEPT ![r] = Move(@, "rebindCache")]
        /\ UNCHANGED faults
     \/ req' = [req EXCEPT ![r] = Idle] /\ Fault /\ UNCHANGED row
  /\ UNCHANGED <<name, expired, cache, history>>

RebindForgetsCache(r) ==
  /\ req[r].pc = "rebindCache"
  /\ req' = [req EXCEPT ![r] = Idle]
  /\ UNCHANGED <<name, row, cache, expired, faults, history>>

RebindCache(r) ==
  /\ req[r].pc = "rebindCache"
  /\ cache' = [cache EXCEPT ![req[r].tok] = req[r].name]
  /\ req' = [req EXCEPT ![r] = Idle]
  /\ UNCHANGED <<name, row, expired, faults, history>>

-----------------------------------------------------------------------------
(* Logging out, time and restarts *)

LogoutEverywhere(r) ==
  /\ req[r].pc = "logoutRow"
  /\ req' = [req EXCEPT ![r] = Idle]
  /\ row' = [t \in Tokens |-> IF row[t] = row[req[r].tok] THEN NoName ELSE row[t]]
  /\ closed' = closed \cup {req[r].tok}
  /\ UNCHANGED <<name, expired, cache, faults,
                 owner, issued, overlapped, holder, renamed>>

\* handleLogout: the row goes second; an error is answered with 500.
LogoutRow(r) ==
  /\ req[r].pc = "logoutRow"
  /\ req' = [req EXCEPT ![r] = Idle]
  /\ \/ /\ row' = [row EXCEPT ![req[r].tok] = NoName]
        /\ closed' = closed \cup {req[r].tok}
        /\ UNCHANGED faults
     \/ Fault /\ UNCHANGED <<row, closed>>
  /\ UNCHANGED <<name, expired, cache, owner, issued, overlapped, holder, renamed>>

\* passportTokenLifetime is over.
Expire(t) ==
  /\ row[t] # NoName
  /\ t \notin expired
  /\ expired' = expired \cup {t}
  /\ UNCHANGED <<name, row, cache, faults, req, history>>

\* The process dies and starts again on the same database.
Restart ==
  /\ cache' = [t \in Tokens |-> NoName]
  /\ req' = [r \in Requests |-> Idle]
  /\ overlapped' = {}
  /\ UNCHANGED <<name, row, expired, faults,
                 owner, issued, closed, holder, renamed>>

-----------------------------------------------------------------------------
Begin(r) ==
  \/ \E a \in Accounts : Login(r, a)
  \/ \E a \in Accounts, n \in Names : Register(r, a, n)
  \/ \E t \in Tokens : Present(r, t)
  \/ \E t \in Tokens, via \in Vias : Edit(r, t, via)
  \/ \E t \in Tokens : Logout(r, t)

Serve(r) ==
  \/ Greet(r) \/ CacheNew(r) \/ Save(r)
  \/ ReadCache(r) \/ FindToken(r) \/ FindByPassportName(r) \/ FillCache(r)
  \/ DropRow(r) \/ DropCache(r)
  \/ Resolve(r) \/ UpdateAccount(r) \/ EditEnds(r)
  \/ RebindRow(r) \/ RebindCache(r)
  \/ LogoutRow(r)

Next ==
  \/ \E r \in Requests : Begin(r) \/ Serve(r)
  \/ \E t \in Tokens : Expire(t)
  \/ Restart

Spec == Init /\ [][Next]_vars

\* A goroutine that has started goes on; clients, the clock and crashes are
\* under no obligation.
FairSpec == Spec /\ \A r \in Requests : WF_vars(Serve(r))

-----------------------------------------------------------------------------
(* Properties *)

\* While no name is handed on from one account to another, whatever the cache
\* or the table says of a token never names an account other than the one
\* that signed in for it, and an edit changes that account only.  It is what
\* keeps a rename that runs beside logins, lookups and other renames from
\* moving a session to somebody else.
SessionIdentity ==
  ~NamesReused =>
    /\ \A t \in Tokens, a \in Accounts :
         name[a] # NoName /\ name[a] \in {cache[t], row[t]} => a = owner[t]
    /\ \A r \in Requests :
         req[r].pc = "update" => req[r].acct = owner[req[r].tok]

\* A logout that was answered with success leaves no row behind, whatever ran
\* beside it, and if no other request of the token overlapped it, no cache
\* entry either: the session cannot come back, even after a restart.
LogoutFinal ==
  \A t \in closed : row[t] = NoName /\ (t \notin overlapped => cache[t] = NoName)

\* Without database errors the session of an account that never changed its
\* name survives whatever others do: their renames, logouts and the clean-up
\* of their stale tokens leave its row alone.
UntouchedSessionSurvives ==
  ~NamesReused /\ faults = 0 =>
    \A t \in issued \ closed :
      owner[t] \notin renamed => row[t] = name[owner[t]]

\* One request at a time: a rename takes along every row that bears the old
\* name, so a session outlives a restart of the server as its owner's.
RowsFollowRename ==
  \A t \in Tokens : row[t] # NoName => row[t] = name[owner[t]]

\* A token that was logged out with success is not authenticated any more
\* (tests/lunapassport_test.go, "fully logged out Passport session must
\* require sign-in").  True of one request at a time.
LogoutRequiresSignIn == \A t \in closed : cache[t] = NoName /\ row[t] = NoName

\* The name tokenUser would find for a token now, and whether it would accept.
Bearing(t) == IF cache[t] # NoName THEN cache[t]
              ELSE IF t \in expired THEN NoName ELSE row[t]
Authenticates(t) == Bearing(t) # NoName /\ Named(Bearing(t)) # {}

\* An edit that ends after rebindToken leaves its own session authenticated,
\* and cache and row in agreement, so that it also survives a restart.  True of
\* one request at a time.
RebindKeepsSession ==
  [][\A r \in Requests, t \in Tokens :
       RebindCache(r) /\ req[r].tok = t
         => Authenticates(t)' /\ row'[t] = cache'[t]]_vars

\* The session with which an account was updated stays authenticated
\* (tests/lunapassport_test.go, "updated Passport session must remain
\* authenticated"), wherever the request carried its token.
UpdatedSessionStays ==
  [][\A r \in Requests, t \in Tokens :
       /\ UpdateAccount(r) \/ RebindCache(r)
       /\ req[r].tok = t
       /\ req'[r] = Idle
       => Authenticates(t)']_vars

\* What the sessions promise, in the words of SessionPromise: a token serves
\* the account that opened it or nobody, and once its session has ended, with
\* a logout no other request of the token overlapped, it serves nobody.
Served(t) == IF Authenticates(t) THEN CHOOSE a \in Accounts : name[a] = Bearing(t)
             ELSE NoAccount
Serving == [t \in Tokens |-> Served(t)]
Promise == INSTANCE SessionPromise
             WITH opened <- owner, serves <- Serving, ended <- Ended
PromiseKept == Promise!Spec

\* A lookup that meets a cached name which nobody bears does not leave it
\* there: sooner or later the entry is gone or replaced, or somebody has taken
\* the name.
StaleEntryEvicted ==
  \A r \in Requests, t \in Tokens, n \in Names :
    (req[r].pc = "checkHit" /\ req[r].tok = t /\ req[r].name = n /\ Named(n) = {})
      ~> (cache[t] # n \/ Named(n) # {})
=============================================================================
