------------------------------- MODULE Browser -------------------------------
(***************************************************************************)
(* What one browser carries.  The server keeps no state per browser: who   *)
(* is signed in, whether a sign-in is pending and which forms validate all *)
(* depend on four cookies and on the ticket of an Authorization header.    *)
(* Two of the cookies name a session, PPAuth and MSPAuth, and they may     *)
(* name different ones; some handlers look at one first, some at the other.*)
(*                                                                         *)
(* A request leaves with a copy of the jar, is handled in one action, and  *)
(* its answer changes the jar when it arrives: answers arrive in any order *)
(* or not at all.  Which account a token stands for and how a handler      *)
(* interleaves with another one on the token's row is in module Sessions;  *)
(* here a token is live or not.                                            *)
(***************************************************************************)
CONSTANTS
  Tokens,      \* results of randomToken(24) for sessions
  Forms,       \* results of randomToken(16) for CSRF tokens
  Requests,    \* requests this browser has under way at a time
  Visits,      \* what the browser asks for, a subset of Urls
  Beside,      \* what it asks for beside something else: a bound
  Tickets,     \* does it send tickets in Authorization headers?
  Expires,     \* may a token die other than by a logout?
  Loses,       \* may a request or an answer be lost?
  None,        \* no cookie, no token, no ticket
  Keep         \* an answer leaves this cookie alone

ASSUME NoneAssumption ==
  None \notin Tokens \cup Forms \cup {"1"} /\ Keep \notin Tokens \cup Forms \cup {None, "1"}
ASSUME FlagsAssumption == {Tickets, Expires, Loses} \subseteq BOOLEAN

\* What can be asked for: login2 with and without a password, in WinHTTP's
\* way or with browser=1 and an allowlisted ru; a page with a form and its
\* post; a registration, whose form has no CSRF token; both halves of the
\* wizard; the partner pages; the profile editor, with passportretry=1 or not;
\* the logout.
SignIns == {"login", "login classic", "post", "register", "fallback"}
Urls == SignIns \cup {"reuse", "reuse classic", "form", "finish", "partner",
                      "signin", "complete", "edit", "retry", "logout"}

ASSUME VisitsAssumption == Beside \subseteq Visits /\ Visits \subseteq Urls

VARIABLES
  issued,  \* tokens drawn so far
  live,    \* tokens for which tokenUser finds an account
  given,   \* CSRF tokens drawn so far
  jar,     \* the cookies the browser holds
  ticket,  \* the last from-PP ticket it was handed
  open,    \* CSRF tokens in the forms it has open
  req,     \* its requests and their answers
  \* The rest is history, read by the properties only.
  plain,   \* requests came one at a time, no answer was lost and no token died
  raced,   \* two pages were asked for without a CSRF cookie at a time
  asked,   \* a sign-in was asked of it and it was not let in since
  out      \* it logged out and has not signed in since

vars == <<issued, live, given, jar, ticket, open, req, plain, raced, asked, out>>

-----------------------------------------------------------------------------

Cookies == {"PPAuth", "MSPAuth", "attempt", "LPCsrf"}
SessionCookies == {"PPAuth", "MSPAuth"}

Values(c) == CASE c \in SessionCookies -> Tokens
               [] c = "LPCsrf"  -> Forms
               [] c = "attempt" -> {"1"}

NoCookies == [c \in Cookies |-> None]
AsIs == [c \in Cookies |-> Keep]

Pages == {"none", "signed in", "challenge", "cancelled", "editor", "form", "signed out"}

Value == Tokens \cup Forms \cup {"1", None}

\* set, page, ticket and form: the answer.
Request == [pc: {"idle", "sent", "answered"}, op: Urls \cup {"none"},
            jar: [Cookies -> Value], auth: Tokens \cup {None}, csrf: Forms \cup {None},
            set: [Cookies -> Value \cup {Keep}], page: Pages,
            ticket: Tokens \cup {None}, form: Forms \cup {None}]

Idle == [pc |-> "idle", op |-> "none", jar |-> NoCookies, auth |-> None, csrf |-> None,
         set |-> AsIs, page |-> "none", ticket |-> None, form |-> None]

TypeOK ==
  /\ issued \in SUBSET Tokens /\ live \in SUBSET issued
  /\ given \in SUBSET Forms /\ open \in SUBSET given
  /\ jar \in [Cookies -> Value]
  /\ \A c \in Cookies : jar[c] \in Values(c) \cup {None}
  /\ \A c \in SessionCookies : jar[c] \in issued \cup {None}
  /\ ticket \in issued \cup {None}
  /\ req \in [Requests -> Request]
  /\ {plain, raced, asked, out} \subseteq BOOLEAN

Init ==
  /\ issued = {} /\ live = {} /\ given = {} /\ open = {}
  /\ jar = NoCookies /\ ticket = None
  /\ req = [r \in Requests |-> Idle]
  /\ plain = TRUE /\ raced = FALSE /\ asked = FALSE /\ out = FALSE

-----------------------------------------------------------------------------
(* The browser and the wire.                                               *)

Outstanding(r) == {s \in Requests \ {r} : req[s].pc /= "idle"}

\* A page that carries a form asks for a CSRF cookie when none came with it.
NeedsCsrf(op, cookies) == op = "form" /\ cookies["LPCsrf"] = None

Send(r) ==
  /\ req[r].pc = "idle"
  /\ \E op \in Visits, auth \in {None} \cup (IF Tickets THEN {ticket} ELSE {}),
        csrf \in open \cup {None} :
       /\ \A s \in Outstanding(r) : {op, req[s].op} \subseteq Beside
       /\ (csrf /= None) <=> (op = "post")
       /\ op \in {"login", "login classic"} => auth = None
       /\ req' = [req EXCEPT ![r] = [Idle EXCEPT !.pc = "sent", !.op = op, !.jar = jar,
                                                 !.auth = auth, !.csrf = csrf]]
       /\ plain' = (plain /\ Outstanding(r) = {})
       /\ raced' = (raced \/ (/\ NeedsCsrf(op, jar)
                              /\ \E s \in Outstanding(r) : req[s].op = "form"))
       /\ out' = (out /\ op \notin SignIns /\ auth = None)
  /\ UNCHANGED <<issued, live, given, jar, ticket, open, asked>>

Merged(cookies, set) == [c \in Cookies |-> IF set[c] = Keep THEN cookies[c] ELSE set[c]]

Deliver(r) ==
  LET q == req[r]
      alone == Outstanding(r) = {}
  IN /\ q.pc = "answered"
     /\ jar' = Merged(jar, q.set)
     /\ ticket' = IF q.ticket = None THEN ticket ELSE q.ticket
     /\ open' = IF q.form = None THEN open ELSE open \cup {q.form}
     /\ asked' = (asked /\ ~(alone /\ q.page \in {"editor", "signed out"}))
     /\ out' = (out \/ (alone /\ q.page = "signed out"))
     /\ req' = [req EXCEPT ![r] = Idle]
     /\ UNCHANGED <<issued, live, given, plain, raced>>

Lose(r) ==
  /\ Loses
  /\ req[r].pc /= "idle"
  /\ req' = [req EXCEPT ![r] = Idle]
  /\ plain' = FALSE
  /\ UNCHANGED <<issued, live, given, jar, ticket, open, raced, asked, out>>

\* The attempt cookie lives for 300 seconds.
AttemptExpires ==
  /\ jar["attempt"] /= None
  /\ jar' = [jar EXCEPT !["attempt"] = None]
  /\ UNCHANGED <<issued, live, given, ticket, open, req, plain, raced, asked, out>>

\* The row expired or went away with the name of its account.
TokenDies(t) ==
  /\ Expires
  /\ t \in live
  /\ live' = live \ {t}
  /\ plain' = FALSE
  /\ UNCHANGED <<issued, given, jar, ticket, open, req, raced, asked, out>>

-----------------------------------------------------------------------------
(* Which token a request is taken to carry.                                *)

TokenFromRequest(q) == IF q.jar["MSPAuth"] /= None THEN q.jar["MSPAuth"] ELSE q.auth

PassportToken(q) == IF q.jar["PPAuth"] /= None THEN q.jar["PPAuth"] ELSE TokenFromRequest(q)

\* TokenFromRequest first; PassportToken only when that finds nothing.
HasValidPassportAuth(q) ==
  (IF TokenFromRequest(q) /= None THEN TokenFromRequest(q) ELSE PassportToken(q)) \in live

-----------------------------------------------------------------------------
(* The handlers.  Answer(r, cookies, page, t) ends one.                    *)

Answer(r, cookies, page, t) ==
  req' = [req EXCEPT ![r] = [Idle EXCEPT !.pc = "answered", !.set = cookies,
                                         !.page = page, !.ticket = t]]

SetPPAuthMisnamed(t) == [AsIs EXCEPT !["attempt"] = t]

SetPPAuth(t) == [AsIs EXCEPT !["PPAuth"] = t]
SetPartnerToken(t) == [AsIs EXCEPT !["MSPAuth"] = t]
SetBoth(t) == [AsIs EXCEPT !["PPAuth"] = t, !["MSPAuth"] = t]

Handling(r, ops) == req[r].pc = "sent" /\ req[r].op \in ops

Still == UNCHANGED <<jar, open, ticket, plain, raced, out>>

Draw(t) ==
  /\ t \in Tokens \ issued
  /\ issued' = issued \cup {t}
  /\ live' = live \cup {t}

\* handleLogin with a password that opens an account, and handleOAuthRegister
\* where it creates one.
Login(r) ==
  \E t \in Tokens \ issued :
    /\ Draw(t)
    /\ \/ /\ Handling(r, {"login"})
          /\ Answer(r, SetPPAuth(t), "signed in", t)
       \/ /\ Handling(r, {"login classic"})
          /\ Answer(r, SetBoth(t), "signed in", None)
       \/ /\ Handling(r, {"register"})
          /\ Answer(r, SetPPAuth(t), "signed in", None)
    /\ Still /\ UNCHANGED <<given, asked>>

\* handleLogin without a password: the session the request carries.
Reuse(r) ==
  LET t == PassportToken(req[r])
  IN /\ t \in live
     /\ \/ /\ Handling(r, {"reuse"})
           /\ Answer(r, SetPPAuth(t), "signed in", t)
        \/ /\ Handling(r, {"reuse classic"})
           /\ Answer(r, SetBoth(t), "signed in", None)
     /\ Still /\ UNCHANGED <<issued, live, given, asked>>

\* Every way to be told to sign in, with no cookie set: a wrong password, a
\* registration that is refused, or no live session where one is needed.
Refuse(r) ==
  LET q == req[r]
      sought == IF q.op \in {"partner"} THEN TokenFromRequest(q)
                ELSE IF q.op = "signin" THEN q.auth ELSE PassportToken(q)
  IN /\ \/ Handling(r, {"login", "login classic", "register", "fallback"})
        \/ /\ Handling(r, {"reuse", "reuse classic", "partner", "signin", "complete"})
           /\ sought \notin live
        \/ /\ Handling(r, {"finish"})
           /\ sought \notin live /\ ~HasValidPassportAuth(q)
        \/ /\ Handling(r, {"post"})
           /\ q.jar["LPCsrf"] /= q.csrf
     /\ Answer(r, AsIs, "challenge", None)
     /\ Still /\ UNCHANGED <<issued, live, given, asked>>

EnsureAlwaysDraws(q, f) == f \in Forms \ given

\* The form of /oauth/login and of the consent and partners pages.
EnsureCSRFToken(q, f) ==
  IF q.jar["LPCsrf"] /= None THEN f = q.jar["LPCsrf"] ELSE f \in Forms \ given

Form(r) ==
  \E f \in Forms :
    /\ Handling(r, {"form"})
    /\ EnsureCSRFToken(req[r], f)
    /\ given' = given \cup {f}
    /\ req' = [req EXCEPT ![r] =
                [Idle EXCEPT !.pc = "answered", !.op = "form", !.page = "form", !.form = f,
                   !.set = IF req[r].jar["LPCsrf"] = None
                           THEN [AsIs EXCEPT !["LPCsrf"] = f] ELSE AsIs]]
    /\ Still /\ UNCHANGED <<issued, live, asked>>

\* handleOAuthLogin, POST: a wrong password renders the form again.
Post(r) ==
  LET q == req[r]
  IN /\ Handling(r, {"post"})
     /\ q.jar["LPCsrf"] = q.csrf
     /\ \/ \E t \in Tokens \ issued :
             /\ Draw(t)
             /\ Answer(r, SetPPAuth(t), "signed in", None)
        \/ /\ req' = [req EXCEPT ![r] = [Idle EXCEPT !.pc = "answered", !.page = "form",
                                                     !.form = q.csrf]]
           /\ UNCHANGED <<issued, live>>
     /\ Still /\ UNCHANGED <<given, asked>>

\* handleWizard, step 2 with fallback=1.
Fallback(r) ==
  \E t \in Tokens \ issued :
    /\ Handling(r, {"fallback"})
    /\ Draw(t)
    /\ Answer(r, SetBoth(t), "signed in", None)
    /\ Still /\ UNCHANGED <<given, asked>>

\* handleWizard, step 3: without a ticket of its own when only the token
\* that PassportToken passes over is live.
Finish(r) ==
  LET q == req[r]
      t == PassportToken(q)
  IN /\ Handling(r, {"finish"})
     /\ \/ t \in live /\ Answer(r, SetPartnerToken(t), "signed in", t)
        \/ /\ t \notin live /\ HasValidPassportAuth(q)
           /\ Answer(r, AsIs, "signed in", None)
     /\ Still /\ UNCHANGED <<issued, live, given, asked>>

\* handlePartner, handlePassportSignIn and handlePartnerComplete.
Partner(r) ==
  LET q == req[r]
  IN /\ \/ /\ Handling(r, {"partner"}) /\ TokenFromRequest(q) \in live
           /\ Answer(r, SetPartnerToken(TokenFromRequest(q)), "signed in", TokenFromRequest(q))
        \/ /\ Handling(r, {"signin"}) /\ q.auth \in live
           /\ Answer(r, SetPartnerToken(q.auth), "signed in", q.auth)
        \/ /\ Handling(r, {"complete"}) /\ PassportToken(q) \in live
           /\ Answer(r, SetPartnerToken(PassportToken(q)), "signed in", None)
     /\ Still /\ UNCHANGED <<issued, live, given, asked>>

AdmissionKeepsAttempt(q) ==
  [AsIs EXCEPT !["MSPAuth"] = IF q.jar["MSPAuth"] = None THEN PassportToken(q) ELSE Keep]

\* requirePassportAuth lets the request through to the profile editor.
Admission(q) ==
  LET t == PassportToken(q)
  IN [AsIs EXCEPT !["attempt"] = None,
                  !["MSPAuth"] = IF t /= None /\ q.jar["MSPAuth"] = None THEN t ELSE Keep]

Admit(r) ==
  LET q == req[r]
  IN /\ Handling(r, {"edit", "retry"})
     /\ HasValidPassportAuth(q)
     /\ Answer(r, Admission(q), "editor", None)
     /\ Still /\ UNCHANGED <<issued, live, given, asked>>

\* requirePassportAuth: a sign-in already pending is taken for a cancelled
\* one, unless the page is asked for again.
Challenge(r) ==
  LET q == req[r]
      cancelled == q.jar["attempt"] /= None /\ q.op = "edit"
  IN /\ Handling(r, {"edit", "retry"})
     /\ ~HasValidPassportAuth(q)
     /\ IF cancelled
        THEN Answer(r, AsIs, "cancelled", None)
        ELSE Answer(r, [AsIs EXCEPT !["attempt"] = "1"], "challenge", None)
     /\ asked' = (asked \/ ~cancelled)
     /\ Still /\ UNCHANGED <<issued, live, given>>

ClearedPassportOnly == [AsIs EXCEPT !["PPAuth"] = None, !["attempt"] = None]

\* handleLogout: one token is revoked, every cookie of a session cleared.
Cleared == [AsIs EXCEPT !["PPAuth"] = None, !["MSPAuth"] = None, !["attempt"] = None]

Logout(r) ==
  /\ Handling(r, {"logout"})
  /\ live' = live \ {PassportToken(req[r])}
  /\ Answer(r, Cleared, "signed out", None)
  /\ Still /\ UNCHANGED <<issued, given, asked>>

\* deleteToken fails: the row stays, and so do the cookies.
LogoutFails(r) ==
  /\ Handling(r, {"logout"})
  /\ PassportToken(req[r]) /= None
  /\ Answer(r, AsIs, "none", None)
  /\ Still /\ UNCHANGED <<issued, live, given, asked>>

Handle(r) ==
  \/ Login(r) \/ Reuse(r) \/ Refuse(r) \/ Form(r) \/ Post(r) \/ Fallback(r) \/ Finish(r)
  \/ Partner(r) \/ Admit(r) \/ Challenge(r) \/ Logout(r) \/ LogoutFails(r)

Next ==
  \/ \E r \in Requests : Send(r) \/ Handle(r) \/ Deliver(r) \/ Lose(r)
  \/ AttemptExpires
  \/ \E t \in Tokens : TokenDies(t)

Spec == Init /\ [][Next]_vars

-----------------------------------------------------------------------------
(* Properties.                                                             *)

Gate == {"edit", "retry"}

\* As long as requests come one at a time and tokens die by logouts alone, a
\* browser that holds a live PPAuth cookie, and sends no dead ticket, is never
\* asked to sign in by the profile editor, nor told that it cancelled: no
\* MSPAuth cookie left behind by requirePassportAuth, by the partner pages, by
\* the wizard or by a logout stands in its way (hasValidPassportAuth, which
\* does not look at PPAuth where MSPAuth is dead).  With tickets, or tokens that
\* expire, one can: the gate checks the ticket, but copies the PPAuth cookie
\* beside it, which may be dead, into MSPAuth.
SignedInIsLetIn ==
  [][\A r \in Requests :
       (/\ plain
        /\ Handling(r, Gate) /\ req'[r].page \in {"challenge", "cancelled"}
        /\ req[r].auth \in live \cup {None})
         => req[r].jar["PPAuth"] \notin live]_vars

\* Every form the browser has open still validates (validateCSRF), unless two
\* pages were asked for at a time before it had a CSRF cookie.
OpenFormsValidate == raced \/ \A f \in open : f = jar["LPCsrf"]

\* A browser is told that it cancelled only when it was asked to sign in and
\* has not been let in or logged out since (the attempt cookie).
CancelledWasAsked ==
  (\/ jar["attempt"] /= None
   \/ \E r \in Requests : req[r].page = "cancelled") => asked

\* After a logout whose answer came last, no answer brings a session back
\* before the browser gives a password or a ticket again.  It is the browser
\* that forgets: handleLogout revokes one of the tokens the request carried.
SignedOutStaysOut == out => \A c \in SessionCookies : jar[c] = None

=============================================================================
