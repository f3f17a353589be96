------------------------------- MODULE Identity -------------------------------
(***************************************************************************)
(* Who is meant by a string: sessions are kept by Passport name, accounts  *)
(* by sign-in, and the handlers translate one into the other with find     *)
(* (sign-in, the primary key) and findByPassportName (not unique: the row  *)
(* with the lowest sign-in is returned).  The profile editor tries the     *)
(* name of its session as a sign-in before it tries it as a name.          *)
(*                                                                         *)
(* E-mail addresses and Passport names are drawn from one set of texts, so *)
(* that an account may be called what another signs in with, and several   *)
(* may have one name.  One action is one call into the account store with  *)
(* what the handler does on its own before the next one; tokenUser and     *)
(* rememberToken, whose inner steps are the subject of module Sessions,    *)
(* are one action each.  Any call may fail and end its request.            *)
(***************************************************************************)
EXTENDS Integers

CONSTANTS
  Accounts,  \* rows of passport_accounts, registered or not yet
  Texts,     \* sign-ins and Passport names, in the order of the primary key
  Emails,    \* those with an @: only they may be sign-ins
  Tokens,    \* results of randomToken
  Requests,  \* goroutines serving HTTP requests
  NoAccount  \* nobody has drawn the token yet

ASSUME TextsAssumption == Texts \subseteq Nat \ {0} /\ Emails \subseteq Texts
ASSUME NoAccountAssumption == NoAccount \notin Accounts

Empty == 0    \* the empty string: no name, no sign-in yet
Absent == -1  \* no entry for the token

VARIABLES
  signIn,  \* passport_accounts.sign_in
  name,    \* passport_accounts.passport_name
  row,     \* passport_tokens.passport_name
  cache,   \* server.tokens
  req,     \* what each goroutine is doing
  \* The rest is history, read by the properties only.
  owner,   \* the account each token was drawn for
  bore,    \* the accounts that have borne each text, in either role
  strayed  \* <<a, b>>: a session of a was taken for account b

vars == <<signIn, name, row, cache, req, owner, bore, strayed>>

-----------------------------------------------------------------------------
(* What a goroutine holds in its local variables, and where it is. *)

Steps == {"idle", "greet", "remember", "bySignIn", "byName", "update", "rebind",
          "consent", "describe", "answer"}

Request == [pc: Steps, tok: Tokens \cup {Absent}, text: Texts \cup {Empty},
            name: Texts \cup {Empty}, acct: Accounts \cup {NoAccount}]

\* Token t, a text to look up or to store and, in an answer, a name.
At(p, t, x) == [pc |-> p, tok |-> t, text |-> x, name |-> Empty, acct |-> NoAccount]

Idle == At("idle", Absent, Empty)

TypeOK ==
  /\ signIn \in [Accounts -> Emails \cup {Empty}]
  /\ name \in [Accounts -> Texts \cup {Empty}]
  /\ row \in [Tokens -> Texts \cup {Empty, Absent}]
  /\ cache \in [Tokens -> Texts \cup {Empty, Absent}]
  /\ req \in [Requests -> Request]
  /\ owner \in [Tokens -> Accounts \cup {NoAccount}]
  /\ bore \in [Texts -> SUBSET Accounts]
  /\ strayed \subseteq Accounts \X Accounts

\* An empty database: both seed flags default to the empty string.
Init ==
  /\ signIn = [a \in Accounts |-> Empty]
  /\ name = [a \in Accounts |-> Empty]
  /\ row = [t \in Tokens |-> Absent]
  /\ cache = [t \in Tokens |-> Absent]
  /\ req = [r \in Requests |-> Idle]
  /\ owner = [t \in Tokens |-> NoAccount]
  /\ bore = [x \in Texts |-> {}]
  /\ strayed = {}

-----------------------------------------------------------------------------
(* Helpers *)

Registered(a) == signIn[a] # Empty

\* find: sign-ins are unique.
BySignIn(x) == {a \in Accounts : Registered(a) /\ signIn[a] = x}

\* findByPassportName: First orders by the primary key.
Named(x) == {a \in Accounts : Registered(a) /\ name[a] = x}
ByPassportName(x) == {a \in Named(x) : \A b \in Named(x) : signIn[a] <= signIn[b]}

\* What tokenUser finds out about a token.
Stored(t) == IF cache[t] # Absent THEN cache[t] ELSE row[t]

Fresh == {t \in Tokens : owner[t] = NoAccount}

\* Account a signs in with s and is called n from now on, history included.
Bear(a, s, n) ==
  /\ signIn' = [signIn EXCEPT ![a] = s]
  /\ name' = [name EXCEPT ![a] = n]
  /\ bore' = [x \in Texts |-> IF x \in {s, n} THEN bore[x] \cup {a} ELSE bore[x]]

\* History: a session of a was taken for account b.
TakenFor(a, b) == strayed' = IF a = b THEN strayed ELSE strayed \cup {<<a, b>>}

-----------------------------------------------------------------------------
(* Signing in *)

RegisterSwapped(r, a, s, n) ==
  /\ req[r].pc = "idle"
  /\ ~Registered(a)
  /\ BySignIn(s) = {}
  /\ Bear(a, n, s)
  /\ req' = [req EXCEPT ![r] = [At("greet", Absent, s) EXCEPT !.acct = a]]
  /\ UNCHANGED <<row, cache, owner, strayed>>

\* handleOAuthRegister: createAccount finds the sign-in free.
Register(r, a, s, n) ==
  /\ req[r].pc = "idle"
  /\ ~Registered(a)
  /\ BySignIn(s) = {}
  /\ Bear(a, s, n)
  /\ req' = [req EXCEPT ![r] = [At("greet", Absent, s) EXCEPT !.acct = a]]
  /\ UNCHANGED <<row, cache, owner, strayed>>

GreetAnybody(r) ==
  /\ req[r].pc = "greet"
  /\ \E t \in Fresh, b \in {a \in Accounts : Registered(a)} :
       /\ req' = [req EXCEPT ![r] = At("remember", t, name[b])]
       /\ owner' = [owner EXCEPT ![t] = req[r].acct]
       /\ TakenFor(req[r].acct, b)
  /\ UNCHANGED <<signIn, name, row, cache, bore>>

\* The account is read back by its sign-in; found is ignored, and the name is
\* empty when the account has meanwhile moved on to another sign-in.
Greet(r) ==
  /\ req[r].pc = "greet"
  /\ \E t \in Fresh :
       /\ owner' = [owner EXCEPT ![t] = req[r].acct]
       /\ \/ \E b \in BySignIn(req[r].text) :
               /\ req' = [req EXCEPT ![r] = At("remember", t, name[b])]
               /\ TakenFor(req[r].acct, b)
          \/ /\ BySignIn(req[r].text) = {}
             /\ req' = [req EXCEPT ![r] = At("remember", t, Empty)]
             /\ UNCHANGED strayed
  /\ UNCHANGED <<signIn, name, row, cache, bore>>

\* authenticate, in handleLogin, handleOAuthLogin and handleWizard.
Login(r, s) ==
  /\ req[r].pc = "idle"
  /\ \E t \in Fresh, a \in BySignIn(s) :
       /\ owner' = [owner EXCEPT ![t] = a]
       /\ req' = [req EXCEPT ![r] = At("remember", t, name[a])]
  /\ UNCHANGED <<signIn, name, row, cache, bore, strayed>>

RememberToken(r) ==
  /\ req[r].pc = "remember"
  /\ cache' = [cache EXCEPT ![req[r].tok] = req[r].text]
  /\ row' = [row EXCEPT ![req[r].tok] = req[r].text]
  /\ req' = [req EXCEPT ![r] = Idle]
  /\ UNCHANGED <<signIn, name, owner, bore, strayed>>

-----------------------------------------------------------------------------
(* Requests that carry a token: tokenUser, then the handler *)

\* Where the handler goes on once tokenUser has told the name.
Handlers == {"bySignIn",  \* handleProperties
             "consent",   \* handleOAuthConsent
             "describe"}  \* handlePartnerVerify

\* tokenUser.  Nobody bears the name, or the lookup fails: the session ends.
TokenUser(r, t, p) ==
  /\ req[r].pc = "idle"
  /\ owner[t] # NoAccount
  /\ Stored(t) # Absent
  /\ \/ /\ Named(Stored(t)) # {}
        /\ cache' = [cache EXCEPT ![t] = Stored(t)]
        /\ req' = [req EXCEPT ![r] = At(p, t, Stored(t))]
        /\ UNCHANGED row
     \/ /\ cache' = [cache EXCEPT ![t] = Absent]
        /\ row' = [row EXCEPT ![t] = Absent]
        /\ UNCHANGED req
  /\ UNCHANGED <<signIn, name, owner, bore, strayed>>

\* passportAccountFromRequest: the name may be somebody's sign-in.  The editor
\* keeps the sign-in of the account it has found.
FindEdited(r) ==
  /\ req[r].pc = "bySignIn"
  /\ \/ /\ BySignIn(req[r].text) # {}
        /\ req' = [req EXCEPT ![r] = At("update", @.tok, @.text)]
     \/ /\ BySignIn(req[r].text) = {}
        /\ req' = [req EXCEPT ![r] = At("byName", @.tok, @.text)]
  /\ UNCHANGED <<signIn, name, row, cache, owner, bore, strayed>>

FindEditedByName(r) ==
  /\ req[r].pc = "byName"
  /\ \E a \in ByPassportName(req[r].text) :
       req' = [req EXCEPT ![r] = At("update", @.tok, signIn[a])]
  /\ UNCHANGED <<signIn, name, row, cache, owner, bore, strayed>>

\* handleProperties and updateAccount: whoever bears the sign-in that was read
\* gets the new sign-in and name.  The rows of sessions follow, those stored
\* by that sign-in included.
UpdateAccount(r, s, n) ==
  /\ req[r].pc = "update"
  /\ \E b \in BySignIn(req[r].text) :
       /\ BySignIn(s) \subseteq {b}
       /\ Bear(b, s, n)
       /\ row' = [t \in Tokens |-> IF row[t] \in {signIn[b], name[b]} THEN n ELSE row[t]]
       /\ TakenFor(owner[req[r].tok], b)
  /\ req' = [req EXCEPT ![r] = At("rebind", @.tok, n)]
  /\ UNCHANGED <<cache, owner>>

\* rebindToken, or nothing when the request has only PPAuth.
RebindToken(r) ==
  /\ req[r].pc = "rebind"
  /\ LET t == req[r].tok IN
       \/ /\ row' = [row EXCEPT ![t] = IF @ = Absent THEN @ ELSE req[r].text]
          /\ cache' = [cache EXCEPT ![t] = req[r].text]
       \/ UNCHANGED <<row, cache>>
  /\ req' = [req EXCEPT ![r] = Idle]
  /\ UNCHANGED <<signIn, name, owner, bore, strayed>>

\* handleOAuthConsent: the code will be stored with the sign-in found here.
Consent(r) ==
  /\ req[r].pc = "consent"
  /\ \E b \in ByPassportName(req[r].text) : TakenFor(owner[req[r].tok], b)
  /\ req' = [req EXCEPT ![r] = Idle]
  /\ UNCHANGED <<signIn, name, row, cache, owner, bore>>

\* handlePartnerVerify, and profileBlobForToken likewise: what tokenUser told
\* is reported as sign_in, and looked up as one to find the Passport name.
Describe(r) ==
  /\ req[r].pc = "describe"
  /\ \/ \E b \in BySignIn(req[r].text) :
          /\ TakenFor(owner[req[r].tok], b)
          /\ req' = [req EXCEPT ![r].pc = "answer", ![r].name = name[b]]
     \/ /\ BySignIn(req[r].text) = {}
        /\ req' = [req EXCEPT ![r].pc = "answer", ![r].name = req[r].text]
        /\ UNCHANGED strayed
  /\ UNCHANGED <<signIn, name, row, cache, owner, bore>>

\* The answer is on its way; or a statement has failed, or found nothing.
Finish(r) ==
  /\ req[r].pc # "idle"
  /\ req' = [req EXCEPT ![r] = Idle]
  /\ UNCHANGED <<signIn, name, row, cache, owner, bore, strayed>>

-----------------------------------------------------------------------------
(* Sessions end, the server restarts *)

\* handleLogout.
Logout(t) ==
  /\ cache' = [cache EXCEPT ![t] = Absent]
  /\ row' = [row EXCEPT ![t] = Absent]
  /\ UNCHANGED <<signIn, name, req, owner, bore, strayed>>

\* Only the database is left of what the server knew.
Restart ==
  /\ cache' = [t \in Tokens |-> Absent]
  /\ req' = [r \in Requests |-> Idle]
  /\ UNCHANGED <<signIn, name, row, owner, bore, strayed>>

-----------------------------------------------------------------------------

Begin(r) ==
  \/ \E a \in Accounts, s \in Emails, n \in Texts : Register(r, a, s, n)
  \/ \E s \in Emails : Login(r, s)
  \/ \E t \in Tokens, p \in Handlers : TokenUser(r, t, p)

Serve(r) ==
  \/ Greet(r)
  \/ RememberToken(r)
  \/ FindEdited(r)
  \/ FindEditedByName(r)
  \/ \E s \in Emails, n \in Texts : UpdateAccount(r, s, n)
  \/ RebindToken(r)
  \/ Consent(r)
  \/ Describe(r)
  \/ Finish(r)

Next ==
  \/ \E r \in Requests : Begin(r) \/ Serve(r)
  \/ \E t \in Tokens : Logout(t)
  \/ Restart

Spec == Init /\ [][Next]_vars

-----------------------------------------------------------------------------
(* Properties *)

\* An account no other shares a text with: nobody else has ever signed in
\* with, or been called, anything it has.
Unshared(a) == \A x \in Texts : a \in bore[x] => bore[x] = {a}

\* A session is never taken for another account than its own, in the editor,
\* in a consent, in /partner/verify or at registration, as long as one of the
\* two shares no text; whatever other accounts share, and however sign-ins and
\* names change between two lookups of one request (passportAccountFromRequest,
\* updateAccount, findByPassportName).
NeverStrays == \A p \in strayed : ~Unshared(p[1]) /\ ~Unshared(p[2])

\* What is stored for the sessions of an account that shares no text is a text
\* of its own, and nobody else's session has one of these (the OR in
\* updateAccount, rebindToken after the transaction, the read-back of a
\* registration).
SessionsTellTheirOwn ==
  \A a \in Accounts : Unshared(a) =>
    \A t \in Tokens, x \in Texts :
      x \in {row[t], cache[t]} => (a \in bore[x] <=> owner[t] = a)

\* The name /partner/verify answers with was borne by an account that has borne
\* the text the session told, although that text is looked up as if it were a
\* sign-in.  An account that shares no text is answered about for its own
\* sessions and for nobody else's; where texts are shared, the lookup may end at
\* another account that has borne the text.  (What is answered as sign_in is the
\* Passport name too; src/docs/partner-sso.md:361 shows the e-mail address there.)
VerifyTellsOwnName ==
  \A r \in Requests : req[r].pc = "answer" =>
    /\ bore[req[r].text] \cap bore[req[r].name] # {}
    /\ \A a \in Accounts : Unshared(a) => (a \in bore[req[r].name] <=> owner[req[r].tok] = a)
=============================================================================
