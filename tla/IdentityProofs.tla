---------------------------- MODULE IdentityProofs ----------------------------
(***************************************************************************)
(* Whatever texts the accounts share among each other, an account that     *)
(* shares none keeps its sessions to itself.                               *)
(*                                                                         *)
(* The argument: every text that is stored or held anywhere has been borne *)
(* by somebody (Own, first conjunct), so when an account without shared    *)
(* texts takes a text, that text is held nowhere on behalf of anybody else *)
(* (BearKeeps); and a lookup with a text of its own finds itself only.     *)
(***************************************************************************)
EXTENDS Identity, TLAPS

USE TextsAssumption, NoAccountAssumption

-----------------------------------------------------------------------------
(* Typing *)

\* What the type invariant leaves open: which locals are set at which step.
Locals ==
  /\ \A a \in Accounts : Registered(a) => name[a] \in Texts
  /\ \A t \in Tokens : owner[t] = NoAccount => row[t] = Absent /\ cache[t] = Absent
  /\ \A r \in Requests :
       /\ req[r].pc = "greet" => req[r].acct \in Accounts
       /\ req[r].pc \notin {"idle", "greet"} =>
            req[r].tok \in Tokens /\ owner[req[r].tok] \in Accounts

TypeInv == TypeOK /\ Locals

LEMMA TextFacts ==
  /\ Empty \notin Texts /\ Absent \notin Texts /\ Empty # Absent
  /\ Emails \subseteq Texts
BY DEF Empty, Absent

LEMMA AtTyped ==
  ASSUME NEW p \in Steps, NEW t \in Tokens \cup {Absent}, NEW x \in Texts \cup {Empty}
  PROVE  /\ At(p, t, x) \in Request
         /\ At(p, t, x).pc = p /\ At(p, t, x).tok = t /\ At(p, t, x).text = x
         /\ At(p, t, x).name = Empty /\ At(p, t, x).acct = NoAccount
<1> Empty \in Texts \cup {Empty} /\ NoAccount \in Accounts \cup {NoAccount}
  OBVIOUS
<1> QED
  BY Zenon DEF At, Request

LEMMA IdleTyped == Idle \in Request /\ Idle.pc = "idle" /\ Idle.text = Empty /\ Idle.name = Empty
BY DEF Idle, At, Request, Steps

LEMMA TypeInit == Init => TypeInv
BY TextFacts, IdleTyped DEF Init, TypeInv, TypeOK, Locals, Registered

LEMMA BearTyped ==
  ASSUME TypeInv, NEW a \in Accounts, NEW s \in Emails, NEW n \in Texts, Bear(a, s, n)
  PROVE  /\ signIn' \in [Accounts -> Emails \cup {Empty}]
         /\ name' \in [Accounts -> Texts \cup {Empty}]
         /\ bore' \in [Texts -> SUBSET Accounts]
         /\ \A b \in Accounts : Registered(b)' => name'[b] \in Texts
BY TextFacts DEF Bear, TypeInv, TypeOK, Locals, Registered

LEMMA TakenTyped ==
  ASSUME TypeInv, NEW a \in Accounts, NEW b \in Accounts, TakenFor(a, b)
  PROVE  strayed' \subseteq Accounts \X Accounts
BY DEF TakenFor, TypeInv, TypeOK

\* A step that moves request r to q, and touches nothing else the typing of
\* requests depends on.
LEMMA MoveTyped ==
  ASSUME TypeInv, NEW r \in Requests, NEW q \in Request,
         req' = [req EXCEPT ![r] = q], UNCHANGED owner,
         q.pc = "greet" => q.acct \in Accounts,
         q.pc \notin {"idle", "greet"} => q.tok \in Tokens /\ owner[q.tok] \in Accounts
  PROVE  /\ req' \in [Requests -> Request]
         /\ \A i \in Requests :
              /\ req'[i].pc = "greet" => req'[i].acct \in Accounts
              /\ req'[i].pc \notin {"idle", "greet"} =>
                   req'[i].tok \in Tokens /\ owner'[req'[i].tok] \in Accounts
BY DEF TypeInv, TypeOK, Locals

\* The same for a step that draws token t for account a.
LEMMA DrawTyped ==
  ASSUME TypeInv, NEW r \in Requests, NEW t \in Fresh, NEW a \in Accounts,
         NEW x \in Texts \cup {Empty},
         req' = [req EXCEPT ![r] = At("remember", t, x)],
         owner' = [owner EXCEPT ![t] = a]
  PROVE  /\ req' \in [Requests -> Request]
         /\ owner' \in [Tokens -> Accounts \cup {NoAccount}]
         /\ \A i \in Requests :
              /\ req'[i].pc = "greet" => req'[i].acct \in Accounts
              /\ req'[i].pc \notin {"idle", "greet"} =>
                   req'[i].tok \in Tokens /\ owner'[req'[i].tok] \in Accounts
<1> t \in Tokens /\ "remember" \in Steps
  BY DEF Fresh, Steps
<1>1. At("remember", t, x) \in Request /\ At("remember", t, x).tok = t
      /\ At("remember", t, x).pc = "remember"
  BY AtTyped
<1> QED
  BY <1>1 DEF TypeInv, TypeOK, Locals

LEMMA TypeBegin ==
  ASSUME TypeInv, NEW r \in Requests, Begin(r)
  PROVE  TypeInv'
<1>1. ASSUME NEW a \in Accounts, NEW s \in Emails, NEW n \in Texts, Register(r, a, s, n)
      PROVE  TypeInv'
  <2> DEFINE q == [At("greet", Absent, s) EXCEPT !.acct = a]
  <2>1. q \in Request /\ q.pc = "greet" /\ q.acct = a
    <3>1. "greet" \in Steps /\ s \in Texts \cup {Empty}
      BY DEF Steps
    <3> QED
      BY <3>1, AtTyped DEF Request
  <2>2. req' = [req EXCEPT ![r] = q] /\ UNCHANGED owner
    BY <1>1 DEF Register
  <2> HIDE DEF q
  <2> QED
    BY <1>1, <2>1, <2>2, BearTyped, MoveTyped DEF Register, TypeInv, TypeOK, Locals
<1>2. ASSUME NEW s \in Emails, Login(r, s)
      PROVE  TypeInv'
  <2>1. PICK t \in Fresh, a \in BySignIn(s) :
          /\ owner' = [owner EXCEPT ![t] = a]
          /\ req' = [req EXCEPT ![r] = At("remember", t, name[a])]
    BY <1>2 DEF Login
  <2>2. a \in Accounts /\ name[a] \in Texts
    BY DEF BySignIn, TypeInv, Locals
  <2> QED
    BY <1>2, <2>1, <2>2, DrawTyped DEF Login, TypeInv, TypeOK, Locals, Registered, Fresh
<1>3. ASSUME NEW t \in Tokens, NEW p \in Handlers, TokenUser(r, t, p)
      PROVE  TypeInv'
  <2>1. CASE Named(Stored(t)) # {} /\ cache' = [cache EXCEPT ![t] = Stored(t)]
             /\ req' = [req EXCEPT ![r] = At(p, t, Stored(t))] /\ UNCHANGED row
    <3>1. Stored(t) \in Texts \cup {Empty}
      BY <1>3, TextFacts DEF TokenUser, Stored, TypeInv, TypeOK
    <3>2. p \in Steps /\ p \notin {"idle", "greet"}
      BY DEF Handlers, Steps
    <3>3. At(p, t, Stored(t)) \in Request /\ At(p, t, Stored(t)).pc = p
          /\ At(p, t, Stored(t)).tok = t
      BY <3>1, <3>2 DEF At, Request
    <3>4. owner[t] \in Accounts
      BY <1>3 DEF TokenUser, TypeInv, TypeOK
    <3> QED
      BY <1>3, <2>1, <3>1, <3>2, <3>3, <3>4, MoveTyped
      DEF TokenUser, TypeInv, TypeOK, Locals, Registered
  <2>2. CASE cache' = [cache EXCEPT ![t] = Absent] /\ row' = [row EXCEPT ![t] = Absent]
             /\ UNCHANGED req
    BY <1>3, <2>2 DEF TokenUser, TypeInv, TypeOK, Locals, Registered
  <2> QED
    BY <1>3, <2>1, <2>2 DEF TokenUser
<1> QED
  BY <1>1, <1>2, <1>3 DEF Begin

LEMMA TypeServe ==
  ASSUME TypeInv, NEW r \in Requests, Serve(r)
  PROVE  TypeInv'
<1> USE TextFacts
<1>1. CASE Greet(r)
  <2>1. PICK t \in Fresh : /\ owner' = [owner EXCEPT ![t] = req[r].acct]
          /\ \/ \E b \in BySignIn(req[r].text) :
                  /\ req' = [req EXCEPT ![r] = At("remember", t, name[b])]
                  /\ TakenFor(req[r].acct, b)
             \/ /\ req' = [req EXCEPT ![r] = At("remember", t, Empty)]
                /\ UNCHANGED strayed
    BY <1>1 DEF Greet
  <2>2. req[r].acct \in Accounts
    BY <1>1 DEF Greet, TypeInv, Locals
  <2>3. /\ \E x \in Texts \cup {Empty} : req' = [req EXCEPT ![r] = At("remember", t, x)]
        /\ strayed' \subseteq Accounts \X Accounts
    <3>1. CASE \E b \in BySignIn(req[r].text) :
                 /\ req' = [req EXCEPT ![r] = At("remember", t, name[b])]
                 /\ TakenFor(req[r].acct, b)
      BY <3>1, <2>2, TakenTyped DEF BySignIn, TypeInv, TypeOK
    <3>2. CASE req' = [req EXCEPT ![r] = At("remember", t, Empty)] /\ UNCHANGED strayed
      BY <3>2 DEF TypeInv, TypeOK
    <3> QED
      BY <2>1, <3>1, <3>2
  <2>4. PICK x \in Texts \cup {Empty} : req' = [req EXCEPT ![r] = At("remember", t, x)]
    BY <2>3
  <2>5. /\ req' \in [Requests -> Request]
        /\ owner' \in [Tokens -> Accounts \cup {NoAccount}]
        /\ \A i \in Requests :
             /\ req'[i].pc = "greet" => req'[i].acct \in Accounts
             /\ req'[i].pc \notin {"idle", "greet"} =>
                  req'[i].tok \in Tokens /\ owner'[req'[i].tok] \in Accounts
    BY <2>1, <2>2, <2>4, DrawTyped
  <2>6. \A i \in Tokens : owner'[i] = NoAccount => owner[i] = NoAccount
    BY <2>1, <2>2 DEF TypeInv, TypeOK, Fresh
  <2> QED
    BY <1>1, <2>3, <2>5, <2>6 DEF Greet, TypeInv, TypeOK, Locals, Registered
<1>2. CASE RememberToken(r)
  <2>1. req[r].text \in Texts \cup {Empty} /\ req[r].tok \in Tokens
        /\ owner[req[r].tok] \in Accounts
    BY <1>2 DEF RememberToken, TypeInv, TypeOK, Locals, Request
  <2> QED
    BY <1>2, <2>1, IdleTyped, MoveTyped DEF RememberToken, TypeInv, TypeOK, Locals, Registered
<1>3. CASE FindEdited(r) \/ FindEditedByName(r)
  <2>1. req[r].tok \in Tokens /\ owner[req[r].tok] \in Accounts /\ req[r].text \in Texts \cup {Empty}
    BY <1>3 DEF FindEdited, FindEditedByName, TypeInv, TypeOK, Locals, Request
  <2>2. \E p \in {"update", "byName"}, x \in Texts \cup {Empty} :
          req' = [req EXCEPT ![r] = At(p, req[r].tok, x)]
    BY <1>3, <2>1 DEF FindEdited, FindEditedByName, ByPassportName, Named, TypeInv, TypeOK
  <2>3. PICK p \in {"update", "byName"}, x \in Texts \cup {Empty} :
          req' = [req EXCEPT ![r] = At(p, req[r].tok, x)]
    BY <2>2
  <2>4. At(p, req[r].tok, x) \in Request /\ At(p, req[r].tok, x).tok = req[r].tok
        /\ At(p, req[r].tok, x).pc = p
    BY <2>1, AtTyped DEF Steps
  <2> QED
    BY <1>3, <2>1, <2>3, <2>4, MoveTyped
    DEF FindEdited, FindEditedByName, TypeInv, TypeOK, Locals, Registered
<1>4. ASSUME NEW s \in Emails, NEW n \in Texts, UpdateAccount(r, s, n)
      PROVE  TypeInv'
  <2>1. req[r].tok \in Tokens /\ owner[req[r].tok] \in Accounts
    BY <1>4 DEF UpdateAccount, TypeInv, TypeOK, Locals, Request
  <2>2. PICK b \in Accounts :
          /\ Bear(b, s, n)
          /\ row' = [t \in Tokens |-> IF row[t] \in {signIn[b], name[b]} THEN n ELSE row[t]]
          /\ TakenFor(owner[req[r].tok], b)
          /\ Registered(b)
    BY <1>4 DEF UpdateAccount, BySignIn
  <2>3. At("rebind", req[r].tok, n) \in Request /\ At("rebind", req[r].tok, n).tok = req[r].tok
        /\ At("rebind", req[r].tok, n).pc = "rebind"
    BY <2>1, AtTyped DEF Steps
  <2>4. /\ strayed' \subseteq Accounts \X Accounts
        /\ row' \in [Tokens -> Texts \cup {Empty, Absent}]
        /\ \A t \in Tokens : row[t] = Absent => row'[t] = Absent
    BY <2>1, <2>2, TakenTyped DEF TypeInv, TypeOK, Locals
  <2> QED
    BY <1>4, <2>1, <2>2, <2>3, <2>4, BearTyped, MoveTyped
    DEF UpdateAccount, TypeInv, TypeOK, Locals
<1>5. CASE RebindToken(r)
  <2>1. req[r].text \in Texts \cup {Empty} /\ req[r].tok \in Tokens
        /\ owner[req[r].tok] \in Accounts
    BY <1>5 DEF RebindToken, TypeInv, TypeOK, Locals, Request
  <2>2. /\ row' \in [Tokens -> Texts \cup {Empty, Absent}]
        /\ cache' \in [Tokens -> Texts \cup {Empty, Absent}]
        /\ \A t \in Tokens : owner[t] = NoAccount => row'[t] = Absent /\ cache'[t] = Absent
    BY <1>5, <2>1 DEF RebindToken, TypeInv, TypeOK, Locals
  <2> QED
    BY <1>5, <2>2, IdleTyped, MoveTyped DEF RebindToken, TypeInv, TypeOK, Locals, Registered
<1>6. CASE Consent(r)
  <2>1. req[r].tok \in Tokens /\ owner[req[r].tok] \in Accounts
    BY <1>6 DEF Consent, TypeInv, TypeOK, Locals, Request
  <2>2. strayed' \subseteq Accounts \X Accounts
    BY <1>6, <2>1, TakenTyped DEF Consent, ByPassportName, Named
  <2> QED
    BY <1>6, <2>2, IdleTyped, MoveTyped DEF Consent, TypeInv, TypeOK, Locals, Registered
<1>7. CASE Describe(r)
  <2>1. req[r].tok \in Tokens /\ owner[req[r].tok] \in Accounts /\ req[r] \in Request
        /\ req[r].text \in Texts \cup {Empty}
    BY <1>7 DEF Describe, TypeInv, TypeOK, Locals, Request
  <2>2. /\ \E x \in Texts \cup {Empty} : req' = [req EXCEPT ![r].pc = "answer", ![r].name = x]
        /\ strayed' \subseteq Accounts \X Accounts
    BY <1>7, <2>1, TakenTyped DEF Describe, BySignIn, TypeInv, TypeOK
  <2>3. PICK x \in Texts \cup {Empty} : req' = [req EXCEPT ![r].pc = "answer", ![r].name = x]
    BY <2>2
  <2> DEFINE q == [req[r] EXCEPT !.pc = "answer", !.name = x]
  <2>4. q \in Request /\ q.pc = "answer" /\ q.tok = req[r].tok /\ req' = [req EXCEPT ![r] = q]
    BY <2>1, <2>3 DEF Request, Steps, TypeInv, TypeOK
  <2> HIDE DEF q
  <2> QED
    BY <1>7, <2>1, <2>2, <2>4, MoveTyped DEF Describe, TypeInv, TypeOK, Locals, Registered
<1>8. CASE Finish(r)
  BY <1>8, IdleTyped, MoveTyped DEF Finish, TypeInv, TypeOK, Locals, Registered
<1> QED
  BY <1>1, <1>2, <1>3, <1>4, <1>5, <1>6, <1>7, <1>8 DEF Serve

LEMMA TypeNext == TypeInv /\ [Next]_vars => TypeInv'
<1> SUFFICES ASSUME TypeInv, [Next]_vars
             PROVE  TypeInv'
  OBVIOUS
<1>1. ASSUME NEW t \in Tokens, Logout(t)
      PROVE  TypeInv'
  BY <1>1, TextFacts DEF Logout, TypeInv, TypeOK, Locals, Registered
<1>2. CASE Restart
  BY <1>2, TextFacts, IdleTyped DEF Restart, TypeInv, TypeOK, Locals, Registered
<1>3. CASE UNCHANGED vars
  BY <1>3 DEF vars, TypeInv, TypeOK, Locals, Registered
<1> QED
  BY <1>1, <1>2, <1>3, TypeBegin, TypeServe DEF Next

LEMMA TypeAlways == Spec => []TypeInv
BY TypeInit, TypeNext, PTL DEF Spec

\* Every variable keeps its type: in particular only e-mail addresses become
\* sign-ins, in registrations and in the editor.
THEOREM TypeCorrect == Spec => []TypeOK
BY TypeAlways, PTL DEF TypeInv

-----------------------------------------------------------------------------
(* Whose texts *)

\* Text x is held for account o: somebody has borne it, and account a if and
\* only if it is o.  B is the value of bore.
Own(B, a, x, o) == x \in Texts => B[x] # {} /\ (a \in B[x] <=> o = a)

\* For whom a request holds its texts.
For(q) == IF q.pc = "greet" THEN q.acct ELSE owner[q.tok]

OwnBy(a) ==
  /\ \A b \in Accounts : Own(bore, a, signIn[b], b) /\ Own(bore, a, name[b], b)
  /\ \A t \in Tokens : Own(bore, a, row[t], owner[t]) /\ Own(bore, a, cache[t], owner[t])
  /\ \A r \in Requests : req[r].pc # "idle" =>
       Own(bore, a, req[r].text, For(req[r])) /\ Own(bore, a, req[r].name, For(req[r]))

\* The strengthening of the three properties.
OwnInv == NeverStrays /\ \A a \in Accounts : Unshared(a) => OwnBy(a)

LEMMA BearGrows ==
  ASSUME TypeInv, NEW c \in Accounts, NEW s \in Emails, NEW n \in Texts, Bear(c, s, n),
         NEW a \in Accounts, Unshared(a)'
  PROVE  Unshared(a)
BY DEF Bear, Unshared, TypeInv, TypeOK

\* No text that is held for others is taken by an account without shared texts.
LEMMA BearKeeps ==
  ASSUME TypeInv, NEW c \in Accounts, NEW s \in Emails, NEW n \in Texts, Bear(c, s, n),
         NEW a \in Accounts, Unshared(a)', NEW x, NEW o, Own(bore, a, x, o)
  PROVE  Own(bore', a, x, o)
BY DEF Bear, Unshared, Own, TypeInv, TypeOK

LEMMA BearTakes ==
  ASSUME TypeInv, NEW c \in Accounts, NEW s \in Emails, NEW n \in Texts, Bear(c, s, n),
         NEW a \in Accounts, Unshared(a)', NEW x \in {s, n}
  PROVE  Own(bore', a, x, c)
BY DEF Bear, Unshared, Own, TypeInv, TypeOK

LEMMA EmptyIsNobodys ==
  ASSUME NEW B, NEW a, NEW o, NEW x \in {Empty, Absent}
  PROVE  Own(B, a, x, o)
BY TextFacts DEF Own

\* A session is taken for an account that was found under a text held for it.
LEMMA FoundIsOwn ==
  ASSUME TypeInv, OwnInv, NEW o \in Accounts, NEW b \in Accounts, NEW x \in Texts,
         \A a \in Accounts : Unshared(a) => Own(bore, a, x, o) /\ Own(bore, a, x, b),
         TakenFor(o, b), \A a \in Accounts : Unshared(a)' => Unshared(a)
  PROVE  NeverStrays'
<1>1. Unshared(o) \/ Unshared(b) => o = b
  BY DEF Own
<1>2. strayed \subseteq Accounts \X Accounts
  BY DEF TypeInv, TypeOK
<1> QED
  BY <1>1, <1>2 DEF TakenFor, OwnInv, NeverStrays

\* What a step with an unchanged bore has to show of the request it serves.
LEMMA MoveOwn ==
  ASSUME TypeInv, NEW a \in Accounts, OwnBy(a), NEW r \in Requests, NEW q \in Request,
         req' = [req EXCEPT ![r] = q], UNCHANGED <<owner, bore>>,
         q.pc # "idle" => Own(bore, a, q.text, For(q)) /\ Own(bore, a, q.name, For(q))
  PROVE  \A i \in Requests : req'[i].pc # "idle" =>
           Own(bore', a, req'[i].text, For(req[i])') /\ Own(bore', a, req'[i].name, For(req[i])')
<1> SUFFICES ASSUME NEW i \in Requests, req'[i].pc # "idle"
             PROVE  Own(bore', a, req'[i].text, For(req[i])')
                    /\ Own(bore', a, req'[i].name, For(req[i])')
  OBVIOUS
<1>1. CASE i = r
  BY <1>1 DEF For, TypeInv, TypeOK
<1>2. CASE i # r
  BY <1>2 DEF For, OwnBy, TypeInv, TypeOK
<1> QED
  BY <1>1, <1>2

\* The same for a step that draws a token.
LEMMA DrawOwn ==
  ASSUME TypeInv, NEW a \in Accounts, OwnBy(a), NEW r \in Requests, NEW t \in Fresh,
         NEW o \in Accounts, NEW x \in Texts \cup {Empty}, Own(bore, a, x, o),
         req' = [req EXCEPT ![r] = At("remember", t, x)],
         owner' = [owner EXCEPT ![t] = o], UNCHANGED <<signIn, name, row, cache, bore>>
  PROVE  OwnBy(a)'
<1> t \in Tokens /\ owner[t] = NoAccount /\ owner'[t] = o
  BY DEF Fresh, TypeInv, TypeOK
<1> DEFINE q == At("remember", t, x)
<1>1. q.tok = t /\ q.pc = "remember" /\ q.text = x /\ q.name = Empty
  BY DEF At
<1> HIDE DEF q
<1>2. \A i \in Tokens : Own(bore', a, row'[i], owner'[i]) /\ Own(bore', a, cache'[i], owner'[i])
  BY EmptyIsNobodys DEF OwnBy, TypeInv, TypeOK, Locals
<1>3. ASSUME NEW i \in Requests, req'[i].pc # "idle"
      PROVE  Own(bore', a, req'[i].text, For(req[i])')
             /\ Own(bore', a, req'[i].name, For(req[i])')
  <2>1. CASE i = r
    <3>1. req'[i] = q /\ For(req[i])' = o
      BY <2>1, <1>1 DEF For, TypeInv, TypeOK, q
    <3> QED
      BY <3>1, <1>1, EmptyIsNobodys
  <2>2. CASE i # r
    <3>1. req'[i] = req[i] /\ For(req[i])' = For(req[i])
      BY <1>3, <2>2 DEF For, TypeInv, TypeOK, Locals
    <3> QED
      BY <1>3, <3>1 DEF OwnBy
  <2> QED
    BY <2>1, <2>2
<1> QED
  BY <1>2, <1>3 DEF OwnBy

LEMMA OwnInit == Init => OwnInv
BY TextFacts, IdleTyped, EmptyIsNobodys DEF Init, OwnInv, OwnBy, NeverStrays

\* Registrations and edits: a is the account that changes its texts, q what
\* the request goes on with, for the same account.
LEMMA BearOwn ==
  ASSUME TypeInv, TypeInv', OwnInv, NEW r \in Requests,
         NEW c \in Accounts, NEW s \in Emails, NEW n \in Texts, Bear(c, s, n),
         NEW q \in Request, req' = [req EXCEPT ![r] = q],
         q.text \in {s, n}, q.name = Empty, UNCHANGED <<owner, cache>>,
         NEW a \in Accounts, Unshared(a)',
         Own(bore', a, q.text, For(q)),
         \A t \in Tokens : Own(bore', a, row'[t], owner[t])
  PROVE  OwnBy(a)'
<1>1. OwnBy(a)
  BY BearGrows DEF OwnInv
<1>2. \A b \in Accounts : Own(bore', a, signIn'[b], b) /\ Own(bore', a, name'[b], b)
  <2> SUFFICES ASSUME NEW b \in Accounts
               PROVE  Own(bore', a, signIn'[b], b) /\ Own(bore', a, name'[b], b)
    OBVIOUS
  <2>1. CASE b = c
    <3>1. signIn'[b] = s /\ name'[b] = n
      BY <2>1 DEF Bear, TypeInv, TypeOK
    <3> QED
      BY <2>1, <3>1, BearTakes
  <2>2. CASE b # c
    <3>1. signIn'[b] = signIn[b] /\ name'[b] = name[b]
      BY <2>2 DEF Bear, TypeInv, TypeOK
    <3> QED
      BY <1>1, <3>1, BearKeeps DEF OwnBy
  <2> QED
    BY <2>1, <2>2
<1>3. \A t \in Tokens : Own(bore', a, cache'[t], owner'[t])
  BY <1>1, BearKeeps DEF OwnBy
<1>4. ASSUME NEW i \in Requests, req'[i].pc # "idle"
      PROVE  Own(bore', a, req'[i].text, For(req[i])')
             /\ Own(bore', a, req'[i].name, For(req[i])')
  <2>1. CASE i = r
    <3>1. req'[i] = q /\ For(req[i])' = For(q)
      BY <2>1 DEF For, TypeInv, TypeOK
    <3> QED
      BY <3>1, EmptyIsNobodys
  <2>2. CASE i # r
    <3>1. req'[i] = req[i] /\ For(req[i])' = For(req[i])
      BY <2>2 DEF For, TypeInv, TypeOK
    <3> QED
      BY <1>1, <1>4, <3>1, BearKeeps DEF OwnBy
  <2> QED
    BY <2>1, <2>2
<1> QED
  BY <1>2, <1>3, <1>4 DEF OwnBy

LEMMA OwnBegin ==
  ASSUME TypeInv, TypeInv', OwnInv, NEW r \in Requests, Begin(r)
  PROVE  OwnInv'
<1>1. ASSUME NEW c \in Accounts, NEW s \in Emails, NEW n \in Texts, Register(r, c, s, n)
      PROVE  OwnInv'
  <2> DEFINE q == [At("greet", Absent, s) EXCEPT !.acct = c]
  <2>1. /\ q \in Request /\ q.pc = "greet" /\ q.acct = c /\ q.text = s /\ q.name = Empty
    <3>1. "greet" \in Steps /\ s \in Texts \cup {Empty}
      BY DEF Steps
    <3> QED
      BY <3>1, AtTyped DEF Request
  <2>2. req' = [req EXCEPT ![r] = q] /\ Bear(c, s, n) /\ UNCHANGED <<row, cache, owner, strayed>>
    BY <1>1 DEF Register
  <2> HIDE DEF q
  <2>3. ASSUME NEW a \in Accounts, Unshared(a)'
        PROVE  OwnBy(a)'
    <3>1. OwnBy(a)
      BY <2>2, <2>3, BearGrows DEF OwnInv
    <3>2. Own(bore', a, q.text, For(q))
      BY <2>1, <2>2, <2>3, BearTakes DEF For
    <3>3. \A t \in Tokens : Own(bore', a, row'[t], owner[t])
      BY <2>2, <2>3, <3>1, BearKeeps DEF OwnBy
    <3> QED
      BY <2>1, <2>2, <2>3, <3>2, <3>3, BearOwn
  <2>4. \A a \in Accounts : Unshared(a)' => Unshared(a)
    BY <2>2, BearGrows
  <2>5. strayed \subseteq Accounts \X Accounts
    BY DEF TypeInv, TypeOK
  <2>6. NeverStrays'
    BY <2>2, <2>4, <2>5 DEF OwnInv, NeverStrays
  <2> QED
    BY <2>3, <2>6 DEF OwnInv
<1>2. ASSUME NEW s \in Emails, Login(r, s)
      PROVE  OwnInv'
  <2>1. PICK t \in Fresh, o \in BySignIn(s) :
          /\ owner' = [owner EXCEPT ![t] = o]
          /\ req' = [req EXCEPT ![r] = At("remember", t, name[o])]
    BY <1>2 DEF Login
  <2>2. o \in Accounts /\ name[o] \in Texts \cup {Empty}
    BY DEF BySignIn, TypeInv, TypeOK
  <2>3. \A a \in Accounts : OwnBy(a) => OwnBy(a)'
    <3> SUFFICES ASSUME NEW a \in Accounts, OwnBy(a)
                 PROVE  OwnBy(a)'
      OBVIOUS
    <3>1. Own(bore, a, name[o], o)
      BY <2>2 DEF OwnBy
    <3>2. UNCHANGED <<signIn, name, row, cache, bore>>
      BY <1>2 DEF Login
    <3> QED
      BY <2>1, <2>2, <3>1, <3>2, DrawOwn
  <2> QED
    BY <1>2, <2>3 DEF Login, OwnInv, NeverStrays, Unshared
<1>3. ASSUME NEW t \in Tokens, NEW p \in Handlers, TokenUser(r, t, p)
      PROVE  OwnInv'
  <2>1. UNCHANGED <<signIn, name, owner, bore, strayed>> /\ Stored(t) \in {row[t], cache[t]}
    BY <1>3 DEF TokenUser, Stored
  <2>2. ASSUME NEW a \in Accounts, OwnBy(a)
        PROVE  OwnBy(a)'
    <3>1. Own(bore, a, Stored(t), owner[t])
      BY <2>1, <2>2 DEF OwnBy
    <3>2. \A i \in Tokens : Own(bore', a, row'[i], owner'[i]) /\ Own(bore', a, cache'[i], owner'[i])
      BY <1>3, <2>1, <2>2, <3>1, EmptyIsNobodys DEF TokenUser, OwnBy, TypeInv, TypeOK
    <3>3. CASE req' = [req EXCEPT ![r] = At(p, t, Stored(t))] /\ Stored(t) # Absent
      <4> DEFINE q == At(p, t, Stored(t))
      <4>1. q \in Request /\ q.pc = p /\ q.tok = t /\ q.text = Stored(t) /\ q.name = Empty
        <5>1. Stored(t) \in Texts \cup {Empty} /\ p \in Steps
          BY <3>3, <2>1 DEF TypeInv, TypeOK, Handlers, Steps
        <5> QED
          BY <5>1 DEF At, Request
      <4>2. For(q) = owner[t]
        BY <4>1 DEF For, Handlers
      <4> HIDE DEF q
      <4>3. req' = [req EXCEPT ![r] = q]
        BY <3>3 DEF q
      <4>4. \A i \in Requests : req'[i].pc # "idle" =>
              Own(bore', a, req'[i].text, For(req[i])') /\ Own(bore', a, req'[i].name, For(req[i])')
        BY <2>1, <2>2, <3>1, <4>1, <4>2, <4>3, MoveOwn, EmptyIsNobodys
      <4> QED
        BY <2>1, <2>2, <3>2, <4>4 DEF OwnBy
    <3>4. CASE UNCHANGED req
      BY <2>1, <2>2, <3>2, <3>4 DEF OwnBy, For
    <3> QED
      BY <1>3, <3>3, <3>4 DEF TokenUser
  <2> QED
    BY <2>1, <2>2 DEF OwnInv, NeverStrays, Unshared
<1> QED
  BY <1>1, <1>2, <1>3 DEF Begin

\* A step of request r that leaves texts, owners and stored names alone.
LEMMA QuietOwn ==
  ASSUME TypeInv, NEW a \in Accounts, OwnBy(a), NEW r \in Requests, NEW q \in Request,
         req' = [req EXCEPT ![r] = q], UNCHANGED <<signIn, name, row, cache, owner, bore>>,
         q.pc # "idle" => Own(bore, a, q.text, For(q)) /\ Own(bore, a, q.name, For(q))
  PROVE  OwnBy(a)'
BY MoveOwn DEF OwnBy

LEMMA OwnServe ==
  ASSUME TypeInv, TypeInv', OwnInv, NEW r \in Requests, Serve(r)
  PROVE  OwnInv'
<1>1. CASE Greet(r)
  <2>1. PICK t \in Fresh : /\ owner' = [owner EXCEPT ![t] = req[r].acct]
          /\ \/ \E b \in BySignIn(req[r].text) :
                  /\ req' = [req EXCEPT ![r] = At("remember", t, name[b])]
                  /\ TakenFor(req[r].acct, b)
             \/ /\ req' = [req EXCEPT ![r] = At("remember", t, Empty)]
                /\ UNCHANGED strayed
    BY <1>1 DEF Greet
  <2>2. /\ req[r].acct \in Accounts /\ For(req[r]) = req[r].acct
        /\ UNCHANGED <<signIn, name, row, cache, bore>>
    BY <1>1 DEF Greet, TypeInv, Locals, For
  <2>3. CASE req' = [req EXCEPT ![r] = At("remember", t, Empty)] /\ UNCHANGED strayed
    <3>1. \A a \in Accounts : OwnBy(a) => OwnBy(a)'
      BY <2>1, <2>2, <2>3, EmptyIsNobodys, DrawOwn
    <3> QED
      BY <2>2, <2>3, <3>1 DEF OwnInv, NeverStrays, Unshared
  <2>4. ASSUME NEW b \in BySignIn(req[r].text), TakenFor(req[r].acct, b),
               req' = [req EXCEPT ![r] = At("remember", t, name[b])]
        PROVE  OwnInv'
    <3>1. /\ b \in Accounts /\ signIn[b] = req[r].text /\ req[r].text \in Texts
          /\ name[b] \in Texts \cup {Empty}
      BY <2>4, TextFacts DEF BySignIn, Registered, TypeInv, TypeOK
    <3>2. ASSUME NEW a \in Accounts, OwnBy(a)
          PROVE  Own(bore, a, req[r].text, req[r].acct) /\ Own(bore, a, req[r].text, b)
                 /\ Own(bore, a, name[b], b)
      BY <1>1, <2>2, <3>1, <3>2 DEF OwnBy, Greet
    <3>3. ASSUME NEW a \in Accounts, OwnBy(a)
          PROVE  OwnBy(a)'
      <4>1. Own(bore, a, name[b], req[r].acct)
        BY <3>1, <3>2, <3>3 DEF Own
      <4> QED
        BY <2>1, <2>2, <2>4, <3>1, <3>3, <4>1, DrawOwn
    <3>4. \A a \in Accounts : Unshared(a)' <=> Unshared(a)
      BY <2>2 DEF Unshared
    <3>5. NeverStrays'
      BY <2>2, <2>4, <3>1, <3>2, <3>4, FoundIsOwn DEF OwnInv
    <3> QED
      BY <3>3, <3>4, <3>5 DEF OwnInv
  <2> QED
    BY <2>1, <2>3, <2>4
<1>2. CASE RememberToken(r) \/ RebindToken(r) \/ Finish(r)
  <2>1. /\ UNCHANGED <<signIn, name, owner, bore, strayed>>
        /\ req' = [req EXCEPT ![r] = Idle]
    BY <1>2 DEF RememberToken, RebindToken, Finish
  <2>2. ASSUME NEW a \in Accounts, OwnBy(a)
        PROVE  OwnBy(a)'
    <3>1. CASE Finish(r)
      BY <2>1, <2>2, <3>1, IdleTyped, QuietOwn DEF Finish
    <3>2. CASE RememberToken(r) \/ RebindToken(r)
      <4>1. req[r].tok \in Tokens /\ Own(bore, a, req[r].text, owner[req[r].tok])
        BY <2>2, <3>2 DEF RememberToken, RebindToken, OwnBy, For, TypeInv, Locals
      <4>2. \A i \in Tokens :
              Own(bore', a, row'[i], owner'[i]) /\ Own(bore', a, cache'[i], owner'[i])
        BY <2>1, <2>2, <3>2, <4>1 DEF RememberToken, RebindToken, OwnBy, TypeInv, TypeOK
      <4>3. \A i \in Requests : req'[i].pc # "idle" =>
              Own(bore', a, req'[i].text, For(req[i])') /\ Own(bore', a, req'[i].name, For(req[i])')
        BY <2>1, <2>2, IdleTyped, MoveOwn
      <4> QED
        BY <2>1, <2>2, <4>2, <4>3 DEF OwnBy
    <3> QED
      BY <1>2, <3>1, <3>2
  <2> QED
    BY <2>1, <2>2 DEF OwnInv, NeverStrays, Unshared
<1>3. CASE FindEdited(r) \/ FindEditedByName(r)
  <2>1. /\ req[r].tok \in Tokens /\ owner[req[r].tok] \in Accounts
        /\ UNCHANGED <<signIn, name, row, cache, owner, bore, strayed>>
        /\ For(req[r]) = owner[req[r].tok] /\ req[r].pc # "idle"
    BY <1>3 DEF FindEdited, FindEditedByName, TypeInv, Locals, For
  <2>2. ASSUME NEW a \in Accounts, OwnBy(a), NEW p \in {"update", "byName"},
               NEW x \in Texts \cup {Empty}, Own(bore, a, x, owner[req[r].tok]),
               req' = [req EXCEPT ![r] = At(p, req[r].tok, x)]
        PROVE  OwnBy(a)'
    <3> DEFINE q == At(p, req[r].tok, x)
    <3>1. q \in Request /\ q.pc = p /\ q.tok = req[r].tok /\ q.text = x /\ q.name = Empty
      BY <2>1 DEF At, Request, Steps
    <3>2. For(q) = owner[req[r].tok]
      BY <3>1 DEF For
    <3> HIDE DEF q
    <3>3. req' = [req EXCEPT ![r] = q]
      BY <2>2 DEF q
    <3>4. Own(bore, a, q.text, For(q)) /\ Own(bore, a, q.name, For(q))
      BY <2>2, <3>1, <3>2, EmptyIsNobodys
    <3> QED
      BY <2>1, <2>2, <3>1, <3>3, <3>4, QuietOwn
  <2>3. ASSUME NEW a \in Accounts, OwnBy(a)
        PROVE  OwnBy(a)'
    <3>1. Own(bore, a, req[r].text, owner[req[r].tok])
      BY <2>1, <2>3 DEF OwnBy
    <3>2. CASE FindEdited(r)
      <4>1. req[r].text \in Texts \cup {Empty}
        BY DEF TypeInv, TypeOK, Request
      <4>2. \E p \in {"update", "byName"} : req' = [req EXCEPT ![r] = At(p, req[r].tok, req[r].text)]
        BY <3>2 DEF FindEdited
      <4> QED
        BY <2>2, <2>3, <3>1, <4>1, <4>2
    <3>3. CASE FindEditedByName(r)
      <4>1. PICK b \in ByPassportName(req[r].text) :
              req' = [req EXCEPT ![r] = At("update", req[r].tok, signIn[b])]
        BY <3>3 DEF FindEditedByName
      <4>2. /\ b \in Accounts /\ name[b] = req[r].text /\ name[b] \in Texts
            /\ signIn[b] \in Texts \cup {Empty}
        BY <4>1, TextFacts DEF ByPassportName, Named, TypeInv, TypeOK, Locals
      <4>3. Own(bore, a, name[b], b) /\ Own(bore, a, signIn[b], b)
        BY <2>3, <4>2 DEF OwnBy
      <4>4. Own(bore, a, signIn[b], owner[req[r].tok])
        BY <3>1, <4>2, <4>3 DEF Own
      <4> QED
        BY <2>2, <2>3, <4>1, <4>2, <4>4
    <3> QED
      BY <1>3, <3>2, <3>3
  <2> QED
    BY <2>1, <2>3 DEF OwnInv, NeverStrays, Unshared
<1>4. CASE Consent(r)
  <2>1. /\ req[r].tok \in Tokens /\ owner[req[r].tok] \in Accounts
        /\ UNCHANGED <<signIn, name, row, cache, owner, bore>>
        /\ For(req[r]) = owner[req[r].tok] /\ req[r].pc # "idle"
        /\ req' = [req EXCEPT ![r] = Idle]
    BY <1>4 DEF Consent, TypeInv, Locals, For
  <2>2. PICK b \in ByPassportName(req[r].text) : TakenFor(owner[req[r].tok], b)
    BY <1>4 DEF Consent
  <2>3. b \in Accounts /\ name[b] = req[r].text /\ name[b] \in Texts
    BY DEF ByPassportName, Named, TypeInv, Locals
  <2>4. \A a \in Accounts : Unshared(a) =>
          Own(bore, a, name[b], owner[req[r].tok]) /\ Own(bore, a, name[b], b)
    BY <2>1, <2>3 DEF OwnInv, OwnBy
  <2>5. \A a \in Accounts : Unshared(a)' <=> Unshared(a)
    BY <2>1 DEF Unshared
  <2>6. NeverStrays'
    BY <2>1, <2>2, <2>3, <2>4, <2>5, FoundIsOwn
  <2>7. \A a \in Accounts : OwnBy(a) => OwnBy(a)'
    BY <2>1, IdleTyped, QuietOwn
  <2> QED
    BY <2>5, <2>6, <2>7 DEF OwnInv
<1>5. CASE Describe(r)
  <2>1. /\ req[r].tok \in Tokens /\ owner[req[r].tok] \in Accounts /\ req[r] \in Request
        /\ UNCHANGED <<signIn, name, row, cache, owner, bore>>
        /\ For(req[r]) = owner[req[r].tok] /\ req[r].pc # "idle"
    BY <1>5 DEF Describe, TypeInv, TypeOK, Locals, For
  <2>2. ASSUME NEW a \in Accounts, OwnBy(a), NEW x \in Texts \cup {Empty},
               Own(bore, a, x, owner[req[r].tok]),
               req' = [req EXCEPT ![r].pc = "answer", ![r].name = x]
        PROVE  OwnBy(a)'
    <3> DEFINE q == [req[r] EXCEPT !.pc = "answer", !.name = x]
    <3>1. /\ q \in Request /\ q.pc = "answer" /\ q.tok = req[r].tok
          /\ q.text = req[r].text /\ q.name = x
      BY <2>1 DEF Request, Steps
    <3>2. For(q) = owner[req[r].tok]
      BY <3>1 DEF For
    <3>3. req' = [req EXCEPT ![r] = q]
      BY <2>2 DEF TypeInv, TypeOK, Request
    <3> HIDE DEF q
    <3>4. Own(bore, a, q.text, For(q)) /\ Own(bore, a, q.name, For(q))
      BY <2>1, <2>2, <3>1, <3>2 DEF OwnBy
    <3> QED
      BY <2>1, <2>2, <3>1, <3>3, <3>4, QuietOwn
  <2>3. \A a \in Accounts : Unshared(a)' <=> Unshared(a)
    BY <2>1 DEF Unshared
  <2>4. CASE /\ req' = [req EXCEPT ![r].pc = "answer", ![r].name = req[r].text]
             /\ UNCHANGED strayed
    <3>1. req[r].text \in Texts \cup {Empty}
      BY <2>1 DEF Request
    <3>2. \A a \in Accounts : OwnBy(a) => Own(bore, a, req[r].text, owner[req[r].tok])
      BY <2>1 DEF OwnBy
    <3>3. ASSUME NEW a \in Accounts, OwnBy(a)
          PROVE  OwnBy(a)'
      <4>1. Own(bore, a, req[r].text, owner[req[r].tok])
        BY <3>2, <3>3
      <4>2. PICK x \in Texts \cup {Empty} : x = req[r].text
        BY <3>1
      <4>3. /\ Own(bore, a, x, owner[req[r].tok])
            /\ req' = [req EXCEPT ![r].pc = "answer", ![r].name = x]
        BY <2>4, <4>1, <4>2
      <4> QED
        BY <2>2, <3>3, <4>3
    <3> QED
      BY <2>1, <2>3, <2>4, <3>3 DEF OwnInv, NeverStrays, Unshared
  <2>5. ASSUME NEW b \in BySignIn(req[r].text), TakenFor(owner[req[r].tok], b),
               req' = [req EXCEPT ![r].pc = "answer", ![r].name = name[b]]
        PROVE  OwnInv'
    <3>1. /\ b \in Accounts /\ signIn[b] = req[r].text /\ signIn[b] \in Texts
          /\ name[b] \in Texts \cup {Empty}
      BY TextFacts DEF BySignIn, Registered, TypeInv, TypeOK
    <3>2. ASSUME NEW a \in Accounts, OwnBy(a)
          PROVE  /\ Own(bore, a, signIn[b], owner[req[r].tok])
                 /\ Own(bore, a, signIn[b], b) /\ Own(bore, a, name[b], b)
      BY <2>1, <3>1, <3>2 DEF OwnBy
    <3>3. NeverStrays'
      BY <2>1, <2>3, <2>5, <3>1, <3>2, FoundIsOwn DEF OwnInv
    <3>4. ASSUME NEW a \in Accounts, OwnBy(a)
          PROVE  OwnBy(a)'
      <4>1. Own(bore, a, name[b], owner[req[r].tok])
        BY <3>1, <3>2, <3>4 DEF Own
      <4> QED
        BY <2>2, <2>5, <3>1, <3>4, <4>1
    <3> QED
      BY <2>3, <3>3, <3>4 DEF OwnInv
  <2> QED
    BY <1>5, <2>4, <2>5 DEF Describe
<1>6. ASSUME NEW s \in Emails, NEW n \in Texts, UpdateAccount(r, s, n)
      PROVE  OwnInv'
  <2>1. /\ req[r].tok \in Tokens /\ owner[req[r].tok] \in Accounts
        /\ req' = [req EXCEPT ![r] = At("rebind", req[r].tok, n)]
        /\ UNCHANGED <<owner, cache>>
        /\ For(req[r]) = owner[req[r].tok] /\ req[r].pc # "idle"
    BY <1>6 DEF UpdateAccount, TypeInv, Locals, For
  <2>2. PICK b \in BySignIn(req[r].text) :
          /\ Bear(b, s, n)
          /\ row' = [t \in Tokens |-> IF row[t] \in {signIn[b], name[b]} THEN n ELSE row[t]]
          /\ TakenFor(owner[req[r].tok], b)
    BY <1>6 DEF UpdateAccount
  <2>3. /\ b \in Accounts /\ signIn[b] = req[r].text /\ signIn[b] \in Texts
        /\ name[b] \in Texts
    BY TextFacts DEF BySignIn, Registered, TypeInv, TypeOK, Locals
  <2>4. \A a \in Accounts : Unshared(a)' => Unshared(a)
    BY <2>2, <2>3, BearGrows
  <2>5. ASSUME NEW a \in Accounts, OwnBy(a)
        PROVE  /\ Own(bore, a, signIn[b], owner[req[r].tok])
               /\ Own(bore, a, signIn[b], b) /\ Own(bore, a, name[b], b)
    BY <2>1, <2>3, <2>5 DEF OwnBy
  <2>6. NeverStrays'
    BY <2>1, <2>2, <2>3, <2>4, <2>5, FoundIsOwn DEF OwnInv
  <2> DEFINE q == At("rebind", req[r].tok, n)
  <2>7. q \in Request /\ q.pc = "rebind" /\ q.tok = req[r].tok /\ q.text = n /\ q.name = Empty
    BY <2>1 DEF At, Request, Steps
  <2>8. For(q) = owner[req[r].tok] /\ req' = [req EXCEPT ![r] = q]
    BY <2>1, <2>7 DEF For
  <2> HIDE DEF q
  <2>9. ASSUME NEW a \in Accounts, Unshared(a)'
        PROVE  OwnBy(a)'
    <3>1. OwnBy(a)
      BY <2>4, <2>9 DEF OwnInv
    <3>2. Own(bore', a, n, b)
      BY <2>2, <2>3, <2>9, BearTakes
    <3>3. Own(bore', a, q.text, For(q))
      BY <2>3, <2>5, <2>7, <2>8, <3>1, <3>2 DEF Own
    <3>4. ASSUME NEW t \in Tokens
          PROVE  Own(bore', a, row'[t], owner[t])
      <4>1. Own(bore, a, row[t], owner[t])
        BY <3>1 DEF OwnBy
      <4>2. CASE row[t] \in {signIn[b], name[b]}
        <5>1. row'[t] = n /\ row[t] \in Texts /\ Own(bore, a, row[t], b)
          BY <2>2, <2>3, <2>5, <3>1, <4>2
        <5> QED
          BY <3>2, <4>1, <5>1 DEF Own
      <4>3. CASE row[t] \notin {signIn[b], name[b]}
        <5>1. row'[t] = row[t]
          BY <2>2, <4>3
        <5> QED
          BY <2>2, <2>3, <2>9, <4>1, <5>1, BearKeeps
      <4> QED
        BY <4>2, <4>3
    <3> QED
      BY <2>1, <2>2, <2>3, <2>7, <2>8, <2>9, <3>3, <3>4, BearOwn
  <2> QED
    BY <2>6, <2>9 DEF OwnInv
<1> QED
  BY <1>1, <1>2, <1>3, <1>4, <1>5, <1>6 DEF Serve

LEMMA OwnNext == TypeInv /\ TypeInv' /\ OwnInv /\ [Next]_vars => OwnInv'
<1> SUFFICES ASSUME TypeInv, TypeInv', OwnInv, [Next]_vars
             PROVE  OwnInv'
  OBVIOUS
<1>1. ASSUME NEW t \in Tokens, Logout(t)
      PROVE  OwnInv'
  <2>1. ASSUME NEW a \in Accounts, OwnBy(a)
        PROVE  OwnBy(a)'
    <3>1. \A i \in Tokens : Own(bore', a, row'[i], owner'[i]) /\ Own(bore', a, cache'[i], owner'[i])
      BY <1>1, <2>1, EmptyIsNobodys DEF Logout, OwnBy, TypeInv, TypeOK
    <3> QED
      BY <1>1, <2>1, <3>1 DEF Logout, OwnBy, For
  <2> QED
    BY <1>1, <2>1 DEF Logout, OwnInv, NeverStrays, Unshared
<1>2. CASE Restart
  <2>1. ASSUME NEW a \in Accounts, OwnBy(a)
        PROVE  OwnBy(a)'
    <3>1. \A i \in Tokens : Own(bore', a, row'[i], owner'[i]) /\ Own(bore', a, cache'[i], owner'[i])
      BY <1>2, <2>1, EmptyIsNobodys DEF Restart, OwnBy, TypeInv, TypeOK
    <3> QED
      BY <1>2, <2>1, <3>1, IdleTyped DEF Restart, OwnBy
  <2> QED
    BY <1>2, <2>1 DEF Restart, OwnInv, NeverStrays, Unshared
<1>3. CASE UNCHANGED vars
  BY <1>3 DEF vars, OwnInv, OwnBy, For, NeverStrays, Unshared
<1> QED
  BY <1>1, <1>2, <1>3, OwnBegin, OwnServe DEF Next

\* Whoever has a text has borne it.
Borne == \A a \in Accounts, x \in Texts : x \in {signIn[a], name[a]} => a \in bore[x]

\* What is looked up for /partner/verify was borne by somebody: tokenUser has
\* found an account of that name; and so was what it answers.
AnswersNamed ==
  \A r \in Requests :
    /\ req[r].pc = "describe" => req[r].text \in Texts /\ bore[req[r].text] # {}
    /\ req[r].pc = "answer" => /\ req[r].text \in Texts /\ req[r].name \in Texts
                               /\ bore[req[r].text] \cap bore[req[r].name] # {}

AnswerInv == Borne /\ AnswersNamed

LEMMA BearBorne ==
  ASSUME TypeInv, Borne, NEW a \in Accounts, NEW s \in Emails, NEW n \in Texts, Bear(a, s, n)
  PROVE  Borne' /\ \A x \in Texts : bore[x] \subseteq bore'[x]
BY DEF Bear, Borne, TypeInv, TypeOK

LEMMA AnswerNext == TypeInv /\ AnswerInv /\ [Next]_vars => AnswerInv'
<1> SUFFICES ASSUME TypeInv, AnswerInv, [Next]_vars
             PROVE  AnswerInv'
  OBVIOUS
<1>1. ASSUME NEW r \in Requests, NEW q, req' = [req EXCEPT ![r] = q],
             Borne', \A x \in Texts : bore[x] \subseteq bore'[x],
             q.pc = "describe" => q.text \in Texts /\ bore'[q.text] # {},
             q.pc = "answer" => /\ q.text \in Texts /\ q.name \in Texts
                                /\ bore'[q.text] \cap bore'[q.name] # {}
      PROVE  AnswerInv'
  <2>1. ASSUME NEW i \in Requests
        PROVE  /\ req'[i].pc = "describe" => req'[i].text \in Texts /\ bore'[req'[i].text] # {}
               /\ req'[i].pc = "answer" =>
                    /\ req'[i].text \in Texts /\ req'[i].name \in Texts
                    /\ bore'[req'[i].text] \cap bore'[req'[i].name] # {}
    <3>1. CASE i = r
      BY <1>1, <3>1 DEF TypeInv, TypeOK
    <3>2. CASE i # r
      <4>1. req'[i] = req[i]
        BY <1>1, <3>2 DEF TypeInv, TypeOK
      <4> QED
        BY <1>1, <4>1 DEF AnswerInv, AnswersNamed
    <3> QED
      BY <3>1, <3>2
  <2> QED
    BY <1>1, <2>1 DEF AnswerInv, AnswersNamed
<1>2. CASE UNCHANGED <<signIn, name, bore>>
  <2> Borne' /\ \A x \in Texts : bore[x] \subseteq bore'[x]
    BY <1>2 DEF AnswerInv, Borne
  <2>1. ASSUME NEW r \in Requests, NEW t \in Tokens, NEW p \in Handlers, TokenUser(r, t, p)
        PROVE  AnswerInv'
    <3>1. CASE req' = [req EXCEPT ![r] = At(p, t, Stored(t))] /\ Named(Stored(t)) # {}
      <4>1. PICK b \in Accounts : name[b] = Stored(t) /\ name[b] \in Texts
        BY <3>1 DEF Named, TypeInv, Locals
      <4>2. Stored(t) \in Texts /\ bore'[Stored(t)] # {}
        BY <1>2, <4>1 DEF AnswerInv, Borne
      <4>3. /\ At(p, t, Stored(t)).pc = p /\ At(p, t, Stored(t)).text = Stored(t)
            /\ p # "answer"
        BY DEF At, Handlers
      <4> QED
        BY <1>1, <3>1, <4>2, <4>3
    <3>2. CASE UNCHANGED req
      BY <1>2, <3>2 DEF AnswerInv, AnswersNamed
    <3> QED
      BY <2>1, <3>1, <3>2 DEF TokenUser
  <2>2. ASSUME NEW r \in Requests, Describe(r)
        PROVE  AnswerInv'
    <3>1. /\ req[r].pc = "describe" /\ req[r].text \in Texts /\ req[r] \in Request
          /\ bore[req[r].text] # {}
      BY <2>2 DEF Describe, AnswerInv, AnswersNamed, TypeInv, TypeOK
    <3>2. ASSUME NEW b \in BySignIn(req[r].text)
          PROVE  name[b] \in Texts /\ b \in bore[req[r].text] /\ b \in bore[name[b]]
      BY <3>1 DEF BySignIn, AnswerInv, Borne, TypeInv, Locals
    <3>3. \E x \in Texts : /\ req' = [req EXCEPT ![r].pc = "answer", ![r].name = x]
                           /\ bore[req[r].text] \cap bore[x] # {}
      BY <2>2, <3>1, <3>2 DEF Describe
    <3>4. PICK x \in Texts : /\ req' = [req EXCEPT ![r].pc = "answer", ![r].name = x]
                             /\ bore[req[r].text] \cap bore[x] # {}
      BY <3>3
    <3> DEFINE q == [req[r] EXCEPT !.pc = "answer", !.name = x]
    <3>5. /\ req' = [req EXCEPT ![r] = q]
          /\ q.pc = "answer" /\ q.name = x /\ q.text = req[r].text
      BY <3>1, <3>4 DEF Request, TypeInv, TypeOK
    <3> HIDE DEF q
    <3> QED
      BY <1>1, <1>2, <3>1, <3>4, <3>5
  <2>3. ASSUME NEW r \in Requests,
               \/ Greet(r) \/ RememberToken(r) \/ FindEdited(r)
               \/ FindEditedByName(r) \/ RebindToken(r) \/ Consent(r) \/ Finish(r)
               \/ \E s \in Emails : Login(r, s)
        PROVE  AnswerInv'
    <3>1. \A p, t, x : At(p, t, x).pc = p
      BY DEF At
    <3>2. PICK q : req' = [req EXCEPT ![r] = q] /\ q.pc \notin {"describe", "answer"}
      BY <2>3, <3>1, IdleTyped
      DEF Greet, RememberToken, FindEdited, FindEditedByName, RebindToken, Consent, Finish, Login
    <3> QED
      BY <1>1, <3>2
  <2>4. CASE Restart \/ UNCHANGED req
    BY <1>2, <2>4, IdleTyped DEF Restart, AnswerInv, AnswersNamed
  <2>5. ASSUME NEW r \in Requests, NEW a \in Accounts, NEW s \in Emails, NEW n \in Texts,
               Register(r, a, s, n)
        PROVE  AnswerInv'
    <3>1. [At("greet", Absent, s) EXCEPT !.acct = a].pc = "greet"
      BY DEF At
    <3> QED
      BY <1>1, <2>5, <3>1 DEF Register
  <2>6. ASSUME NEW r \in Requests, NEW s \in Emails, NEW n \in Texts, UpdateAccount(r, s, n)
        PROVE  AnswerInv'
    <3>1. At("rebind", req[r].tok, n).pc = "rebind"
      BY DEF At
    <3> QED
      BY <1>1, <2>6, <3>1 DEF UpdateAccount
  <2> QED
    BY <2>1, <2>2, <2>3, <2>4, <2>5, <2>6 DEF Next, Begin, Serve, Logout, vars
<1>3. ASSUME NEW r \in Requests, NEW a \in Accounts, NEW s \in Emails, NEW n \in Texts,
             Register(r, a, s, n)
      PROVE  AnswerInv'
  <2>1. [At("greet", Absent, s) EXCEPT !.acct = a].pc = "greet"
    BY DEF At
  <2>2. Borne' /\ \A x \in Texts : bore[x] \subseteq bore'[x]
    BY <1>3, BearBorne DEF Register, AnswerInv
  <2> QED
    BY <1>1, <1>3, <2>1, <2>2 DEF Register
<1>4. ASSUME NEW r \in Requests, NEW s \in Emails, NEW n \in Texts, UpdateAccount(r, s, n)
      PROVE  AnswerInv'
  <2>1. At("rebind", req[r].tok, n).pc = "rebind"
    BY DEF At
  <2>2. PICK b \in Accounts : Bear(b, s, n)
    BY <1>4 DEF UpdateAccount, BySignIn
  <2>3. Borne' /\ \A x \in Texts : bore[x] \subseteq bore'[x]
    BY <2>2, BearBorne DEF AnswerInv
  <2> QED
    BY <1>1, <1>4, <2>1, <2>3 DEF UpdateAccount
<1>5. \/ UNCHANGED <<signIn, name, bore>>
      \/ \E r \in Requests, a \in Accounts, s \in Emails, n \in Texts : Register(r, a, s, n)
      \/ \E r \in Requests, s \in Emails, n \in Texts : UpdateAccount(r, s, n)
  BY DEF Next, Begin, Serve, Login, TokenUser, Greet, RememberToken, FindEdited,
         FindEditedByName, RebindToken, Consent, Describe, Finish, Logout, Restart, vars
<1> QED
  BY <1>2, <1>3, <1>4, <1>5

LEMMA OwnAlways == Spec => [](TypeInv /\ OwnInv /\ AnswerInv)
<1>1. Init => AnswerInv
  BY TextFacts, IdleTyped DEF Init, AnswerInv, Borne, AnswersNamed
<1> QED
  BY <1>1, TypeInit, TypeNext, OwnInit, OwnNext, AnswerNext, PTL DEF Spec

\* No session is ever taken for another account than its own, unless both
\* accounts share texts with others.
THEOREM SessionsNeverStray == Spec => []NeverStrays
BY OwnAlways, PTL DEF OwnInv

\* The names stored for the sessions of an account that shares no text are its
\* own, and nobody else's session bears one of them.
THEOREM SessionsAreTheirOwners == Spec => []SessionsTellTheirOwn
<1>1. TypeInv /\ OwnInv => SessionsTellTheirOwn
  BY DEF OwnInv, OwnBy, Own, SessionsTellTheirOwn
<1> QED
  BY <1>1, OwnAlways, PTL

\* /partner/verify answers with a name of an account that has borne the text the
\* session told; about an account that shares no text it answers to sessions of
\* that account, and to no others.
THEOREM VerifyAnswers == Spec => []VerifyTellsOwnName
<1>1. ASSUME TypeInv, OwnInv, AnswerInv, NEW r \in Requests, req[r].pc = "answer"
      PROVE  /\ bore[req[r].text] \cap bore[req[r].name] # {}
             /\ \A a \in Accounts : Unshared(a) =>
                  (a \in bore[req[r].name] <=> owner[req[r].tok] = a)
  <2>1. req[r].name \in Texts /\ bore[req[r].text] \cap bore[req[r].name] # {}
    BY <1>1 DEF AnswerInv, AnswersNamed
  <2>2. ASSUME NEW a \in Accounts, Unshared(a)
        PROVE  a \in bore[req[r].name] <=> owner[req[r].tok] = a
    BY <1>1, <2>1, <2>2 DEF OwnInv, OwnBy, Own, For
  <2> QED
    BY <2>1, <2>2
<1>2. TypeInv /\ OwnInv /\ AnswerInv => VerifyTellsOwnName
  BY <1>1 DEF VerifyTellsOwnName
<1> QED
  BY <1>2, OwnAlways, PTL
=============================================================================
