-------------------------- MODULE OAuthGrantsProofs --------------------------
(***************************************************************************)
(* Theorems about OAuthGrants, for any number of accounts, sign-ins,       *)
(* clients, URIs, codes, bearers and requests.                             *)
(***************************************************************************)
EXTENDS OAuthGrants, TLAPS

USE NoneAssumption, NoRowAssumption, RowsAssumption, ReuseAssumption

-----------------------------------------------------------------------------
(* Type correctness, with the local variables a request has set at each    *)
(* step.                                                                   *)

Locals(q) ==
  /\ q.pc \in {"findClient", "saveCode"} =>
       q.acct \in Accounts /\ q.signIn \in SignIns
         /\ q.client \in Clients /\ q.uri \in Uris
  /\ q.pc \in {"consume", "saveBearer"} =>
       q.client \in Clients /\ q.uri \in Uris /\ q.ref \in Codes
  /\ q.pc \in {"saveBearer", "profile"} => q.signIn \in SignIns
  /\ q.pc = "profile" => q.ref \in Bearers

TypeInv == TypeOK /\ \A r \in Requests : Locals(req[r])

LEMMA IdleType == Idle \in Request /\ Locals(Idle)
BY DEF Idle, Request, Steps, Locals

\* Whatever a request becomes, it has the right type.
LEMMA ConsentingType ==
  ASSUME NEW p \in {"findClient", "saveCode"}, NEW a \in Accounts, NEW s \in SignIns,
         NEW c \in Clients, NEW u \in Uris
  PROVE  Consenting(p, a, s, c, u) \in Request /\ Locals(Consenting(p, a, s, c, u))
BY DEF Consenting, Request, Steps, Locals

LEMMA ExchangingType ==
  ASSUME NEW c \in Clients, NEW u \in Uris, NEW k \in Codes
  PROVE  /\ Exchanging("consume", None, c, u, k) \in Request
         /\ Locals(Exchanging("consume", None, c, u, k))
         /\ \A s \in SignIns :
              /\ Exchanging("saveBearer", s, c, u, k) \in Request
              /\ Locals(Exchanging("saveBearer", s, c, u, k))
BY DEF Exchanging, Request, Steps, Locals

LEMMA AskingType ==
  ASSUME NEW s \in SignIns, NEW b \in Bearers
  PROVE  Asking(s, b) \in Request /\ Locals(Asking(s, b))
BY DEF Asking, Request, Steps, Locals

LEMMA TypeInit == Init => TypeInv
BY IdleType DEF Init, TypeInv, TypeOK

LEMMA TypeAdminister ==
  ASSUME TypeInv, Administer
  PROVE  TypeInv'
<1> USE DEF TypeInv, TypeOK
<1>1. ASSUME NEW a \in Accounts, NEW s \in SignIns, TakeSignIn(a, s)
      PROVE  TypeInv'
  BY <1>1 DEF TakeSignIn
<1>2. ASSUME NEW c \in Clients, NEW U \in SUBSET Uris, CreateClient(c, U)
      PROVE  TypeInv'
  BY <1>2 DEF CreateClient, history
<1>3. ASSUME NEW c \in Clients, Enable(c)
      PROVE  TypeInv'
  BY <1>3 DEF Enable
<1>4. ASSUME NEW c \in Clients, Disable(c)
      PROVE  TypeInv'
  BY <1>4 DEF Disable, Overtake
<1>5. ASSUME NEW c \in Clients, Delete(c)
      PROVE  TypeInv'
  BY <1>5 DEF Delete, Overtake
<1> QED BY <1>1, <1>2, <1>3, <1>4, <1>5 DEF Administer, Register, ChangeSignIn

LEMMA TypeBegin ==
  ASSUME TypeInv, NEW r \in Requests, Begin(r)
  PROVE  TypeInv'
<1> USE DEF TypeInv, TypeOK
<1>1. ASSUME NEW a \in Accounts, NEW c \in Clients, NEW u \in Uris, Consent(r, a, c, u)
      PROVE  TypeInv'
  BY <1>1, ConsentingType DEF Consent, tables, history
<1>2. ASSUME NEW c \in Clients, NEW k \in Codes, NEW u \in Uris, Exchange(r, c, k, u)
      PROVE  TypeInv'
  BY <1>2, ExchangingType DEF Exchange, tables, history
<1>3. ASSUME NEW b \in Bearers, UserInfo(r, b)
      PROVE  TypeInv'
  <2>1. bearer[b].signIn \in SignIns
    BY <1>3 DEF UserInfo, BearerRow
  <2> QED BY <1>3, <2>1, AskingType DEF UserInfo, tables, history
<1> QED BY <1>1, <1>2, <1>3 DEF Begin

LEMMA TypeServe ==
  ASSUME TypeInv, NEW r \in Requests, Serve(r)
  PROVE  TypeInv'
<1> USE DEF TypeInv, TypeOK
<1>0. req[r] \in Request /\ Locals(req[r])
  OBVIOUS
<1>1. CASE FindClient(r)
  <2>1. /\ req[r].acct \in Accounts /\ req[r].signIn \in SignIns
        /\ req[r].client \in Clients /\ req[r].uri \in Uris
    BY <1>0, <1>1 DEF FindClient, Locals
  <2>2. CASE End(r)
    BY <1>1, <2>2, IdleType DEF FindClient, End, tables, history
  <2>3. CASE req' = [req EXCEPT ![r] =
                       Consenting("saveCode", @.acct, @.signIn, @.client, @.uri)]
    BY <1>1, <2>1, <2>3, ConsentingType DEF FindClient, tables, history
  <2> QED BY <1>1, <2>2, <2>3 DEF FindClient
<1>2. CASE SaveCode(r)
  <2>1. /\ req[r].acct \in Accounts /\ req[r].signIn \in SignIns
        /\ req[r].client \in Clients /\ req[r].uri \in Uris
    BY <1>0, <1>2 DEF SaveCode, Locals
  <2>2. (\A q \in Requests : req'[q] \in Request /\ Locals(req'[q]))
          /\ req' \in [Requests -> Request]
    BY <1>0, <1>2, IdleType DEF SaveCode, End
  <2>3. /\ code' \in [Codes -> CodeRow \cup {None}]
        /\ granted' \in [Codes -> Grant \cup {None}]
        /\ consenter' \in [Codes -> Accounts \cup {None}]
    <3>1. /\ [client |-> req[r].client, signIn |-> req[r].signIn,
              uri |-> req[r].uri, used |-> FALSE] \in CodeRow
          /\ [client |-> req[r].client, signIn |-> req[r].signIn, uri |-> req[r].uri]
               \in Grant
      BY <2>1 DEF CodeRow, Grant
    <3>2. ASSUME NEW k \in Codes,
                 code' = [code EXCEPT ![k] =
                            [client |-> req[r].client, signIn |-> req[r].signIn,
                             uri |-> req[r].uri, used |-> FALSE]],
                 granted' = [granted EXCEPT ![k] =
                               [client |-> req[r].client, signIn |-> req[r].signIn,
                                uri |-> req[r].uri]],
                 consenter' = [consenter EXCEPT ![k] = req[r].acct]
          PROVE  /\ code' \in [Codes -> CodeRow \cup {None}]
                 /\ granted' \in [Codes -> Grant \cup {None}]
                 /\ consenter' \in [Codes -> Accounts \cup {None}]
      BY <2>1, <3>1, <3>2
    <3>3. CASE UNCHANGED <<code, granted, consenter>>
      BY <3>3
    <3> QED BY <1>2, <3>2, <3>3 DEF SaveCode
  <2> QED BY <1>2, <2>2, <2>3 DEF SaveCode
<1>3. CASE Consume(r)
  <2>1. req[r].client \in Clients /\ req[r].uri \in Uris /\ req[r].ref \in Codes
    BY <1>0, <1>3 DEF Consume, Locals
  <2>2. CASE End(r) /\ UNCHANGED code
    BY <1>3, <2>2, IdleType DEF Consume, End, history
  <2>3. ASSUME NEW k \in Codes, k = req[r].ref, Redeemable(k, req[r].client),
               code' = [code EXCEPT ![k] = [client |-> @.client, signIn |-> @.signIn,
                                            uri |-> @.uri, used |-> TRUE]],
               req' = [req EXCEPT ![r] =
                         Exchanging("saveBearer", code[k].signIn, @.client, @.uri, k)]
        PROVE  TypeInv'
    <3>1. code[k] \in CodeRow
      BY <2>3 DEF Redeemable
    <3>2. code' \in [Codes -> CodeRow \cup {None}]
      BY <2>3, <3>1 DEF CodeRow
    <3>3. code[k].signIn \in SignIns
      BY <3>1 DEF CodeRow
    <3> QED BY <1>3, <2>1, <2>3, <3>2, <3>3, ExchangingType DEF Consume, history
  <2> QED BY <1>3, <2>2, <2>3 DEF Consume
<1>4. CASE SaveBearer(r)
  <2>1. /\ req[r].client \in Clients /\ req[r].uri \in Uris
        /\ req[r].ref \in Codes /\ req[r].signIn \in SignIns
    BY <1>0, <1>4 DEF SaveBearer, Locals
  <2>2. /\ bearer' \in [Bearers -> BearerRow \cup {None}]
        /\ got' \in [Bearers -> Redemption \cup {None}]
    BY <1>4, <2>1 DEF SaveBearer, BearerRow, Redemption
  <2> QED BY <1>4, <2>2, IdleType DEF SaveBearer, End
<1>5. CASE Profile(r)
  BY <1>5, IdleType DEF Profile, End, tables
<1> QED BY <1>1, <1>2, <1>3, <1>4, <1>5 DEF Serve

LEMMA TypeStep == TypeInv /\ [Next]_vars => TypeInv'
<1> SUFFICES ASSUME TypeInv, [Next]_vars
             PROVE  TypeInv'
  OBVIOUS
<1>1. ASSUME NEW b \in Bearers, Revoke(b)
      PROVE  TypeInv'
  BY <1>1 DEF TypeInv, TypeOK, Revoke, history
<1>2. ASSUME NEW x \in Codes \cup Bearers, Expire(x)
      PROVE  TypeInv'
  BY <1>2 DEF TypeInv, TypeOK, Expire, history
<1>3. CASE Restart
  BY <1>3, IdleType DEF TypeInv, TypeOK, Restart, tables, history
<1>4. CASE UNCHANGED vars
  BY <1>4 DEF TypeInv, TypeOK, vars
<1> QED BY <1>1, <1>2, <1>3, <1>4, TypeAdminister, TypeBegin, TypeServe DEF Next

\* Every variable keeps its type: in particular no handler stores a code or an
\* access token without an account, a client or a redirect URI.
THEOREM TypeCorrect == Spec => []TypeOK
<1>1. TypeInv => TypeOK
  BY DEF TypeInv
<1> QED BY <1>1, TypeInit, TypeStep, PTL DEF Spec

-----------------------------------------------------------------------------
(* A code is redeemed once, for what it was granted.  The invariant follows *)
(* a code from its grant through the one request that has marked it used to *)
(* the one bearer that request stores.                                      *)

CodesGranted ==
  \A k \in Codes : code[k] # None =>
    granted[k] = [client |-> code[k].client, signIn |-> code[k].signIn,
                  uri |-> code[k].uri]

\* No exchange finds code k any more.
Spent(k) == granted[k] # None /\ (code[k] # None => code[k].used)

Redeeming ==
  \A r \in Requests : req[r].pc = "saveBearer" =>
    /\ Spent(req[r].ref)
    /\ granted[req[r].ref] = [client |-> req[r].client, signIn |-> req[r].signIn,
                              uri |-> req[r].uri]
    /\ \A b \in Bearers : got[b] # None => got[b].code # req[r].ref
    /\ \A q \in Requests :
         req[q].pc = "saveBearer" /\ req[q].ref = req[r].ref => q = r

BearersGot ==
  \A b \in Bearers :
    /\ got[b] # None =>
         /\ Spent(got[b].code)
         /\ granted[got[b].code].client = got[b].client
         /\ granted[got[b].code].uri = got[b].uri
    /\ bearer[b] # None =>
         /\ got[b] # None
         /\ bearer[b] = [client |-> granted[got[b].code].client,
                         signIn |-> granted[got[b].code].signIn]
    /\ b \in stale => got[b] # None

GrantInv == CodesGranted /\ Redeeming /\ BearersGot /\ SingleUse

\* A step that writes no code, bearer or grant, though it may remove rows, and
\* after which no request is newly about to store a bearer.
LEMMA GrantFrame ==
  ASSUME TypeInv, GrantInv, UNCHANGED <<granted, got>>,
         \A k \in Codes : code'[k] \in {code[k], None},
         \A b \in Bearers : bearer'[b] \in {bearer[b], None},
         \A b \in Bearers : b \in stale' => b \in stale \/ bearer[b] # None,
         \A r \in Requests : req'[r].pc = "saveBearer" => req'[r] = req[r]
  PROVE  GrantInv'
<1>0. \A r \in Requests : req[r].pc = "saveBearer" => req[r].ref \in Codes
  BY DEF TypeInv, Locals
<1>1. \A b \in Bearers : got[b] # None => got[b].code \in Codes
  BY DEF TypeInv, TypeOK, Redemption
<1>2. \A k \in Codes : Spent(k) => Spent(k)'
  BY DEF Spent
<1>3. CodesGranted'
  BY DEF GrantInv, CodesGranted
<1>4. Redeeming'
  BY <1>0, <1>2 DEF GrantInv, Redeeming
<1>5. BearersGot'
  BY <1>1, <1>2 DEF GrantInv, BearersGot
<1>6. SingleUse'
  BY DEF GrantInv, SingleUse
<1> QED BY <1>3, <1>4, <1>5, <1>6 DEF GrantInv

LEMMA GrantInit == Init => GrantInv
BY DEF Init, GrantInv, CodesGranted, Redeeming, BearersGot, SingleUse, Idle

\* Only these records are about to store a bearer.
LEMMA RequestSteps ==
  /\ Idle.pc = "idle"
  /\ \A p, a, s, c, u : Consenting(p, a, s, c, u).pc = p
  /\ \A p, s, c, u, k : Exchanging(p, s, c, u, k).pc = p
  /\ \A s, b : Asking(s, b).pc = "profile"
BY DEF Idle, Consenting, Exchanging, Asking

\* What a step that starts or ends request r, or moves its consent on, leaves
\* alone.
LEMMA GrantQuiet ==
  ASSUME TypeInv, GrantInv, UNCHANGED <<granted, got, code, bearer, stale>>,
         NEW r \in Requests, NEW q, q.pc # "saveBearer", req' = [req EXCEPT ![r] = q]
  PROVE  GrantInv'
<1>1. \A x \in Requests : req'[x].pc = "saveBearer" => req'[x] = req[x]
  BY DEF TypeInv, TypeOK
<1> QED BY <1>1, GrantFrame

LEMMA GrantAdminister ==
  ASSUME TypeInv, GrantInv, Administer
  PROVE  GrantInv'
<1>1. UNCHANGED <<granted, got, stale, req>>
  BY DEF Administer, Register, ChangeSignIn, TakeSignIn, CreateClient, Enable,
         Disable, Delete, history
<1>2. /\ \A k \in Codes : code'[k] \in {code[k], None}
      /\ \A b \in Bearers : bearer'[b] \in {bearer[b], None}
  BY DEF Administer, Register, ChangeSignIn, TakeSignIn, CreateClient, Enable,
         Disable, Delete
<1> QED BY <1>1, <1>2, GrantFrame

LEMMA GrantBegin ==
  ASSUME TypeInv, GrantInv, NEW r \in Requests, Begin(r)
  PROVE  GrantInv'
<1>1. UNCHANGED <<granted, got, code, bearer, stale>>
  BY DEF Begin, Consent, Exchange, UserInfo, tables, history
<1>2. PICK q : req' = [req EXCEPT ![r] = q] /\ q.pc # "saveBearer"
  BY RequestSteps DEF Begin, Consent, Exchange, UserInfo
<1> QED BY <1>1, <1>2, GrantQuiet

\* A fresh code: whatever refers to a granted code is not affected.
LEMMA GrantSaveCode ==
  ASSUME TypeInv, GrantInv, NEW r \in Requests, SaveCode(r)
  PROVE  GrantInv'
<1>0. /\ req' = [req EXCEPT ![r] = Idle] /\ UNCHANGED <<got, bearer, stale>>
      /\ req \in [Requests -> Request] /\ code \in [Codes -> CodeRow \cup {None}]
      /\ granted \in [Codes -> Grant \cup {None}]
  BY DEF SaveCode, End, TypeInv, TypeOK
<1>1. CASE UNCHANGED <<code, granted, consenter>>
  BY <1>0, <1>1, GrantQuiet, RequestSteps
<1>2. ASSUME NEW k \in Codes, granted[k] = None,
             code' = [code EXCEPT ![k] =
                        [client |-> req[r].client, signIn |-> req[r].signIn,
                         uri |-> req[r].uri, used |-> FALSE]],
             granted' = [granted EXCEPT ![k] =
                           [client |-> req[r].client, signIn |-> req[r].signIn,
                            uri |-> req[r].uri]]
      PROVE  GrantInv'
  <2>1. CodesGranted'
    BY <1>0, <1>2 DEF GrantInv, CodesGranted
  <2>2. \A j \in Codes \ {k} : code'[j] = code[j] /\ granted'[j] = granted[j]
    BY <1>0, <1>2
  <2>3. \A j \in Codes : Spent(j) => j # k /\ Spent(j)'
    BY <1>2, <2>2 DEF Spent
  <2>4. \A x \in Requests : req'[x].pc = "saveBearer" =>
          req'[x] = req[x] /\ req[x].ref \in Codes
    BY <1>0, RequestSteps DEF TypeInv, Locals
  <2>5. Redeeming'
    BY <1>0, <2>2, <2>3, <2>4 DEF GrantInv, Redeeming
  <2>6. \A b \in Bearers : got[b] # None => got[b].code \in Codes
    BY DEF TypeInv, TypeOK, Redemption
  <2>7. BearersGot'
    BY <1>0, <2>2, <2>3, <2>6 DEF GrantInv, BearersGot
  <2>8. SingleUse'
    BY <1>0 DEF GrantInv, SingleUse
  <2> QED BY <2>1, <2>5, <2>7, <2>8 DEF GrantInv
<1> QED BY <1>1, <1>2 DEF SaveCode

\* An unused code: no request and no bearer holds it yet.
LEMMA GrantConsume ==
  ASSUME TypeInv, GrantInv, NEW r \in Requests, Consume(r)
  PROVE  GrantInv'
<1>0. /\ UNCHANGED <<granted, got, bearer, stale>>
      /\ req \in [Requests -> Request] /\ code \in [Codes -> CodeRow \cup {None}]
      /\ req[r].pc = "consume"
  BY DEF Consume, history, TypeInv, TypeOK
<1>1. CASE End(r) /\ UNCHANGED code
  BY <1>0, <1>1, GrantQuiet, RequestSteps DEF End
<1>2. ASSUME NEW k \in Codes, Redeemable(k, req[r].client), code[k].uri = req[r].uri,
             code' = [code EXCEPT ![k] = [client |-> @.client, signIn |-> @.signIn,
                                          uri |-> @.uri, used |-> TRUE]],
             req' = [req EXCEPT ![r] =
                       Exchanging("saveBearer", code[k].signIn, @.client, @.uri, k)]
      PROVE  GrantInv'
  <2>1. /\ code[k] # None /\ code[k] \in CodeRow /\ ~code[k].used
        /\ code[k].client = req[r].client
    BY <1>0, <1>2 DEF Redeemable
  <2>2. ~Spent(k)
    BY <2>1 DEF Spent
  <2>3. /\ \A j \in Codes \ {k} : code'[j] = code[j]
        /\ code'[k] = [client |-> code[k].client, signIn |-> code[k].signIn,
                       uri |-> code[k].uri, used |-> TRUE]
    BY <1>0, <1>2
  <2>4. granted[k] = [client |-> req[r].client, signIn |-> code[k].signIn,
                      uri |-> req[r].uri]
    BY <1>2, <2>1 DEF GrantInv, CodesGranted
  <2>5. CodesGranted'
    BY <1>0, <2>1, <2>3 DEF GrantInv, CodesGranted
  <2>6. (\A j \in Codes : Spent(j) => Spent(j)') /\ Spent(k)'
    <3>1. code[k].signIn \in SignIns /\ req[r].client \in Clients /\ req[r].uri \in Uris
      BY <1>0, <2>1 DEF CodeRow, TypeInv, Locals
    <3>2. granted[k] # None
      BY <2>4, <3>1 DEF Grant
    <3> QED BY <1>0, <2>3, <3>2 DEF Spent
  <2>7. /\ req'[r].pc = "saveBearer" /\ req'[r].client = req[r].client
        /\ req'[r].uri = req[r].uri /\ req'[r].signIn = code[k].signIn
        /\ req'[r].ref = k
    BY <1>0, <1>2 DEF Exchanging
  <2>8. \A x \in Requests \ {r} : req'[x] = req[x]
    BY <1>0, <1>2
  <2>9. \A b \in Bearers : got[b] # None => got[b].code \in Codes /\ got[b].code # k
    BY <2>2 DEF GrantInv, BearersGot, TypeInv, TypeOK, Redemption
  <2>10. \A x \in Requests : req[x].pc = "saveBearer" => req[x].ref \in Codes \ {k}
    BY <2>2 DEF GrantInv, Redeeming, TypeInv, Locals
  <2>11. Redeeming'
    <3>1. ASSUME NEW x \in Requests \ {r}, req'[x].pc = "saveBearer"
          PROVE  /\ Spent(req[x].ref)'
                 /\ granted'[req'[x].ref] =
                      [client |-> req'[x].client, signIn |-> req'[x].signIn,
                       uri |-> req'[x].uri]
                 /\ \A b \in Bearers : got'[b] # None => got'[b].code # req'[x].ref
                 /\ \A q \in Requests :
                      req'[q].pc = "saveBearer" /\ req'[q].ref = req'[x].ref => q = x
      <4>1. /\ req[x].pc = "saveBearer" /\ req'[x] = req[x]
            /\ req[x].ref \in Codes \ {k}
        BY <2>8, <2>10, <3>1
      <4>2. Spent(req[x].ref)'
        BY <2>6, <4>1 DEF GrantInv, Redeeming, Spent
      <4> QED BY <1>0, <2>7, <2>8, <4>1, <4>2 DEF GrantInv, Redeeming
    <3>2. /\ Spent(req[r].ref)'
          /\ granted'[req'[r].ref] =
               [client |-> req'[r].client, signIn |-> req'[r].signIn, uri |-> req'[r].uri]
          /\ \A b \in Bearers : got'[b] # None => got'[b].code # req'[r].ref
          /\ \A q \in Requests :
               req'[q].pc = "saveBearer" /\ req'[q].ref = req'[r].ref => q = r
      <4>1. Spent(req[r].ref)'
        BY <2>6, <2>7 DEF Spent
      <4> QED BY <1>0, <2>4, <2>7, <2>8, <2>9, <2>10, <4>1
    <3> QED BY <3>1, <3>2 DEF Redeeming
  <2>12. BearersGot'
    BY <1>0, <2>6, <2>9 DEF GrantInv, BearersGot
  <2>13. SingleUse'
    BY <1>0 DEF GrantInv, SingleUse
  <2> QED BY <2>5, <2>11, <2>12, <2>13 DEF GrantInv
<1> QED BY <1>1, <1>2 DEF Consume

\* The one request that holds the code stores a fresh bearer and ends.
LEMMA GrantSaveBearer ==
  ASSUME TypeInv, GrantInv, NEW r \in Requests, SaveBearer(r)
  PROVE  GrantInv'
<1>0. /\ UNCHANGED <<granted, code, stale>> /\ req' = [req EXCEPT ![r] = Idle]
      /\ req \in [Requests -> Request] /\ bearer \in [Bearers -> BearerRow \cup {None}]
      /\ got \in [Bearers -> Redemption \cup {None}]
      /\ req[r].pc = "saveBearer"
  BY DEF SaveBearer, End, TypeInv, TypeOK
<1>1. CASE UNCHANGED <<bearer, got>>
  BY <1>0, <1>1, GrantQuiet, RequestSteps
<1>2. ASSUME NEW b \in Bearers, NEW k \in Codes, k = req[r].ref, got[b] = None,
             bearer' = [bearer EXCEPT ![b] = [client |-> req[r].client,
                                              signIn |-> req[r].signIn]],
             got' = [got EXCEPT ![b] = [code |-> k, client |-> req[r].client,
                                        uri |-> req[r].uri]]
      PROVE  GrantInv'
  <2>1. /\ Spent(k)
        /\ granted[k] = [client |-> req[r].client, signIn |-> req[r].signIn,
                         uri |-> req[r].uri]
        /\ \A c \in Bearers : got[c] # None => got[c].code # k
    BY <1>0, <1>2 DEF GrantInv, Redeeming
  <2>2. \A x \in Requests : req'[x].pc = "saveBearer" => x # r /\ req'[x] = req[x]
    BY <1>0, RequestSteps
  <2>3. \A x \in Requests \ {r} : req[x].pc = "saveBearer" => req[x].ref # k
    BY <1>0, <1>2 DEF GrantInv, Redeeming
  <2>4. /\ got'[b] = [code |-> k, client |-> req[r].client, uri |-> req[r].uri]
        /\ bearer'[b] = [client |-> req[r].client, signIn |-> req[r].signIn]
        /\ \A c \in Bearers \ {b} : got'[c] = got[c] /\ bearer'[c] = bearer[c]
    BY <1>0, <1>2
  <2>5. got'[b] # None
    <3>1. req[r].client \in Clients /\ req[r].uri \in Uris
      BY <1>0 DEF TypeInv, Locals
    <3> QED BY <2>4, <3>1 DEF Redemption
  <2>6. \A j : Spent(j)' = Spent(j)
    BY <1>0 DEF Spent
  <2>7. CodesGranted'
    BY <1>0 DEF GrantInv, CodesGranted
  <2>8. Redeeming'
    BY <1>0, <2>2, <2>3, <2>4, <2>6 DEF GrantInv, Redeeming
  <2>9. BearersGot'
    BY <1>0, <2>1, <2>4, <2>5, <2>6 DEF GrantInv, BearersGot
  <2>10. SingleUse'
    BY <2>1, <2>4 DEF GrantInv, SingleUse
  <2> QED BY <2>7, <2>8, <2>9, <2>10 DEF GrantInv
<1> QED BY <1>1, <1>2 DEF SaveBearer

LEMMA GrantStep == TypeInv /\ GrantInv /\ [Next]_vars => GrantInv'
<1> SUFFICES ASSUME TypeInv, GrantInv, [Next]_vars
             PROVE  GrantInv'
  OBVIOUS
<1>1. ASSUME NEW r \in Requests, FindClient(r) \/ Profile(r)
      PROVE  GrantInv'
  <2>1. UNCHANGED <<granted, got, code, bearer, stale>>
    BY <1>1 DEF FindClient, Profile, tables, history
  <2>2. PICK q : req' = [req EXCEPT ![r] = q] /\ q.pc # "saveBearer"
    BY <1>1, RequestSteps DEF FindClient, Profile, End
  <2> QED BY <2>1, <2>2, GrantQuiet
<1>2. ASSUME NEW b \in Bearers, Revoke(b)
      PROVE  GrantInv'
  BY <1>2, GrantFrame DEF Revoke, history, TypeInv, TypeOK
<1>3. ASSUME NEW x \in Codes \cup Bearers, Expire(x)
      PROVE  GrantInv'
  BY <1>3, GrantFrame DEF Expire, history
<1>4. CASE Restart
  BY <1>4, GrantFrame, RequestSteps DEF Restart, tables, history
<1>5. CASE UNCHANGED vars
  BY <1>5, GrantFrame DEF vars
<1> QED BY <1>1, <1>2, <1>3, <1>4, <1>5, GrantAdminister, GrantBegin, GrantSaveCode,
           GrantConsume, GrantSaveBearer DEF Next, Serve

\* However many exchanges of a code run side by side, it yields one token.
THEOREM CodesAreSingleUse == Spec => []SingleUse
<1>1. GrantInv => SingleUse
  BY DEF GrantInv
<1> QED BY <1>1, TypeInit, TypeStep, GrantInit, GrantStep, PTL DEF Spec

-----------------------------------------------------------------------------
(* Clients that are switched off or deleted.  A request keeps what it knows *)
(* of a client, so the invariant counts the requests past the check.        *)

Homes ==
  /\ \A c \in Clients : status[c] = "new" => uris[c] = {}
  /\ \A r \in Requests :
       req[r].pc = "saveCode" /\ status[req[r].client] # "deleted"
         => req[r].uri \in uris[req[r].client]
  /\ \A k \in Codes :
       code[k] # None /\ status[code[k].client] # "deleted"
         => code[k].uri \in uris[code[k].client]

NobodyPassed == \A c \in Clients : status[c] # "enabled" /\ c \notin raced => Passed(c) = {}

ClientInv == Homes /\ NobodyPassed /\ DeletedLeavesNothing

LEMMA ClientInit == Init => ClientInv
BY RequestSteps
DEF Init, ClientInv, Homes, NobodyPassed, Passed, DeletedLeavesNothing

\* A step that adds no row and takes no request past the check of a client.
LEMMA ClientFrame ==
  ASSUME TypeInv, ClientInv, UNCHANGED <<status, uris, raced>>,
         \A k \in Codes :
           \/ code'[k] = None
           \/ /\ code[k] # None /\ code'[k].client = code[k].client
              /\ code'[k].uri = code[k].uri,
         \A b \in Bearers : bearer'[b] \in {bearer[b], None},
         \A r \in Requests :
           \/ req'[r] = req[r]
           \/ req'[r].pc \notin {"saveCode", "consume", "saveBearer"}
           \/ req[r].pc = "consume" /\ req'[r].pc = "saveBearer"
                /\ req'[r].client = req[r].client
  PROVE  ClientInv'
<1>1. Homes'
  BY DEF ClientInv, Homes
<1>2. \A c \in Clients : Passed(c)' \subseteq Passed(c)
  BY DEF Passed
<1>3. NobodyPassed'
  BY <1>2 DEF ClientInv, NobodyPassed
<1>4. DeletedLeavesNothing'
  BY DEF ClientInv, DeletedLeavesNothing
<1> QED BY <1>1, <1>3, <1>4 DEF ClientInv

\* The steps of the owner of a client.
LEMMA ClientAdminister ==
  ASSUME TypeInv, ClientInv, Administer
  PROVE  ClientInv'
<1>0. /\ status \in [Clients -> {"new", "enabled", "disabled", "deleted"}]
      /\ uris \in [Clients -> SUBSET Uris]
      /\ code \in [Codes -> CodeRow \cup {None}]
      /\ bearer \in [Bearers -> BearerRow \cup {None}]
      /\ \A r \in Requests : req[r].pc = "saveCode" => req[r].client \in Clients
      /\ \A k \in Codes : code[k] # None => code[k].client \in Clients
  BY DEF TypeInv, TypeOK, Locals, CodeRow
<1>1. ASSUME NEW a \in Accounts, NEW s \in SignIns, TakeSignIn(a, s)
      PROVE  ClientInv'
  BY <1>1, ClientFrame DEF TakeSignIn
<1>2. ASSUME NEW c \in Clients, NEW U \in SUBSET Uris, CreateClient(c, U)
      PROVE  ClientInv'
  <2>1. UNCHANGED <<code, bearer, req, raced>>
    BY <1>2 DEF CreateClient, history
  <2>2. Homes'
    BY <1>0, <1>2, <2>1 DEF CreateClient, ClientInv, Homes
  <2>3. NobodyPassed'
    BY <1>0, <1>2, <2>1 DEF CreateClient, ClientInv, NobodyPassed, Passed
  <2>4. DeletedLeavesNothing'
    BY <1>0, <1>2, <2>1 DEF CreateClient, ClientInv, DeletedLeavesNothing
  <2> QED BY <2>2, <2>3, <2>4 DEF ClientInv
<1>3. ASSUME NEW c \in Clients, Enable(c)
      PROVE  ClientInv'
  <2>1. Homes'
    BY <1>0, <1>3 DEF Enable, ClientInv, Homes
  <2>2. NobodyPassed'
    BY <1>0, <1>3 DEF Enable, ClientInv, NobodyPassed, Passed
  <2>3. DeletedLeavesNothing'
    BY <1>0, <1>3 DEF Enable, ClientInv, DeletedLeavesNothing
  <2> QED BY <2>1, <2>2, <2>3 DEF ClientInv
<1>4. ASSUME NEW c \in Clients, Disable(c)
      PROVE  ClientInv'
  <2>1. Homes'
    BY <1>0, <1>4 DEF Disable, ClientInv, Homes
  <2>2. NobodyPassed'
    BY <1>0, <1>4 DEF Disable, Overtake, ClientInv, NobodyPassed, Passed
  <2>3. DeletedLeavesNothing'
    BY <1>0, <1>4 DEF Disable, Overtake, ClientInv, DeletedLeavesNothing
  <2> QED BY <2>1, <2>2, <2>3 DEF ClientInv
<1>5. ASSUME NEW c \in Clients, Delete(c)
      PROVE  ClientInv'
  <2>1. Homes'
    BY <1>0, <1>5 DEF Delete, ClientInv, Homes
  <2>2. NobodyPassed'
    BY <1>0, <1>5 DEF Delete, Overtake, ClientInv, NobodyPassed, Passed
  <2>3. DeletedLeavesNothing'
    BY <1>0, <1>5 DEF Delete, Overtake, ClientInv, DeletedLeavesNothing
  <2> QED BY <2>1, <2>2, <2>3 DEF ClientInv
<1> QED BY <1>1, <1>2, <1>3, <1>4, <1>5 DEF Administer, Register, ChangeSignIn

\* Request r passes the check of a client, which is enabled.
LEMMA ClientPassed ==
  ASSUME TypeInv, ClientInv, UNCHANGED <<status, uris, code, bearer, raced>>,
         NEW r \in Requests, NEW c \in Clients, status[c] = "enabled", NEW q,
         req' = [req EXCEPT ![r] = q], q.client = c,
         q.pc = "saveCode" => q.uri \in uris[c]
  PROVE  ClientInv'
<1>0. req \in [Requests -> Request]
  BY DEF TypeInv, TypeOK
<1>1. Homes'
  BY <1>0 DEF ClientInv, Homes
<1>2. \A d \in Clients \ {c} : Passed(d)' \subseteq Passed(d)
  BY <1>0 DEF Passed
<1>3. NobodyPassed'
  BY <1>2 DEF ClientInv, NobodyPassed
<1>4. DeletedLeavesNothing'
  BY DEF ClientInv, DeletedLeavesNothing
<1> QED BY <1>1, <1>3, <1>4 DEF ClientInv

LEMMA ClientBegin ==
  ASSUME TypeInv, ClientInv, NEW r \in Requests, Begin(r)
  PROVE  ClientInv'
<1>0. /\ req \in [Requests -> Request]
      /\ UNCHANGED <<status, uris, code, bearer, raced>>
  BY DEF TypeInv, TypeOK, Begin, Consent, Exchange, UserInfo, tables, history
<1>1. ASSUME NEW a \in Accounts, NEW c \in Clients, NEW u \in Uris, Consent(r, a, c, u)
      PROVE  ClientInv'
  BY <1>0, <1>1, ClientFrame, RequestSteps DEF Consent
<1>2. ASSUME NEW c \in Clients, NEW k \in Codes, NEW u \in Uris, Exchange(r, c, k, u)
      PROVE  ClientInv'
  <2>1. /\ Exchanging("consume", None, c, u, k).pc = "consume"
        /\ Exchanging("consume", None, c, u, k).client = c
    BY DEF Exchanging
  <2> QED BY <1>0, <1>2, <2>1, ClientPassed DEF Exchange
<1>3. ASSUME NEW b \in Bearers, UserInfo(r, b)
      PROVE  ClientInv'
  BY <1>0, <1>3, ClientFrame, RequestSteps DEF UserInfo
<1> QED BY <1>1, <1>2, <1>3 DEF Begin

\* The client of a request that has passed its check is not gone for good.
LEMMA PassedClient ==
  ASSUME TypeInv, ClientInv, NEW r \in Requests, req[r].pc \in {"saveCode", "saveBearer"}
  PROVE  /\ req[r].client \in Clients
         /\ status[req[r].client] # "enabled" => req[r].client \in raced
BY DEF TypeInv, Locals, ClientInv, NobodyPassed, Passed

LEMMA ClientServe ==
  ASSUME TypeInv, ClientInv, NEW r \in Requests, Serve(r)
  PROVE  ClientInv'
<1>0. /\ req \in [Requests -> Request] /\ Locals(req[r])
      /\ code \in [Codes -> CodeRow \cup {None}]
      /\ bearer \in [Bearers -> BearerRow \cup {None}]
  BY DEF TypeInv, TypeOK
<1>1. CASE FindClient(r)
  <2>1. UNCHANGED <<status, uris, code, bearer, raced>>
    BY <1>1 DEF FindClient, tables, history
  <2>2. CASE End(r)
    BY <1>0, <2>1, <2>2, ClientFrame, RequestSteps DEF End
  <2>3. CASE /\ Admits(req[r].client, req[r].uri)
             /\ req' = [req EXCEPT ![r] =
                          Consenting("saveCode", @.acct, @.signIn, @.client, @.uri)]
    <3>1. req[r].client \in Clients
      BY <1>0, <1>1 DEF FindClient, Locals
    <3> QED BY <1>0, <2>1, <2>3, <3>1, ClientPassed DEF Admits, Consenting
  <2> QED BY <1>1, <2>2, <2>3 DEF FindClient
<1>2. CASE SaveCode(r)
  <2>0. /\ UNCHANGED <<status, uris, bearer, raced>> /\ req[r].pc = "saveCode"
        /\ req' = [req EXCEPT ![r] = Idle]
    BY <1>2 DEF SaveCode, End
  <2>1. CASE UNCHANGED code
    BY <1>0, <2>0, <2>1, ClientFrame, RequestSteps
  <2>2. ASSUME NEW k \in Codes,
               code' = [code EXCEPT ![k] =
                          [client |-> req[r].client, signIn |-> req[r].signIn,
                           uri |-> req[r].uri, used |-> FALSE]]
        PROVE  ClientInv'
    <3>1. Homes'
      BY <1>0, <2>0, <2>2, RequestSteps DEF ClientInv, Homes
    <3>2. \A c \in Clients : Passed(c)' \subseteq Passed(c)
      BY <1>0, <2>0, RequestSteps DEF Passed
    <3>3. NobodyPassed'
      BY <2>0, <3>2 DEF ClientInv, NobodyPassed
    <3>4. DeletedLeavesNothing'
      BY <1>0, <2>0, <2>2, PassedClient DEF ClientInv, DeletedLeavesNothing
    <3> QED BY <3>1, <3>3, <3>4 DEF ClientInv
  <2> QED BY <1>2, <2>1, <2>2 DEF SaveCode
<1>3. CASE Consume(r)
  <2>0. UNCHANGED <<status, uris, bearer, raced>> /\ req[r].pc = "consume"
    BY <1>3 DEF Consume, history
  <2>1. CASE End(r) /\ UNCHANGED code
    BY <1>0, <2>0, <2>1, ClientFrame, RequestSteps DEF End
  <2>2. ASSUME NEW k \in Codes, Redeemable(k, req[r].client),
               code' = [code EXCEPT ![k] = [client |-> @.client, signIn |-> @.signIn,
                                            uri |-> @.uri, used |-> TRUE]],
               req' = [req EXCEPT ![r] =
                         Exchanging("saveBearer", code[k].signIn, @.client, @.uri, k)]
        PROVE  ClientInv'
    <3>1. \A j \in Codes : \/ code'[j] = None
                           \/ /\ code[j] # None /\ code'[j].client = code[j].client
                              /\ code'[j].uri = code[j].uri
      BY <1>0, <2>2 DEF Redeemable
    <3>2. req'[r].pc = "saveBearer" /\ req'[r].client = req[r].client
      BY <1>0, <2>2 DEF Exchanging
    <3> QED BY <1>0, <2>0, <2>2, <3>1, <3>2, ClientFrame
  <2> QED BY <1>3, <2>1, <2>2 DEF Consume
<1>4. CASE SaveBearer(r)
  <2>0. /\ UNCHANGED <<status, uris, code, raced>> /\ req[r].pc = "saveBearer"
        /\ req' = [req EXCEPT ![r] = Idle]
    BY <1>4 DEF SaveBearer, End
  <2>1. Homes'
    BY <1>0, <2>0, RequestSteps DEF ClientInv, Homes
  <2>2. \A c \in Clients : Passed(c)' \subseteq Passed(c)
    BY <1>0, <2>0, RequestSteps DEF Passed
  <2>3. NobodyPassed'
    BY <2>0, <2>2 DEF ClientInv, NobodyPassed
  <2>4. DeletedLeavesNothing'
    BY <1>0, <1>4, <2>0, PassedClient DEF SaveBearer, ClientInv, DeletedLeavesNothing
  <2> QED BY <2>1, <2>3, <2>4 DEF ClientInv
<1>5. CASE Profile(r)
  BY <1>0, <1>5, ClientFrame, RequestSteps DEF Profile, End, tables
<1> QED BY <1>1, <1>2, <1>3, <1>4, <1>5 DEF Serve

LEMMA ClientStep == TypeInv /\ ClientInv /\ [Next]_vars => ClientInv'
<1> SUFFICES ASSUME TypeInv, ClientInv, [Next]_vars
             PROVE  ClientInv'
  OBVIOUS
<1>1. ASSUME NEW b \in Bearers, Revoke(b)
      PROVE  ClientInv'
  BY <1>1, ClientFrame DEF Revoke, history, TypeInv, TypeOK
<1>2. ASSUME NEW x \in Codes \cup Bearers, Expire(x)
      PROVE  ClientInv'
  BY <1>2, ClientFrame DEF Expire, history
<1>3. CASE Restart
  BY <1>3, ClientFrame, RequestSteps DEF Restart, tables, history
<1>4. CASE UNCHANGED vars
  BY <1>4, ClientFrame DEF vars
<1> QED BY <1>1, <1>2, <1>3, <1>4, ClientAdminister, ClientBegin, ClientServe DEF Next

\* Deleting a client takes its codes and access tokens along, and nothing
\* creates them again but a request that had passed its check before.
THEOREM DeletionIsClean == Spec => []DeletedLeavesNothing
<1>1. ClientInv => DeletedLeavesNothing
  BY DEF ClientInv
<1> QED BY <1>1, TypeInit, TypeStep, ClientInit, ClientStep, PTL DEF Spec

\* Codes wait at registered URIs; tokens are what the account consented to.
THEOREM TokensStayInScope == Spec => []TokenScope
<1>1. GrantInv /\ ClientInv => TokenScope
  BY DEF GrantInv, BearersGot, Spent, ClientInv, Homes, TokenScope
<1> QED BY <1>1, TypeInit, TypeStep, GrantInit, GrantStep, ClientInit, ClientStep,
           PTL DEF Spec

\* Only two actions create rows, and both only for clients that are enabled or
\* were overtaken.
LEMMA DisabledStep ==
  ASSUME TypeInv, ClientInv, [Next]_vars,
         NEW c \in Clients, status[c] # "enabled", c \notin raced
  PROVE  /\ \A k \in Codes : code'[k] # None /\ code'[k].client = c => code[k] # None
         /\ \A b \in Bearers : bearer'[b] # None /\ bearer'[b].client = c
                                 => bearer[b] # None
<1>0. /\ code \in [Codes -> CodeRow \cup {None}]
      /\ bearer \in [Bearers -> BearerRow \cup {None}]
  BY DEF TypeInv, TypeOK
<1>1. ASSUME NEW r \in Requests, SaveCode(r) \/ SaveBearer(r)
      PROVE  req[r].client # c
  BY <1>1, PassedClient DEF SaveCode, SaveBearer
<1>2. ASSUME NEW r \in Requests, SaveCode(r)
      PROVE  \A k \in Codes : code'[k] # None /\ code'[k].client = c => code[k] # None
  BY <1>0, <1>1, <1>2 DEF SaveCode
<1>3. ASSUME NEW r \in Requests, SaveBearer(r)
      PROVE  \A b \in Bearers : bearer'[b] # None /\ bearer'[b].client = c
                                  => bearer[b] # None
  BY <1>0, <1>1, <1>3 DEF SaveBearer
<1>4. (\A r \in Requests : ~SaveCode(r)) => \A k \in Codes : code'[k] # None => code[k] # None
  BY <1>0 DEF Next, vars, tables, history, Administer, Register, ChangeSignIn,
     TakeSignIn, CreateClient, Enable, Disable, Delete, Begin, Consent, Exchange,
     UserInfo, Serve, FindClient, Consume, Redeemable, SaveBearer, Profile, Revoke,
     Expire, Restart
<1>5. (\A r \in Requests : ~SaveBearer(r))
        => \A b \in Bearers : bearer'[b] # None => bearer[b] # None
  BY <1>0 DEF Next, vars, tables, history, Administer, Register, ChangeSignIn,
     TakeSignIn, CreateClient, Enable, Disable, Delete, Begin, Consent, Exchange,
     UserInfo, Serve, FindClient, Consume, SaveCode, Profile, Revoke, Expire, Restart
<1> QED BY <1>2, <1>3, <1>4, <1>5

\* A client that is switched off gets nothing new.
THEOREM SwitchedOffClients == Spec => DisabledGetsNothing
<1>1. TypeInv /\ ClientInv /\ [Next]_vars =>
        [\A c \in Clients : status[c] # "enabled" /\ c \notin raced =>
           /\ \A k \in Codes : code'[k] # None /\ code'[k].client = c => code[k] # None
           /\ \A b \in Bearers : bearer'[b] # None /\ bearer'[b].client = c
                                   => bearer[b] # None]_vars
  BY DisabledStep
<1> QED BY <1>1, TypeInit, TypeStep, ClientInit, ClientStep, PTL
        DEF Spec, DisabledGetsNothing

-----------------------------------------------------------------------------
(* Whose profile a token gives out.  While no sign-in is handed on, the     *)
(* first account to bear a sign-in stands for it, wherever it was copied.   *)

OwnerInv ==
  /\ \A a \in Accounts : signIn[a] # None => held[signIn[a]] = a
  /\ \A k \in Codes : granted[k] # None =>
       consenter[k] \in Accounts /\ held[granted[k].signIn] = consenter[k]
  /\ \A r \in Requests : req[r].pc \in {"findClient", "saveCode"} =>
       held[req[r].signIn] = req[r].acct
  /\ \A r \in Requests : req[r].pc = "profile" =>
       /\ got[req[r].ref] # None
       /\ held[req[r].signIn] \in Accounts
       /\ held[req[r].signIn] = consenter[got[req[r].ref].code]
  /\ \A b \in Bearers : told[b] # {} =>
       got[b] # None /\ told[b] = {consenter[got[b].code]}

LEMMA OwnerInit == Init => OwnerInv
BY RequestSteps DEF Init, OwnerInv

\* A step that tells nobody, grants nothing and reads no sign-in.
LEMMA OwnerFrame ==
  ASSUME TypeInv, OwnerInv, UNCHANGED <<signIn, granted, consenter, got, told, held>>,
         \A r \in Requests :
           \/ req'[r] = req[r]
           \/ req'[r].pc \in {"idle", "consume", "saveBearer"}
           \/ /\ req[r].pc = "findClient" /\ req'[r].pc = "saveCode"
              /\ req'[r].acct = req[r].acct /\ req'[r].signIn = req[r].signIn
  PROVE  OwnerInv'
BY DEF OwnerInv

\* An account takes a sign-in that is its own or was nobody's.
LEMMA OwnerTakes ==
  ASSUME ~SignInsReused, TypeInv, OwnerInv, NEW a \in Accounts, NEW s \in SignIns,
         TakeSignIn(a, s)
  PROVE  OwnerInv'
<1>0. /\ signIn \in [Accounts -> SignIns \cup {None}]
      /\ held \in [SignIns -> Accounts \cup {None}]
      /\ UNCHANGED <<granted, consenter, got, told, req>>
      /\ held[s] \in {None, a} /\ signIn' = [signIn EXCEPT ![a] = s]
      /\ held' = [held EXCEPT ![s] = IF @ = None THEN a ELSE @]
  BY DEF TakeSignIn, TypeInv, TypeOK
<1>1. /\ \A x \in SignIns : held[x] # None => held'[x] = held[x]
      /\ held'[s] = a
  BY <1>0
<1>2. \A x \in Accounts : signIn'[x] # None => held'[signIn'[x]] = x
  BY <1>0, <1>1 DEF OwnerInv
<1>3. \A k \in Codes : granted[k] # None => granted[k].signIn \in SignIns
  BY DEF TypeInv, TypeOK, Grant
<1>4. \A r \in Requests :
        /\ req[r].pc \in {"findClient", "saveCode"} =>
             req[r].signIn \in SignIns /\ req[r].acct \in Accounts
        /\ req[r].pc = "profile" => req[r].signIn \in SignIns /\ req[r].ref \in Bearers
  BY DEF TypeInv, Locals
<1>5. \A r \in Requests : req[r].pc = "profile" => held'[req[r].signIn] = held[req[r].signIn]
  <2>1. SUFFICES ASSUME NEW r \in Requests, req[r].pc = "profile"
                 PROVE  held'[req[r].signIn] = held[req[r].signIn]
    OBVIOUS
  <2>2. req[r].signIn \in SignIns
    BY <1>4, <2>1
  <2>3. held[req[r].signIn] # None \/ req[r].signIn # s
    BY <1>0, <1>4, <2>1 DEF OwnerInv
  <2> QED BY <1>0, <1>1, <2>2, <2>3
<1> QED BY <1>0, <1>1, <1>2, <1>3, <1>4, <1>5 DEF OwnerInv

LEMMA OwnerBegin ==
  ASSUME ~SignInsReused, TypeInv, GrantInv, OwnerInv, NEW r \in Requests, Begin(r)
  PROVE  OwnerInv'
<1>0. /\ req \in [Requests -> Request]
      /\ UNCHANGED <<signIn, granted, consenter, got, told, held>>
  BY DEF TypeInv, TypeOK, Begin, Consent, Exchange, UserInfo, tables, history
<1>1. ASSUME NEW a \in Accounts, NEW c \in Clients, NEW u \in Uris, Consent(r, a, c, u)
      PROVE  OwnerInv'
  <2> DEFINE q == Consenting("findClient", a, signIn[a], c, u)
  <2>1. q.pc = "findClient" /\ q.signIn = signIn[a] /\ q.acct = a
    BY DEF Consenting
  <2>2. held[signIn[a]] = a /\ req' = [req EXCEPT ![r] = q]
    BY <1>1 DEF Consent, OwnerInv
  <2> HIDE DEF q
  <2> QED BY <1>0, <2>1, <2>2 DEF OwnerInv
<1>2. ASSUME NEW c \in Clients, NEW k \in Codes, NEW u \in Uris, Exchange(r, c, k, u)
      PROVE  OwnerInv'
  BY <1>0, <1>2, OwnerFrame, RequestSteps DEF Exchange
<1>3. ASSUME NEW b \in Bearers, UserInfo(r, b)
      PROVE  OwnerInv'
  <2> DEFINE q == Asking(bearer[b].signIn, b)
  <2>1. q.pc = "profile" /\ q.signIn = bearer[b].signIn /\ q.ref = b
    BY DEF Asking
  <2>2. got[b] # None /\ got[b].code \in Codes
    BY <1>3 DEF UserInfo, GrantInv, BearersGot, TypeInv, TypeOK, Redemption
  <2>3. granted[got[b].code] # None
    BY <2>2 DEF GrantInv, BearersGot, Spent
  <2>4. bearer[b].signIn = granted[got[b].code].signIn
    <3>1. bearer[b] = [client |-> granted[got[b].code].client,
                       signIn |-> granted[got[b].code].signIn]
      BY <1>3 DEF UserInfo, GrantInv, BearersGot
    <3> QED BY <3>1
  <2>5. /\ held[bearer[b].signIn] = consenter[got[b].code]
        /\ consenter[got[b].code] \in Accounts
    BY <2>2, <2>3, <2>4 DEF OwnerInv
  <2>6. req' = [req EXCEPT ![r] = q]
    BY <1>3 DEF UserInfo
  <2> HIDE DEF q
  <2> QED BY <1>0, <2>1, <2>2, <2>5, <2>6 DEF OwnerInv
<1> QED BY <1>1, <1>2, <1>3 DEF Begin

LEMMA OwnerServe ==
  ASSUME ~SignInsReused, TypeInv, GrantInv, OwnerInv, NEW r \in Requests, Serve(r)
  PROVE  OwnerInv'
<1>0. req \in [Requests -> Request] /\ Locals(req[r])
  BY DEF TypeInv, TypeOK
<1>1. CASE FindClient(r)
  <2>1. UNCHANGED <<signIn, granted, consenter, got, told, held>> /\ req[r].pc = "findClient"
    BY <1>1 DEF FindClient, tables, history
  <2>2. CASE End(r)
    BY <1>0, <2>1, <2>2, OwnerFrame, RequestSteps DEF End
  <2>3. CASE req' = [req EXCEPT ![r] =
                       Consenting("saveCode", @.acct, @.signIn, @.client, @.uri)]
    <3>1. /\ req'[r].pc = "saveCode" /\ req'[r].acct = req[r].acct
          /\ req'[r].signIn = req[r].signIn
      BY <1>0, <2>3 DEF Consenting
    <3> QED BY <1>0, <2>1, <2>3, <3>1, OwnerFrame
  <2> QED BY <1>1, <2>2, <2>3 DEF FindClient
<1>2. CASE SaveCode(r)
  <2>0. /\ UNCHANGED <<signIn, got, told, held>> /\ req' = [req EXCEPT ![r] = Idle]
        /\ req[r].pc = "saveCode" /\ req[r].acct \in Accounts
        /\ held[req[r].signIn] = req[r].acct
        /\ granted \in [Codes -> Grant \cup {None}]
        /\ consenter \in [Codes -> Accounts \cup {None}]
    BY <1>0, <1>2 DEF SaveCode, End, Locals, OwnerInv, TypeInv, TypeOK
  <2>1. CASE UNCHANGED <<code, granted, consenter>>
    BY <1>0, <2>0, <2>1, OwnerFrame, RequestSteps
  <2>2. ASSUME NEW k \in Codes, granted[k] = None,
               granted' = [granted EXCEPT ![k] =
                             [client |-> req[r].client, signIn |-> req[r].signIn,
                              uri |-> req[r].uri]],
               consenter' = [consenter EXCEPT ![k] = req[r].acct]
        PROVE  OwnerInv'
    <3>1. \A b \in Bearers : got[b] # None => got[b].code \in Codes \ {k}
      BY <2>2 DEF GrantInv, BearersGot, Spent, TypeInv, TypeOK, Redemption
    <3>2. \A b \in Bearers : got[b] # None => consenter'[got[b].code] = consenter[got[b].code]
      BY <2>0, <2>2, <3>1
    <3>3. \A x \in Requests : req'[x].pc # "idle" => req'[x] = req[x]
      BY <1>0, <2>0, RequestSteps
    <3>4. \A x \in Requests : req[x].pc = "profile" => req[x].ref \in Bearers
      BY DEF TypeInv, Locals
    <3>5. \A j \in Codes : granted'[j] # None =>
            consenter'[j] \in Accounts /\ held'[granted'[j].signIn] = consenter'[j]
      BY <2>0, <2>2 DEF OwnerInv
    <3> QED BY <2>0, <3>2, <3>3, <3>4, <3>5 DEF OwnerInv
  <2> QED BY <1>2, <2>1, <2>2 DEF SaveCode
<1>3. CASE Consume(r)
  <2>1. UNCHANGED <<signIn, granted, consenter, got, told, held>>
    BY <1>3 DEF Consume, history
  <2>2. PICK q : req' = [req EXCEPT ![r] = q] /\ q.pc \in {"idle", "saveBearer"}
    BY <1>3, RequestSteps DEF Consume, End
  <2> QED BY <1>0, <2>1, <2>2, OwnerFrame
<1>4. CASE SaveBearer(r)
  <2>0. /\ UNCHANGED <<signIn, granted, consenter, told, held>>
        /\ req' = [req EXCEPT ![r] = Idle]
        /\ got \in [Bearers -> Redemption \cup {None}]
    BY <1>4 DEF SaveBearer, End, TypeInv, TypeOK
  <2>1. \A b \in Bearers : got[b] # None => got'[b] = got[b]
    BY <1>4, <2>0 DEF SaveBearer
  <2>2. \A x \in Requests : req'[x].pc # "idle" => req'[x] = req[x]
    BY <1>0, <2>0, RequestSteps
  <2>3. \A x \in Requests : req[x].pc = "profile" => req[x].ref \in Bearers
    BY DEF TypeInv, Locals
  <2> QED BY <2>0, <2>1, <2>2, <2>3 DEF OwnerInv
<1>5. CASE Profile(r)
  <2>0. /\ UNCHANGED <<signIn, granted, consenter, got, held>>
        /\ req' = [req EXCEPT ![r] = Idle] /\ req[r].pc = "profile"
        /\ told \in [Bearers -> SUBSET Accounts]
    BY <1>5 DEF Profile, End, tables, TypeInv, TypeOK
  <2>1. CASE UNCHANGED told
    BY <1>0, <2>0, <2>1, OwnerFrame, RequestSteps
  <2>2. ASSUME NEW a \in Accounts, NEW b \in Bearers, b = req[r].ref,
               signIn[a] = req[r].signIn, told' = [told EXCEPT ![b] = @ \cup {a}]
        PROVE  OwnerInv'
    <3>1. req[r].signIn \in SignIns
      BY <1>0, <2>0 DEF Locals
    <3>2. got[b] # None /\ a = consenter[got[b].code]
      BY <2>0, <2>2, <3>1 DEF OwnerInv
    <3>3. \A c \in Bearers : told'[c] # {} =>
            got'[c] # None /\ told'[c] = {consenter'[got'[c].code]}
      BY <2>0, <2>2, <3>2 DEF OwnerInv
    <3>4. \A x \in Requests : req'[x].pc # "idle" => req'[x] = req[x]
      BY <1>0, <2>0, RequestSteps
    <3> QED BY <2>0, <3>3, <3>4 DEF OwnerInv
  <2> QED BY <1>5, <2>1, <2>2 DEF Profile
<1> QED BY <1>1, <1>2, <1>3, <1>4, <1>5 DEF Serve

LEMMA OwnerStep ==
  ASSUME ~SignInsReused, TypeInv, GrantInv, OwnerInv, [Next]_vars
  PROVE  OwnerInv'
<1>1. CASE Administer
  <2>1. CASE \E a \in Accounts, s \in SignIns : TakeSignIn(a, s)
    BY <2>1, OwnerTakes
  <2>2. CASE \E c \in Clients, U \in SUBSET Uris :
               CreateClient(c, U) \/ Enable(c) \/ Disable(c) \/ Delete(c)
    BY <2>2, OwnerFrame DEF CreateClient, Enable, Disable, Delete, history
  <2> QED BY <1>1, <2>1, <2>2 DEF Administer, Register, ChangeSignIn
<1>2. ASSUME NEW b \in Bearers, Revoke(b)
      PROVE  OwnerInv'
  BY <1>2, OwnerFrame DEF Revoke, history
<1>3. ASSUME NEW x \in Codes \cup Bearers, Expire(x)
      PROVE  OwnerInv'
  BY <1>3, OwnerFrame DEF Expire, history
<1>4. CASE Restart
  BY <1>4, OwnerFrame, RequestSteps DEF Restart, tables, history
<1>5. CASE UNCHANGED vars
  BY <1>5, OwnerFrame DEF vars
<1> QED BY <1>1, <1>2, <1>3, <1>4, <1>5, OwnerBegin, OwnerServe DEF Next

\* While no sign-in is handed on, a token speaks for the account that consented.
THEOREM UserInfoIsOwners == Spec => []UserInfoOwner
<1> DEFINE Owned == ~SignInsReused => OwnerInv
<1>1. TypeInv /\ GrantInv /\ Owned /\ [Next]_vars => Owned'
  BY OwnerStep
<1>2. Owned => UserInfoOwner
  BY DEF OwnerInv, UserInfoOwner
<1>3. Init => Owned
  BY OwnerInit
<1> HIDE DEF Owned
<1> QED BY <1>1, <1>2, <1>3, TypeInit, TypeStep, GrantInit, GrantStep, PTL DEF Spec

-----------------------------------------------------------------------------
(* OAuthGrants implements GrantPromise.                                     *)

LEMMA PromiseInit == Init => Promise!Init
BY DEF Init, Promise!Init, Given, CodeOf, Honoured

\* A step without a grant or a redemption can only end tokens.
LEMMA PromiseFrame ==
  ASSUME UNCHANGED <<granted, got>>, stale \subseteq stale',
         \A b \in Bearers : bearer'[b] \in {bearer[b], None}
  PROVE  Promise!Next
<1>1. Given' = Given /\ CodeOf' = CodeOf
  BY DEF Given, CodeOf
<1>2. Honoured' \subseteq Honoured /\ Honoured \ Honoured' \in SUBSET Bearers
  BY DEF Honoured
<1>3. Promise!End(Honoured \ Honoured')
  BY <1>1, <1>2 DEF Promise!End
<1> QED BY <1>2, <1>3 DEF Promise!Next

LEMMA PromiseStep ==
  ASSUME TypeInv, GrantInv, [Next]_vars
  PROVE  [Promise!Next]_(Promise!vars)
<1>0. /\ got \in [Bearers -> Redemption \cup {None}]
      /\ granted \in [Codes -> Grant \cup {None}]
      /\ bearer \in [Bearers -> BearerRow \cup {None}]
  BY DEF TypeInv, TypeOK
<1>1. ASSUME NEW r \in Requests, SaveCode(r)
      PROVE  Promise!Next
  <2>0. /\ UNCHANGED <<got, bearer, stale>>
        /\ req[r].client \in Clients /\ req[r].signIn \in SignIns /\ req[r].uri \in Uris
    BY <1>1 DEF SaveCode, TypeInv, Locals
  <2>1. CASE UNCHANGED <<code, granted, consenter>>
    BY <2>0, <2>1, PromiseFrame
  <2>2. ASSUME NEW k \in Codes, granted[k] = None,
               granted' = [granted EXCEPT ![k] =
                             [client |-> req[r].client, signIn |-> req[r].signIn,
                              uri |-> req[r].uri]]
        PROVE  Promise!Next
    <3>1. granted'[k] # None /\ \A j \in Codes \ {k} : granted'[j] = granted[j]
      BY <1>0, <2>0, <2>2 DEF Grant
    <3>2. Given' = Given \cup {k} /\ k \notin Given
      BY <2>2, <3>1 DEF Given
    <3>3. CodeOf' = CodeOf /\ Honoured' = Honoured
      BY <2>0 DEF CodeOf, Honoured
    <3>4. Promise!Give(k)
      BY <3>2, <3>3 DEF Promise!Give
    <3> QED BY <3>4 DEF Promise!Next
  <2> QED BY <1>1, <2>1, <2>2 DEF SaveCode
<1>2. ASSUME NEW r \in Requests, SaveBearer(r)
      PROVE  Promise!Next
  <2>0. /\ UNCHANGED <<granted, stale>> /\ req[r].pc = "saveBearer"
        /\ req[r].client \in Clients /\ req[r].signIn \in SignIns /\ req[r].uri \in Uris
    BY <1>2 DEF SaveBearer, TypeInv, Locals
  <2>1. CASE UNCHANGED <<bearer, got>>
    BY <2>0, <2>1, PromiseFrame
  <2>2. ASSUME NEW b \in Bearers, NEW k \in Codes, k = req[r].ref, got[b] = None,
               bearer' = [bearer EXCEPT ![b] = [client |-> req[r].client,
                                                signIn |-> req[r].signIn]],
               got' = [got EXCEPT ![b] = [code |-> k, client |-> req[r].client,
                                          uri |-> req[r].uri]]
        PROVE  Promise!Next
    <3>1. /\ got'[b] # None /\ got'[b].code = k /\ bearer'[b] # None
          /\ \A c \in Bearers \ {b} : got'[c] = got[c] /\ bearer'[c] = bearer[c]
      BY <1>0, <2>0, <2>2 DEF Redemption, BearerRow
    <3>2. Given' = Given /\ k \in Given
      BY <2>0, <2>2 DEF Given, GrantInv, Redeeming, Spent
    <3>3. CodeOf' = [CodeOf EXCEPT ![b] = k] /\ CodeOf[b] = None
      <4>1. \A c \in Bearers : CodeOf'[c] = IF c = b THEN k ELSE CodeOf[c]
        BY <3>1 DEF CodeOf
      <4>2. CodeOf[b] = None /\ CodeOf = [c \in Bearers |-> CodeOf[c]]
              /\ CodeOf' = [c \in Bearers |-> CodeOf'[c]]
        BY <2>2 DEF CodeOf
      <4> HIDE DEF CodeOf
      <4> QED BY <4>1, <4>2
    <3>4. b \notin stale
      BY <2>2 DEF GrantInv, BearersGot
    <3>5. Honoured' = Honoured \cup {b}
      BY <2>0, <3>1, <3>4 DEF Honoured
    <3>6. \A c \in Bearers : CodeOf[c] # k
      BY <2>0, <2>2 DEF CodeOf, GrantInv, Redeeming
    <3>7. Promise!Issue(b, k)
      BY <3>2, <3>3, <3>5, <3>6 DEF Promise!Issue
    <3> QED BY <3>7 DEF Promise!Next
  <2> QED BY <1>2, <2>1, <2>2 DEF SaveBearer
<1>3. CASE /\ \A r \in Requests : ~SaveCode(r) /\ ~SaveBearer(r)
           /\ Next
  <2>1. UNCHANGED <<granted, got>> /\ stale \subseteq stale'
    BY <1>3 DEF Next, tables, history, Administer, Register, ChangeSignIn, TakeSignIn,
       CreateClient, Enable, Disable, Delete, Begin, Consent, Exchange, UserInfo,
       Serve, FindClient, Consume, Profile, Revoke, Expire, Restart
  <2>2. \A b \in Bearers : bearer'[b] \in {bearer[b], None}
    BY <1>0, <1>3 DEF Next, tables, history, Administer, Register, ChangeSignIn,
       TakeSignIn, CreateClient, Enable, Disable, Delete, Begin, Consent, Exchange,
       UserInfo, Serve, FindClient, Consume, Profile, Revoke, Expire, Restart
  <2> QED BY <2>1, <2>2, PromiseFrame
<1>4. CASE UNCHANGED vars
  BY <1>4, PromiseFrame DEF vars
<1> QED BY <1>1, <1>2, <1>3, <1>4

\* All a client can observe of grants is what GrantPromise says: one token for
\* a consent at most, and none that comes back.
THEOREM PromiseIsKept == Spec => PromiseKept
<1>1. TypeInv /\ GrantInv /\ [Next]_vars => [Promise!Next]_(Promise!vars)
  BY PromiseStep
<1> QED BY <1>1, TypeInit, TypeStep, GrantInit, GrantStep, PromiseInit, PTL
        DEF Spec, PromiseKept, Promise!Spec
=============================================================================
