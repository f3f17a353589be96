-------------------------- MODULE PartnerAppsProofs --------------------------
(***************************************************************************)
(* For any number of accounts, applications and requests: who administers  *)
(* an application, and what its secret opens.                              *)
(*                                                                         *)
(* The argument: as long as no name changes hands, the name a request has  *)
(* been told and the name in a row both lead to one account, the first     *)
(* that bore it (Held); so a WHERE clause that compares the names compares *)
(* the accounts.                                                           *)
(***************************************************************************)
EXTENDS PartnerApps, TLAPS

USE NoneAssumption, ReuseAssumption, NoRowAssumption

-----------------------------------------------------------------------------
(* Typing *)

\* Which locals are set at which step, and who created what is stored.
Locals ==
  /\ \A r \in Requests :
       /\ req[r].pc \in {"manage", "render"} => req[r].by \in Accounts /\ req[r].name \in Names
       /\ req[r].pc # "render" => req[r].secret = None
  /\ \A c \in Clients : client[c] # None =>
       creator[c] \in Accounts /\ client[c].secret \in drawn

TypeInv == TypeOK /\ Locals

LEMMA IdleTyped ==
  Idle \in Request /\ Idle.pc = "idle" /\ Idle.secret = None /\ Idle.by = None
BY DEF Idle, Request, Steps

LEMMA TypeInit == Init => TypeInv
BY IdleTyped DEF Init, TypeInv, TypeOK, Locals

\* The last step of a request on the page: the secret is put aside for Render.
LEMMA RenderTyped ==
  ASSUME TypeInv, NEW r \in Requests, NEW s \in Secrets \cup {None},
         req[r].pc = "manage", GoRender(r, s)
  PROVE  /\ req' \in [Requests -> Request]
         /\ req'[r].pc = "render" /\ req'[r].secret = s
         /\ req'[r].by = req[r].by /\ req'[r].name = req[r].name
         /\ \A i \in Requests \ {r} : req'[i] = req[i]
<1>1. req[r] \in Request /\ req \in [Requests -> Request] /\ "render" \in Steps
  BY DEF TypeInv, TypeOK, Steps
<1> DEFINE q == [req[r] EXCEPT !.pc = "render", !.secret = s]
<1>2. /\ q \in Request /\ q.pc = "render" /\ q.secret = s
      /\ q.by = req[r].by /\ q.name = req[r].name
  BY <1>1 DEF Request
<1>3. req' = [req EXCEPT ![r] = q]
  BY DEF GoRender
<1> HIDE DEF q
<1> QED
  BY <1>1, <1>2, <1>3

LEMMA TakeTyped ==
  ASSUME TypeInv, NEW a \in Accounts, NEW n \in Names, Take(a, n)
  PROVE  /\ name' \in [Accounts -> Names \cup {None}]
         /\ holder' \in [Names -> Accounts \cup {None}]
BY DEF Take, TypeInv, TypeOK

LEMMA TypeAdminister ==
  ASSUME TypeInv, NEW r \in Requests, Administer(r)
  PROVE  TypeInv'
<1>1. ASSUME NEW c \in Clients, NEW s \in Secrets, Create(r, c, s)
      PROVE  TypeInv'
  <2> DEFINE w == [owner |-> req[r].name, secret |-> s, enabled |-> TRUE]
  <2>1. req[r].name \in Names /\ req[r].by \in Accounts /\ GoRender(r, s) /\ req[r].pc = "manage"
    BY <1>1 DEF Create, TypeInv, Locals
  <2>2. w \in Row /\ w.secret = s
    BY <2>1 DEF Row
  <2>3. /\ client' = [client EXCEPT ![c] = w]
        /\ creator' = [creator EXCEPT ![c] = req[r].by]
        /\ drawn' = drawn \cup {s}
    BY <1>1 DEF Create
  <2> HIDE DEF w
  <2>4. client' \in [Clients -> Row \cup {None}] /\ creator' \in [Clients -> Accounts \cup {None}]
        /\ drawn' \subseteq Secrets
    BY <2>1, <2>2, <2>3 DEF TypeInv, TypeOK
  <2>5. \A d \in Clients : client'[d] # None => creator'[d] \in Accounts /\ client'[d].secret \in drawn'
    BY <2>1, <2>2, <2>3 DEF TypeInv, TypeOK, Locals
  <2> QED
    <3>1. /\ req' \in [Requests -> Request]
          /\ \A i \in Requests :
               /\ req'[i].pc \in {"manage", "render"} => req'[i].by \in Accounts /\ req'[i].name \in Names
               /\ req'[i].pc # "render" => req'[i].secret = None
      BY <2>1, RenderTyped DEF TypeInv, Locals
    <3> QED
      BY <1>1, <2>4, <2>5, <3>1 DEF Create, TypeInv, TypeOK, Locals
<1>2. ASSUME NEW c \in Clients, NEW s \in Secrets, Rotate(r, c, s)
      PROVE  TypeInv'
  <2>1. GoRender(r, s) /\ req[r].pc = "manage" /\ client[c] \in Row
    BY <1>2 DEF Rotate, Owned, TypeInv, TypeOK
  <2>2. [client[c] EXCEPT !.secret = s] \in Row /\ [client[c] EXCEPT !.secret = s].secret = s
    BY <2>1 DEF Row
  <2>3. client' = [client EXCEPT ![c] = [client[c] EXCEPT !.secret = s]]
    BY <1>2 DEF Rotate
  <2>4. client' \in [Clients -> Row \cup {None}] /\ drawn' \subseteq Secrets
    BY <1>2, <2>2, <2>3 DEF Rotate, TypeInv, TypeOK
  <2>5. \A d \in Clients : client'[d] # None => creator'[d] \in Accounts /\ client'[d].secret \in drawn'
    BY <1>2, <2>1, <2>2, <2>3 DEF Rotate, Owned, TypeInv, TypeOK, Locals
  <2> QED
    BY <1>2, <2>1, <2>4, <2>5, RenderTyped DEF Rotate, TypeInv, TypeOK, Locals
<1>3. ASSUME NEW c \in Clients, NEW on \in BOOLEAN, Toggle(r, c, on)
      PROVE  TypeInv'
  <2>1. GoRender(r, None) /\ req[r].pc = "manage" /\ client[c] \in Row
    BY <1>3 DEF Toggle, Owned, TypeInv, TypeOK
  <2>2. [client[c] EXCEPT !.enabled = on] \in Row
        /\ [client[c] EXCEPT !.enabled = on].secret = client[c].secret
    BY <2>1 DEF Row
  <2>3. client' = [client EXCEPT ![c] = [client[c] EXCEPT !.enabled = on]]
    BY <1>3 DEF Toggle
  <2>4. client' \in [Clients -> Row \cup {None}]
    BY <1>3, <2>2, <2>3 DEF Toggle, TypeInv, TypeOK
  <2>5. \A d \in Clients : client'[d] # None => creator'[d] \in Accounts /\ client'[d].secret \in drawn'
    BY <1>3, <2>1, <2>2, <2>3 DEF Toggle, Owned, TypeInv, TypeOK, Locals
  <2> QED
    BY <1>3, <2>1, <2>4, <2>5, RenderTyped DEF Toggle, TypeInv, TypeOK, Locals
<1>4. ASSUME NEW c \in Clients, Delete(r, c)
      PROVE  TypeInv'
  <2>1. GoRender(r, None) /\ req[r].pc = "manage"
    BY <1>4 DEF Delete
  <2>2. client' \in [Clients -> Row \cup {None}]
    BY <1>4 DEF Delete, TypeInv, TypeOK
  <2>3. \A d \in Clients : client'[d] # None => creator'[d] \in Accounts /\ client'[d].secret \in drawn'
    BY <1>4 DEF Delete, TypeInv, TypeOK, Locals
  <2> QED
    BY <1>4, <2>1, <2>2, <2>3, RenderTyped DEF Delete, TypeInv, TypeOK, Locals
<1> QED
  BY <1>1, <1>2, <1>3, <1>4 DEF Administer

LEMMA TypeNext == TypeInv /\ [Next]_vars => TypeInv'
<1> SUFFICES ASSUME TypeInv, [Next]_vars PROVE TypeInv'
  OBVIOUS
<1>1. ASSUME NEW a \in Accounts, NEW n \in Names, Register(a, n) \/ Rename(a, n)
      PROVE  TypeInv'
  <2>1. Take(a, n)
    BY <1>1 DEF Register, Rename
  <2> QED
    BY <1>1, <2>1, TakeTyped DEF Register, Rename, TypeInv, TypeOK, Locals
<1>2. ASSUME NEW r \in Requests, NEW a \in Accounts, Manage(r, a)
      PROVE  TypeInv'
  <2> DEFINE q == [Idle EXCEPT !.pc = "manage", !.by = a, !.name = name[a]]
  <2>1. name[a] \in Names
    BY <1>2 DEF Manage, TypeInv, TypeOK
  <2>2. q \in Request /\ q.pc = "manage" /\ q.by = a /\ q.name \in Names /\ q.secret = None
    BY <2>1 DEF Idle, Request, Steps
  <2>3. req' = [req EXCEPT ![r] = q]
    BY <1>2 DEF Manage
  <2> HIDE DEF q
  <2> QED
    <3>1. /\ req' \in [Requests -> Request]
          /\ \A i \in Requests :
               /\ req'[i].pc \in {"manage", "render"} => req'[i].by \in Accounts /\ req'[i].name \in Names
               /\ req'[i].pc # "render" => req'[i].secret = None
      BY <2>2, <2>3 DEF TypeInv, TypeOK, Locals
    <3> QED
      BY <1>2, <3>1 DEF Manage, TypeInv, TypeOK, Locals
<1>3. ASSUME NEW r \in Requests, Look(r)
      PROVE  TypeInv'
  <2>1. GoRender(r, None) /\ req[r].pc = "manage"
    BY <1>3 DEF Look
  <2> QED
    BY <1>3, <2>1, RenderTyped DEF Look, TypeInv, TypeOK, Locals
<1>4. ASSUME NEW r \in Requests, Render(r)
      PROVE  TypeInv'
  <2>1. req[r].by \in Accounts /\ req[r].secret \in Secrets \cup {None}
    BY <1>4 DEF Render, TypeInv, TypeOK, Locals, Request
  <2> QED
    <3>1. /\ req' \in [Requests -> Request]
          /\ \A i \in Requests :
               /\ req'[i].pc \in {"manage", "render"} => req'[i].by \in Accounts /\ req'[i].name \in Names
               /\ req'[i].pc # "render" => req'[i].secret = None
      BY <1>4, IdleTyped DEF Render, TypeInv, TypeOK, Locals
    <3>2. seen' \subseteq Accounts \X Clients /\ shown' \subseteq Secrets
      BY <1>4, <2>1 DEF Render, TypeInv, TypeOK
    <3> QED
      BY <1>4, <3>1, <3>2 DEF Render, TypeInv, TypeOK, Locals
<1>5. ASSUME NEW r \in Requests, Finish(r)
      PROVE  TypeInv'
  <2>1. req[r].secret \in Secrets \cup {None}
    BY DEF TypeInv, TypeOK, Request
  <2> QED
    BY <1>5, <2>1, IdleTyped DEF Finish, TypeInv, TypeOK, Locals
<1>6. CASE UNCHANGED vars
  BY <1>6 DEF vars, TypeInv, TypeOK, Locals
<1> QED
  BY <1>1, <1>2, <1>3, <1>4, <1>5, <1>6, TypeAdminister DEF Next

\* Every variable keeps its type.
THEOREM TypeCorrect == Spec => []TypeOK
<1>1. TypeInv => TypeOK
  BY DEF TypeInv
<1> QED
  BY <1>1, TypeInit, TypeNext, PTL DEF Spec

-----------------------------------------------------------------------------
(* The secret in the row *)

LEMMA SecretNext == TypeInv /\ SecretReachesOwner /\ [Next]_vars => SecretReachesOwner'
<1> SUFFICES ASSUME TypeInv, SecretReachesOwner, [Next]_vars PROVE SecretReachesOwner'
  OBVIOUS
\* A step after which each secret that was on its way still is, or arrived.
<1>1. ASSUME UNCHANGED client, shown \subseteq shown', lost \subseteq lost',
             \A r \in Requests :
               \/ req'[r].secret = req[r].secret
               \/ req[r].secret \in {None} \cup shown' \cup lost'
      PROVE  SecretReachesOwner'
  BY <1>1 DEF SecretReachesOwner, TypeInv, TypeOK, Row
\* A step of a request that stores the secret it puts aside for its page.
<1>2. ASSUME NEW r \in Requests, req[r].secret = None, UNCHANGED <<shown, lost>>,
             \A i \in Requests \ {r} : req'[i] = req[i],
             \A c \in Clients : client'[c] # None =>
               \/ client[c] # None /\ client'[c].secret = client[c].secret
               \/ client'[c].secret = req'[r].secret
      PROVE  SecretReachesOwner'
  BY <1>2 DEF SecretReachesOwner, TypeInv, TypeOK, Row
<1>3. ASSUME NEW r \in Requests, Administer(r)
      PROVE  SecretReachesOwner'
  <2>1. req[r].pc = "manage" /\ UNCHANGED <<shown, lost>>
    BY <1>3 DEF Administer, Create, Rotate, Toggle, Delete
  <2>2. PICK s \in Secrets \cup {None} :
          /\ GoRender(r, s)
          /\ \A c \in Clients : client'[c] # None =>
               \/ client[c] # None /\ client'[c].secret = client[c].secret
               \/ client'[c].secret = s
    <3>1. ASSUME NEW c \in Clients, NEW s \in Secrets, Create(r, c, s)
          PROVE  \A d \in Clients : client'[d] # None =>
               \/ client[d] # None /\ client'[d].secret = client[d].secret
               \/ client'[d].secret = s
      <4>1. client' = [client EXCEPT ![c] = [owner |-> req[r].name, secret |-> s,
                         enabled |-> TRUE]]
        BY <3>1 DEF Create
      <4> QED
        BY <4>1 DEF TypeInv, TypeOK
    <3>2. ASSUME NEW c \in Clients, NEW s \in Secrets, Rotate(r, c, s)
          PROVE  \A d \in Clients : client'[d] # None =>
               \/ client[d] # None /\ client'[d].secret = client[d].secret
               \/ client'[d].secret = s
      BY <3>2 DEF Rotate, Owned, TypeInv, TypeOK, Row
    <3>3. ASSUME NEW c \in Clients, NEW on \in BOOLEAN, Toggle(r, c, on)
          PROVE  \A d \in Clients : client'[d] # None =>
               client[d] # None /\ client'[d].secret = client[d].secret
      BY <3>3 DEF Toggle, Owned, TypeInv, TypeOK, Row
    <3>4. ASSUME NEW c \in Clients, Delete(r, c)
          PROVE  \A d \in Clients : client'[d] # None =>
               client[d] # None /\ client'[d].secret = client[d].secret
      BY <3>4 DEF Delete, TypeInv, TypeOK
    <3> QED
      BY <1>3, <3>1, <3>2, <3>3, <3>4 DEF Administer, Create, Rotate, Toggle, Delete
  <2>3. req'[r].secret = s /\ \A i \in Requests \ {r} : req'[i] = req[i]
    BY <2>1, <2>2, RenderTyped
  <2> QED
    BY <1>2, <2>1, <2>2, <2>3 DEF TypeInv, Locals
<1>4. ASSUME NEW r \in Requests, Look(r)
      PROVE  SecretReachesOwner'
  <2>1. req[r].pc = "manage" /\ GoRender(r, None)
    BY <1>4 DEF Look
  <2> QED
    BY <1>1, <1>4, <2>1, RenderTyped DEF Look, TypeInv, Locals
<1>5. ASSUME NEW r \in Requests,
             Render(r) \/ Finish(r)
             \/ (\E a \in Accounts : Manage(r, a))
      PROVE  SecretReachesOwner'
  BY <1>1, <1>5 DEF Render, Finish, Manage, TypeInv, TypeOK, Locals
<1>6. CASE \E a \in Accounts, n \in Names : Register(a, n) \/ Rename(a, n)
  BY <1>1, <1>6 DEF Register, Rename
<1>7. CASE UNCHANGED vars
  BY <1>1, <1>7 DEF vars
<1> QED
  BY <1>3, <1>4, <1>5, <1>6, <1>7 DEF Next

\* The secret in a row is on a page of its owner, on its way to one, or lost
\* with the page: rotations that cross leave no secret nobody was shown.
THEOREM SecretsReachOwners == Spec => []SecretReachesOwner
<1>1. Init => SecretReachesOwner
  BY DEF Init, SecretReachesOwner
<1> QED
  BY <1>1, TypeInit, TypeNext, SecretNext, PTL DEF Spec

-----------------------------------------------------------------------------
(* Names lead to accounts *)

\* The names that are borne, told to a request or stored in a row all lead to
\* the account they came from.
Held ==
  /\ \A a \in Accounts : name[a] # None => holder[name[a]] = a
  /\ \A r \in Requests : req[r].pc \in {"manage", "render"} => holder[req[r].name] = req[r].by
  /\ \A c \in Clients : client[c] # None => holder[client[c].owner] = creator[c]

\* The application and the names of a request by itself.
Stale ==
  /\ \A r \in Requests : req[r].pc \in {"manage", "render"} =>
       req[r].by \in renamed \/ req[r].name = name[req[r].by]
  /\ OnlyRenamesOrphan

\* What the steps on the page do to owners, creators and requests.
LEMMA AdministerKeepsOwners ==
  ASSUME TypeInv, NEW r \in Requests, Administer(r)
  PROVE  /\ req[r].pc = "manage" /\ req'[r].pc = "render"
         /\ req'[r].by = req[r].by /\ req'[r].name = req[r].name
         /\ \A i \in Requests \ {r} : req'[i] = req[i]
         /\ UNCHANGED <<name, renamed, holder, seen>>
         /\ \A c \in Clients : client'[c] # None =>
              \/ client[c] # None /\ client'[c].owner = client[c].owner /\ creator'[c] = creator[c]
              \/ client[c] = None /\ client'[c].owner = req[r].name /\ creator'[c] = req[r].by
<1>1. /\ req[r].pc = "manage" /\ UNCHANGED <<name, renamed, holder, seen>>
      /\ \E s \in Secrets \cup {None} : GoRender(r, s)
  BY DEF Administer, Create, Rotate, Toggle, Delete
<1>2. /\ req'[r].pc = "render" /\ req'[r].by = req[r].by /\ req'[r].name = req[r].name
      /\ \A i \in Requests \ {r} : req'[i] = req[i]
  BY <1>1, RenderTyped
<1>3. ASSUME NEW c \in Clients, NEW s \in Secrets, Create(r, c, s), NEW d \in Clients, client'[d] # None
      PROVE  \/ client[d] # None /\ client'[d].owner = client[d].owner /\ creator'[d] = creator[d]
             \/ client[d] = None /\ client'[d].owner = req[r].name /\ creator'[d] = req[r].by
  <2>1. /\ client' = [client EXCEPT ![c] = [owner |-> req[r].name, secret |-> s,
                         enabled |-> TRUE]]
        /\ creator' = [creator EXCEPT ![c] = req[r].by] /\ creator[c] = None
    BY <1>3 DEF Create
  <2>2. client[c] = None
    BY <2>1 DEF TypeInv, Locals
  <2> QED
    BY <1>3, <2>1, <2>2 DEF TypeInv, TypeOK
<1>4. ASSUME NEW c \in Clients,
             \/ \E s \in Secrets : Rotate(r, c, s)
             \/ \E on \in BOOLEAN : Toggle(r, c, on)
             \/ Delete(r, c),
             NEW d \in Clients, client'[d] # None
      PROVE  client[d] # None /\ client'[d].owner = client[d].owner /\ creator'[d] = creator[d]
  BY <1>4 DEF Rotate, Toggle, Delete, Owned, TypeInv, TypeOK, Row
<1> QED
  BY <1>1, <1>2, <1>3, <1>4 DEF Administer

\* What every other step of a request does.
LEMMA ServeKeepsOwners ==
  ASSUME TypeInv, NEW r \in Requests,
         \/ Look(r) \/ Render(r) \/ Finish(r)
         \/ \E a \in Accounts : Manage(r, a)
  PROVE  /\ UNCHANGED <<name, client, creator, renamed, holder>>
         /\ \A i \in Requests : req'[i].pc \in {"manage", "render"} =>
              \/ /\ req[i].pc \in {"manage", "render"}
                 /\ req'[i].by = req[i].by /\ req'[i].name = req[i].name
              \/ /\ req'[i].by \in Accounts /\ req'[i].name = name[req'[i].by]
                 /\ req'[i].name \in Names
<1>1. CASE Look(r)
  BY <1>1, RenderTyped DEF Look
<1>2. CASE Render(r) \/ Finish(r)
  <2>1. UNCHANGED <<name, client, creator, renamed, holder>>
    BY <1>2 DEF Render, Finish
  <2>2. PICK q : req' = [req EXCEPT ![r] = q] /\ q.pc \notin {"manage", "render"}
    BY <1>2, IdleTyped DEF Render, Finish
  <2> QED
    BY <2>1, <2>2 DEF TypeInv, TypeOK
<1>3. ASSUME NEW a \in Accounts, Manage(r, a)
      PROVE  /\ UNCHANGED <<name, client, creator, renamed, holder>>
             /\ \A i \in Requests : req'[i].pc \in {"manage", "render"} =>
                  \/ /\ req[i].pc \in {"manage", "render"}
                     /\ req'[i].by = req[i].by /\ req'[i].name = req[i].name
                  \/ /\ req'[i].by \in Accounts /\ req'[i].name = name[req'[i].by]
                     /\ req'[i].name \in Names
  <2> DEFINE q == [Idle EXCEPT !.pc = "manage", !.by = a, !.name = name[a]]
  <2>1. q.by = a /\ q.name = name[a] /\ name[a] \in Names
    BY <1>3 DEF Manage, Idle, TypeInv, TypeOK
  <2>2. req' = [req EXCEPT ![r] = q] /\ UNCHANGED <<name, client, creator, renamed, holder>>
    BY <1>3 DEF Manage
  <2> HIDE DEF q
  <2> QED
    BY <2>1, <2>2 DEF TypeInv, TypeOK
<1> QED
  BY <1>1, <1>2, <1>3

LEMMA HeldNext == ~NamesReused /\ TypeInv /\ Held /\ [Next]_vars => Held'
<1> SUFFICES ASSUME ~NamesReused, TypeInv, Held, [Next]_vars PROVE Held'
  OBVIOUS
<1>1. ASSUME NEW r \in Requests, Administer(r)
      PROVE  Held'
  BY <1>1, AdministerKeepsOwners DEF Held
<1>2. ASSUME NEW r \in Requests,
             \/ Look(r) \/ Render(r) \/ Finish(r)
             \/ \E a \in Accounts : Manage(r, a)
      PROVE  Held'
  BY <1>2, ServeKeepsOwners DEF Held
<1>3. ASSUME NEW a \in Accounts, NEW n \in Names, Register(a, n) \/ Rename(a, n)
      PROVE  Held'
  <2>1. UNCHANGED <<req, client, creator>> /\ Take(a, n)
    BY <1>3 DEF Register, Rename
  <2>2. holder[n] \in {None, a}
    BY <2>1 DEF Take, MayTake
  <2>3. holder'[n] = a /\ \A m \in Names \ {n} : holder'[m] = holder[m]
    BY <2>1, <2>2 DEF Take, TypeInv, TypeOK
  <2>4. \A b \in Accounts : name'[b] # None => holder'[name'[b]] = b
    <3> SUFFICES ASSUME NEW b \in Accounts, name'[b] # None PROVE holder'[name'[b]] = b
      OBVIOUS
    <3>1. CASE b = a
      BY <2>1, <2>3, <3>1 DEF Take, TypeInv, TypeOK
    <3>2. CASE b # a
      BY <2>1, <2>2, <2>3, <3>2 DEF Take, TypeInv, TypeOK, Held
    <3> QED
      BY <3>1, <3>2
  \* A name that leads to an account still does.
  <2>5. \A m \in Names : holder[m] \in Accounts => holder'[m] = holder[m]
    BY <2>2, <2>3
  <2>6. \A i \in Requests : req[i].pc \in {"manage", "render"} => holder'[req[i].name] = req[i].by
    BY <2>5 DEF Held, TypeInv, Locals
  <2>7. \A c \in Clients : client[c] # None => holder'[client[c].owner] = creator[c]
    BY <2>5 DEF Held, TypeInv, TypeOK, Locals, Row
  <2> QED
    BY <2>1, <2>4, <2>6, <2>7 DEF Held
<1>4. CASE UNCHANGED vars
  BY <1>4 DEF vars, Held
<1> QED
  BY <1>1, <1>2, <1>3, <1>4 DEF Next

LEMMA HeldInit == Init => Held
BY IdleTyped DEF Init, Held

LEMMA StaleNext == TypeInv /\ Stale /\ [Next]_vars => Stale'
<1> SUFFICES ASSUME TypeInv, Stale, [Next]_vars PROVE Stale'
  OBVIOUS
<1>1. ASSUME NEW r \in Requests, Administer(r)
      PROVE  Stale'
  <2>1. \A i \in Requests : req'[i].pc \in {"manage", "render"} =>
          /\ req[i].pc \in {"manage", "render"}
          /\ req'[i].by = req[i].by /\ req'[i].name = req[i].name
    BY <1>1, AdministerKeepsOwners
  <2>2. UNCHANGED <<name, renamed>>
    BY <1>1, AdministerKeepsOwners
  <2>3. \A c \in Clients : client'[c] # None =>
          creator'[c] \in renamed \/ client'[c].owner = name[creator'[c]]
    BY <1>1, AdministerKeepsOwners DEF Stale, OnlyRenamesOrphan, Owned
  <2> QED
    BY <2>1, <2>2, <2>3 DEF Stale, OnlyRenamesOrphan, Owned
<1>2. ASSUME NEW r \in Requests,
             \/ Look(r) \/ Render(r) \/ Finish(r)
             \/ \E a \in Accounts : Manage(r, a)
      PROVE  Stale'
  BY <1>2, ServeKeepsOwners DEF Stale, OnlyRenamesOrphan, Owned
<1>3. ASSUME NEW a \in Accounts, NEW n \in Names, Rename(a, n)
      PROVE  Stale'
  <2>1. /\ UNCHANGED <<req, client, creator>> /\ renamed' = renamed \cup {a}
        /\ \A b \in Accounts \ {a} : name'[b] = name[b]
    BY <1>3 DEF Rename, Take, TypeInv, TypeOK
  <2> QED
    BY <2>1 DEF Stale, OnlyRenamesOrphan, Owned, TypeInv, Locals
<1>4. ASSUME NEW a \in Accounts, NEW n \in Names, Register(a, n)
      PROVE  Stale'
  <2>1. /\ UNCHANGED <<req, client, creator, renamed>> /\ name[a] = None
        /\ \A b \in Accounts \ {a} : name'[b] = name[b]
    BY <1>4 DEF Register, Take, TypeInv, TypeOK
  <2> QED
    BY <2>1 DEF Stale, OnlyRenamesOrphan, Owned, TypeInv, TypeOK, Locals, Row
<1>5. CASE UNCHANGED vars
  BY <1>5 DEF vars, Stale, OnlyRenamesOrphan, Owned
<1> QED
  BY <1>1, <1>2, <1>3, <1>4, <1>5 DEF Next

\* An application whose creator has never renamed itself is in its hands,
\* whatever else is under way.
THEOREM OrphansComeFromRenames == Spec => []OnlyRenamesOrphan
<1>1. Init => Stale
  BY IdleTyped DEF Init, Stale, OnlyRenamesOrphan
<1>2. Stale => OnlyRenamesOrphan
  BY DEF Stale
<1> QED
  BY <1>1, <1>2, TypeInit, TypeNext, StaleNext, PTL DEF Spec

-----------------------------------------------------------------------------
(* Only the creator *)

LEMMA ListStep ==
  ASSUME TypeInv, Held, [Next]_vars, NEW p \in seen' \ seen
  PROVE  creator[p[2]] = p[1]
<1>1. PICK r \in Requests : Render(r)
  <2>1. CASE \E r \in Requests : Administer(r)
    BY <2>1, AdministerKeepsOwners
  <2>2. CASE ~\E r \in Requests : Administer(r)
    BY <2>2 DEF Next, Register, Rename, Manage, Look, Finish, vars
  <2> QED
    BY <2>1, <2>2
<1>2. req[r].by \in Accounts /\ holder[req[r].name] = req[r].by
  BY <1>1 DEF Render, Held, TypeInv, Locals
<1>3. PICK c \in Clients : Owned(c, req[r].name) /\ p = <<req[r].by, c>>
  BY <1>1 DEF Render
<1>4. creator[c] = req[r].by
  BY <1>2, <1>3 DEF Owned, Held
<1> QED
  BY <1>3, <1>4

LEMMA CreatorStep ==
  ASSUME TypeInv, Held, [Next]_vars, NEW c \in Clients, client[c] # None, client'[c] # client[c]
  PROVE  \E r \in Requests : req'[r] # req[r] /\ req[r].by = creator[c]
<1>1. PICK r \in Requests : Administer(r)
  BY DEF Next, Register, Rename, Manage, Look, Render, Finish, vars
<1>2. req[r].pc = "manage" /\ req'[r].pc = "render"
  BY <1>1, AdministerKeepsOwners
<1>3. client[c].owner = req[r].name
  <2>1. ASSUME NEW d \in Clients, NEW s \in Secrets, Create(r, d, s)
        PROVE  FALSE
    <3>1. client[d] = None /\ client'[c] = IF c = d THEN client'[d] ELSE client[c]
      BY <2>1 DEF Create, TypeInv, TypeOK, Locals
    <3> QED
      BY <3>1
  <2>2. ASSUME NEW d \in Clients, \/ \E s \in Secrets : Rotate(r, d, s)
                                  \/ \E on \in BOOLEAN : Toggle(r, d, on)
                                  \/ Delete(r, d)
        PROVE  client[c].owner = req[r].name
    BY <2>2 DEF Rotate, Toggle, Delete, Owned, TypeInv, TypeOK
  <2> QED
    BY <1>1, <2>1, <2>2 DEF Administer
<1> QED
  BY <1>2, <1>3 DEF Held

\* As long as no account takes a name that another has borne, only the account
\* that created an application lists, rotates, switches or deletes it.
THEOREM OnlyCreators == ~NamesReused => (Spec => OnlyCreatorAdministers)
<1> SUFFICES ASSUME ~NamesReused PROVE Spec => OnlyCreatorAdministers
  OBVIOUS
<1>1. TypeInv /\ Held /\ [Next]_vars =>
        [/\ \A c \in Clients : client[c] # None /\ client'[c] # client[c] =>
              \E r \in Requests : req'[r] # req[r] /\ req[r].by = creator[c]
         /\ \A p \in seen' \ seen : creator[p[2]] = p[1]]_vars
  BY CreatorStep, ListStep
<1>2. TypeInv /\ Held /\ [Next]_vars => Held'
  BY HeldNext
<1> QED
  BY <1>1, <1>2, TypeInit, TypeNext, HeldInit, PTL DEF Spec, OnlyCreatorAdministers

-----------------------------------------------------------------------------
(* The applications implement AppPromise *)

Stage == [c \in Clients |-> IF client[c] # None
                              THEN IF client[c].enabled THEN "on" ELSE "off"
                              ELSE IF creator[c] = None THEN "new" ELSE "gone"]
Key == [c \in Clients |-> IF client[c] # None THEN client[c].secret ELSE None]
Dead == {s \in drawn : \A c \in Clients : client[c] = None \/ client[c].secret # s}

LEMMA PointwiseExcept ==
  ASSUME NEW S, NEW f, NEW g, NEW c \in S, NEW v,
         f = [x \in S |-> f[x]], g = [x \in S |-> g[x]],
         g[c] = v, \A d \in S \ {c} : g[d] = f[d]
  PROVE  g = [f EXCEPT ![c] = v]
OBVIOUS

LEMMA Maps ==
  /\ Stage = [c \in Clients |-> Stage[c]] /\ Stage' = [c \in Clients |-> Stage'[c]]
  /\ Key = [c \in Clients |-> Key[c]] /\ Key' = [c \in Clients |-> Key'[c]]
BY DEF Stage, Key

\* No two applications have one secret.
Apart ==
  \A c, d \in Clients :
    client[c] # None /\ client[d] # None /\ client[c].secret = client[d].secret => c = d

LEMMA PromiseCreate ==
  ASSUME TypeInv, Apart, NEW r \in Requests, NEW c \in Clients, NEW s \in Secrets, Create(r, c, s)
  PROVE  Apart' /\ Promise!Create(c, s)
<1> DEFINE w == [owner |-> req[r].name, secret |-> s, enabled |-> TRUE]
<1>1. /\ creator[c] = None /\ s \notin drawn /\ drawn' = drawn \cup {s}
      /\ client' = [client EXCEPT ![c] = w]
      /\ creator' = [creator EXCEPT ![c] = req[r].by]
      /\ req[r].name \in Names /\ req[r].by \in Accounts
  BY DEF Create, TypeInv, Locals
<1>2. w \in Row /\ w.secret = s /\ w.enabled
  BY <1>1 DEF Row
<1> HIDE DEF w
<1>3. /\ client[c] = None /\ w # None
      /\ client'[c] = w /\ \A d \in Clients \ {c} : client'[d] = client[d]
      /\ creator'[c] # None /\ \A d \in Clients \ {c} : creator'[d] = creator[d]
  BY <1>1, <1>2 DEF TypeInv, TypeOK, Locals
<1>4. \A d \in Clients : client[d] # None => client[d].secret # s
  BY <1>1 DEF TypeInv, Locals
<1>5. Apart'
  BY <1>2, <1>3, <1>4 DEF Apart
<1>6. Stage[c] = "new" /\ Stage' = [Stage EXCEPT ![c] = "on"]
  <2>1. Stage[c] = "new" /\ Stage'[c] = "on" /\ \A d \in Clients \ {c} : Stage'[d] = Stage[d]
    BY <1>1, <1>2, <1>3 DEF Stage
  <2> QED
    BY <2>1, Maps, PointwiseExcept
<1>7. Key' = [Key EXCEPT ![c] = s] /\ \A d \in Clients : Key[d] # s
  BY <1>2, <1>3, <1>4 DEF Key
<1>8. Dead' = Dead /\ s \notin Dead
  BY <1>1, <1>2, <1>3 DEF Dead
<1> QED
  BY <1>5, <1>6, <1>7, <1>8 DEF Promise!Create, Promise!Unused, Stage, Key, Dead

LEMMA PromiseRotate ==
  ASSUME TypeInv, Apart, NEW r \in Requests, NEW c \in Clients, NEW s \in Secrets,
         Rotate(r, c, s)
  PROVE  Apart' /\ Promise!Rotate(c, s)
<1> DEFINE w == [client[c] EXCEPT !.secret = s]
<1>1. /\ s \notin drawn /\ drawn' = drawn \cup {s} /\ client[c] \in Row
      /\ client' = [client EXCEPT ![c] = w] /\ creator' = creator
  BY DEF Rotate, Owned, TypeInv, TypeOK
<1>2. w \in Row /\ w.secret = s /\ w.enabled = client[c].enabled
  BY <1>1 DEF Row
<1> HIDE DEF w
<1>3. /\ client[c] # None /\ w # None
      /\ client'[c] = w /\ \A d \in Clients \ {c} : client'[d] = client[d]
  BY <1>1, <1>2 DEF TypeInv, TypeOK
<1>4. \A d \in Clients : client[d] # None => client[d].secret \in drawn /\ client[d].secret # s
  BY <1>1 DEF TypeInv, Locals
<1>5. Apart'
  BY <1>2, <1>3, <1>4 DEF Apart
<1>6. Stage[c] \in {"on", "off"} /\ Stage' = Stage
  BY <1>1, <1>2, <1>3 DEF Stage
<1>7. Key' = [Key EXCEPT ![c] = s] /\ Key[c] = client[c].secret /\ \A d \in Clients : Key[d] # s
  <2>1. Key[c] = client[c].secret /\ Key'[c] = s /\ \A d \in Clients \ {c} : Key'[d] = Key[d]
    BY <1>1, <1>2, <1>3 DEF Key
  <2>2. \A d \in Clients : Key[d] # s
    BY <1>4 DEF Key
  <2> QED
    BY <2>1, <2>2, Maps, PointwiseExcept
<1>8. Dead' = Dead \cup {client[c].secret} /\ s \notin Dead
  BY <1>1, <1>2, <1>3, <1>4 DEF Dead, Apart
<1> QED
  BY <1>5, <1>6, <1>7, <1>8 DEF Promise!Rotate, Promise!Unused, Stage, Key, Dead

LEMMA PromiseToggle ==
  ASSUME TypeInv, Apart, NEW r \in Requests, NEW c \in Clients, NEW on \in BOOLEAN,
         Toggle(r, c, on)
  PROVE  Apart' /\ (Promise!Switch(c) \/ UNCHANGED Promise!vars)
<1> DEFINE w == [client[c] EXCEPT !.enabled = on]
<1>1. /\ drawn' = drawn /\ client[c] \in Row
      /\ client' = [client EXCEPT ![c] = w] /\ creator' = creator
  BY DEF Toggle, Owned, TypeInv, TypeOK
<1>2. w \in Row /\ w.secret = client[c].secret /\ w.enabled = on
  BY <1>1 DEF Row
<1> HIDE DEF w
<1>3. /\ client[c] # None /\ w # None
      /\ client'[c] = w /\ \A d \in Clients \ {c} : client'[d] = client[d]
  BY <1>1, <1>2 DEF TypeInv, TypeOK
<1>4. Apart'
  BY <1>2, <1>3 DEF Apart
<1>5. /\ Stage[c] = IF client[c].enabled THEN "on" ELSE "off"
      /\ Stage' = [Stage EXCEPT ![c] = IF on THEN "on" ELSE "off"]
  BY <1>1, <1>2, <1>3 DEF Stage
<1>6. Key' = Key /\ Dead' = Dead
  <2>1. Key' = Key
    BY <1>2, <1>3 DEF Key
  <2>2. Dead' = Dead
    BY <1>1, <1>2, <1>3 DEF Dead
  <2> QED
    BY <2>1, <2>2
<1>7. client[c].enabled \in BOOLEAN /\ Stage = [Stage EXCEPT ![c] = Stage[c]]
  BY <1>1 DEF Row, Stage
<1>8. CASE client[c].enabled = on
  <2>1. Stage' = Stage
    BY <1>5, <1>7, <1>8
  <2> QED
    BY <1>4, <1>6, <2>1 DEF Promise!vars, Stage, Key, Dead
<1>9. CASE client[c].enabled # on
  <2>1. Stage[c] \in {"on", "off"}
        /\ (IF on THEN "on" ELSE "off") = (IF Stage[c] = "on" THEN "off" ELSE "on")
    BY <1>5, <1>7, <1>9
  <2>2. Stage' = [Stage EXCEPT ![c] = IF Stage[c] = "on" THEN "off" ELSE "on"]
    BY <1>5, <2>1
  <2> QED
    BY <1>4, <1>6, <2>1, <2>2 DEF Promise!Switch, Stage, Key, Dead
<1> QED
  BY <1>8, <1>9

LEMMA PromiseDelete ==
  ASSUME TypeInv, Apart, NEW r \in Requests, NEW c \in Clients, Delete(r, c)
  PROVE  Apart' /\ Promise!Delete(c)
<1>1. /\ drawn' = drawn /\ client[c] \in Row /\ client[c] # None
      /\ client' = [client EXCEPT ![c] = None] /\ creator' = creator
  BY DEF Delete, Owned, TypeInv, TypeOK
<1>2. /\ creator[c] # None /\ client[c].secret \in drawn
      /\ client'[c] = None /\ \A d \in Clients \ {c} : client'[d] = client[d]
  BY <1>1 DEF TypeInv, TypeOK, Locals
<1>3. Apart'
  BY <1>2 DEF Apart
<1>4. Stage[c] \in {"on", "off"} /\ Stage' = [Stage EXCEPT ![c] = "gone"]
  BY <1>1, <1>2 DEF Stage
<1>5. Key[c] = client[c].secret /\ Key' = [Key EXCEPT ![c] = None]
  <2>1. Key[c] = client[c].secret /\ Key'[c] = None /\ \A d \in Clients \ {c} : Key'[d] = Key[d]
    BY <1>1, <1>2 DEF Key
  <2> QED
    BY <2>1, Maps, PointwiseExcept
<1>6. Dead' = Dead \cup {client[c].secret}
  BY <1>1, <1>2 DEF Dead, Apart
<1> QED
  BY <1>3, <1>4, <1>5, <1>6 DEF Promise!Delete, Stage, Key, Dead

LEMMA PromiseStep ==
  TypeInv /\ Apart /\ [Next]_vars => Apart' /\ [Promise!Next]_(Promise!vars)
<1> SUFFICES ASSUME TypeInv, Apart, [Next]_vars
             PROVE  Apart' /\ [Promise!Next]_(Promise!vars)
  OBVIOUS
<1>1. ASSUME NEW r \in Requests, Administer(r)
      PROVE  Apart' /\ [Promise!Next]_(Promise!vars)
  BY <1>1, PromiseCreate, PromiseRotate, PromiseToggle, PromiseDelete
  DEF Administer, Promise!Next
<1>2. CASE ~\E r \in Requests : Administer(r)
  <2>1. UNCHANGED <<client, creator, drawn>>
    BY <1>2 DEF Next, Register, Rename, Manage, Look, Render, Finish, vars
  <2> QED
    BY <2>1 DEF Apart, Promise!vars
<1> QED
  BY <1>1, <1>2

\* One secret at a time opens an application, a rotation or a deletion ends the
\* previous one for good, and what was deleted stays away.
THEOREM AppsKeepPromise == Spec => PromiseKept
<1>1. Init => Apart /\ Promise!Init
  BY DEF Init, Apart, Promise!Init
<1> QED
  BY <1>1, TypeInit, TypeNext, PromiseStep, PTL DEF Spec, PromiseKept, Promise!Spec
=============================================================================
