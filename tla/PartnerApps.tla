----------------------------- MODULE PartnerApps -----------------------------
(***************************************************************************)
(* Who administers a partner application, and what its secret opens.  The  *)
(* row of an application in oauth_clients names its owner by the Passport  *)
(* name of the account that created it; every action on the /partners page *)
(* compares it with the name the session told at the start of the request. *)
(* Accounts rename themselves meanwhile, and the row does not follow.      *)
(*                                                                         *)
(* One action is one statement or transaction on oauth_clients, with what  *)
(* the handler does on its own before the next one.  That a session tells  *)
(* the current name of its account is the subject of modules Sessions and  *)
(* Identity; codes, tokens and redirect URIs of an application are in      *)
(* OAuthGrants.                                                            *)
(***************************************************************************)
CONSTANTS
  Accounts,    \* rows of passport_accounts, registered or not yet
  Names,       \* Passport names
  Clients,     \* results of randomToken for client_id
  Secrets,     \* results of randomToken for client secrets
  Requests,    \* goroutines serving HTTP requests
  None,        \* no row, no value yet
  NamesReused  \* may an account take a name another has held?

ASSUME NoneAssumption ==
  None \notin Accounts \cup Names \cup Clients \cup Secrets
ASSUME ReuseAssumption == NamesReused \in BOOLEAN

VARIABLES
  name,    \* passport_accounts.passport_name, None before registration
  client,  \* rows of oauth_clients
  req,     \* what each goroutine is doing
  \* The rest is history, read by the properties only.
  creator, \* the account that created each application
  drawn,   \* secrets that have been drawn
  shown,   \* secrets a page has shown
  lost,    \* secrets whose page was not rendered
  seen,    \* <<a, c>>: a page of account a listed application c
  renamed, \* accounts that have changed their name
  holder   \* the first account to bear each name

vars == <<name, client, req, creator, drawn, shown, lost, seen, renamed, holder>>

-----------------------------------------------------------------------------

Row == [owner: Names, secret: Secrets, enabled: BOOLEAN]

ASSUME NoRowAssumption == None \notin Row

Steps == {"idle", "manage", "render"}

\* by: whose session it is; name: what it told; secret: for the page.
Request == [pc: Steps, by: Accounts \cup {None}, name: Names \cup {None},
            secret: Secrets \cup {None}]

Idle == [pc |-> "idle", by |-> None, name |-> None, secret |-> None]

TypeOK ==
  /\ name \in [Accounts -> Names \cup {None}]
  /\ client \in [Clients -> Row \cup {None}]
  /\ req \in [Requests -> Request]
  /\ creator \in [Clients -> Accounts \cup {None}]
  /\ drawn \subseteq Secrets
  /\ shown \subseteq Secrets
  /\ lost \subseteq Secrets
  /\ seen \subseteq Accounts \X Clients
  /\ renamed \subseteq Accounts
  /\ holder \in [Names -> Accounts \cup {None}]

Init ==
  /\ name = [a \in Accounts |-> None]
  /\ client = [c \in Clients |-> None]
  /\ req = [r \in Requests |-> Idle]
  /\ creator = [c \in Clients |-> None]
  /\ drawn = {}
  /\ shown = {}
  /\ lost = {}
  /\ seen = {}
  /\ renamed = {}
  /\ holder = [n \in Names |-> None]

-----------------------------------------------------------------------------
(* Helpers *)

\* The WHERE clause of every statement on behalf of an owner.
Owned(c, n) == client[c] # None /\ client[c].owner = n

MayTake(a, n) == NamesReused \/ holder[n] \in {None, a}

Take(a, n) ==
  /\ MayTake(a, n)
  /\ name' = [name EXCEPT ![a] = n]
  /\ holder' = [holder EXCEPT ![n] = IF @ = None THEN a ELSE @]

\* The page that ends the request, with secret s or with none.
GoRender(r, s) == req' = [req EXCEPT ![r] = [@ EXCEPT !.pc = "render", !.secret = s]]

-----------------------------------------------------------------------------
(* Accounts *)

\* createAccount, seedIfEmpty.
Register(a, n) ==
  /\ name[a] = None
  /\ Take(a, n)
  /\ UNCHANGED <<client, req, creator, drawn, shown, lost, seen, renamed>>

\* updateAccount: oauth_clients is not touched.
Rename(a, n) ==
  /\ name[a] \notin {None, n}
  /\ Take(a, n)
  /\ renamed' = renamed \cup {a}
  /\ UNCHANGED <<client, req, creator, drawn, shown, lost, seen>>

-----------------------------------------------------------------------------
(* The /partners page *)

\* handlePartners: browserPassportUser tells the name of the session.
Manage(r, a) ==
  /\ req[r].pc = "idle"
  /\ name[a] # None
  /\ req' = [req EXCEPT ![r] = [Idle EXCEPT !.pc = "manage", !.by = a, !.name = name[a]]]
  /\ UNCHANGED <<name, client, creator, drawn, shown, lost, seen, renamed, holder>>

\* A GET; or a POST that is refused with a message.
Look(r) ==
  /\ req[r].pc = "manage"
  /\ GoRender(r, None)
  /\ UNCHANGED <<name, client, creator, drawn, shown, lost, seen, renamed, holder>>

CreateForNamed(r, c, s) ==
  /\ req[r].pc = "manage"
  /\ creator[c] = None /\ s \notin drawn
  /\ \E n \in Names :
       client' = [client EXCEPT ![c] =
         [owner |-> n, secret |-> s, enabled |-> TRUE]]
  /\ creator' = [creator EXCEPT ![c] = req[r].by]
  /\ drawn' = drawn \cup {s}
  /\ GoRender(r, s)
  /\ UNCHANGED <<name, shown, lost, seen, renamed, holder>>

\* handlePartnerCreate, createOAuthClient.
Create(r, c, s) ==
  /\ req[r].pc = "manage"
  /\ creator[c] = None /\ s \notin drawn
  /\ client' = [client EXCEPT ![c] =
       [owner |-> req[r].name, secret |-> s, enabled |-> TRUE]]
  /\ creator' = [creator EXCEPT ![c] = req[r].by]
  /\ drawn' = drawn \cup {s}
  /\ GoRender(r, s)
  /\ UNCHANGED <<name, shown, lost, seen, renamed, holder>>

RotateClears(r, c, s) ==
  /\ req[r].pc = "manage" /\ Owned(c, req[r].name) /\ s \notin drawn
  /\ client' = [client EXCEPT ![c].secret = None]
  /\ drawn' = drawn \cup {s}
  /\ GoRender(r, s)
  /\ UNCHANGED <<name, creator, shown, lost, seen, renamed, holder>>

RotateAnybodys(r, c, s) ==
  /\ req[r].pc = "manage" /\ client[c] # None /\ s \notin drawn
  /\ client' = [client EXCEPT ![c].secret = s]
  /\ drawn' = drawn \cup {s}
  /\ GoRender(r, s)
  /\ UNCHANGED <<name, creator, shown, lost, seen, renamed, holder>>

RotateUnstored(r, c, s) ==
  /\ req[r].pc = "manage" /\ Owned(c, req[r].name) /\ s \notin drawn
  /\ drawn' = drawn \cup {s}
  /\ GoRender(r, s)
  /\ UNCHANGED <<name, client, creator, shown, lost, seen, renamed, holder>>

RotateUnshown(r, c, s) ==
  /\ req[r].pc = "manage" /\ Owned(c, req[r].name) /\ s \notin drawn
  /\ client' = [client EXCEPT ![c].secret = s]
  /\ drawn' = drawn \cup {s}
  /\ GoRender(r, None)
  /\ UNCHANGED <<name, creator, shown, lost, seen, renamed, holder>>

\* handlePartnerRotate, updateOAuthClientSecret.
Rotate(r, c, s) ==
  /\ req[r].pc = "manage" /\ Owned(c, req[r].name) /\ s \notin drawn
  /\ client' = [client EXCEPT ![c].secret = s]
  /\ drawn' = drawn \cup {s}
  /\ GoRender(r, s)
  /\ UNCHANGED <<name, creator, shown, lost, seen, renamed, holder>>

\* handlePartnerToggle, setOAuthClientEnabled.
Toggle(r, c, on) ==
  /\ req[r].pc = "manage" /\ Owned(c, req[r].name)
  /\ client' = [client EXCEPT ![c].enabled = on]
  /\ GoRender(r, None)
  /\ UNCHANGED <<name, creator, drawn, shown, lost, seen, renamed, holder>>

\* handlePartnerDelete, deleteOAuthClient.
Delete(r, c) ==
  /\ req[r].pc = "manage" /\ Owned(c, req[r].name)
  /\ client' = [client EXCEPT ![c] = None]
  /\ GoRender(r, None)
  /\ UNCHANGED <<name, creator, drawn, shown, lost, seen, renamed, holder>>

\* renderPartners, with the list as it is now.
Render(r) ==
  /\ req[r].pc = "render"
  /\ seen' = seen \cup {<<req[r].by, c>> : c \in {d \in Clients : Owned(d, req[r].name)}}
  /\ shown' = shown \cup ({req[r].secret} \ {None})
  /\ req' = [req EXCEPT ![r] = Idle]
  /\ UNCHANGED <<name, client, creator, drawn, lost, renamed, holder>>

\* A request ends without another statement: refused, answered, or cut short
\* by an error or a restart, which loses the page it was to render.
Finish(r) ==
  /\ req[r].pc # "idle"
  /\ lost' = lost \cup ({req[r].secret} \ {None})
  /\ req' = [req EXCEPT ![r] = Idle]
  /\ UNCHANGED <<name, client, creator, drawn, shown, seen, renamed, holder>>

-----------------------------------------------------------------------------

Administer(r) ==
  \/ \E c \in Clients, s \in Secrets : Create(r, c, s) \/ Rotate(r, c, s)
  \/ \E c \in Clients, on \in BOOLEAN : Toggle(r, c, on)
  \/ \E c \in Clients : Delete(r, c)

Next ==
  \/ \E a \in Accounts, n \in Names : Register(a, n) \/ Rename(a, n)
  \/ \E r \in Requests :
       \/ \E a \in Accounts : Manage(r, a)
       \/ Administer(r)
       \/ Look(r)
       \/ Render(r)
       \/ Finish(r)

Spec == Init /\ [][Next]_vars

-----------------------------------------------------------------------------
(* Properties *)

\* src/docs/partner-sso.md:41: "Only the account that created an application
\* can list, rotate, disable, or delete it."  Every change of a row is a step
\* of a request of its creator, and so is every page that lists it, although
\* the name in the row, the one the request was told and the one the account
\* has by now may all be different.
OnlyCreatorAdministers ==
  [][/\ \A c \in Clients : client[c] # None /\ client'[c] # client[c] =>
          \E r \in Requests : req'[r] # req[r] /\ req[r].by = creator[c]
     /\ \A p \in seen' \ seen : creator[p[2]] = p[1]]_vars

\* An application gets out of its creator's hands only by a rename, even when
\* the rename is committed between the start of a request and its INSERT.  (After
\* a rename its creator cannot administer it any more.)
OnlyRenamesOrphan ==
  \A c \in Clients : client[c] # None /\ creator[c] \notin renamed =>
    Owned(c, name[creator[c]])

\* Of any number of rotations side by side, the secret that is left in the row
\* is on a page, on its way to one, or was lost with the page.
SecretReachesOwner ==
  \A c \in Clients : client[c] # None =>
    \/ client[c].secret \in shown \cup lost
    \/ \E r \in Requests : req[r].secret = client[c].secret

\* The applications implement AppPromise.
Promise == INSTANCE AppPromise WITH
  stage <- [c \in Clients |-> IF client[c] # None
                                THEN IF client[c].enabled THEN "on" ELSE "off"
                                ELSE IF creator[c] = None THEN "new" ELSE "gone"],
  key <- [c \in Clients |-> IF client[c] # None THEN client[c].secret ELSE None],
  dead <- {s \in drawn : \A c \in Clients : client[c] = None \/ client[c].secret # s}

PromiseKept == Promise!Spec
=============================================================================
