----------------------------- MODULE GrantPromise -----------------------------
(***************************************************************************)
(* What an authorization grant is to the account that gave it, without     *)
(* clients, sign-ins and tables: a consent is given once and yields at     *)
(* most one access token, and a token that has died stays dead.            *)
(***************************************************************************)
CONSTANTS Codes, Bearers, None

VARIABLES
  given,  \* codes an account has consented to
  token,  \* the code each access token was issued for
  live    \* access tokens that are honoured

vars == <<given, token, live>>

Init ==
  /\ given = {}
  /\ token = [b \in Bearers |-> None]
  /\ live = {}

Give(k) ==
  /\ k \notin given
  /\ given' = given \cup {k}
  /\ UNCHANGED <<token, live>>

Issue(b, k) ==
  /\ k \in given
  /\ token[b] = None
  /\ \A other \in Bearers : token[other] # k
  /\ token' = [token EXCEPT ![b] = k]
  /\ live' = live \cup {b}
  /\ UNCHANGED given

\* Expired, revoked, or taken away with the client.
End(dead) ==
  /\ live' = live \ dead
  /\ UNCHANGED <<given, token>>

Next ==
  \/ \E k \in Codes : Give(k)
  \/ \E b \in Bearers, k \in Codes : Issue(b, k)
  \/ \E dead \in SUBSET Bearers : End(dead)

Spec == Init /\ [][Next]_vars
=============================================================================
