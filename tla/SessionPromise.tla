---------------------------- MODULE SessionPromise ----------------------------
(***************************************************************************)
(* What a Passport session is to the people who use it, without cache,     *)
(* table or names: a token is opened by one account, serves that account   *)
(* or, for a while, nobody, and once ended serves nobody ever again.       *)
(***************************************************************************)
CONSTANTS Accounts, Tokens, NoAccount

VARIABLES
  opened,  \* the account that opened each token
  serves,  \* the account a request with the token is served for now
  ended    \* tokens ended for good

vars == <<opened, serves, ended>>

Init ==
  /\ opened = [t \in Tokens |-> NoAccount]
  /\ serves = [t \in Tokens |-> NoAccount]
  /\ ended = {}

\* Somebody signs in: the token will never belong to another account.
Open(t, a) ==
  /\ opened[t] = NoAccount
  /\ opened' = [opened EXCEPT ![t] = a]
  /\ UNCHANGED <<serves, ended>>

\* Sessions come and go (a rename makes some stale, a restart forgets the
\* cache), but only for their own account, and some end for good.
Turn(live, dead) ==
  /\ ended' = ended \cup dead
  /\ live \cap ended' = {}
  /\ serves' = [t \in Tokens |-> IF t \in live THEN opened[t] ELSE NoAccount]
  /\ UNCHANGED opened

Next ==
  \/ \E t \in Tokens, a \in Accounts : Open(t, a)
  \/ \E live, dead \in SUBSET Tokens : Turn(live, dead)

Spec == Init /\ [][Next]_vars
=============================================================================
