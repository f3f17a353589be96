------------------------------ MODULE AppPromise ------------------------------
(***************************************************************************)
(* What the secret of an application is to the partner who uses it,        *)
(* without names, pages and requests: one secret at a time opens it, a     *)
(* rotation ends the previous one for good, and what was deleted is gone.  *)
(***************************************************************************)
CONSTANTS Clients, Secrets, None

VARIABLES
  stage,  \* "new", "on", "off" or "gone"
  key,    \* the secret of each application
  dead    \* secrets that open nothing any more

vars == <<stage, key, dead>>

Init ==
  /\ stage = [c \in Clients |-> "new"]
  /\ key = [c \in Clients |-> None]
  /\ dead = {}

Unused(s) == s \notin dead /\ \A c \in Clients : key[c] # s

Create(c, s) ==
  /\ stage[c] = "new" /\ Unused(s)
  /\ stage' = [stage EXCEPT ![c] = "on"]
  /\ key' = [key EXCEPT ![c] = s]
  /\ UNCHANGED dead

Rotate(c, s) ==
  /\ stage[c] \in {"on", "off"} /\ Unused(s)
  /\ key' = [key EXCEPT ![c] = s]
  /\ dead' = dead \cup {key[c]}
  /\ UNCHANGED stage

Switch(c) ==
  /\ stage[c] \in {"on", "off"}
  /\ stage' = [stage EXCEPT ![c] = IF @ = "on" THEN "off" ELSE "on"]
  /\ UNCHANGED <<key, dead>>

Delete(c) ==
  /\ stage[c] \in {"on", "off"}
  /\ stage' = [stage EXCEPT ![c] = "gone"]
  /\ key' = [key EXCEPT ![c] = None]
  /\ dead' = dead \cup {key[c]}

Next ==
  \E c \in Clients :
    \/ \E s \in Secrets : Create(c, s) \/ Rotate(c, s)
    \/ Switch(c)
    \/ Delete(c)

Spec == Init /\ [][Next]_vars
=============================================================================
