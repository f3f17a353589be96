---------------------------- MODULE SessionsProofs ----------------------------
(***************************************************************************)
(* Theorems about Sessions, for any number of accounts, names, tokens,     *)
(* requests and database errors.                                           *)
(***************************************************************************)
EXTENDS Sessions, TLAPS

USE NoNameAssumption, NoAccountAssumption, NoTokenAssumption,
    MaxFaultsAssumption, NamesReusedAssumption, ViasAssumption

-----------------------------------------------------------------------------
(* Type correctness.  It needs to know which local variables a request has *)
(* set at each step.                                                       *)

HoldsName == {"cacheNew", "save", "checkHit", "checkRow", "fill", "resolve",
              "rebindRow", "rebindCache"}

Locals(q) ==
  /\ q.pc \notin {"idle", "greet"} => q.tok \in Tokens
  /\ q.pc \in HoldsName => q.name \in Names
  /\ q.pc \in {"greet", "update"} => q.acct \in Accounts

\* Only registered accounts are greeted or edited.
Registered ==
  \A r \in Requests :
    req[r].pc \in {"greet", "update"} => name[req[r].acct] # NoName

TypeInv == TypeOK /\ (\A r \in Requests : Locals(req[r])) /\ Registered

\* A request that is not being served holds nothing.
LEMMA IdleType == Idle \in Request /\ Locals(Idle) /\ Idle.pc = "idle"
BY DEF Idle, Start, Request, Steps, Stages, Locals, HoldsName

\* A call of tokenUser is a request with a token.
LEMMA LookupType ==
  ASSUME NEW t \in Tokens, NEW stage \in Stages, NEW via \in Vias
  PROVE  /\ Lookup(t, stage, via) \in Request
         /\ Locals(Lookup(t, stage, via))
         /\ Lookup(t, stage, via).pc = "lookup"
BY DEF Lookup, Request, Steps, Locals, HoldsName

\* What follows a call of tokenUser is a request with its local variables set.
LEMMA AnswerType ==
  ASSUME NEW q \in Request, q.tok \in Tokens
  PROVE  /\ Refused(q) \in Request /\ Locals(Refused(q))
         /\ q.name \in Names => Accepted(q) \in Request /\ Locals(Accepted(q))
<1>1. q.stage \in Stages /\ q.via \in Vias
  BY DEF Request
<1>2. \A stage \in Stages : /\ Lookup(q.tok, stage, q.via) \in Request
                            /\ Locals(Lookup(q.tok, stage, q.via))
  BY <1>1, LookupType
<1>3. q.name \in Names => Move(q, "resolve") \in Request /\ Locals(Move(q, "resolve"))
  BY DEF Move, Bear, Request, Steps, Locals, HoldsName
<1>4. CASE q.stage = "reply"
  BY <1>4, IdleType DEF Accepted, Refused
<1>5. CASE q.stage = "guard"
  BY <1>2, <1>5, IdleType DEF Accepted, Refused, Stages
<1>6. CASE q.stage \in {"cookies", "blob"}
  BY <1>2, <1>6 DEF Accepted, Refused, Stages
<1>7. CASE q.stage = "form"
  BY <1>3, <1>7, IdleType DEF Accepted, Refused
<1> QED BY <1>1, <1>4, <1>5, <1>6, <1>7 DEF Stages

\* Where a request is after tokenUser answered, and what it still holds.
LEMMA AnswerFacts ==
  ASSUME NEW q \in Request
  PROVE  /\ Accepted(q).pc \in {"idle", "lookup", "resolve"}
         /\ Accepted(q).tok = IF Accepted(q).pc = "idle" THEN NoToken ELSE q.tok
         /\ Accepted(q).pc = "resolve" => Accepted(q).name = q.name
         /\ Refused(q).pc \in {"idle", "lookup"}
         /\ Refused(q).tok = IF Refused(q).pc = "idle" THEN NoToken ELSE q.tok
<1>1. q.stage \in Stages
  BY DEF Request
<1>2. Idle.pc = "idle" /\ Idle.tok = NoToken
  BY DEF Idle, Start
<1>3. \A stage, via : /\ Lookup(q.tok, stage, via).pc = "lookup"
                      /\ Lookup(q.tok, stage, via).tok = q.tok
  BY DEF Lookup
<1>4. /\ Move(q, "resolve").pc = "resolve"
      /\ Move(q, "resolve").tok = q.tok
      /\ Move(q, "resolve").name = q.name
  BY DEF Move, Bear
<1>5. CASE q.stage = "reply"
  BY <1>2, <1>5 DEF Accepted, Refused
<1>6. CASE q.stage = "guard"
  BY <1>2, <1>3, <1>6 DEF Accepted, Refused
<1>7. CASE q.stage \in {"cookies", "blob"}
  BY <1>3, <1>7 DEF Accepted, Refused
<1>8. CASE q.stage = "form"
  BY <1>2, <1>4, <1>8 DEF Accepted, Refused
<1> QED BY <1>1, <1>5, <1>6, <1>7, <1>8 DEF Stages

LEMMA TypeInit == Init => TypeInv
BY IdleType DEF Init, TypeInv, TypeOK, Registered

LEMMA TypeBegin ==
  ASSUME TypeInv, NEW r \in Requests, Begin(r)
  PROVE  TypeInv'
<1> USE DEF TypeInv, TypeOK, Registered
<1>1. ASSUME NEW a \in Accounts, Login(r, a)
      PROVE  TypeInv'
  BY <1>1 DEF Login, Fresh, Start, Request, Locals, HoldsName, Steps, Stages
<1>2. ASSUME NEW a \in Accounts, NEW n \in Names, Register(r, a, n)
      PROVE  TypeInv'
  BY <1>2 DEF Register, Take, Start, Request, Locals, HoldsName, Steps, Stages
<1>3. ASSUME NEW t \in Tokens, Present(r, t)
      PROVE  TypeInv'
  BY <1>3, LookupType DEF Present, MeetLogout, Stages
<1>4. ASSUME NEW t \in Tokens, NEW via \in Vias, Edit(r, t, via)
      PROVE  TypeInv'
  BY <1>4, LookupType DEF Edit, MeetLogout, Stages
<1>5. ASSUME NEW t \in Tokens, Logout(r, t)
      PROVE  TypeInv'
  BY <1>5 DEF Logout, Start, Request, Locals, HoldsName, Steps, Stages
<1> QED BY <1>1, <1>2, <1>3, <1>4, <1>5 DEF Begin

LEMMA TypeServe ==
  ASSUME TypeInv, NEW r \in Requests, Serve(r)
  PROVE  TypeInv'
<1> USE DEF TypeInv, TypeOK, Registered
<1>0. req[r] \in Request /\ Locals(req[r])
  OBVIOUS
<1>1. CASE Greet(r)
  <2>1. req[r].acct \in Accounts /\ UNCHANGED <<name, row, expired, cache, faults,
                                      issued, closed, overlapped, holder, renamed>>
    BY <1>0, <1>1 DEF Greet, Locals
  <2>2. CASE req' = [req EXCEPT ![r] = Idle] /\ UNCHANGED owner
    BY <2>1, <2>2, IdleType
  <2>3. ASSUME NEW t \in Fresh,
               owner' = [owner EXCEPT ![t] = req[r].acct],
               req' = [req EXCEPT ![r] =
                         Start("cacheNew", t, name[req[r].acct], NoAccount)]
        PROVE  TypeInv'
    <3>1. t \in Tokens /\ owner' \in [Tokens -> Accounts \cup {NoAccount}]
      BY <2>1, <2>3 DEF Fresh
    <3>2. name[req[r].acct] \in Names
      BY <1>0, <1>1, <2>1 DEF Greet
    <3> DEFINE q == Start("cacheNew", t, name[req[r].acct], NoAccount)
    <3>3. q \in Request /\ Locals(q) /\ q.pc = "cacheNew"
      BY <2>1, <3>1, <3>2 DEF Start, Locals, HoldsName, Steps, Stages, Request
    <3> HIDE DEF q
    <3>4. req' = [req EXCEPT ![r] = q]
      BY <2>3 DEF q
    <3> QED BY <2>1, <3>1, <3>3, <3>4
  <2> QED BY <1>1, <2>1, <2>2, <2>3 DEF Greet
<1>2. CASE CacheNew(r)
  BY <1>0, <1>2 DEF CacheNew, history, Move, Bear, Locals, HoldsName, Steps, Request
<1>3. CASE Save(r)
  BY <1>0, <1>3, IdleType DEF Save, Fault, Locals, HoldsName
<1>4. CASE ReadCache(r)
  BY <1>0, <1>4 DEF ReadCache, history, Bear, Locals, HoldsName, Steps, Request
<1>5. CASE FindToken(r)
  <2>1. /\ req[r].pc = "findToken" /\ req[r].tok \in Tokens
        /\ faults' \in 0..MaxFaults
        /\ UNCHANGED <<name, row, expired, cache, history>>
    BY <1>0, <1>5 DEF FindToken, Fault, Locals
  <2>2. CASE req' = [req EXCEPT ![r] = Refused(@)]
    BY <1>0, <2>1, <2>2, AnswerType, AnswerFacts DEF history
  <2>3. CASE /\ row[req[r].tok] # NoName
             /\ req' = [req EXCEPT ![r] =
                          Bear(@, "checkRow", row[req[r].tok], NoAccount)]
    BY <1>0, <2>1, <2>3 DEF history, Bear, Locals, HoldsName, Steps, Request
  <2> QED BY <1>5, <2>2, <2>3 DEF FindToken
<1>6. CASE FindByPassportName(r)
  <2>1. /\ req[r].pc \in {"checkHit", "checkRow"}
        /\ req[r].tok \in Tokens /\ req[r].name \in Names
        /\ faults' \in 0..MaxFaults
        /\ UNCHANGED <<name, row, expired, cache, history>>
    BY <1>0, <1>6 DEF FindByPassportName, Fault, Locals, HoldsName
  <2>2. CASE req' = [req EXCEPT ![r] = Accepted(req[r])]
    BY <1>0, <2>1, <2>2, AnswerType, AnswerFacts DEF history
  <2>3. CASE \E p \in {"fill", "dropRow"} : req' = [req EXCEPT ![r] = Move(req[r], p)]
    BY <1>0, <2>1, <2>3 DEF history, Move, Bear, Locals, HoldsName, Steps, Request
  <2> QED BY <1>6, <2>1, <2>2, <2>3 DEF FindByPassportName
<1>7. CASE FillCache(r)
  BY <1>0, <1>7, AnswerType, AnswerFacts DEF FillCache, history, Locals, HoldsName
<1>8. CASE DropRow(r)
  BY <1>0, <1>8
     DEF DropRow, Fault, history, Move, Bear, Locals, HoldsName, Steps, Request
<1>9. CASE DropCache(r)
  BY <1>0, <1>9, AnswerType, AnswerFacts DEF DropCache, history, Locals
<1>10. CASE Resolve(r)
  BY <1>0, <1>10, IdleType
     DEF Resolve, Named, Fault, history, Bear, Locals, HoldsName, Steps, Request
<1>11. CASE UpdateAccount(r)
  BY <1>0, <1>11, IdleType
     DEF UpdateAccount, Take, Bear, Locals, HoldsName, Steps, Request
<1>12. CASE EditEnds(r)
  BY <1>0, <1>12, IdleType DEF EditEnds, history
<1>13. CASE RebindRow(r)
  BY <1>0, <1>13, IdleType
     DEF RebindRow, Fault, history, Move, Bear, Locals, HoldsName, Steps, Request
<1>14. CASE RebindCache(r)
  BY <1>0, <1>14, IdleType DEF RebindCache, history, Locals, HoldsName
<1>15. CASE LogoutRow(r)
  BY <1>0, <1>15, IdleType DEF LogoutRow, Fault, Locals
<1> QED
  BY <1>1, <1>2, <1>3, <1>4, <1>5, <1>6, <1>7, <1>8, <1>9, <1>10, <1>11, <1>12,
     <1>13, <1>14, <1>15 DEF Serve

LEMMA TypeNext == TypeInv /\ [Next]_vars => TypeInv'
<1> SUFFICES ASSUME TypeInv, [Next]_vars PROVE TypeInv'
  OBVIOUS
<1>1. ASSUME NEW r \in Requests, Begin(r) \/ Serve(r) PROVE TypeInv'
  BY <1>1, TypeBegin, TypeServe
<1>2. ASSUME NEW t \in Tokens, Expire(t) PROVE TypeInv'
  BY <1>2 DEF Expire, history, TypeInv, TypeOK, Registered
<1>3. CASE Restart
  BY <1>3, IdleType DEF Restart, TypeInv, TypeOK, Registered
<1>4. CASE UNCHANGED vars
  BY <1>4 DEF vars, TypeInv, TypeOK, Registered
<1> QED BY <1>1, <1>2, <1>3, <1>4 DEF Next

\* The type invariant: among other things, a goroutine never writes a name it
\* has not read, and the number of errors respects its bound.
THEOREM TypeCorrect == Spec => []TypeOK
<1>1. Spec => []TypeInv
  BY TypeInit, TypeNext, PTL DEF Spec
<1>2. TypeInv => TypeOK
  BY DEF TypeInv
<1> QED BY <1>1, <1>2, PTL

-----------------------------------------------------------------------------
(* Logging out.  LogoutFinal is not inductive: a request that has read a   *)
(* name may still write it.  The invariant says which requests can.        *)

Signing == {"cacheNew", "save"}

\* Steps at which a goroutine may yet write the cache or a row.
Holding == Signing \cup {"checkHit", "checkRow", "fill", "resolve", "update",
                         "rebindRow", "rebindCache"}

\* A token is unknown to clients until its row is saved, only one login holds
\* it until then, and every other request has a token that was issued.
TokensApart ==
  /\ closed \subseteq issued
  /\ \A t \in issued : owner[t] # NoAccount
  /\ \A r \in Requests :
       /\ req[r].pc \in Signing => /\ req[r].tok \notin issued
                                   /\ owner[req[r].tok] # NoAccount
       /\ req[r].pc \notin Signing \cup {"idle", "greet"} => req[r].tok \in issued
  /\ \A r, s \in Requests :
       r # s /\ req[r].pc \in Signing /\ req[s].pc \in Signing
         => req[r].tok # req[s].tok

ClosedRows == \A t \in closed : row[t] = NoName

\* No trace of an ended session, and nobody who could bring it back.
EndedQuiet ==
  \A t \in Ended :
    /\ cache[t] = NoName
    /\ \A r \in Requests : req[r].tok = t => req[r].pc \notin Holding

\* A logout that nothing has overlapped so far is alone with its token.
LogoutAlone ==
  \A r \in Requests :
    req[r].pc = "logoutRow" /\ req[r].tok \notin overlapped \cup closed =>
      /\ cache[req[r].tok] = NoName
      /\ \A s \in Requests \ {r} : req[s].tok # req[r].tok

LogoutInv == TokensApart /\ ClosedRows /\ EndedQuiet /\ LogoutAlone

LEMMA LogoutInit == Init => LogoutInv
BY DEF Init, LogoutInv, TokensApart, ClosedRows, EndedQuiet,
       LogoutAlone, Ended, Idle, Start, Signing, Holding

LEMMA LogoutBegin ==
  ASSUME TypeInv, LogoutInv, NEW r \in Requests, Begin(r)
  PROVE  LogoutInv'
<1> USE DEF TypeInv, TypeOK, LogoutInv, TokensApart, Registered, ClosedRows,
            EndedQuiet, LogoutAlone, Ended, Signing, Holding, Locals
<1>1. ASSUME NEW a \in Accounts, Login(r, a)
      PROVE  LogoutInv'
  BY <1>1 DEF Login, Fresh, Start
<1>2. ASSUME NEW a \in Accounts, NEW n \in Names, Register(r, a, n)
      PROVE  LogoutInv'
  BY <1>2 DEF Register, Take, Start
<1>3. ASSUME NEW t \in Tokens, Present(r, t)
      PROVE  LogoutInv'
  BY <1>3 DEF Present, MeetLogout, Others, Lookup
<1>4. ASSUME NEW t \in Tokens, NEW via \in Vias, Edit(r, t, via)
      PROVE  LogoutInv'
  BY <1>4 DEF Edit, MeetLogout, Others, Lookup
<1>5. ASSUME NEW t \in Tokens, Logout(r, t)
      PROVE  LogoutInv'
  BY <1>5 DEF Logout, Others, Start
<1> QED BY <1>1, <1>2, <1>3, <1>4, <1>5 DEF Begin

LEMMA LogoutServe ==
  ASSUME TypeInv, LogoutInv, NEW r \in Requests, Serve(r)
  PROVE  LogoutInv'
<1> USE DEF TypeInv, TypeOK, LogoutInv, TokensApart, Registered, ClosedRows,
            EndedQuiet, LogoutAlone, Ended, Signing, Holding, Locals
<1>0. req[r] \in Request
  OBVIOUS
<1>1. CASE Greet(r)
  BY <1>0, <1>1 DEF Greet, Fresh, Idle, Start
<1>2. CASE CacheNew(r)
  BY <1>0, <1>2 DEF CacheNew, history, Move, Bear
<1>3. CASE Save(r)
  BY <1>0, <1>3 DEF Save, Fault, Idle, Start
<1>4. CASE ReadCache(r)
  BY <1>0, <1>4 DEF ReadCache, history, Bear
<1>5. CASE FindToken(r)
  BY <1>0, <1>5, AnswerFacts DEF FindToken, Fault, history, Bear
<1>6. CASE FindByPassportName(r)
  BY <1>0, <1>6, AnswerFacts DEF FindByPassportName, Fault, history, Move, Bear
<1>7. CASE FillCache(r)
  BY <1>0, <1>7, AnswerFacts DEF FillCache, history
<1>8. CASE DropRow(r)
  BY <1>0, <1>8 DEF DropRow, Fault, history, Move, Bear
<1>9. CASE DropCache(r)
  BY <1>0, <1>9, AnswerFacts DEF DropCache, history
<1>10. CASE Resolve(r)
  BY <1>0, <1>10 DEF Resolve, Named, Fault, history, Idle, Start, Bear
<1>11. CASE UpdateAccount(r)
  BY <1>0, <1>11 DEF UpdateAccount, Take, Idle, Start, Bear
<1>12. CASE EditEnds(r)
  BY <1>0, <1>12 DEF EditEnds, history, Idle, Start
<1>13. CASE RebindRow(r)
  BY <1>0, <1>13 DEF RebindRow, Fault, history, Idle, Start, Move, Bear
<1>14. CASE RebindCache(r)
  BY <1>0, <1>14 DEF RebindCache, history, Idle, Start
<1>15. CASE LogoutRow(r)
  BY <1>0, <1>15 DEF LogoutRow, Fault, Idle, Start
<1> QED
  BY <1>1, <1>2, <1>3, <1>4, <1>5, <1>6, <1>7, <1>8, <1>9, <1>10, <1>11, <1>12,
     <1>13, <1>14, <1>15 DEF Serve

LEMMA LogoutNext == TypeInv /\ LogoutInv /\ [Next]_vars => LogoutInv'
<1> SUFFICES ASSUME TypeInv, LogoutInv, [Next]_vars PROVE LogoutInv'
  OBVIOUS
<1>1. ASSUME NEW r \in Requests, Begin(r) \/ Serve(r) PROVE LogoutInv'
  BY <1>1, LogoutBegin, LogoutServe
<1> USE DEF LogoutInv, TokensApart, ClosedRows, EndedQuiet, LogoutAlone, Ended
<1>2. ASSUME NEW t \in Tokens, Expire(t) PROVE LogoutInv'
  BY <1>2 DEF Expire, history
<1>3. CASE Restart
  BY <1>3 DEF Restart, TypeInv, TypeOK, Idle, Start, Signing, Holding
<1>4. CASE UNCHANGED vars
  BY <1>4 DEF vars
<1> QED BY <1>1, <1>2, <1>3, <1>4 DEF Next

\* After a successful logout no row of the token is left, and no cache entry
\* either unless another request overlapped the logout.
THEOREM LogoutIsFinal == Spec => []LogoutFinal
<1>1. Spec => [](TypeInv /\ LogoutInv)
  BY TypeInit, TypeNext, LogoutInit, LogoutNext, PTL DEF Spec
<1>2. LogoutInv => LogoutFinal
  BY DEF LogoutInv, LogoutFinal, ClosedRows, EndedQuiet, Ended
<1> QED BY <1>1, <1>2, PTL

-----------------------------------------------------------------------------
(* Identity, as long as names are not handed on.  A name may be stale, but *)
(* it always leads back to the account that signed in.                     *)

Leads(n, t) == owner[t] \in Accounts /\ holder[n] = owner[t]

IdentityInv ==
  ~NamesReused =>
    /\ \A a \in Accounts : name[a] # NoName => holder[name[a]] = a
    /\ \A t \in Tokens : /\ cache[t] # NoName => Leads(cache[t], t)
                         /\ row[t] # NoName => Leads(row[t], t)
    /\ \A r \in Requests :
         /\ req[r].pc \in HoldsName => Leads(req[r].name, req[r].tok)
         /\ req[r].pc = "update" => /\ owner[req[r].tok] \in Accounts
                                    /\ req[r].acct = owner[req[r].tok]

LEMMA IdentityInit == Init => IdentityInv
BY DEF Init, IdentityInv, Idle, Start, HoldsName

LEMMA IdentityBegin ==
  ASSUME TypeInv, IdentityInv, NEW r \in Requests, Begin(r)
  PROVE  IdentityInv'
<1> USE DEF TypeInv, TypeOK, IdentityInv, Leads, Locals, HoldsName
<1>1. ASSUME NEW a \in Accounts, Login(r, a)
      PROVE  IdentityInv'
  BY <1>1 DEF Login, Fresh, Start
<1>2. ASSUME NEW a \in Accounts, NEW n \in Names, Register(r, a, n)
      PROVE  IdentityInv'
  BY <1>2 DEF Register, Take, MayTake, Start
<1>3. ASSUME NEW t \in Tokens, Present(r, t)
      PROVE  IdentityInv'
  BY <1>3 DEF Present, Lookup
<1>4. ASSUME NEW t \in Tokens, NEW via \in Vias, Edit(r, t, via)
      PROVE  IdentityInv'
  BY <1>4 DEF Edit, Lookup
<1>5. ASSUME NEW t \in Tokens, Logout(r, t)
      PROVE  IdentityInv'
  BY <1>5 DEF Logout, Start
<1> QED BY <1>1, <1>2, <1>3, <1>4, <1>5 DEF Begin

LEMMA IdentityServe ==
  ASSUME TypeInv, IdentityInv, NEW r \in Requests, Serve(r)
  PROVE  IdentityInv'
<1> USE DEF TypeInv, TypeOK, IdentityInv, Leads, Locals, HoldsName
<1>0. req[r] \in Request
  OBVIOUS
<1>1. CASE Greet(r)
  BY <1>0, <1>1 DEF Greet, Fresh, Registered, Idle, Start
<1>2. CASE CacheNew(r)
  BY <1>0, <1>2 DEF CacheNew, history, Move, Bear
<1>3. CASE Save(r)
  BY <1>0, <1>3 DEF Save, Fault, Idle, Start
<1>4. CASE ReadCache(r)
  BY <1>0, <1>4 DEF ReadCache, history, Bear
<1>5. CASE FindToken(r)
  BY <1>0, <1>5, AnswerFacts DEF FindToken, Fault, history, Bear
<1>6. CASE FindByPassportName(r)
  BY <1>0, <1>6, AnswerFacts DEF FindByPassportName, Fault, history, Move, Bear
<1>7. CASE FillCache(r)
  BY <1>0, <1>7, AnswerFacts DEF FillCache, history
<1>8. CASE DropRow(r)
  BY <1>0, <1>8 DEF DropRow, Fault, history, Move, Bear
<1>9. CASE DropCache(r)
  BY <1>0, <1>9, AnswerFacts DEF DropCache, history
<1>10. CASE Resolve(r)
  BY <1>0, <1>10 DEF Resolve, Named, Fault, history, Idle, Start, Bear
<1>11. CASE UpdateAccount(r)
  <2> SUFFICES ASSUME ~NamesReused PROVE IdentityInv'
    OBVIOUS
  <2> DEFINE a == req[r].acct
  <2>1. /\ a \in Accounts /\ name[a] # NoName /\ holder[name[a]] = a
        /\ req[r].tok \in Tokens /\ owner[req[r].tok] = a
    BY <1>0, <1>11 DEF UpdateAccount, Registered
  <2>2. PICK n \in Names :
          /\ holder[n] \in {NoAccount, a}
          /\ name' = [name EXCEPT ![a] = n]
          /\ holder' = [holder EXCEPT ![n] = IF @ = NoAccount THEN a ELSE @]
          /\ row' = [t \in Tokens |-> IF row[t] = name[a] THEN n ELSE row[t]]
          /\ req' = [req EXCEPT ![r] = IF req[r].via = "PPAuth" THEN Idle
                                       ELSE Bear(req[r], "rebindRow", n, a)]
          /\ UNCHANGED <<cache, owner>>
    BY <1>11 DEF UpdateAccount, Take, MayTake
  <2> HIDE DEF a
  <2>3. holder'[n] = a /\ \A m \in Names : holder[m] # NoAccount => holder'[m] = holder[m]
    BY <2>1, <2>2
  <2>4. \A b \in Accounts : name'[b] # NoName => holder'[name'[b]] = b
    BY <2>1, <2>2, <2>3
  <2>5. \A t \in Tokens :
          \A m \in {cache'[t], row'[t]} :
            m # NoName => owner'[t] \in Accounts /\ holder'[m] = owner'[t]
    BY <2>1, <2>2, <2>3
  <2>6. \A s \in Requests :
          LET q == req'[s] IN
          /\ q.pc \in HoldsName => /\ owner'[q.tok] \in Accounts
                                   /\ holder'[q.name] = owner'[q.tok]
          /\ q.pc = "update" => /\ owner'[q.tok] \in Accounts
                                /\ q.acct = owner'[q.tok]
    <3>1. \A s \in Requests : req[s].pc \in HoldsName => req[s].name \in Names
      OBVIOUS
    <3>2. req'[r] = IF req[r].via = "PPAuth" THEN Idle
                                             ELSE Bear(req[r], "rebindRow", n, a)
      BY <2>2
    <3>3. CASE req'[r] = Idle
      BY <2>1, <2>2, <2>3, <3>1, <3>3 DEF Idle, Start
    <3>4. CASE req'[r] = Bear(req[r], "rebindRow", n, a)
      BY <2>1, <2>2, <2>3, <3>1, <3>4 DEF Bear
    <3> QED BY <3>2, <3>3, <3>4
  <2> HIDE DEF TypeInv, TypeOK, Locals, HoldsName
  <2> QED BY <2>4, <2>5, <2>6
<1>12. CASE EditEnds(r)
  BY <1>0, <1>12 DEF EditEnds, history, Idle, Start
<1>13. CASE RebindRow(r)
  BY <1>0, <1>13 DEF RebindRow, Fault, history, Idle, Start, Move, Bear
<1>14. CASE RebindCache(r)
  BY <1>0, <1>14 DEF RebindCache, history, Idle, Start
<1>15. CASE LogoutRow(r)
  BY <1>0, <1>15 DEF LogoutRow, Fault, Idle, Start
<1> QED
  BY <1>1, <1>2, <1>3, <1>4, <1>5, <1>6, <1>7, <1>8, <1>9, <1>10, <1>11, <1>12,
     <1>13, <1>14, <1>15 DEF Serve

LEMMA IdentityNext == TypeInv /\ IdentityInv /\ [Next]_vars => IdentityInv'
<1> SUFFICES ASSUME TypeInv, IdentityInv, [Next]_vars PROVE IdentityInv'
  OBVIOUS
<1>1. ASSUME NEW r \in Requests, Begin(r) \/ Serve(r) PROVE IdentityInv'
  BY <1>1, IdentityBegin, IdentityServe
<1> USE DEF IdentityInv, Leads
<1>2. ASSUME NEW t \in Tokens, Expire(t) PROVE IdentityInv'
  BY <1>2 DEF Expire, history
<1>3. CASE Restart
  BY <1>3 DEF Restart, Idle, Start, HoldsName
<1>4. CASE UNCHANGED vars
  BY <1>4 DEF vars
<1> QED BY <1>1, <1>2, <1>3, <1>4 DEF Next

\* Neither the cache nor the table ever leads from a token to an account other
\* than the one that signed in for it, and an edit changes that account only.
THEOREM IdentityIsKept == Spec => []SessionIdentity
<1>1. Spec => [](TypeInv /\ IdentityInv)
  BY TypeInit, TypeNext, IdentityInit, IdentityNext, PTL DEF Spec
<1>2. IdentityInv => SessionIdentity
  BY DEF IdentityInv, Leads, SessionIdentity
<1> QED BY <1>1, <1>2, PTL

-----------------------------------------------------------------------------
(* Survival of the sessions of accounts that keep their name: nobody ever  *)
(* finds such a name without a bearer, so nobody gets to delete the row.   *)

Safe(t) == t \in issued \ closed /\ owner[t] \notin renamed

SurvivalInv ==
  ~NamesReused =>
    /\ \A a \in Accounts \ renamed, n \in Names : holder[n] = a => name[a] = n
    /\ faults = 0 =>
         \A t \in Tokens : Safe(t) =>
           /\ row[t] # NoName
           /\ \A r \in Requests : req[r].pc = "dropRow" => req[r].tok # t

AllInv == TypeInv /\ LogoutInv /\ IdentityInv /\ SurvivalInv

LEMMA SurvivalInit == Init => SurvivalInv
BY DEF Init, SurvivalInv, Safe

LEMMA SurvivalBegin ==
  ASSUME AllInv, NEW r \in Requests, Begin(r)
  PROVE  SurvivalInv'
<1> USE DEF AllInv, TypeInv, TypeOK, SurvivalInv, Safe
<1>1. ASSUME NEW a \in Accounts, Login(r, a)
      PROVE  SurvivalInv'
  BY <1>1 DEF Login, Fresh, Start, LogoutInv, TokensApart
<1>2. ASSUME NEW a \in Accounts, NEW n \in Names, Register(r, a, n)
      PROVE  SurvivalInv'
  BY <1>2 DEF Register, Take, MayTake, Start
<1>3. ASSUME NEW t \in Tokens, Present(r, t)
      PROVE  SurvivalInv'
  BY <1>3 DEF Present, Lookup
<1>4. ASSUME NEW t \in Tokens, NEW via \in Vias, Edit(r, t, via)
      PROVE  SurvivalInv'
  BY <1>4 DEF Edit, Lookup
<1>5. ASSUME NEW t \in Tokens, Logout(r, t)
      PROVE  SurvivalInv'
  BY <1>5 DEF Logout, Start
<1> QED BY <1>1, <1>2, <1>3, <1>4, <1>5 DEF Begin

LEMMA SurvivalServe ==
  ASSUME AllInv, NEW r \in Requests, Serve(r)
  PROVE  SurvivalInv'
<1> USE DEF AllInv, TypeInv, TypeOK, SurvivalInv, Safe
<1>0. req[r] \in Request /\ Locals(req[r])
  OBVIOUS
<1>1. CASE Greet(r)
  BY <1>0, <1>1 DEF Greet, Fresh, Idle, Start, LogoutInv, TokensApart
<1>2. CASE CacheNew(r)
  BY <1>0, <1>2 DEF CacheNew, history, Move, Bear
<1>3. CASE Save(r)
  BY <1>0, <1>3 DEF Save, Fault, Idle, Start, Locals, HoldsName,
                    LogoutInv, TokensApart, Signing
<1>4. CASE ReadCache(r)
  BY <1>0, <1>4 DEF ReadCache, history, Bear
<1>5. CASE FindToken(r)
  BY <1>0, <1>5, AnswerFacts DEF FindToken, Fault, history, Bear
<1>6. CASE FindByPassportName(r)
  <2> SUFFICES ASSUME ~NamesReused PROVE SurvivalInv'
    OBVIOUS
  <2>1. /\ holder[req[r].name] = owner[req[r].tok] /\ owner[req[r].tok] \in Accounts
        /\ req[r].name \in Names
    BY <1>0, <1>6 DEF FindByPassportName, IdentityInv, Leads, Locals, HoldsName
  <2>2. owner[req[r].tok] \notin renamed => Named(req[r].name) # {}
    BY <2>1 DEF Named
  <2> QED BY <1>0, <1>6, <2>2, AnswerFacts
          DEF FindByPassportName, Fault, history, Move, Bear
<1>7. CASE FillCache(r)
  BY <1>0, <1>7, AnswerFacts DEF FillCache, history
<1>8. CASE DropRow(r)
  BY <1>0, <1>8 DEF DropRow, Fault, history, Move, Bear
<1>9. CASE DropCache(r)
  BY <1>0, <1>9, AnswerFacts DEF DropCache, history
<1>10. CASE Resolve(r)
  BY <1>0, <1>10 DEF Resolve, Named, Fault, history, Idle, Start, Bear
<1>11. CASE UpdateAccount(r)
  BY <1>0, <1>11 DEF UpdateAccount, Take, MayTake, Locals, Idle, Start, Bear
<1>12. CASE EditEnds(r)
  BY <1>0, <1>12 DEF EditEnds, history, Idle, Start
<1>13. CASE RebindRow(r)
  BY <1>0, <1>13 DEF RebindRow, Fault, history, Idle, Start, Move, Bear,
                     Locals, HoldsName
<1>14. CASE RebindCache(r)
  BY <1>0, <1>14 DEF RebindCache, history, Idle, Start
<1>15. CASE LogoutRow(r)
  BY <1>0, <1>15 DEF LogoutRow, Fault, Idle, Start
<1> QED
  BY <1>1, <1>2, <1>3, <1>4, <1>5, <1>6, <1>7, <1>8, <1>9, <1>10, <1>11, <1>12,
     <1>13, <1>14, <1>15 DEF Serve

LEMMA SurvivalNext == AllInv /\ [Next]_vars => SurvivalInv'
<1> SUFFICES ASSUME AllInv, [Next]_vars PROVE SurvivalInv'
  OBVIOUS
<1>1. ASSUME NEW r \in Requests, Begin(r) \/ Serve(r) PROVE SurvivalInv'
  BY <1>1, SurvivalBegin, SurvivalServe
<1> USE DEF AllInv, SurvivalInv, Safe
<1>2. ASSUME NEW t \in Tokens, Expire(t) PROVE SurvivalInv'
  BY <1>2 DEF Expire, history
<1>3. CASE Restart
  BY <1>3 DEF Restart, Idle, Start
<1>4. CASE UNCHANGED vars
  BY <1>4 DEF vars
<1> QED BY <1>1, <1>2, <1>3, <1>4 DEF Next

LEMMA AllInvariant == Spec => []AllInv
<1>1. Init => AllInv
  BY TypeInit, LogoutInit, IdentityInit, SurvivalInit DEF AllInv
<1>2. AllInv /\ [Next]_vars => AllInv'
  BY TypeNext, LogoutNext, IdentityNext, SurvivalNext DEF AllInv
<1> QED BY <1>1, <1>2, PTL DEF Spec

\* Without database errors, the session of an account that never changed its
\* name is never lost through what other requests do.
THEOREM UntouchedSurvives == Spec => []UntouchedSessionSurvives
<1>1. AllInv => UntouchedSessionSurvives
  <2> SUFFICES ASSUME AllInv, ~NamesReused, faults = 0,
                      NEW t \in issued \ closed, owner[t] \notin renamed
               PROVE  row[t] = name[owner[t]]
    BY DEF UntouchedSessionSurvives
  <2>1. t \in Tokens /\ row[t] \in Names /\ holder[row[t]] = owner[t]
        /\ owner[t] \in Accounts
    BY DEF AllInv, TypeInv, TypeOK, SurvivalInv, Safe, IdentityInv, Leads
  <2> QED BY <2>1 DEF AllInv, SurvivalInv
<1> QED BY <1>1, AllInvariant, PTL

-----------------------------------------------------------------------------
(* Sessions implements SessionPromise.                                     *)

\* The account a token is served for is its owner or nobody, and nobody once
\* the session has ended.
ServedByOwner ==
  /\ Serving \in [Tokens -> Accounts \cup {NoAccount}]
  /\ \A t \in Tokens : /\ Serving[t] \in {NoAccount, owner[t]}
                       /\ t \in Ended => Serving[t] = NoAccount

LEMMA ServedFacts ==
  ASSUME ~NamesReused
  PROVE  AllInv => ServedByOwner
<1> SUFFICES ASSUME AllInv, NEW t \in Tokens
             PROVE  /\ Served(t) \in {NoAccount, owner[t]}
                    /\ t \in Ended => Served(t) = NoAccount
  BY DEF ServedByOwner, Serving, AllInv, TypeInv, TypeOK
<1> USE DEF AllInv, TypeInv, TypeOK
<1>1. CASE ~Authenticates(t)
  BY <1>1 DEF Served
<1>2. CASE Authenticates(t)
  <2>1. /\ Bearing(t) \in Names
        /\ Bearing(t) \in {cache[t], row[t]}
        /\ \E a \in Accounts : name[a] = Bearing(t)
    BY <1>2 DEF Authenticates, Bearing, Named
  <2>2. Served(t) \in Accounts /\ name[Served(t)] = Bearing(t)
    BY <1>2, <2>1 DEF Served
  <2>3. holder[Bearing(t)] = owner[t] /\ holder[Bearing(t)] = Served(t)
    BY <2>1, <2>2 DEF IdentityInv, Leads
  <2>4. t \notin Ended
    BY <2>1 DEF LogoutInv, ClosedRows, EndedQuiet, Ended
  <2> QED BY <2>3, <2>4
<1> QED BY <1>1, <1>2

\* No step brings an ended session back, and a step that gives a token its
\* owner does nothing else that SessionPromise can see.
LEMMA StepFacts ==
  ASSUME AllInv, [Next]_vars
  PROVE  /\ Ended \subseteq Ended'
         /\ \/ UNCHANGED owner
            \/ /\ \E t \in Fresh, a \in Accounts : owner' = [owner EXCEPT ![t] = a]
               /\ UNCHANGED <<name, row, expired, cache, closed, overlapped>>
<1> USE DEF AllInv, TypeInv, TypeOK
<1>1. ASSUME NEW r \in Requests, Begin(r)
      PROVE  /\ Ended \subseteq Ended'
             /\ \/ UNCHANGED owner
                \/ /\ \E t \in Fresh, a \in Accounts : owner' = [owner EXCEPT ![t] = a]
                   /\ UNCHANGED <<name, row, expired, cache, closed, overlapped>>
  BY <1>1 DEF Begin, Login, Register, Present, Edit, Logout, MeetLogout, Ended
<1>2. ASSUME NEW r \in Requests, Greet(r)
      PROVE  /\ Ended \subseteq Ended'
             /\ \/ UNCHANGED owner
                \/ /\ \E t \in Fresh, a \in Accounts : owner' = [owner EXCEPT ![t] = a]
                   /\ UNCHANGED <<name, row, expired, cache, closed, overlapped>>
  <2>1. req[r].acct \in Accounts
    BY <1>2 DEF Greet, Locals
  <2> QED BY <1>2, <2>1 DEF Greet, Ended
<1>3. ASSUME NEW r \in Requests, Serve(r), ~Greet(r)
      PROVE  Ended \subseteq Ended' /\ UNCHANGED owner
  BY <1>3 DEF Serve, CacheNew, Save, ReadCache, FindToken, FindByPassportName,
              FillCache, DropRow, DropCache, Resolve, UpdateAccount, EditEnds,
              RebindRow, RebindCache, LogoutRow, history, Ended
<1>4. CASE \E t \in Tokens : Expire(t)
  BY <1>4 DEF Expire, history, Ended
<1>5. CASE Restart
  BY <1>5 DEF Restart, Ended
<1>6. CASE UNCHANGED vars
  BY <1>6 DEF vars, Ended
<1> QED BY <1>1, <1>2, <1>3, <1>4, <1>5, <1>6 DEF Next

LEMMA PromiseInit == Init => Promise!Init
BY DEF Init, Promise!Init, Serving, Served, Authenticates, Bearing, Ended

LEMMA PromiseStep ==
  ASSUME AllInv, closed' \subseteq Tokens, ServedByOwner', [Next]_vars
  PROVE  [Promise!Next]_(Promise!vars)
<1>1. CASE UNCHANGED owner
  <2> DEFINE live == {t \in Tokens : Serving'[t] # NoAccount}
  <2>1. /\ Serving' \in [Tokens -> Accounts \cup {NoAccount}]
        /\ \A t \in Tokens : /\ Serving'[t] \in {NoAccount, owner[t]}
                             /\ t \in Ended' => Serving'[t] = NoAccount
    BY <1>1 DEF ServedByOwner
  <2>2. Ended' = Ended \cup Ended' /\ Ended' \in SUBSET Tokens
    <3>1. Ended \subseteq Ended'
      BY StepFacts
    <3>2. Ended' \subseteq Tokens
      BY DEF Ended
    <3> QED BY <3>1, <3>2
  <2>3. Serving' = [t \in Tokens |-> IF t \in live THEN owner[t] ELSE NoAccount]
    BY <2>1
  <2>4. Promise!Turn(live, Ended')
    BY <1>1, <2>1, <2>2, <2>3 DEF Promise!Turn
  <2> QED BY <2>2, <2>4 DEF Promise!Next
<1>2. CASE /\ \E t \in Fresh, a \in Accounts : owner' = [owner EXCEPT ![t] = a]
           /\ UNCHANGED <<name, row, expired, cache, closed, overlapped>>
  <2>1. Serving' = Serving
    BY <1>2 DEF Serving, Served, Authenticates, Bearing, Named
  <2>2. Ended' = Ended
    BY <1>2 DEF Ended
  <2>3. PICK t \in Fresh, a \in Accounts : owner' = [owner EXCEPT ![t] = a]
    BY <1>2
  <2>4. Promise!Open(t, a) /\ t \in Tokens
    BY <2>1, <2>2, <2>3 DEF Promise!Open, Fresh
  <2> QED BY <2>4 DEF Promise!Next
<1> QED BY <1>1, <1>2, StepFacts

\* As long as names are not handed on, all a client can observe of sessions is
\* what SessionPromise says: a token serves the account that opened it or
\* nobody, and nobody after a logout without overlap.
THEOREM PromiseIsKept ==
  ASSUME ~NamesReused
  PROVE  Spec => PromiseKept
<1> DEFINE Inv == AllInv /\ closed \subseteq Tokens /\ ServedByOwner
<1>1. AllInv => Inv
  BY ServedFacts DEF AllInv, TypeInv, TypeOK
<1>2. Inv /\ Inv' /\ [Next]_vars => [Promise!Next]_(Promise!vars)
  BY PromiseStep
<1> HIDE DEF Inv
<1> QED
  BY <1>1, <1>2, PromiseInit, AllInvariant, PTL DEF Spec, PromiseKept, Promise!Spec

-----------------------------------------------------------------------------
(* One request at a time.  A row always has the name its owner bears now,  *)
(* and a cache entry a row, except while a lookup that met a name nobody   *)
(* bears has deleted the row and not yet the entry.                        *)

OneRequest == \A r, s \in Requests : r = s

\* Steps at which a request has found its session.
Found == {"checkHit", "checkRow", "fill", "resolve", "update", "rebindRow", "rebindCache"}

Current(q) ==
  /\ q.pc \in Signing \cup {"rebindRow", "rebindCache"} => q.name = name[owner[q.tok]]
  /\ q.pc \in Found => row[q.tok] # NoName
  /\ q.pc = "logoutRow" => cache[q.tok] = NoName

Dropping(t) == \E r \in Requests : req[r].pc = "dropCache" /\ req[r].tok = t

SerialInv ==
  /\ RowsFollowRename
  /\ \A t \in issued : cache[t] # NoName => row[t] # NoName \/ Dropping(t)
  /\ \A r \in Requests : Current(req[r])

LEMMA SerialInit == Init => SerialInv
BY DEF Init, SerialInv, RowsFollowRename, Current, Idle, Start, Signing, Found

LEMMA SerialBegin ==
  ASSUME AllInv, SerialInv, OneRequest, ~NamesReused, NEW r \in Requests, Begin(r)
  PROVE  SerialInv'
<1> USE DEF AllInv, TypeInv, TypeOK, SerialInv, RowsFollowRename, Current, Dropping,
            OneRequest, Signing, Found
<1>0. req[r].pc = "idle" /\ Requests = {r}
  BY DEF Begin, Login, Register, Present, Edit, Logout
<1>1. ASSUME NEW a \in Accounts, Login(r, a)
      PROVE  SerialInv'
  BY <1>0, <1>1 DEF Login, Fresh, Start, IdentityInv, Leads
<1>2. ASSUME NEW a \in Accounts, NEW n \in Names, Register(r, a, n)
      PROVE  SerialInv'
  BY <1>0, <1>2 DEF Register, Take, MayTake, Start, IdentityInv, Leads
<1>3. ASSUME NEW t \in Tokens, Present(r, t)
      PROVE  SerialInv'
  BY <1>0, <1>3 DEF Present, Lookup
<1>4. ASSUME NEW t \in Tokens, NEW via \in Vias, Edit(r, t, via)
      PROVE  SerialInv'
  BY <1>0, <1>4 DEF Edit, Lookup
<1>5. ASSUME NEW t \in Tokens, Logout(r, t)
      PROVE  SerialInv'
  BY <1>0, <1>5 DEF Logout, Start
<1> QED BY <1>1, <1>2, <1>3, <1>4, <1>5 DEF Begin

LEMMA SerialServe ==
  ASSUME AllInv, SerialInv, OneRequest, ~NamesReused, NEW r \in Requests, Serve(r)
  PROVE  SerialInv'
<1> USE DEF AllInv, TypeInv, TypeOK, SerialInv, RowsFollowRename, Current, Dropping,
            OneRequest, Signing, Found
<1>0. /\ req[r] \in Request /\ Locals(req[r]) /\ Requests = {r}
      /\ req[r].pc \notin Signing \cup {"idle", "greet"} => req[r].tok \in issued
      /\ req[r].pc \in Signing => req[r].tok \notin issued
  BY DEF LogoutInv, TokensApart
<1>1. CASE Greet(r)
  BY <1>0, <1>1 DEF Greet, Fresh, Idle, Start, IdentityInv, Leads
<1>2. CASE CacheNew(r)
  BY <1>0, <1>2 DEF CacheNew, history, Move, Bear, Locals, HoldsName
<1>3. CASE Save(r)
  BY <1>0, <1>3 DEF Save, Fault, Idle, Start, Locals, HoldsName
<1>4. CASE ReadCache(r)
  BY <1>0, <1>4 DEF ReadCache, history, Bear
<1>5. CASE FindToken(r)
  BY <1>0, <1>5, AnswerFacts DEF FindToken, Fault, history, Bear
<1>6. CASE FindByPassportName(r)
  BY <1>0, <1>6, AnswerFacts DEF FindByPassportName, Fault, history, Move, Bear
<1>7. CASE FillCache(r)
  BY <1>0, <1>7, AnswerFacts DEF FillCache, history, Locals
<1>8. CASE DropRow(r)
  BY <1>0, <1>8 DEF DropRow, Fault, history, Move, Bear, Locals
<1>9. CASE DropCache(r)
  BY <1>0, <1>9, AnswerFacts DEF DropCache, history, Locals
<1>10. CASE Resolve(r)
  BY <1>0, <1>10 DEF Resolve, Named, Fault, history, Idle, Start, Bear
<1>11. CASE UpdateAccount(r)
  BY <1>0, <1>11 DEF UpdateAccount, Take, MayTake, Idle, Start, Bear, Locals,
                     Registered, IdentityInv, Leads
<1>12. CASE EditEnds(r)
  BY <1>0, <1>12 DEF EditEnds, history, Idle, Start
<1>13. CASE RebindRow(r)
  BY <1>0, <1>13 DEF RebindRow, Fault, history, Idle, Start, Move, Bear, Locals, HoldsName
<1>14. CASE RebindCache(r)
  BY <1>0, <1>14 DEF RebindCache, history, Idle, Start, Locals, HoldsName
<1>15. CASE LogoutRow(r)
  BY <1>0, <1>15 DEF LogoutRow, Fault, Idle, Start, Locals
<1> QED
  BY <1>1, <1>2, <1>3, <1>4, <1>5, <1>6, <1>7, <1>8, <1>9, <1>10, <1>11, <1>12,
     <1>13, <1>14, <1>15 DEF Serve

LEMMA SerialNext ==
  ASSUME OneRequest, ~NamesReused
  PROVE  AllInv /\ SerialInv /\ [Next]_vars => SerialInv'
<1> SUFFICES ASSUME AllInv, SerialInv, [Next]_vars PROVE SerialInv'
  OBVIOUS
<1>1. ASSUME NEW r \in Requests, Begin(r) \/ Serve(r) PROVE SerialInv'
  BY <1>1, SerialBegin, SerialServe
<1> USE DEF SerialInv, RowsFollowRename, Current, Dropping
<1>2. ASSUME NEW t \in Tokens, Expire(t) PROVE SerialInv'
  BY <1>2 DEF Expire, history
<1>3. CASE Restart
  BY <1>3 DEF Restart, Idle, Start, Signing, Found, AllInv, TypeInv, TypeOK
<1>4. CASE UNCHANGED vars
  BY <1>4 DEF vars
<1> QED BY <1>1, <1>2, <1>3, <1>4 DEF Next

LEMMA SerialInvariant ==
  ASSUME OneRequest, ~NamesReused
  PROVE  Spec => [](AllInv /\ SerialInv)
<1>1. Init => SerialInv
  BY SerialInit
<1>2. AllInv /\ SerialInv /\ [Next]_vars => SerialInv'
  BY SerialNext
<1> QED BY <1>1, <1>2, AllInvariant, PTL DEF Spec

\* One request at a time, every row follows the names of its owner: a session
\* outlives a rename, a failed rebind and a restart as its owner's
\* (updateAccount takes the rows along).
THEOREM RenameIsFollowed ==
  ASSUME OneRequest, ~NamesReused
  PROVE  Spec => []RowsFollowRename
<1>1. SerialInv => RowsFollowRename
  BY DEF SerialInv
<1> QED BY <1>1, SerialInvariant, PTL

\* One request at a time, an edit that ends after rebindToken leaves its own
\* session authenticated, with the same name in the cache and in its row.
THEOREM RebindKeeps ==
  ASSUME OneRequest, ~NamesReused
  PROVE  Spec => RebindKeepsSession
<1> DEFINE Kept(r, t) ==
      RebindCache(r) /\ req[r].tok = t => Authenticates(t)' /\ row'[t] = cache'[t]
<1>1. ASSUME AllInv, SerialInv, NEW r \in Requests, NEW t \in Tokens,
             RebindCache(r), req[r].tok = t
      PROVE  Authenticates(t)' /\ row'[t] = cache'[t]
  <2> DEFINE a == owner[t]
             n == req[r].name
  <2>1. a \in Accounts /\ n \in Names
    BY <1>1 DEF RebindCache, AllInv, TypeInv, Locals, IdentityInv, Leads, HoldsName
  <2>2. name[a] = n /\ row[t] = n
    BY <1>1 DEF RebindCache, SerialInv, RowsFollowRename, Current, Found
  <2>3. cache'[t] = n /\ row'[t] = n /\ name' = name
    BY <1>1, <2>2 DEF RebindCache, AllInv, TypeInv, TypeOK
  <2>4. Bearing(t)' = n /\ name'[a] = n
    BY <2>1, <2>2, <2>3 DEF Bearing
  <2>5. Named(Bearing(t))' # {}
    BY <2>1, <2>4 DEF Named
  <2> QED
    BY <2>1, <2>3, <2>4, <2>5 DEF Authenticates
<1>2. AllInv /\ SerialInv => [\A r \in Requests, t \in Tokens : Kept(r, t)]_vars
  BY <1>1
<1> HIDE DEF Kept
<1>3. Spec => [][\A r \in Requests, t \in Tokens : Kept(r, t)]_vars
  BY <1>2, SerialInvariant, PTL
<1> QED BY <1>3 DEF RebindKeepsSession, Kept

\* ... and so the session with which an account was updated stays authenticated,
\* as tests/lunapassport_test.go wants it, unless the request carried its token
\* in PPAuth alone, where rebindToken does not look for it.
THEOREM UpdatedStays ==
  ASSUME OneRequest, ~NamesReused, "PPAuth" \notin Vias
  PROVE  Spec => UpdatedSessionStays
<1> DEFINE Kept(r, t) ==
      RebindCache(r) /\ req[r].tok = t => Authenticates(t)' /\ row'[t] = cache'[t]
<1>1. ASSUME AllInv, NEW r \in Requests, UpdateAccount(r), req'[r] = Idle
      PROVE  FALSE
  <2>1. req \in [Requests -> Request] /\ req[r].via # "PPAuth"
    BY <1>1 DEF AllInv, TypeInv, TypeOK, Request
  <2>2. PICK n \in Names : req' = [req EXCEPT ![r] = Bear(req[r], "rebindRow", n, req[r].acct)]
    BY <1>1, <2>1 DEF UpdateAccount
  <2> QED
    BY <1>1, <2>1, <2>2 DEF Bear, Idle, Start
<1>2. AllInv /\ [\A r \in Requests, t \in Tokens : Kept(r, t)]_vars
        => [\A r \in Requests, t \in Tokens :
              /\ UpdateAccount(r) \/ RebindCache(r)
              /\ req[r].tok = t
              /\ req'[r] = Idle
              => Authenticates(t)']_vars
  BY <1>1
<1> HIDE DEF Kept
<1>3. Spec => [][\A r \in Requests, t \in Tokens : Kept(r, t)]_vars
  BY RebindKeeps DEF RebindKeepsSession, Kept
<1> QED BY <1>2, <1>3, AllInvariant, PTL DEF UpdatedSessionStays

\* One request overlaps no logout.
LEMMA NothingOverlaps ==
  ASSUME OneRequest
  PROVE  Spec => [](overlapped = {})
<1> DEFINE Quiet == overlapped = {}
<1>1. Init => Quiet
  BY DEF Init
<1>2. Quiet /\ [Next]_vars => Quiet'
  <2> SUFFICES ASSUME overlapped = {}, [Next]_vars PROVE overlapped' = {}
    OBVIOUS
  <2>1. \A r \in Requests : \A t : Others(r, t) = {}
    BY DEF OneRequest, Others
  <2>2. ASSUME NEW r \in Requests, Begin(r) PROVE overlapped' = {}
    BY <2>1, <2>2 DEF Begin, Login, Register, Present, Edit, Logout, MeetLogout
  <2>3. ASSUME NEW r \in Requests, Serve(r) PROVE overlapped' = {}
    BY <2>3 DEF Serve, Greet, CacheNew, Save, ReadCache, FindToken, FindByPassportName,
                FillCache, DropRow, DropCache, Resolve, UpdateAccount, EditEnds, RebindRow,
                RebindCache, LogoutRow, history
  <2> QED BY <2>2, <2>3 DEF Next, Expire, Restart, history, vars
<1> QED BY <1>1, <1>2, PTL DEF Spec

\* One request at a time, a logout answered with success is final: what
\* tests/lunapassport_test.go says of it, and what a lookup beside the logout
\* can break.
THEOREM SerialLogoutIsFinal ==
  ASSUME OneRequest
  PROVE  Spec => []LogoutRequiresSignIn
<1>1. overlapped = {} /\ LogoutFinal => LogoutRequiresSignIn
  BY DEF LogoutFinal, LogoutRequiresSignIn
<1> QED BY <1>1, NothingOverlaps, LogoutIsFinal, PTL
===============================================================================
