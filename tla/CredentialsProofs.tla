-------------------------- MODULE CredentialsProofs --------------------------
(***************************************************************************)
(* For any number of accounts, edits, keys and starts: what is protected,  *)
(* which password opens, whether the answer fits the question and under    *)
(* which key the question can be read.                                     *)
(*                                                                         *)
(* The argument: protectAccount keeps the text behind a value and leaves a *)
(* protected value alone (ProtectSecretFacts), so it may be applied again  *)
(* at every start; and an edit works on a copy that some row once was, so  *)
(* what held of question and answer then holds of what it writes (Fits).   *)
(***************************************************************************)
EXTENDS Credentials, TLAPS

USE LooksAssumption, BlankAssumption, AbsentAssumption

-----------------------------------------------------------------------------
(* Stored values *)

LEMMA NothingFacts ==
  Nothing \in Value /\ Nothing.text = Blank /\ Nothing.form = "blank"
BY DEF Nothing, Value

LEMMA PlainFacts ==
  ASSUME NEW t \in Texts \cup {Blank}
  PROVE  /\ Plain(t) \in Value /\ Plain(t).text = t
         /\ Plain(t) = Nothing <=> t = Blank
         /\ t # Blank => Plain(t).form = "plain"
BY DEF Plain, Nothing, Value

LEMMA ValueFacts ==
  ASSUME NEW v \in Value
  PROVE  /\ v.text \in Texts \cup {Blank}
         /\ v.form \in {"blank", "plain", "hash", "cipher"}
         /\ v.form = "blank" <=> v = Nothing
         /\ v.text = Blank <=> v = Nothing
         /\ v.form = "plain" => v = Plain(v.text)
         /\ v.form = "hash" => v = Hash(v.text)
<1>1. CASE v = Nothing
  BY <1>1 DEF Nothing
<1>2. ASSUME NEW t \in Texts, v = Plain(t) \/ v = Hash(t) \/ \E k \in Keys : v = Cipher(k, t)
      PROVE  /\ v.text = t /\ v.form \in {"plain", "hash", "cipher"} /\ v # Nothing
             /\ v.form = "plain" => v = Plain(t)
             /\ v.form = "hash" => v = Hash(t)
  BY <1>2 DEF Plain, Hash, Cipher, Nothing
<1> QED
  BY <1>1, <1>2 DEF Value, Nothing, Plain, Hash

\* A value that no start changes any more.
Settled(v) == v.form = "plain" => v.text \in HashLike

LEMMA ProtectSecretFacts ==
  ASSUME NEW v \in Value
  PROVE  /\ ProtectSecret(v) \in Value /\ ProtectSecret(v).text = v.text
         /\ ProtectSecret(v) = Nothing <=> v = Nothing
         /\ Settled(ProtectSecret(v))
         /\ v.form = "hash" => ProtectSecret(v) = v
<1>1. CASE v = Nothing \/ IsBcryptHash(v)
  BY <1>1, ValueFacts, NothingFacts DEF ProtectSecret, IsBcryptHash, Settled
<1>2. CASE ~(v = Nothing \/ IsBcryptHash(v))
  <2>1. v.text \in Texts /\ v # Nothing
    BY <1>2, ValueFacts
  <2>2. ProtectSecret(v) = Hash(v.text)
    BY <1>2 DEF ProtectSecret
  <2> QED
    BY <1>2, <2>1, <2>2 DEF Hash, Value, Settled, Nothing, IsBcryptHash
<1> QED
  BY <1>1, <1>2

LEMMA ProtectQuestionFacts ==
  ASSUME NEW v \in Value, NEW k \in Keys
  PROVE  /\ ProtectQuestion(k, v) \in Value /\ ProtectQuestion(k, v).text = v.text
         /\ ProtectQuestion(k, v).form = "plain" => v.text \in CipherLike
<1>1. CASE v.form = "plain" /\ v.text \notin CipherLike
  <2>1. v.text \in Texts /\ ProtectQuestion(k, v) = Cipher(k, v.text)
    BY <1>1, ValueFacts, NothingFacts DEF ProtectQuestion
  <2> QED
    BY <2>1 DEF Cipher, Value
<1>2. CASE ~(v.form = "plain" /\ v.text \notin CipherLike)
  BY <1>2 DEF ProtectQuestion
<1> QED
  BY <1>1, <1>2

\* A row as protectAccount leaves it.
Safe(p) ==
  /\ Settled(p.password) /\ Settled(p.answer)
  /\ p.question.form = "plain" => p.question.text \in CipherLike

LEMMA ProtectFacts ==
  ASSUME NEW p \in Profile, NEW k \in Keys
  PROVE  /\ Protect(k, p) \in Profile /\ Safe(Protect(k, p))
         /\ Protect(k, p).password = ProtectSecret(p.password)
         /\ Protect(k, p).question.text = p.question.text
         /\ Protect(k, p).answer.text = p.answer.text
         /\ Protect(k, p).answer = Nothing <=> p.answer = Nothing
<1>1. p.password \in Value /\ p.question \in Value /\ p.answer \in Value
  BY DEF Profile
<1>2. /\ Protect(k, p).password = ProtectSecret(p.password)
      /\ Protect(k, p).question = ProtectQuestion(k, p.question)
      /\ Protect(k, p).answer = ProtectSecret(p.answer)
      /\ Protect(k, p) = [password |-> ProtectSecret(p.password),
                          question |-> ProtectQuestion(k, p.question),
                          answer |-> ProtectSecret(p.answer)]
  BY DEF Protect
<1>3. /\ ProtectSecret(p.password) \in Value /\ ProtectSecret(p.answer) \in Value
      /\ ProtectQuestion(k, p.question) \in Value
      /\ Settled(ProtectSecret(p.password)) /\ Settled(ProtectSecret(p.answer))
  BY <1>1, ProtectSecretFacts, ProtectQuestionFacts
<1>4. Protect(k, p) \in Profile
  BY <1>2, <1>3 DEF Profile
<1>5. /\ ProtectQuestion(k, p.question).text = p.question.text
      /\ ProtectQuestion(k, p.question).form = "plain" => p.question.text \in CipherLike
  BY <1>1, ProtectQuestionFacts
<1>6. ProtectSecret(p.answer).text = p.answer.text
      /\ (ProtectSecret(p.answer) = Nothing <=> p.answer = Nothing)
  BY <1>1, ProtectSecretFacts
<1> HIDE DEF Settled
<1> QED
  BY <1>2, <1>3, <1>4, <1>5, <1>6 DEF Safe

LEMMA RevealFacts ==
  ASSUME NEW p \in Profile
  PROVE  /\ Reveal(p) \in Profile
         /\ Reveal(p).password = p.password /\ Reveal(p).answer = p.answer
         /\ Reveal(p).question.text = p.question.text
<1> DEFINE q == IF p.question.form = "cipher" THEN Plain(p.question.text) ELSE p.question
<1>1. p.question \in Value
  BY DEF Profile
<1>2. q \in Value /\ q.text = p.question.text
  BY <1>1, ValueFacts, PlainFacts
<1>3. Reveal(p) = [p EXCEPT !.question = q]
  BY DEF Reveal
<1> HIDE DEF q
<1> QED
  BY <1>2, <1>3 DEF Profile

LEMMA FormFacts ==
  ASSUME NEW copy \in Profile, NEW pw \in Passwords \cup {Blank}, NEW q \in Questions,
         NEW an \in Answers \cup {Blank}
  PROVE  /\ Applied(copy, pw, q, an) \in Profile
         /\ Applied(copy, pw, q, an).password = IF pw = Blank THEN copy.password ELSE Plain(pw)
         /\ Applied(copy, pw, q, an).question = Plain(q)
         /\ Applied(copy, pw, q, an).question.text = q
         /\ Applied(copy, pw, q, an).answer = IF an = Blank THEN copy.answer ELSE Plain(an)
<1>1. /\ pw \in Texts \cup {Blank} /\ q \in Texts \cup {Blank} /\ an \in Texts \cup {Blank}
      /\ copy.password \in Value /\ copy.answer \in Value
  BY DEF Texts, Profile
<1>2. Plain(pw) \in Value /\ Plain(q) \in Value /\ Plain(an) \in Value /\ Plain(q).text = q
  BY <1>1, PlainFacts
<1> QED
  BY <1>1, <1>2 DEF Applied, Profile

LEMMA TypedFacts ==
  ASSUME NEW pw \in Texts \cup {Blank}, NEW q \in Texts \cup {Blank}, NEW an \in Texts \cup {Blank}
  PROVE  [password |-> Plain(pw), question |-> Plain(q), answer |-> Plain(an)] \in Profile
BY PlainFacts DEF Profile

-----------------------------------------------------------------------------
(* Typing *)

\* Which locals are set while the server does what.
Working ==
  /\ \A r \in Requests : req[r] # Idle =>
       /\ req[r].acct \in Accounts /\ req[r].copy \in Profile
       /\ phase = "serving" /\ row[req[r].acct] # Absent
  /\ phase # "down" => key \in Keys
  /\ phase = "serving" => todo = {}
  /\ \A a \in todo \cup session : row[a] # Absent

TypeInv == TypeOK /\ Working

LEMMA IdleTyped == Idle \in Request /\ Idle.acct = Absent
BY DEF Idle, Request

LEMMA TypeInit == Init => TypeInv
<1> SUFFICES ASSUME Init PROVE TypeInv
  OBVIOUS
<1>1. Legacy \subseteq Profile
  <2> SUFFICES ASSUME NEW pw \in Passwords \cup {Blank},
                      NEW qa \in (Questions \X Answers) \cup {<<Blank, Blank>>}
               PROVE  [password |-> Plain(pw), question |-> Plain(qa[1]), answer |-> Plain(qa[2])]
                        \in Profile
    BY DEF Legacy
  <2>1. pw \in Texts \cup {Blank} /\ qa[1] \in Texts \cup {Blank} /\ qa[2] \in Texts \cup {Blank}
    BY DEF Texts
  <2> QED
    BY <2>1, TypedFacts
<1>2. row \in [Accounts -> Profile \cup {Absent}]
  BY <1>1 DEF Init
<1>3. \A p \in Legacy :
        /\ p.password.text \in Passwords \cup {Blank}
        /\ p.question # Nothing => <<p.question.text, p.answer.text>> \in Questions \X Answers
  <2> SUFFICES ASSUME NEW pw \in Passwords \cup {Blank},
                      NEW qa \in (Questions \X Answers) \cup {<<Blank, Blank>>}
               PROVE  /\ Plain(pw).text \in Passwords \cup {Blank}
                      /\ Plain(qa[1]) # Nothing =>
                           <<Plain(qa[1]).text, Plain(qa[2]).text>> \in Questions \X Answers
    BY DEF Legacy
  <2>1. pw \in Texts \cup {Blank} /\ qa[1] \in Texts \cup {Blank} /\ qa[2] \in Texts \cup {Blank}
    BY DEF Texts
  <2> QED
    BY <2>1, PlainFacts
<1>4. chosen \in [Accounts -> Passwords \cup {Blank}]
  BY <1>3 DEF Init
<1>5. asked \in [Accounts -> SUBSET (Questions \X Answers)]
  BY <1>3 DEF Init
<1> QED
  BY <1>2, <1>4, <1>5, IdleTyped DEF Init, TypeInv, TypeOK, Working

\* What a committed edit leaves.
LEMMA CommittedTyped ==
  ASSUME TypeInv, NEW r \in Requests, NEW pw \in Passwords \cup {Blank}, NEW q \in Questions,
         NEW an \in Answers \cup {Blank}, req[r].acct # Absent, Committed(r, pw, q, an)
  PROVE  /\ req' \in [Requests -> Request]
         /\ chosen' \in [Accounts -> Passwords \cup {Blank}]
         /\ asked' \in [Accounts -> SUBSET (Questions \X Answers)]
         /\ crossed' \subseteq Accounts
         /\ key \in Keys => sealed' \in [Accounts -> Keys \cup {Blank}]
         /\ req'[r] = Idle
         /\ \A i \in Requests \ {r} :
              /\ req'[i].acct = req[i].acct /\ req'[i].copy = req[i].copy
              /\ req[i] = Idle => req'[i] = Idle
              /\ req'[i].stale <=> req[i].stale \/ req[i].acct = req[r].acct
<1>1. req[r].acct \in Accounts
  BY IdleTyped DEF TypeInv, Working
<1>2. ASSUME NEW i \in Requests
      PROVE  /\ req[i] \in Request /\ [req[i] EXCEPT !.stale = TRUE] \in Request
             /\ [req[i] EXCEPT !.stale = TRUE].acct = req[i].acct
             /\ [req[i] EXCEPT !.stale = TRUE].copy = req[i].copy
             /\ [req[i] EXCEPT !.stale = TRUE].stale = TRUE
             /\ req[i].stale \in BOOLEAN
  <2>1. req[i] \in Request
    BY DEF TypeInv, TypeOK
  <2> QED
    BY <2>1 DEF Request
<1>3. req' = [i \in Requests |-> IF i = r THEN Idle
                ELSE IF req[i].acct = req[r].acct THEN [req[i] EXCEPT !.stale = TRUE]
                ELSE req[i]]
  BY DEF Committed
<1>4. req' \in [Requests -> Request]
  BY <1>2, <1>3, IdleTyped
<1>5. req'[r] = Idle /\ \A i \in Requests \ {r} :
        req'[i] = IF req[i].acct = req[r].acct THEN [req[i] EXCEPT !.stale = TRUE] ELSE req[i]
  BY <1>3
<1>6. \A i \in Requests \ {r} :
              /\ req'[i].acct = req[i].acct /\ req'[i].copy = req[i].copy
              /\ req[i] = Idle => req'[i] = Idle
              /\ req'[i].stale <=> req[i].stale \/ req[i].acct = req[r].acct
  BY <1>1, <1>2, <1>5, IdleTyped
<1>7. /\ chosen' \in [Accounts -> Passwords \cup {Blank}]
      /\ crossed' \subseteq Accounts
      /\ key \in Keys => sealed' \in [Accounts -> Keys \cup {Blank}]
  BY <1>1 DEF Committed, TypeInv, TypeOK
<1>8. asked' \in [Accounts -> SUBSET (Questions \X Answers)]
  <2>1. CASE an = Blank
    BY <2>1 DEF Committed, TypeInv, TypeOK
  <2>2. CASE an # Blank
    <3>1. asked' = [asked EXCEPT ![req[r].acct] = @ \cup {<<q, an>>}]
      BY <2>2 DEF Committed
    <3>2. <<q, an>> \in Questions \X Answers
      BY <2>2
    <3> QED
      BY <1>1, <3>1, <3>2 DEF TypeInv, TypeOK
  <2> QED
    BY <2>1, <2>2
<1> QED
  BY <1>4, <1>5, <1>6, <1>7, <1>8

LEMMA TypeNext == TypeInv /\ [Next]_vars => TypeInv'
<1> SUFFICES ASSUME TypeInv, [Next]_vars PROVE TypeInv'
  OBVIOUS
<1>1. CASE Startup \/ Crash \/ \E pw \in Passwords : SeedFails(pw)
  <2>1. ASSUME NEW a \in Accounts, Migrate(a)
        PROVE  TypeInv'
    <3>1. row[a] \in Profile /\ key \in Keys /\ row' = [row EXCEPT ![a] = Protect(key, row[a])]
      BY <2>1 DEF Migrate, TypeInv, TypeOK, Working
    <3>2. Protect(key, row[a]) \in Profile
      BY <3>1, ProtectFacts
    <3>3. row' \in [Accounts -> Profile \cup {Absent}]
          /\ \A b \in Accounts : row[b] # Absent => row'[b] # Absent
      BY <3>1, <3>2 DEF TypeInv, TypeOK
    <3>4. sealed' \in [Accounts -> Keys \cup {Blank}]
      BY <2>1, <3>1 DEF Migrate, SealedOnce, TypeInv, TypeOK
    <3> QED
      BY <2>1, <3>3, <3>4 DEF Migrate, TypeInv, TypeOK, Working
  <2>2. ASSUME NEW k \in Keys, Start(k)
        PROVE  TypeInv'
    BY <2>2 DEF Start, TypeInv, TypeOK, Working
  <2>3. ASSUME NEW a \in Accounts, MigrateFails(a)
        PROVE  TypeInv'
    BY <2>3 DEF MigrateFails, TypeInv, TypeOK, Working
  <2>4. CASE Serve \/ Crash \/ \E pw \in Passwords : SeedFails(pw)
    BY <2>4, IdleTyped DEF Serve, Crash, SeedFails, TypeInv, TypeOK, Working
  <2> QED
    BY <1>1, <2>1, <2>2, <2>3, <2>4 DEF Startup
<1>2. ASSUME NEW a \in Accounts, NEW pw \in Passwords \cup {Blank}, Seed(a, pw)
      PROVE  TypeInv'
  <2> DEFINE p == [password |-> Plain(pw), question |-> Nothing, answer |-> Nothing]
  <2>1. p \in Profile
    <3>1. pw \in Texts \cup {Blank}
      BY DEF Texts
    <3> QED
      BY <3>1, PlainFacts, NothingFacts DEF Profile
  <2>2. row' = [row EXCEPT ![a] = Protect(key, p)]
    BY <1>2 DEF Seed
  <2> HIDE DEF p
  <2>3. Protect(key, p) \in Profile
    BY <1>2, <2>1, ProtectFacts DEF Seed, TypeInv, Working
  <2>4. row' \in [Accounts -> Profile \cup {Absent}]
        /\ \A b \in Accounts : row[b] # Absent => row'[b] # Absent
    BY <2>2, <2>3 DEF TypeInv, TypeOK
  <2> QED
    BY <1>2, <2>4 DEF Seed, TypeInv, TypeOK, Working
<1>3. ASSUME NEW a \in Accounts, NEW pw \in Passwords, NEW q \in Questions, NEW an \in Answers,
             Create(a, pw, q, an)
      PROVE  TypeInv'
  <2> DEFINE p == [password |-> Plain(pw), question |-> Plain(q), answer |-> Plain(an)]
  <2>1. p \in Profile
    <3>1. pw \in Texts \cup {Blank} /\ q \in Texts \cup {Blank} /\ an \in Texts \cup {Blank}
      BY DEF Texts
    <3> QED
      BY <3>1, TypedFacts
  <2>2. row' = [row EXCEPT ![a] = Protect(key, p)]
    BY <1>3 DEF Create
  <2> HIDE DEF p
  <2>3. Protect(key, p) \in Profile
    BY <1>3, <2>1, ProtectFacts DEF Create, TypeInv, Working
  <2>4. row' \in [Accounts -> Profile \cup {Absent}]
        /\ \A b \in Accounts : row[b] # Absent => row'[b] # Absent
    BY <2>2, <2>3 DEF TypeInv, TypeOK
  <2> QED
    BY <1>3, <2>4 DEF Create, TypeInv, TypeOK, Working
<1>4. ASSUME NEW a \in Accounts, (\E pw \in Passwords : Login(a, pw)) \/ Visit(a) \/ Logout(a)
      PROVE  TypeInv'
  BY <1>4 DEF Login, Visit, Logout, TypeInv, TypeOK, Working
<1>5. ASSUME NEW a \in Accounts, NEW r \in Requests, ReadAccount(r, a)
      PROVE  TypeInv'
  <2> DEFINE q == [acct |-> a, copy |-> Reveal(row[a]), stale |-> FALSE]
  <2>1. row[a] \in Profile /\ row[a] # Absent
    BY <1>5 DEF ReadAccount, TypeInv, TypeOK, Working
  <2>2. q \in Request /\ q.acct = a /\ q.copy \in Profile
    BY <2>1, RevealFacts DEF Request
  <2>3. req' = [req EXCEPT ![r] = q]
    BY <1>5 DEF ReadAccount
  <2> HIDE DEF q
  <2> QED
    <3>1. req' \in [Requests -> Request]
      BY <2>2, <2>3 DEF TypeInv, TypeOK
    <3>2. \A i \in Requests : req'[i] # Idle =>
            /\ req'[i].acct \in Accounts /\ req'[i].copy \in Profile
            /\ phase = "serving" /\ row[req'[i].acct] # Absent
      BY <1>5, <2>1, <2>2, <2>3 DEF ReadAccount, TypeInv, TypeOK, Working
    <3> QED
      BY <1>5, <3>1, <3>2 DEF ReadAccount, TypeInv, TypeOK, Working
<1>6. ASSUME NEW r \in Requests, NEW pw \in Passwords \cup {Blank}, NEW q \in Questions,
             NEW an \in Answers \cup {Blank}, UpdateAccount(r, pw, q, an)
      PROVE  TypeInv'
  <2> DEFINE a == req[r].acct
             p == Applied(req[r].copy, pw, q, an)
  <2>1. a \in Accounts /\ req[r].copy \in Profile /\ phase = "serving" /\ key \in Keys
    BY <1>6, IdleTyped DEF UpdateAccount, TypeInv, Working
  <2>2. p \in Profile
    BY <2>1, FormFacts
  <2>3. row' = [row EXCEPT ![a] = Protect(key, p)]
    BY <1>6 DEF UpdateAccount
  <2>4. Protect(key, p) \in Profile
    BY <2>1, <2>2, ProtectFacts
  <2>5. row' \in [Accounts -> Profile \cup {Absent}]
        /\ \A b \in Accounts : row[b] # Absent => row'[b] # Absent
    BY <2>1, <2>3, <2>4 DEF TypeInv, TypeOK
  <2>6. a # Absent /\ Committed(r, pw, q, an) /\ UNCHANGED <<session, phase, key, todo>>
    BY <1>6 DEF UpdateAccount
  <2> HIDE DEF p
  <2>7. sealed' \in [Accounts -> Keys \cup {Blank}]
    BY <2>1, <2>6, CommittedTyped
  <2>8. /\ req' \in [Requests -> Request] /\ req'[r] = Idle
        /\ chosen' \in [Accounts -> Passwords \cup {Blank}]
        /\ asked' \in [Accounts -> SUBSET (Questions \X Answers)]
        /\ crossed' \subseteq Accounts
        /\ \A i \in Requests \ {r} :
             /\ req'[i].acct = req[i].acct /\ req'[i].copy = req[i].copy
             /\ req[i] = Idle => req'[i] = Idle
    BY <2>6, CommittedTyped
  <2>9. TypeOK'
    BY <2>5, <2>6, <2>7, <2>8 DEF TypeInv, TypeOK
  <2>10. \A i \in Requests : req'[i] # Idle =>
           /\ req'[i].acct \in Accounts /\ req'[i].copy \in Profile
           /\ phase = "serving" /\ row'[req'[i].acct] # Absent
    <3> SUFFICES ASSUME NEW i \in Requests, req'[i] # Idle
                 PROVE  /\ req'[i].acct \in Accounts /\ req'[i].copy \in Profile
                        /\ phase = "serving" /\ row'[req'[i].acct] # Absent
      OBVIOUS
    <3>1. req[i] # Idle /\ req'[i].acct = req[i].acct /\ req'[i].copy = req[i].copy
      BY <2>8
    <3>2. /\ req[i].acct \in Accounts /\ req[i].copy \in Profile
          /\ phase = "serving" /\ row[req[i].acct] # Absent
      BY <3>1 DEF TypeInv, Working
    <3> QED
      BY <2>5, <3>1, <3>2
  <2>11. \A b \in todo \cup session : row'[b] # Absent
    BY <2>5 DEF TypeInv, TypeOK, Working
  <2>12. Working'
    BY <2>6, <2>10, <2>11 DEF TypeInv, Working
  <2> QED
    BY <2>9, <2>12 DEF TypeInv
<1>7. ASSUME NEW r \in Requests, Refuse(r)
      PROVE  TypeInv'
  BY <1>7, IdleTyped DEF Refuse, TypeInv, TypeOK, Working
<1>8. CASE UNCHANGED vars
  BY <1>8 DEF vars, TypeInv, TypeOK, Working
<1> QED
  BY <1>1, <1>2, <1>3, <1>4, <1>5, <1>6, <1>7, <1>8 DEF Next

\* Every variable keeps its type.
THEOREM TypeCorrect == Spec => []TypeOK
<1>1. TypeInv => TypeOK
  BY DEF TypeInv
<1> QED
  BY <1>1, TypeInit, TypeNext, PTL DEF Spec

-----------------------------------------------------------------------------
(* Everything is protected while the server serves *)

Protected ==
  phase # "down" => \A a \in Accounts : row[a] # Absent /\ a \notin todo => Safe(row[a])

\* How a step changes rows: it protects what was stored before, or a profile
\* with the same texts as it.
LEMMA RowStep ==
  ASSUME TypeInv, [Next]_vars, NEW a \in Accounts, row'[a] # row[a]
  PROVE  /\ key \in Keys /\ phase # "down" /\ phase' = phase
         /\ \E p \in Profile : row'[a] = Protect(key, p)
<1>1. ASSUME NEW b \in Accounts, Migrate(b)
      PROVE  /\ key \in Keys /\ phase # "down" /\ phase' = phase
             /\ \E p \in Profile : row'[a] = Protect(key, p)
  BY <1>1 DEF Migrate, TypeInv, TypeOK, Working
<1>2. ASSUME NEW b \in Accounts, NEW pw \in Passwords \cup {Blank}, Seed(b, pw)
      PROVE  /\ key \in Keys /\ phase # "down" /\ phase' = phase
             /\ \E p \in Profile : row'[a] = Protect(key, p)
  <2> DEFINE p == [password |-> Plain(pw), question |-> Nothing, answer |-> Nothing]
  <2>1. p \in Profile
    <3>1. pw \in Texts \cup {Blank}
      BY DEF Texts
    <3> QED
      BY <3>1, PlainFacts, NothingFacts DEF Profile
  <2>2. row' = [row EXCEPT ![b] = Protect(key, p)]
    BY <1>2 DEF Seed
  <2> HIDE DEF p
  <2> QED
    BY <1>2, <2>1, <2>2 DEF Seed, TypeInv, TypeOK, Working
<1>3. ASSUME NEW b \in Accounts, NEW pw \in Passwords, NEW q \in Questions, NEW an \in Answers,
             Create(b, pw, q, an)
      PROVE  /\ key \in Keys /\ phase # "down" /\ phase' = phase
             /\ \E p \in Profile : row'[a] = Protect(key, p)
  <2> DEFINE p == [password |-> Plain(pw), question |-> Plain(q), answer |-> Plain(an)]
  <2>1. p \in Profile
    <3>1. pw \in Texts \cup {Blank} /\ q \in Texts \cup {Blank} /\ an \in Texts \cup {Blank}
      BY DEF Texts
    <3> QED
      BY <3>1, TypedFacts
  <2>2. row' = [row EXCEPT ![b] = Protect(key, p)]
    BY <1>3 DEF Create
  <2> HIDE DEF p
  <2> QED
    BY <1>3, <2>1, <2>2 DEF Create, TypeInv, TypeOK, Working
<1>4. ASSUME NEW r \in Requests, NEW pw \in Passwords \cup {Blank}, NEW q \in Questions,
             NEW an \in Answers \cup {Blank}, UpdateAccount(r, pw, q, an)
      PROVE  /\ key \in Keys /\ phase # "down" /\ phase' = phase
             /\ \E p \in Profile : row'[a] = Protect(key, p)
  <2> DEFINE p == Applied(req[r].copy, pw, q, an)
  <2>1. req[r].acct \in Accounts /\ req[r].copy \in Profile /\ phase = "serving" /\ key \in Keys
    BY <1>4, IdleTyped DEF UpdateAccount, TypeInv, Working
  <2>2. p \in Profile
    BY <2>1, FormFacts
  <2>3. row' = [row EXCEPT ![req[r].acct] = Protect(key, p)] /\ phase' = phase
    BY <1>4 DEF UpdateAccount
  <2> HIDE DEF p
  <2> QED
    BY <2>1, <2>2, <2>3 DEF TypeInv, TypeOK
<1>5. CASE UNCHANGED row
  BY <1>5
<1> QED
  BY <1>1, <1>2, <1>3, <1>4, <1>5
  DEF Next, Startup, Start, MigrateFails, Serve, Crash, SeedFails, Login, Visit, Logout, ReadAccount,
      Refuse, vars

LEMMA ProtectedNext == TypeInv /\ Protected /\ [Next]_vars => Protected'
<1> SUFFICES ASSUME TypeInv, Protected, [Next]_vars,
                    phase' # "down", NEW a \in Accounts, row'[a] # Absent, a \notin todo'
             PROVE  Safe(row'[a])
  BY DEF Protected
<1>1. CASE row'[a] # row[a]
  BY <1>1, RowStep, ProtectFacts
<1>2. CASE row'[a] = row[a]
  <2>1. ASSUME a \notin todo, phase # "down" PROVE Safe(row'[a])
    BY <1>2, <2>1 DEF Protected
  <2>2. CASE phase = "down"
    BY <1>2, <2>2 DEF Next, Startup, Start, Migrate, MigrateFails, Serve, Crash, Seed,
                      SeedFails, Logout, Create,
                      Login, Visit, ReadAccount, Refuse, UpdateAccount, TypeInv, Working, vars,
                      Idle
  <2>3. CASE a \in todo /\ phase # "down"
    <3>1. Migrate(a)
      BY <2>3 DEF Next, Startup, Start, Migrate, MigrateFails, Serve, Crash, Seed,
                      SeedFails, Logout, Create,
                  Login, Visit, ReadAccount, Refuse, UpdateAccount, vars
    <3>2. row[a] \in Profile /\ key \in Keys /\ row'[a] = Protect(key, row[a])
      BY <3>1 DEF Migrate, TypeInv, TypeOK, Working
    <3> QED
      BY <3>2, ProtectFacts
  <2> QED
    BY <2>1, <2>2, <2>3
<1> QED
  BY <1>1, <1>2

\* Once the server serves, nothing is stored as it was typed, but for texts
\* that pass for protected ones: no start leaves a row out, wherever those
\* before it were cut short.
THEOREM ServedRowsAreProtected == Spec => []ServedIsProtected
<1>1. Init => Protected
  BY DEF Init, Protected
<1>2. TypeInv /\ Protected => ServedIsProtected
  BY DEF TypeInv, Working, Protected, Safe, Settled, ServedIsProtected
<1> QED
  BY <1>1, <1>2, TypeInit, TypeNext, ProtectedNext, PTL DEF Spec

-----------------------------------------------------------------------------
(* The answer fits the question *)

Fits(p, pairs) ==
  p.answer # Nothing \/ p.question.text # Blank => <<p.question.text, p.answer.text>> \in pairs

\* Of the rows and of the copies of them.
AllFit ==
  /\ \A a \in Accounts : row[a] # Absent => Fits(row[a], asked[a])
  /\ \A r \in Requests : req[r] # Idle => Fits(req[r].copy, asked[req[r].acct])

\* What an edit writes has the pair of its copy, or the one of its form.
LEMMA UpdateFits ==
  ASSUME TypeInv, AllFit, NEW r \in Requests, NEW pw \in Passwords \cup {Blank},
         NEW q \in Questions, NEW an \in Answers \cup {Blank}, UpdateAccount(r, pw, q, an)
  PROVE  /\ req[r].acct \in Accounts /\ req[r].acct # Absent
         /\ Fits(row'[req[r].acct], asked'[req[r].acct])
         /\ \A b \in Accounts \ {req[r].acct} : row'[b] = row[b]
         /\ \A b \in Accounts : asked[b] \subseteq asked'[b]
<1> DEFINE a == req[r].acct
           p == Applied(req[r].copy, pw, q, an)
<1>1. a \in Accounts /\ a # Absent /\ req[r].copy \in Profile /\ key \in Keys /\ req[r] # Idle
  BY IdleTyped DEF UpdateAccount, TypeInv, Working
<1>2. /\ p \in Profile /\ p.question.text = q
      /\ p.answer = IF an = Blank THEN req[r].copy.answer ELSE Plain(an)
  BY <1>1, FormFacts
<1>3. row' = [row EXCEPT ![a] = Protect(key, p)] /\ Committed(r, pw, q, an)
      /\ AnswerGiven(req[r].copy, q, an)
  BY DEF UpdateAccount
<1>4. \A b \in Accounts : asked[b] \subseteq asked'[b]
  BY <1>1, <1>3 DEF Committed, TypeInv, TypeOK
<1>5. an # Blank => <<q, an>> \in asked'[a]
  BY <1>1, <1>3 DEF Committed, TypeInv, TypeOK
<1>6. Plain(q).text = q /\ an \in Texts \cup {Blank} /\ Plain(an).text = an
  <2>1. q \in Texts \cup {Blank} /\ an \in Texts \cup {Blank}
    BY DEF Texts
  <2> QED
    BY <2>1, PlainFacts
<1>7. <<p.question.text, p.answer.text>> \in asked'[a]
  <2>1. CASE an # Blank
    BY <1>2, <1>5, <1>6, <2>1
  <2>2. CASE an = Blank
    <3>1. req[r].copy.answer # Nothing /\ req[r].copy.question = Plain(q)
      BY <1>3, <2>2 DEF AnswerGiven
    <3>2. <<q, req[r].copy.answer.text>> \in asked[a]
      BY <1>1, <1>6, <3>1 DEF AllFit, Fits
    <3> QED
      BY <1>1, <1>2, <1>4, <2>2, <3>2
  <2> QED
    BY <2>1, <2>2
<1> HIDE DEF p
<1>8. /\ row'[a] = Protect(key, p) /\ \A b \in Accounts \ {a} : row'[b] = row[b]
  BY <1>1, <1>3 DEF TypeInv, TypeOK
<1>9. Fits(row'[a], asked'[a])
  BY <1>1, <1>2, <1>7, <1>8, ProtectFacts DEF Fits
<1> QED
  BY <1>1, <1>4, <1>8, <1>9

LEMMA FitsNext == TypeInv /\ AllFit /\ [Next]_vars => AllFit'
<1> SUFFICES ASSUME TypeInv, AllFit, [Next]_vars PROVE AllFit'
  OBVIOUS
<1>1. CASE UNCHANGED <<row, asked>> /\ (req' = req \/ \A r \in Requests : req'[r] \in {req[r], Idle})
  BY <1>1 DEF AllFit, Fits
<1>2. ASSUME NEW a \in Accounts, Migrate(a)
      PROVE  AllFit'
  <2>1. /\ row[a] \in Profile /\ key \in Keys /\ row[a] # Absent
        /\ row'[a] = Protect(key, row[a])
        /\ \A b \in Accounts \ {a} : row'[b] = row[b]
        /\ UNCHANGED <<req, asked>>
    BY <1>2 DEF Migrate, TypeInv, TypeOK, Working
  <2>2. Fits(row'[a], asked'[a])
    BY <2>1, ProtectFacts DEF AllFit, Fits
  <2> QED
    BY <2>1, <2>2 DEF AllFit, Fits
<1>3. ASSUME NEW a \in Accounts, NEW pw \in Passwords \cup {Blank}, Seed(a, pw)
      PROVE  AllFit'
  <2> DEFINE p == [password |-> Plain(pw), question |-> Nothing, answer |-> Nothing]
  <2>1. p \in Profile /\ p.answer = Nothing /\ p.question.text = Blank
    <3>1. pw \in Texts \cup {Blank}
      BY DEF Texts
    <3> QED
      BY <3>1, PlainFacts, NothingFacts DEF Profile
  <2>2. row' = [row EXCEPT ![a] = Protect(key, p)] /\ UNCHANGED <<req, asked>> /\ key \in Keys
    BY <1>3 DEF Seed, TypeInv, Working
  <2> HIDE DEF p
  <2>3. /\ row'[a].answer = Nothing /\ row'[a].question.text = Blank
        /\ \A b \in Accounts \ {a} : row'[b] = row[b]
    BY <2>1, <2>2, ProtectFacts DEF TypeInv, TypeOK
  <2> QED
    BY <2>2, <2>3 DEF AllFit, Fits
<1>4. ASSUME NEW a \in Accounts, NEW pw \in Passwords, NEW q \in Questions, NEW an \in Answers,
             Create(a, pw, q, an)
      PROVE  AllFit'
  <2> DEFINE p == [password |-> Plain(pw), question |-> Plain(q), answer |-> Plain(an)]
  <2>1. p \in Profile /\ p.question.text = q /\ p.answer.text = an
    <3>1. pw \in Texts \cup {Blank} /\ q \in Texts \cup {Blank} /\ an \in Texts \cup {Blank}
      BY DEF Texts
    <3> QED
      BY <3>1, TypedFacts, PlainFacts
  <2>2. /\ row' = [row EXCEPT ![a] = Protect(key, p)]
        /\ asked' = [asked EXCEPT ![a] = {<<q, an>>}]
        /\ UNCHANGED req /\ key \in Keys /\ row[a] = Absent
    BY <1>4 DEF Create, TypeInv, Working
  <2> HIDE DEF p
  <2>3. /\ row'[a] = Protect(key, p) /\ asked'[a] = {<<q, an>>}
        /\ \A b \in Accounts \ {a} : row'[b] = row[b] /\ asked'[b] = asked[b]
    BY <2>2 DEF TypeInv, TypeOK
  <2>4. Fits(row'[a], asked'[a])
    BY <2>1, <2>2, <2>3, ProtectFacts DEF Fits
  <2>5. \A r \in Requests : req[r] # Idle => req[r].acct \in Accounts \ {a}
    BY <2>2 DEF TypeInv, Working
  <2> QED
    BY <2>2, <2>3, <2>4, <2>5 DEF AllFit, Fits
<1>5. ASSUME NEW a \in Accounts, NEW r \in Requests, ReadAccount(r, a)
      PROVE  AllFit'
  <2> DEFINE q == [acct |-> a, copy |-> Reveal(row[a]), stale |-> FALSE]
  <2>1. row[a] \in Profile /\ row[a] # Absent
    BY <1>5 DEF ReadAccount, TypeInv, TypeOK, Working
  <2>2. q.acct = a /\ Fits(q.copy, asked[a])
    BY <2>1, RevealFacts DEF AllFit, Fits
  <2>3. req' = [req EXCEPT ![r] = q] /\ UNCHANGED <<row, asked>>
    BY <1>5 DEF ReadAccount
  <2> HIDE DEF q
  <2> QED
    BY <2>2, <2>3 DEF AllFit, Fits, TypeInv, TypeOK
<1>6. ASSUME NEW r \in Requests, NEW pw \in Passwords \cup {Blank}, NEW q \in Questions,
             NEW an \in Answers \cup {Blank}, UpdateAccount(r, pw, q, an)
      PROVE  AllFit'
  <2>1. \A b \in Accounts : row'[b] # Absent => Fits(row'[b], asked'[b])
    BY <1>6, UpdateFits DEF AllFit, Fits
  <2>2. Committed(r, pw, q, an) /\ req[r].acct # Absent
    BY <1>6 DEF UpdateAccount
  <2>3. \A i \in Requests : req'[i] # Idle =>
          /\ req[i] # Idle /\ req'[i].acct = req[i].acct /\ req'[i].copy = req[i].copy
    BY <2>2, CommittedTyped
  <2>4. \A i \in Requests : req'[i] # Idle => Fits(req'[i].copy, asked'[req'[i].acct])
    BY <1>6, <2>3, UpdateFits DEF AllFit, Fits, TypeInv, Working
  <2> QED
    BY <2>1, <2>4 DEF AllFit
<1>7. CASE Crash \/ Serve \/ UNCHANGED vars \/ (\E k \in Keys : Start(k))
           \/ (\E pw \in Passwords : SeedFails(pw)) \/ (\E r \in Requests : Refuse(r))
           \/ (\E a \in Accounts : MigrateFails(a) \/ Visit(a) \/ Logout(a))
           \/ (\E a \in Accounts, pw \in Passwords : Login(a, pw))
  BY <1>1, <1>7 DEF Crash, Serve, vars, Start, Refuse, SeedFails, MigrateFails, Visit, Logout,
                      Login, TypeInv, TypeOK
<1> QED
  BY <1>2, <1>3, <1>4, <1>5, <1>6, <1>7 DEF Next, Startup

LEMMA FitsInit == Init => AllFit
<1> SUFFICES ASSUME Init, NEW a \in Accounts, row[a] # Absent PROVE Fits(row[a], asked[a])
  BY DEF Init, AllFit
<1>1. PICK pw \in Passwords \cup {Blank}, qa \in (Questions \X Answers) \cup {<<Blank, Blank>>} :
        row[a] = [password |-> Plain(pw), question |-> Plain(qa[1]), answer |-> Plain(qa[2])]
  BY DEF Init, Legacy
<1>2. CASE qa = <<Blank, Blank>>
  <2>1. row[a].question = Nothing /\ row[a].answer = Nothing
    BY <1>1, <1>2 DEF Plain
  <2> QED
    BY <2>1, NothingFacts DEF Fits
<1>3. CASE qa \in Questions \X Answers
  <2>1. qa[1] \in Texts \cup {Blank} /\ qa[1] # Blank
    BY <1>3 DEF Texts
  <2>2. row[a].question # Nothing
    BY <1>1, <2>1, PlainFacts
  <2>3. asked[a] = {<<row[a].question.text, row[a].answer.text>>}
    BY <2>2 DEF Init
  <2> QED
    BY <2>3 DEF Fits
<1> QED
  BY <1>2, <1>3

\* The stored answer was given together with the stored question, in whatever
\* order edits are read and written.
THEOREM AnswersFit == Spec => []AnswerFitsQuestion
<1>1. AllFit => AnswerFitsQuestion
  BY DEF AllFit, Fits, AnswerFitsQuestion
<1> QED
  BY <1>1, TypeInit, TypeNext, FitsInit, FitsNext, PTL DEF Spec

-----------------------------------------------------------------------------
(* The password last chosen *)

LEMMA PasswordFacts ==
  ASSUME NEW t \in Texts
  PROVE  /\ ProtectSecret(Hash(t)) = Hash(t)
         /\ \/ ProtectSecret(Plain(t)) = Hash(t)
            \/ ProtectSecret(Plain(t)) = Plain(t) /\ t \in HashLike
         /\ t \in HashLike => ProtectSecret(Plain(t)) = Plain(t)
<1>1. Plain(t).text = t /\ Plain(t).form = "plain" /\ Plain(t) # Nothing
  BY PlainFacts
<1> QED
  BY <1>1 DEF ProtectSecret, IsBcryptHash, Hash, Plain

\* The password of a row that serves account a, where t was chosen last.
Fresh(v, t) == v = Hash(t) \/ (v = Plain(t) /\ t \in HashLike)

LEMMA FreshFacts ==
  ASSUME NEW t \in Texts, NEW v, v = Hash(t) \/ v = Plain(t)
  PROVE  Fresh(ProtectSecret(v), t)
<1>1. /\ ProtectSecret(Hash(t)) = Hash(t)
      /\ \/ ProtectSecret(Plain(t)) = Hash(t)
         \/ ProtectSecret(Plain(t)) = Plain(t) /\ t \in HashLike
  BY PasswordFacts
<1>2. CASE v = Hash(t)
  BY <1>1, <1>2 DEF Fresh
<1>3. CASE v = Plain(t)
  BY <1>1, <1>3 DEF Fresh
<1> QED
  BY <1>2, <1>3

\* A copy nothing was written over is still what the row holds.
Copies ==
  \A r \in Requests : req[r] # Idle /\ req[r].stale = FALSE =>
    req[r].copy.password = row[req[r].acct].password

PasswordInv == ChosenPasswordOpens /\ Copies

\* Rows change under a copy only by an edit, which marks the copy.
LEMMA CopiesNext == TypeInv /\ Copies /\ [Next]_vars => Copies'
<1> SUFFICES ASSUME TypeInv, Copies, [Next]_vars PROVE Copies'
  OBVIOUS
<1>1. CASE row' = row /\ \A r \in Requests : req'[r] \in {req[r], Idle}
  BY <1>1 DEF Copies
<1>2. CASE phase # "serving" /\ \A r \in Requests : req'[r] \in {req[r], Idle}
  BY <1>2 DEF Copies, TypeInv, Working
<1>3. ASSUME NEW a \in Accounts, NEW pw \in Passwords, NEW q \in Questions, NEW an \in Answers,
             Create(a, pw, q, an)
      PROVE  Copies'
  <2>1. row[a] = Absent /\ UNCHANGED req /\ \A b \in Accounts \ {a} : row'[b] = row[b]
    BY <1>3 DEF Create, TypeInv, TypeOK
  <2>2. \A r \in Requests : req[r] # Idle => req[r].acct \in Accounts \ {a}
    BY <2>1 DEF TypeInv, Working
  <2> QED
    BY <2>1, <2>2 DEF Copies
<1>4. ASSUME NEW a \in Accounts, NEW r \in Requests, ReadAccount(r, a)
      PROVE  Copies'
  <2> DEFINE q == [acct |-> a, copy |-> Reveal(row[a]), stale |-> FALSE]
  <2>1. row[a] \in Profile
    BY <1>4 DEF ReadAccount, TypeInv, TypeOK, Working
  <2>2. q.acct = a /\ q.copy.password = row[a].password
    BY <2>1, RevealFacts
  <2>3. req' = [req EXCEPT ![r] = q] /\ row' = row
    BY <1>4 DEF ReadAccount
  <2> HIDE DEF q
  <2> QED
    BY <2>2, <2>3 DEF Copies, TypeInv, TypeOK
<1>5. ASSUME NEW r \in Requests, NEW pw \in Passwords \cup {Blank}, NEW q \in Questions,
             NEW an \in Answers \cup {Blank}, UpdateAccount(r, pw, q, an)
      PROVE  Copies'
  <2>1. Committed(r, pw, q, an) /\ req[r].acct # Absent
    BY <1>5 DEF UpdateAccount
  <2>2. \A b \in Accounts : b # req[r].acct => row'[b] = row[b]
    BY <1>5 DEF UpdateAccount, TypeInv, TypeOK
  <2>3. ASSUME NEW i \in Requests, req'[i] # Idle, req'[i].stale = FALSE
        PROVE  /\ req[i] # Idle /\ req[i].stale = FALSE /\ req[i].acct # req[r].acct
               /\ req'[i].copy = req[i].copy /\ req'[i].acct = req[i].acct
    <3>1. req[i].stale \in BOOLEAN /\ i # r
      BY <2>1, <2>3, CommittedTyped DEF TypeInv, TypeOK, Request
    <3> QED
      BY <2>1, <2>3, <3>1, CommittedTyped
  <2>4. \A i \in Requests : req[i] # Idle => req[i].acct \in Accounts
    BY DEF TypeInv, Working
  <2> QED
    <3>1. ASSUME NEW i \in Requests, req'[i] # Idle, req'[i].stale = FALSE
          PROVE  req'[i].copy.password = row'[req'[i].acct].password
      <4>1. req[i].copy.password = row[req[i].acct].password
        BY <2>3, <3>1 DEF Copies
      <4>2. row'[req[i].acct] = row[req[i].acct]
        BY <2>2, <2>3, <2>4, <3>1
      <4> QED
        BY <2>3, <3>1, <4>1, <4>2
    <3> QED
      BY <3>1 DEF Copies
<1>6. ASSUME NEW a \in Accounts, \/ Migrate(a) \/ MigrateFails(a) \/ Visit(a) \/ Logout(a)
                                 \/ \E pw \in Passwords : Login(a, pw)
                                 \/ \E pw \in Passwords \cup {Blank} : Seed(a, pw)
      PROVE  Copies'
  BY <1>1, <1>2, <1>6 DEF Migrate, MigrateFails, Visit, Logout, Login, Seed
<1>7. CASE Crash \/ Serve \/ UNCHANGED vars \/ (\E k \in Keys : Start(k))
           \/ (\E pw \in Passwords : SeedFails(pw)) \/ (\E r \in Requests : Refuse(r))
  BY <1>1, <1>7 DEF Crash, Serve, vars, Start, SeedFails, Refuse, TypeInv, TypeOK
<1> QED
  BY <1>3, <1>4, <1>5, <1>6, <1>7 DEF Next, Startup

LEMMA ChosenNext ==
  TypeInv /\ Copies /\ ChosenPasswordOpens /\ [Next]_vars => ChosenPasswordOpens'
<1> SUFFICES ASSUME TypeInv, Copies, ChosenPasswordOpens, [Next]_vars
             PROVE  ChosenPasswordOpens'
  OBVIOUS
\* A step that gives account b, and nobody else, the password of value v.
<1>1. ASSUME NEW b \in Accounts, \A a \in Accounts \ {b} : row'[a] = row[a] /\ chosen'[a] = chosen[a]
                                    /\ (a \in crossed => a \in crossed'),
             UNCHANGED phase, \A a \in todo : a # b => a \in todo',
             row'[b] # Absent /\ chosen'[b] # Blank =>
               Fresh(row'[b].password, chosen'[b]) \/ b \in crossed'
      PROVE  ChosenPasswordOpens'
  BY <1>1 DEF ChosenPasswordOpens, Opens, Fresh
<1>2. ASSUME NEW a \in Accounts, Migrate(a)
      PROVE  ChosenPasswordOpens'
  <2>1. /\ row[a] \in Profile /\ row[a] # Absent /\ key \in Keys /\ phase = "migrating"
        /\ row' = [row EXCEPT ![a] = Protect(key, row[a])]
        /\ todo' = todo \ {a} /\ UNCHANGED <<chosen, crossed, phase>>
    BY <1>2 DEF Migrate, TypeInv, TypeOK, Working
  <2>2. row'[a] = Protect(key, row[a]) /\ \A b \in Accounts \ {a} : row'[b] = row[b]
    BY <2>1 DEF TypeInv, TypeOK
  <2>3. row'[a].password = ProtectSecret(row[a].password)
    BY <2>1, <2>2, ProtectFacts
  <2>4. ASSUME chosen[a] # Blank PROVE Fresh(row'[a].password, chosen[a]) \/ a \in crossed
    <3>1. chosen[a] \in Texts
      BY <2>4 DEF TypeInv, TypeOK, Texts
    <3>2. \/ row[a].password = Hash(chosen[a]) \/ row[a].password = Plain(chosen[a])
          \/ a \in crossed
      BY <2>1, <2>4 DEF ChosenPasswordOpens, Opens
    <3> QED
      BY <2>3, <3>1, <3>2, FreshFacts
  <2> QED
    BY <1>1, <2>1, <2>2, <2>4
<1>3. ASSUME NEW a \in Accounts, NEW pw \in Passwords \cup {Blank}, Seed(a, pw)
      PROVE  ChosenPasswordOpens'
  <2> DEFINE p == [password |-> Plain(pw), question |-> Nothing, answer |-> Nothing]
  <2>1. p \in Profile /\ p.password = Plain(pw)
    <3>1. pw \in Texts \cup {Blank}
      BY DEF Texts
    <3> QED
      BY <3>1, PlainFacts, NothingFacts DEF Profile
  <2>2. /\ row' = [row EXCEPT ![a] = Protect(key, p)] /\ key \in Keys
        /\ chosen' = [chosen EXCEPT ![a] = pw]
        /\ UNCHANGED <<crossed, todo, phase>>
    BY <1>3 DEF Seed, TypeInv, Working
  <2> HIDE DEF p
  <2>3. /\ row'[a].password = ProtectSecret(Plain(pw)) /\ chosen'[a] = pw
        /\ \A b \in Accounts \ {a} : row'[b] = row[b] /\ chosen'[b] = chosen[b]
    BY <2>1, <2>2, ProtectFacts DEF TypeInv, TypeOK
  <2>4. pw # Blank => Fresh(row'[a].password, pw)
    <3>1. pw # Blank => pw \in Texts
      BY DEF Texts
    <3> QED
      BY <2>3, <3>1, FreshFacts
  <2> QED
    BY <1>1, <2>2, <2>3, <2>4
<1>4. ASSUME NEW a \in Accounts, NEW pw \in Passwords, NEW q \in Questions, NEW an \in Answers,
             Create(a, pw, q, an)
      PROVE  ChosenPasswordOpens'
  <2> DEFINE p == [password |-> Plain(pw), question |-> Plain(q), answer |-> Plain(an)]
  <2>1. p \in Profile /\ p.password = Plain(pw)
    <3>1. pw \in Texts \cup {Blank} /\ q \in Texts \cup {Blank} /\ an \in Texts \cup {Blank}
      BY DEF Texts
    <3> QED
      BY <3>1, TypedFacts
  <2>2. /\ row' = [row EXCEPT ![a] = Protect(key, p)] /\ key \in Keys
        /\ chosen' = [chosen EXCEPT ![a] = pw]
        /\ UNCHANGED <<crossed, todo, phase>>
    BY <1>4 DEF Create, TypeInv, Working
  <2> HIDE DEF p
  <2>3. /\ row'[a].password = ProtectSecret(Plain(pw)) /\ chosen'[a] = pw
        /\ \A b \in Accounts \ {a} : row'[b] = row[b] /\ chosen'[b] = chosen[b]
    BY <2>1, <2>2, ProtectFacts DEF TypeInv, TypeOK
  <2>4. Fresh(row'[a].password, pw)
    <3>1. pw \in Texts
      BY DEF Texts
    <3> QED
      BY <2>3, <3>1, FreshFacts
  <2> QED
    BY <1>1, <2>2, <2>3, <2>4
<1>5. ASSUME NEW r \in Requests, NEW pw \in Passwords \cup {Blank}, NEW q \in Questions,
             NEW an \in Answers \cup {Blank}, UpdateAccount(r, pw, q, an)
      PROVE  ChosenPasswordOpens'
  <2> DEFINE a == req[r].acct
             p == Applied(req[r].copy, pw, q, an)
  <2>1. /\ a \in Accounts /\ a # Absent /\ req[r].copy \in Profile /\ key \in Keys
        /\ req[r] # Idle /\ phase = "serving" /\ todo = {} /\ row[a] # Absent
    BY <1>5, IdleTyped DEF UpdateAccount, TypeInv, Working
  <2>2. /\ p \in Profile
        /\ p.password = IF pw = Blank THEN req[r].copy.password ELSE Plain(pw)
    <3> DEFINE c == req[r].copy
    <3>1. c \in Profile
      BY <2>1
    <3>2. p = Applied(c, pw, q, an)
      OBVIOUS
    <3> HIDE DEF c, p
    <3>3. /\ Applied(c, pw, q, an) \in Profile
          /\ Applied(c, pw, q, an).password = IF pw = Blank THEN c.password ELSE Plain(pw)
      BY <3>1, FormFacts
    <3> QED
      BY <3>2, <3>3 DEF c
  <2>3. /\ row' = [row EXCEPT ![a] = Protect(key, p)] /\ UNCHANGED <<todo, phase>>
        /\ chosen' = IF pw = Blank THEN chosen ELSE [chosen EXCEPT ![a] = pw]
        /\ crossed' = IF pw # Blank THEN crossed \ {a}
                      ELSE IF req[r].stale THEN crossed \cup {a} ELSE crossed
    BY <1>5 DEF UpdateAccount, Committed
  <2> HIDE DEF p
  <2>4. /\ row'[a].password = ProtectSecret(p.password)
        /\ \A b \in Accounts \ {a} : row'[b] = row[b] /\ chosen'[b] = chosen[b]
                                     /\ (b \in crossed => b \in crossed')
    BY <2>1, <2>2, <2>3, ProtectFacts DEF TypeInv, TypeOK
  <2>5. ASSUME chosen'[a] # Blank PROVE Fresh(row'[a].password, chosen'[a]) \/ a \in crossed'
    <3>1. CASE pw # Blank
      <4>1. chosen'[a] = pw /\ pw \in Texts
        BY <2>1, <2>3, <3>1 DEF TypeInv, TypeOK, Texts
      <4> QED
        BY <2>2, <2>4, <3>1, <4>1, FreshFacts
    <3>2. CASE pw = Blank /\ req[r].stale
      BY <2>3, <3>2
    <3>3. CASE pw = Blank /\ ~req[r].stale
      <4>1. req[r].stale = FALSE
        BY <3>3 DEF TypeInv, TypeOK, Request
      <4>2. p.password = row[a].password /\ chosen' = chosen /\ crossed' = crossed
        BY <2>1, <2>2, <2>3, <3>3, <4>1 DEF Copies
      <4>3. chosen[a] \in Texts
        BY <2>1, <2>5, <4>2 DEF TypeInv, TypeOK, Texts
      <4>4. \/ row[a].password = Hash(chosen[a]) \/ row[a].password = Plain(chosen[a])
            \/ a \in crossed
        <5>1. chosen[a] # Blank
          BY <2>5, <4>2
        <5> QED
          BY <2>1, <5>1 DEF ChosenPasswordOpens, Opens
      <4> QED
        BY <2>4, <4>2, <4>3, <4>4, FreshFacts
    <3> QED
      BY <3>1, <3>2, <3>3
  <2> QED
    BY <1>1, <2>1, <2>3, <2>4, <2>5
<1>6. ASSUME NEW k \in Keys, Start(k)
      PROVE  ChosenPasswordOpens'
  BY <1>6 DEF Start, ChosenPasswordOpens, Opens
<1>7. CASE Crash \/ Serve \/ UNCHANGED vars
           \/ (\E pw \in Passwords : SeedFails(pw))
           \/ (\E r \in Requests : Refuse(r) \/ \E a \in Accounts : ReadAccount(r, a))
           \/ (\E a \in Accounts : MigrateFails(a) \/ Visit(a) \/ Logout(a))
           \/ (\E a \in Accounts, pw \in Passwords : Login(a, pw))
  BY <1>7 DEF Crash, Serve, vars, SeedFails, Refuse, ReadAccount, MigrateFails, Visit, Logout, Login,
              ChosenPasswordOpens, Opens
<1> QED
  BY <1>2, <1>3, <1>4, <1>5, <1>6, <1>7 DEF Next, Startup

\* The password an account was last given opens it, through starts, migrations
\* and edits, where no edit that keeps the password has crossed another and no
\* text passes for a hash.
THEOREM ChosenPasswordsOpen == Spec => []ChosenPasswordOpens
<1>1. Init => ChosenPasswordOpens /\ Copies
  <2> SUFFICES ASSUME Init, NEW a \in Accounts, row[a] # Absent, chosen[a] # Blank
               PROVE  row[a].password = Plain(chosen[a])
    BY DEF Init, ChosenPasswordOpens, Copies
  <2>1. PICK pw \in Passwords \cup {Blank} : row[a].password = Plain(pw)
    BY DEF Init, Legacy
  <2>2. pw \in Texts \cup {Blank} /\ chosen[a] = Plain(pw).text
    BY <2>1 DEF Init, Texts
  <2> QED
    BY <2>1, <2>2, PlainFacts
<1> QED
  BY <1>1, TypeInit, TypeNext, CopiesNext, ChosenNext, PTL DEF Spec

-----------------------------------------------------------------------------
(* Questions under several keys *)

\* A question that is encrypted is so under the key it was sealed with, and no
\* key is noted for one that is stored as it was typed.
SealedRight(p, k) ==
  /\ p.question.form = "cipher" => p.question.key = k
  /\ p.question.form = "plain" /\ p.question.text \notin CipherLike => k = Blank

SealInv == \A a \in Accounts : row[a] # Absent => SealedRight(row[a], sealed[a])

\* A typed question is encrypted under the key in force.
LEMMA TypedSealed ==
  ASSUME NEW t \in Texts \cup {Blank}, NEW k \in Keys, NEW p, p.question = Plain(t)
  PROVE  SealedRight(Protect(k, p), k)
<1>1. Protect(k, p).question = ProtectQuestion(k, Plain(t))
  BY DEF Protect
<1>2. Plain(t).form # "cipher" /\ Plain(t) \in Value
  BY PlainFacts, NothingFacts DEF Plain
<1>3. CASE Plain(t).form = "plain" /\ Plain(t).text \notin CipherLike
  <2>1. Protect(k, p).question = Cipher(k, Plain(t).text)
    BY <1>1, <1>3 DEF ProtectQuestion
  <2> QED
    BY <2>1 DEF SealedRight, Cipher
<1>4. CASE ~(Plain(t).form = "plain" /\ Plain(t).text \notin CipherLike)
  BY <1>1, <1>2, <1>4 DEF ProtectQuestion, SealedRight
<1> QED
  BY <1>3, <1>4

\* A row that is migrated keeps the key it was sealed with, or gets its first.
LEMMA MigratedSealed ==
  ASSUME NEW p, NEW k \in Keys, NEW s \in Keys \cup {Blank}, SealedRight(p, s),
         p.question.form = "cipher" => s \in Keys
  PROVE  SealedRight(Protect(k, p), IF s = Blank THEN k ELSE s)
<1>1. Protect(k, p).question = ProtectQuestion(k, p.question) /\ Blank \notin Keys
  BY DEF Protect
<1>2. CASE p.question.form = "plain" /\ p.question.text \notin CipherLike
  <2>1. Protect(k, p).question = Cipher(k, p.question.text) /\ s = Blank
    BY <1>1, <1>2 DEF ProtectQuestion, SealedRight
  <2> QED
    BY <2>1 DEF SealedRight, Cipher
<1>3. CASE ~(p.question.form = "plain" /\ p.question.text \notin CipherLike)
  BY <1>1, <1>3 DEF ProtectQuestion, SealedRight
<1> QED
  BY <1>2, <1>3

LEMMA CipherKeys ==
  ASSUME NEW v \in Value, v.form = "cipher"
  PROVE  v.key \in Keys
<1>1. PICK k \in Keys, t \in Texts : v = Cipher(k, t)
  BY NothingFacts, PlainFacts DEF Value, Hash
<1> QED
  BY <1>1 DEF Cipher

LEMMA SealInit == Init => SealInv
<1> SUFFICES ASSUME Init, NEW a \in Accounts, row[a] # Absent PROVE SealedRight(row[a], sealed[a])
  BY DEF SealInv
<1>1. PICK qa \in (Questions \X Answers) \cup {<<Blank, Blank>>} : row[a].question = Plain(qa[1])
  BY DEF Init, Legacy
<1>2. Plain(qa[1]).form # "cipher" /\ sealed[a] = Blank
  BY DEF Init, Plain, Nothing
<1> QED
  BY <1>1, <1>2 DEF SealedRight

LEMMA SealNext == TypeInv /\ SealInv /\ [Next]_vars => SealInv'
<1> SUFFICES ASSUME TypeInv, SealInv, [Next]_vars PROVE SealInv'
  OBVIOUS
\* A step that writes at most the row of b.
<1>1. ASSUME NEW b \in Accounts, \A a \in Accounts \ {b} : row'[a] = row[a] /\ sealed'[a] = sealed[a],
             SealedRight(row'[b], sealed'[b])
      PROVE  SealInv'
  <2> SUFFICES ASSUME NEW a \in Accounts, row'[a] # Absent PROVE SealedRight(row'[a], sealed'[a])
    BY DEF SealInv
  <2>1. CASE a = b
    BY <1>1, <2>1
  <2>2. CASE a # b
    BY <1>1, <2>2 DEF SealInv
  <2> QED
    BY <2>1, <2>2
<1>2. ASSUME NEW a \in Accounts, Migrate(a) PROVE SealInv'
  <2>1. /\ row[a] \in Profile /\ key \in Keys /\ row[a] # Absent
        /\ row'[a] = Protect(key, row[a])
        /\ \A b \in Accounts \ {a} : row'[b] = row[b]
        /\ sealed \in [Accounts -> Keys \cup {Blank}]
        /\ sealed' = IF sealed[a] = Blank THEN [sealed EXCEPT ![a] = key] ELSE sealed
    BY <1>2 DEF Migrate, SealedOnce, TypeInv, TypeOK, Working
  <2>2. SealedRight(row[a], sealed[a])
    BY <2>1 DEF SealInv
  <2>3. row[a].question \in Value
    BY <2>1 DEF Profile
  <2>4. row[a].question.form = "cipher" => sealed[a] \in Keys
    BY <2>2, <2>3, CipherKeys DEF SealedRight
  <2>5. sealed'[a] = IF sealed[a] = Blank THEN key ELSE sealed[a]
    BY <2>1
  <2>6. SealedRight(row'[a], sealed'[a])
    BY <2>1, <2>2, <2>4, <2>5, MigratedSealed
  <2> QED
    BY <1>1, <2>1, <2>6
<1>3. ASSUME NEW a \in Accounts, NEW pw \in Passwords \cup {Blank}, Seed(a, pw) PROVE SealInv'
  <2> DEFINE p == [password |-> Plain(pw), question |-> Nothing, answer |-> Nothing]
  <2>1. p.question = Plain(Blank)
    BY DEF Plain
  <2>2. /\ key \in Keys
        /\ row' = [row EXCEPT ![a] = Protect(key, p)] /\ sealed' = [sealed EXCEPT ![a] = key]
    BY <1>3 DEF Seed, TypeInv, Working
  <2> HIDE DEF p
  <2>3. SealedRight(Protect(key, p), key)
    BY <2>1, <2>2, TypedSealed
  <2> QED
    BY <1>1, <2>2, <2>3 DEF TypeInv, TypeOK
<1>4. ASSUME NEW a \in Accounts, NEW pw \in Passwords, NEW q \in Questions, NEW an \in Answers,
             Create(a, pw, q, an)
      PROVE  SealInv'
  <2> DEFINE p == [password |-> Plain(pw), question |-> Plain(q), answer |-> Plain(an)]
  <2>1. p.question = Plain(q) /\ q \in Texts \cup {Blank}
    BY DEF Texts
  <2>2. /\ key \in Keys
        /\ row' = [row EXCEPT ![a] = Protect(key, p)] /\ sealed' = [sealed EXCEPT ![a] = key]
    BY <1>4 DEF Create, TypeInv, Working
  <2> HIDE DEF p
  <2>3. SealedRight(Protect(key, p), key)
    BY <2>1, <2>2, TypedSealed
  <2> QED
    BY <1>1, <2>2, <2>3 DEF TypeInv, TypeOK
<1>5. ASSUME NEW r \in Requests, NEW pw \in Passwords \cup {Blank}, NEW q \in Questions,
             NEW an \in Answers \cup {Blank}, UpdateAccount(r, pw, q, an)
      PROVE  SealInv'
  <2> DEFINE a == req[r].acct
             p == Applied(req[r].copy, pw, q, an)
  <2>1. p.question = Plain(q) /\ q \in Texts \cup {Blank}
    BY DEF Applied, Texts
  <2>2. /\ a \in Accounts /\ key \in Keys
        /\ row' = [row EXCEPT ![a] = Protect(key, p)] /\ sealed' = [sealed EXCEPT ![a] = key]
    BY <1>5, IdleTyped DEF UpdateAccount, Committed, TypeInv, Working
  <2> HIDE DEF a, p
  <2>3. SealedRight(Protect(key, p), key)
    BY <2>1, <2>2, TypedSealed
  <2> QED
    BY <1>1, <2>2, <2>3 DEF TypeInv, TypeOK
<1>6. CASE UNCHANGED <<row, sealed>>
  BY <1>6 DEF SealInv
<1> QED
  BY <1>2, <1>3, <1>4, <1>5, <1>6
  DEF Next, Startup, Start, MigrateFails, Serve, Crash, SeedFails, Login, Visit, Logout,
      ReadAccount, Refuse, vars

\* Whatever keys the server is started with, a question can be read under the
\* one it was encrypted with: no later start encrypts it again.
THEOREM QuestionsOpen == Spec => []QuestionOpens
<1>1. TypeInv /\ SealInv => QuestionOpens
  <2> SUFFICES ASSUME TypeInv, SealInv, NEW a \in Accounts, row[a] # Absent, sealed[a] = key
               PROVE  Readable(key, row[a]) \/ row[a].question.text \in CipherLike
    BY DEF QuestionOpens
  <2>1. SealedRight(row[a], key)
    BY DEF SealInv
  <2> QED
    BY <2>1 DEF SealedRight, Readable
<1> QED
  BY <1>1, TypeInit, TypeNext, SealInit, SealNext, PTL DEF Spec
=============================================================================
