----------------------------- MODULE Credentials -----------------------------
(***************************************************************************)
(* What is stored of the password, the secret question and the secret      *)
(* answer of an account: hashed or encrypted by protectAccount when an     *)
(* account is created or edited and once more for every row at startup,    *)
(* told apart from what the user typed by the prefix of the text alone.    *)
(*                                                                         *)
(* The editor reads the account, applies the form to its copy and writes   *)
(* all three columns back; edits interleave.  The server is killed and     *)
(* started again at any step, also between two rows of the migration and   *)
(* with another key.  Sign-ins and Passport names stay as they are here:   *)
(* what their changes do is the subject of module Identity.                *)
(***************************************************************************)
CONSTANTS
  Accounts,    \* rows of passport_accounts, registered or not yet
  Passwords,   \* texts a user may type as a password,
  Questions,   \* as a secret question
  Answers,     \* and as the answer to it
  HashLike,    \* passwords and answers that begin with "$2"
  CipherLike,  \* questions that begin with "enc:v1:"
  TooLong,     \* passwords and answers of more than 72 bytes
  Keys,        \* encryption keys the server has been started with
  Requests,    \* goroutines serving POSTs of the profile editor
  Blank,       \* the empty string
  Absent       \* no row, nothing read yet

Texts == Passwords \cup Questions \cup Answers

ASSUME LooksAssumption == HashLike \cup TooLong \subseteq Texts /\ CipherLike \subseteq Texts
ASSUME BlankAssumption == Blank \notin Texts \cup Keys

VARIABLES
  row,      \* passport_accounts: password, secret_question, secret_answer
  session,  \* accounts with a row in passport_tokens
  phase,    \* what the process is doing
  key,      \* accountStore.cipher
  todo,     \* rows migrateAccountProtection has read and not yet written
  req,      \* what each goroutine is doing
  \* The rest is history, read by the properties only.
  chosen,   \* the password each account was last given
  asked,    \* <<question, answer>> pairs each account was given together
  crossed,  \* accounts whose password an edit that crossed another kept
  sealed    \* the key in force when a question was chosen or first migrated

vars == <<row, session, phase, key, todo, req, chosen, asked, crossed, sealed>>

-----------------------------------------------------------------------------
(* Stored values *)

Nothing == [form |-> "blank", text |-> Blank, key |-> Blank]
Plain(t) == IF t = Blank THEN Nothing ELSE [form |-> "plain", text |-> t, key |-> Blank]
Hash(t) == [form |-> "hash", text |-> t, key |-> Blank]
Cipher(k, t) == [form |-> "cipher", text |-> t, key |-> k]

Value == {Nothing} \cup {Plain(t) : t \in Texts} \cup {Hash(t) : t \in Texts}
         \cup {Cipher(k, t) : k \in Keys, t \in Texts}

Profile == [password: Value, question: Value, answer: Value]

\* isBcryptHash, for a value read from a column or from a form.
IsBcryptHash(v) == v.form = "hash" \/ v.text \in HashLike

\* bcrypt refuses texts of more than 72 bytes.
Hashable(v) == IsBcryptHash(v) \/ v.text \notin TooLong

ProtectSecretAll(v) == IF IsBcryptHash(v) THEN v ELSE Hash(v.text)

ProtectSecret(v) == IF v = Nothing \/ IsBcryptHash(v) THEN v ELSE Hash(v.text)

\* What is encrypted is encrypted once more.
ProtectQuestionAgain(k, v) ==
  IF v.form = "cipher" THEN Cipher(<<k, v.key>>, v.text)
  ELSE IF v.form = "plain" /\ v.text \notin CipherLike THEN Cipher(k, v.text) ELSE v

ProtectQuestion(k, v) ==
  IF v.form = "plain" /\ v.text \notin CipherLike THEN Cipher(k, v.text) ELSE v

\* protectAccount, which fails unless Protectable.
Protectable(p) == Hashable(p.password) /\ Hashable(p.answer)

Protect(k, p) == [password |-> ProtectSecret(p.password),
                  question |-> ProtectQuestion(k, p.question),
                  answer |-> ProtectSecret(p.answer)]

\* decrypt succeeds: a text without the prefix is returned as it is, one with
\* the prefix that encrypt has not made does not decode.
Readable(k, p) ==
  /\ p.question.form = "cipher" => p.question.key = k
  /\ p.question.form = "plain" => p.question.text \notin CipherLike

\* revealAccount.
Reveal(p) ==
  [p EXCEPT !.question = IF @.form = "cipher" THEN Plain(@.text) ELSE @]

\* authenticate, where find has succeeded.
Opens(p, t) == p.password = Hash(t)

-----------------------------------------------------------------------------

Request == [acct: Accounts \cup {Absent}, copy: Profile \cup {Absent}, stale: BOOLEAN]

Idle == [acct |-> Absent, copy |-> Absent, stale |-> FALSE]

ASSUME AbsentAssumption == Absent \notin Accounts \cup Profile

TypeOK ==
  /\ row \in [Accounts -> Profile \cup {Absent}]
  /\ session \subseteq Accounts
  /\ phase \in {"down", "migrating", "serving"}
  /\ key \in Keys \cup {Blank}
  /\ todo \subseteq Accounts
  /\ req \in [Requests -> Request]
  /\ chosen \in [Accounts -> Passwords \cup {Blank}]
  /\ asked \in [Accounts -> SUBSET (Questions \X Answers)]
  /\ crossed \subseteq Accounts
  /\ sealed \in [Accounts -> Keys \cup {Blank}]

\* A database of a version that stored what was typed, or an empty one.
Legacy == {[password |-> Plain(pw), question |-> Plain(qa[1]), answer |-> Plain(qa[2])] :
             pw \in Passwords \cup {Blank},
             qa \in (Questions \X Answers) \cup {<<Blank, Blank>>}}

Init ==
  /\ row \in [Accounts -> Legacy \cup {Absent}]
  /\ session \in SUBSET {a \in Accounts : row[a] # Absent}
  /\ phase = "down"
  /\ key = Blank
  /\ todo = {}
  /\ req = [r \in Requests |-> Idle]
  /\ chosen = [a \in Accounts |-> IF row[a] = Absent THEN Blank ELSE row[a].password.text]
  /\ asked = [a \in Accounts |-> IF row[a] = Absent \/ row[a].question = Nothing THEN {}
                                 ELSE {<<row[a].question.text, row[a].answer.text>>}]
  /\ crossed = {}
  /\ sealed = [a \in Accounts |-> Blank]

-----------------------------------------------------------------------------
(* Startup *)

StartUnread(k) ==
  /\ phase = "down"
  /\ phase' = "migrating"
  /\ key' = k
  /\ todo' = {}
  /\ UNCHANGED <<row, session, req, chosen, asked, crossed, sealed>>

\* openAccountStoreWithCipher, and the Find of migrateAccountProtection.
Start(k) ==
  /\ phase = "down"
  /\ phase' = "migrating"
  /\ key' = k
  /\ todo' = {a \in Accounts : row[a] # Absent}
  /\ UNCHANGED <<row, session, req, chosen, asked, crossed, sealed>>

\* History of a row that is migrated.
SealedOnce(a) == IF sealed[a] = Blank THEN [sealed EXCEPT ![a] = key] ELSE sealed

\* The same row is written again and again.
MigrateStays(a) ==
  /\ phase = "migrating" /\ a \in todo /\ Protectable(row[a])
  /\ row' = [row EXCEPT ![a] = Protect(key, @)]
  /\ sealed' = SealedOnce(a)
  /\ UNCHANGED <<session, phase, key, todo, req, chosen, asked, crossed>>

\* One pass of the loop; no other process writes meanwhile.
Migrate(a) ==
  /\ phase = "migrating" /\ a \in todo /\ Protectable(row[a])
  /\ row' = [row EXCEPT ![a] = Protect(key, @)]
  /\ todo' = todo \ {a}
  /\ sealed' = SealedOnce(a)
  /\ UNCHANGED <<session, phase, key, req, chosen, asked, crossed>>

\* A row that cannot be protected ends the process (log.Fatal).
MigrateFails(a) ==
  /\ phase = "migrating" /\ a \in todo /\ ~Protectable(row[a])
  /\ phase' = "down"
  /\ todo' = {}
  /\ UNCHANGED <<row, session, key, req, chosen, asked, crossed, sealed>>

\* seedIfEmpty, where a sign-in is configured and there are no accounts.
Seed(a, pw) ==
  LET p == [password |-> Plain(pw), question |-> Nothing, answer |-> Nothing] IN
  /\ phase = "migrating" /\ todo = {} /\ \A b \in Accounts : row[b] = Absent
  /\ Protectable(p)
  /\ row' = [row EXCEPT ![a] = Protect(key, p)]
  /\ chosen' = [chosen EXCEPT ![a] = pw]
  /\ sealed' = [sealed EXCEPT ![a] = key]
  /\ UNCHANGED <<session, phase, key, todo, req, asked, crossed>>

\* A configured password that bcrypt refuses ends the process (log.Fatal).
SeedFails(pw) ==
  /\ phase = "migrating" /\ todo = {} /\ \A b \in Accounts : row[b] = Absent
  /\ ~Hashable(Plain(pw))
  /\ phase' = "down"
  /\ UNCHANGED <<row, session, key, todo, req, chosen, asked, crossed, sealed>>

Serve ==
  /\ phase = "migrating" /\ todo = {}
  /\ phase' = "serving"
  /\ UNCHANGED <<row, session, key, todo, req, chosen, asked, crossed, sealed>>

\* The process is killed at any point, or a start ends at a database error.
Crash ==
  /\ phase # "down"
  /\ phase' = "down"
  /\ todo' = {}
  /\ req' = [r \in Requests |-> Idle]
  /\ UNCHANGED <<row, session, key, chosen, asked, crossed, sealed>>

-----------------------------------------------------------------------------
(* Requests *)

\* createAccount, where no account has the sign-in.
Create(a, pw, q, an) ==
  LET p == [password |-> Plain(pw), question |-> Plain(q), answer |-> Plain(an)] IN
  /\ phase = "serving" /\ row[a] = Absent
  /\ Protectable(p)
  /\ row' = [row EXCEPT ![a] = Protect(key, p)]
  /\ chosen' = [chosen EXCEPT ![a] = pw]
  /\ asked' = [asked EXCEPT ![a] = {<<q, an>>}]
  /\ sealed' = [sealed EXCEPT ![a] = key]
  /\ UNCHANGED <<session, phase, key, todo, req, crossed>>

\* A sign-in with password pw, which stores a session.
Login(a, pw) ==
  /\ phase = "serving" /\ row[a] # Absent
  /\ Readable(key, row[a]) /\ Opens(row[a], pw)
  /\ session' = session \cup {a}
  /\ UNCHANGED <<row, phase, key, todo, req, chosen, asked, crossed, sealed>>

\* tokenUser, in any request of a session: findByPassportName fails, in the
\* database or as the question does not decrypt, and the token is deleted.
Visit(a) ==
  /\ phase = "serving" /\ a \in session
  /\ session' = session \ {a}
  /\ UNCHANGED <<row, phase, key, todo, req, chosen, asked, crossed, sealed>>

\* handleLogout, or the end of a session's lifetime.
Logout(a) ==
  /\ a \in session
  /\ session' = session \ {a}
  /\ UNCHANGED <<row, phase, key, todo, req, chosen, asked, crossed, sealed>>

\* handleProperties: the account of the session is read.
ReadAccount(r, a) ==
  /\ phase = "serving" /\ req[r] = Idle
  /\ a \in session /\ Readable(key, row[a])
  /\ req' = [req EXCEPT ![r] = [acct |-> a, copy |-> Reveal(row[a]), stale |-> FALSE]]
  /\ UNCHANGED <<row, session, phase, key, todo, chosen, asked, crossed, sealed>>

\* The form on the copy; a blank password or answer keeps what was read.
Applied(copy, pw, q, an) ==
  [password |-> IF pw = Blank THEN copy.password ELSE Plain(pw),
   question |-> Plain(q),
   answer |-> IF an = Blank THEN copy.answer ELSE Plain(an)]

\* "Secret answer is required when setting a question."
AnswerGiven(copy, q, an) ==
  an # Blank \/ (copy.answer # Nothing /\ copy.question = Plain(q))

\* History of an edit that commits.
Committed(r, pw, q, an) ==
  LET a == req[r].acct IN
  /\ chosen' = IF pw = Blank THEN chosen ELSE [chosen EXCEPT ![a] = pw]
  /\ asked' = IF an = Blank THEN asked ELSE [asked EXCEPT ![a] = @ \cup {<<q, an>>}]
  /\ sealed' = [sealed EXCEPT ![a] = key]
  /\ crossed' = IF pw # Blank THEN crossed \ {a}
                ELSE IF req[r].stale THEN crossed \cup {a} ELSE crossed
  /\ req' = [i \in Requests |-> IF i = r THEN Idle
                                ELSE IF req[i].acct = a THEN [req[i] EXCEPT !.stale = TRUE]
                                ELSE req[i]]

\* The columns the form leaves blank are not written.
UpdateColumns(r, pw, q, an) ==
  LET a == req[r].acct
      p == Applied(row[a], pw, q, an) IN
  /\ a # Absent
  /\ AnswerGiven(req[r].copy, q, an)
  /\ Protectable(p)
  /\ row' = [row EXCEPT ![a] = Protect(key, p)]
  /\ Committed(r, pw, q, an)
  /\ UNCHANGED <<session, phase, key, todo>>

\* A blank password is written like any other.
UpdateBlank(r, pw, q, an) ==
  LET a == req[r].acct
      p == [Applied(req[r].copy, pw, q, an) EXCEPT !.password = Plain(pw)] IN
  /\ a # Absent
  /\ AnswerGiven(req[r].copy, q, an)
  /\ Protectable(p)
  /\ row' = [row EXCEPT ![a] = Protect(key, p)]
  /\ Committed(r, pw, q, an)
  /\ UNCHANGED <<session, phase, key, todo>>

\* handleProperties from there, updateAccount: all columns are written.
UpdateAccount(r, pw, q, an) ==
  LET a == req[r].acct
      p == Applied(req[r].copy, pw, q, an) IN
  /\ a # Absent
  /\ AnswerGiven(req[r].copy, q, an)
  /\ Protectable(p)
  /\ row' = [row EXCEPT ![a] = Protect(key, p)]
  /\ Committed(r, pw, q, an)
  /\ UNCHANGED <<session, phase, key, todo>>

\* The form is shown again with a message, or the request fails.
Refuse(r) ==
  /\ req[r] # Idle
  /\ req' = [req EXCEPT ![r] = Idle]
  /\ UNCHANGED <<row, session, phase, key, todo, chosen, asked, crossed, sealed>>

-----------------------------------------------------------------------------

Startup ==
  \/ \E k \in Keys : Start(k)
  \/ \E a \in Accounts : Migrate(a) \/ MigrateFails(a)
  \/ Serve

Next ==
  \/ Startup
  \/ Crash
  \/ \E pw \in Passwords : SeedFails(pw)
  \/ \E a \in Accounts :
       \/ \E pw \in Passwords \cup {Blank} : Seed(a, pw)
       \/ \E pw \in Passwords, q \in Questions, an \in Answers : Create(a, pw, q, an)
       \/ \E pw \in Passwords : Login(a, pw)
       \/ Visit(a) \/ Logout(a)
       \/ \E r \in Requests : ReadAccount(r, a)
  \/ \E r \in Requests :
       \/ \E pw \in Passwords \cup {Blank}, q \in Questions, an \in Answers \cup {Blank} :
            UpdateAccount(r, pw, q, an)
       \/ Refuse(r)

Spec == Init /\ [][Next]_vars

\* The container is started again whenever it has stopped ("restart:
\* unless-stopped"), and a start runs on while nobody kills it.
FairSpec == Spec /\ WF_vars(Startup)

-----------------------------------------------------------------------------
(* Properties *)

\* The password an account was last given opens it, after any number of
\* starts and migrations, half of them cut short: what is hashed is not hashed
\* again, and a form whose password is blank keeps it.  Excepted are blank
\* passwords in edits that crossed, which put back the password they read
\* (against static/properties.html:51, "Leave blank to keep the current
\* password."), and texts that pass for a hash.
ChosenPasswordOpens ==
  \A a \in Accounts : row[a] # Absent /\ chosen[a] # Blank =>
    \/ Opens(row[a], chosen[a])
    \/ row[a].password = Plain(chosen[a]) /\ (a \in todo \/ phase = "down" \/ chosen[a] \in HashLike)
    \/ a \in crossed

\* The stored answer was given for the stored question, also where edits
\* cross: it is what writing all columns back is good for.
AnswerFitsQuestion ==
  \A a \in Accounts : row[a] # Absent /\ row[a].answer # Nothing =>
    <<row[a].question.text, row[a].answer.text>> \in asked[a]

\* Once the server serves, no column holds a text as it was typed, but for
\* those that pass for protected ones.
ServedIsProtected ==
  phase = "serving" =>
    \A a \in Accounts : row[a] # Absent =>
      /\ \A v \in {row[a].password, row[a].answer} : v.form = "plain" => v.text \in HashLike
      /\ row[a].question.form = "plain" => row[a].question.text \in CipherLike

\* Whatever other keys the server is started with in between, and wherever a
\* migration under one of them is cut short, a question can be read again under
\* the key it was encrypted with: no start encrypts it with another
\* (migrateAccountProtection, protectAccount).  Excepted are questions that
\* begin with "enc:v1:".
QuestionOpens ==
  \A a \in Accounts : row[a] # Absent /\ sealed[a] = key =>
    Readable(key, row[a]) \/ row[a].question.text \in CipherLike

\* Once it is not killed any more the server comes up for good, wherever the
\* migration was cut short before, unless there is a row it cannot protect, or
\* no row and a configured password it cannot protect.
ComesUp ==
  <>[][~Crash]_vars =>
    \/ <>[](phase = "serving")
    \/ []<>(\E a \in Accounts : row[a] # Absent /\ ~Protectable(row[a]))
    \/ []<><<\E pw \in Passwords : SeedFails(pw)>>_vars
=============================================================================
