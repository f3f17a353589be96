# LunaPassport: a TLA+ verification project

LunaPassport (`cmd/lunapassport`) is a lab identity provider: classic .NET
Passport SSI 1.4 for Windows XP clients, and OAuth 2.0 authorization codes for
partner sites, over one SQLite database and one in-memory cache. Every HTTP
request is a goroutine, no lock spans a handler, and most handlers mix several
reads and writes of cache and database. That is what is modelled here.

Source paths below are relative to `src/`; `.go` files without a directory are
in `src/cmd/lunapassport/`.

## Inventory

| Part | State | Operations | Interacts with | Module |
| --- | --- | --- | --- | --- |
| Sessions (`server.go`, `passport.go`, `wizard.go`) | `server.tokens` (memory), `passport_tokens` | `rememberToken`, `tokenUser`, `rebindToken`, `handleLogout` | accounts, by Passport *name* | `Sessions` |
| Identity (`accounts.go`, `registration.go`, `wizard.go`) | sign-in and name in `passport_accounts` | create, authenticate, `find`, `findByPassportName`, `updateAccount` | rewrites session rows in its transaction; OAuth rows and applications are left alone | `Identity` |
| Account protection, profile editor, startup (`account_security.go`, `wizard.go`, `main.go`) | password, question and answer in `passport_accounts`; the key | protect, reveal, migrate, seed, edit | an account that cannot be read loses its sessions | `Credentials` |
| OAuth grants (`oauth.go`, `accounts.go`) | `oauth_auth_codes`, `oauth_access_tokens` | consent, exchange, userinfo, revoke | clients; accounts, by *sign-in*; sessions, at consent | `OAuthGrants` |
| Partner applications (`partners.go`) | `oauth_clients` | create, rotate, enable, disable, delete | the owner is a Passport name; deletion cascades to codes and tokens (`OAuthGrants`) | `PartnerApps` |
| Browser (`passport.go`, `csrf.go`, `oauth.go`) | cookies PPAuth, MSPAuth, attempt, LPCsrf; tickets | set, clear, choose a token, gate, CSRF | every handler | `Browser` |
| Wizard (`wizard.go`, `language.go`, `static/wizard.html`) | none on the server: URL, two session cookies, page | three pages, redirects, language | sessions; Windows, which links an account | `Wizard` |
| Texts (`passport.go`, `accounts.go`, `oauth.go`) | none | header, ticket, redirect list and return URL, put together and taken apart | handlers | `Texts` |
| Legacy browser gate, allowlist of classic return URLs, cookie domain, error redirects, the wizard's character set | none | one decision per request | | not modelled |
| Nexus document, templates, static files | none | rendering | | not modelled |
| `tlspproxy`, `gencert`, Docker, CI | none shared | | | not modelled |

### What is hard in this code

* A session stores the account's name, which its owner can change and which is
  not unique, in two places. `updateAccount` rewrites the rows in its
  transaction and the cache only afterwards, for one token (`rebindToken`).
* `tokenUser` fills the cache outside any lock that spans the read of the row.
* A logout removes the two copies in two steps, and the second can fail.
* An account is meant by its sign-in in some places and by its name in others,
  and handlers translate one into the other with lookups that may find
  somebody else.
* The profile editor writes back columns it read before its transaction.
* Protected values are told from typed ones by their prefix, at every start
  again, and a start can be killed between two rows or have another key.
* A code is marked used in one transaction and its access token is stored in
  another; a request past the check of a client goes on when the client is
  switched off.
* A browser holds two cookies for a session, which may name different ones;
  answers arrive out of order or not at all.
* The wizard takes the name from a URL and the ticket from one of two cookies,
  which may be of a session that was there before the user signed in.

`PROJECT.json` lists the hazards one by one, each at its line, with the
properties that cover it, or with the reason why none does: some are simply what
the code does, and are listed under Known limits.

### What makes each part correct

* Sessions: a token serves the account that signed in for it or nobody; a
  logout is final; nobody else's rename, logout or clean-up ends a session; an
  edit keeps its own session.
* Identity: a lookup finds the account that was meant, although sign-ins and
  names are compared with each other in places.
* Credentials: the password last chosen opens the account after any starts and
  edits; an answer belongs to its question; a question can be read again under
  the key it was encrypted with; the server comes up.
* Grants: one access token for a consent, for its client, URI and account; a
  client that is off gets nothing new and a deleted one leaves nothing behind.
* Applications: administered by the account that created them and nobody else;
  the secret that is stored reaches a page.
* Browser: the token checked is the token used; who signed out stays out, who
  is signed in is let in; a cancelled sign-in was asked for.
* Wizard: the name and the ticket Windows gets are one account's; a sign-in that
  was answered is finished.
* Texts: what is taken apart is what was put together.

## Modules

| Module | Content |
| --- | --- |
| `Sessions`, `SessionPromise`, `SessionsProofs`, `MCSessions` | cache, token rows, names, requests; what a session is to its users; theorems; symmetry for TLC |
| `Identity`, `IdentityProofs`, `MCIdentity` | sign-ins and names as one set of texts, and every lookup by either |
| `Credentials`, `CredentialsProofs` | passwords, questions, answers: edits, protection, migration, keys |
| `OAuthGrants`, `GrantPromise`, `OAuthGrantsProofs`, `MCOAuthGrants` | clients, codes, access tokens, sign-ins, requests; what a grant is to the account that gives it |
| `PartnerApps`, `AppPromise`, `PartnerAppsProofs`, `MCPartnerApps` | owners, secrets, pages; what a secret is to the partner |
| `Browser`, `BrowserProofs`, `MCBrowser` | the cookie jar of a browser and everything that reads or sets it |
| `Wizard`, `WizardProofs`, `MCWizard` | the wizard's pages with the script in them |
| `Texts`, `TextsProofs`, `MCTexts` | texts as sequences of symbols, and the functions on them |

The modules overlap where components meet, each keeping of the other what it
needs: a rename is in `Sessions` (with rows and cache step by step), in
`Identity` (with sign-ins, `tokenUser` and `rememberToken` as one action each)
and in `PartnerApps` (with owners); a deleted client is in `PartnerApps` and,
with its cascade, in `OAuthGrants`; a session that ends is `TokenDies` in
`Browser` and `SessionDies` in `Wizard`. Shared assumptions: that a session
tells the current name of its account (`PartnerApps`, `Manage`) is what
`Sessions` and `Identity` are about.

In the modules about the server **one action is one critical section of
`server.mu` or one database statement or transaction**, with what the handler
does on its own before the next one. `req[r]` holds the local variables of
goroutine `r` and, in most modules, the step (`pc`) it is at, so requests
interleave between any two such steps, and with expiry and restarts. Variables
after the comment "history" are read by properties only; the exceptions say
which random values are fresh (`owner`, `granted`, `got`, `creator`, `drawn`) or
restrict behaviours under a named constant (`holder`, `held`). An operator
placed just before a definition and shaped like it (`LogoutKeepsCache` before
`Logout`) is a mutant: a plausible bug, not used by `Next`, that a property
must reject.

### Sessions

| Action | Code |
| --- | --- |
| `Login`, `CacheNew`, `Save` | `handleLogin`, `handleOAuthLogin`, `handleWizard`: `authenticate`, then `rememberToken`, cache first, row second |
| `Register`, `Greet` | `handleOAuthRegister`: `createAccount`, read back, `rememberToken` |
| `Present`, `Edit`, `ReadCache`, `FindToken`, `FindByPassportName`, `FillCache`, `DropRow`, `DropCache` | `tokenUser` and the handlers that call it: once, or up to four times in `requirePassportAuth`, `setPartnerTokenCookies`, `profileBlobForToken` and `handleProperties` (`stage`) |
| `Resolve`, `UpdateAccount`, `EditEnds`, `RebindRow`, `RebindCache` | `handleProperties`: `passportAccountFromRequest`, `updateAccount` (the account and the rows of its old name, one transaction), `rebindToken` |
| `Logout`, `LogoutRow` | `handleLogout`: cache entry, then row |
| `Expire`, `Restart` | `expires_at` passes; the process starts again on the same database |

Abstracted: sign-ins, which are in `Identity`; passwords; the lookups some
handlers repeat after `rememberToken` for the response they write, which are
those of `Present`; a request carries one token in one place (`via`), which of
two is in `Browser`.

### Identity

| Action | Code |
| --- | --- |
| `Register`, `Greet` | `handleOAuthRegister`: `createAccount`, then `find` by the sign-in it was given |
| `Login`, `RememberToken` | `authenticate` and `rememberToken` |
| `TokenUser` | `tokenUser`, which ends the session when nobody bears its name or the lookup fails |
| `FindEdited`, `FindEditedByName` | `passportAccountFromRequest`: the session's name is tried as a sign-in, then as a name; the lowest sign-in wins |
| `UpdateAccount`, `RebindToken` | `updateAccount` by the sign-in that was read; rows stored under the old name *or* the old sign-in move |
| `Consent` | the account a code is stored for |
| `Describe` | `/partner/verify` and the profile of a ticket |
| `Finish`, `Logout`, `Restart` | a request ends; `handleLogout`; the cache is forgotten |

### Credentials

| Action | Code |
| --- | --- |
| `Start`, `Migrate`, `MigrateFails`, `Seed`, `SeedFails`, `Serve` | `main`, `openAccountStoreWithCipher`, `migrateAccountProtection` row by row, `seedIfEmpty`; a row or a configured password that bcrypt refuses ends the process |
| `Crash` | the container is killed, at any step |
| `Create`, `Login` | `createAccount`, `authenticate` |
| `Visit` | `tokenUser` deletes the token when `findByPassportName` fails for any reason: a database error, or a question that does not decrypt |
| `Logout` | `handleLogout`, or the session's lifetime |
| `ReadAccount`, `UpdateAccount`, `Refuse` | `handleProperties`: the copy, the form on the copy, `updateAccount` with every column |

A stored value is its form (blank, plain, hash, cipher), its text and its key.
Texts that begin with `$2` or `enc:v1:`, and those bcrypt refuses, are sets of
texts, because `protectAccount` sees prefixes and lengths and nothing else.

### OAuthGrants

| Action | Code |
| --- | --- |
| `Consent`, `FindClient`, `SaveCode` | `handleOAuthConsent`: account of the session, `findOAuthClient` and its checks (or the user denies), `saveOAuthAuthCode` and redirect |
| `Exchange`, `Consume`, `SaveBearer` | `handleOAuthToken`: `authenticateOAuthClient`, `consumeOAuthAuthCode` (one transaction), `saveOAuthAccessToken` |
| `UserInfo`, `Profile` | `handleOAuthUserInfo`: `findOAuthAccessToken`, `find` by sign-in |
| `Revoke` | `handleOAuthRevoke` |
| `CreateClient`, `Enable`, `Disable`, `Delete` | `handlePartners` on the owner's behalf; `Delete` is the transaction that also removes codes and tokens |
| `Register`, `ChangeSignIn` | `createAccount`, `updateAccount`, as far as sign-ins go |
| `Expire`, `Restart` | nothing of the flow is in memory, so a restart only loses requests |

Any client may send any code with any redirect URI. Every statement may fail,
which always just ends the request. `handleOAuthAuthorize` reads and renders
and has no action. SQLite's own locking is taken as atomic transactions here.

### PartnerApps

| Action | Code |
| --- | --- |
| `Register`, `Rename` | `createAccount`, `updateAccount`, as far as names go |
| `Manage`, `Look` | `handlePartners`: the name the session tells; a GET, or a POST that is refused |
| `Create`, `Rotate`, `Toggle`, `Delete` | one statement or transaction each, `WHERE owner = ` that name |
| `Render` | `renderPartners`: the list as it is now, with the secret just drawn |
| `Finish` | refused, answered, or cut short by an error or a restart |

### Browser

| Action | Code |
| --- | --- |
| `Send`, `Deliver`, `Lose`, `AttemptExpires` | the browser and the wire: a request leaves with a copy of the jar, its answer changes the jar when it arrives |
| `TokenDies` | the row expires or its account loses the name |
| `Login`, `Reuse`, `Refuse` | `handleLogin` in both ways (WinHTTP, browser), `handleOAuthRegister`, and every answer that sets no cookie |
| `Form`, `Post` | pages with a CSRF token; `handleOAuthLogin` |
| `Fallback`, `Finish` | `handleWizard`, steps 2 and 3 |
| `Partner` | `handlePartner`, `handlePassportSignIn`, `handlePartnerComplete` |
| `Admit`, `Challenge` | `requirePassportAuth` |
| `Logout`, `LogoutFails` | `handleLogout` |

A handler is one action here: how it interleaves with others on the rows is in
`Sessions`. What matters is which token it looks at (`TokenFromRequest`,
`PassportToken`, `HasValidPassportAuth`) and what it sets. The browser, the wire
and the clock are external to the code. MSPProf, which no handler reads, is
left out.

### Wizard

| Action | Code |
| --- | --- |
| `ServePage`, `Fallback` | `handleWizard`, steps 1 and 2; the language by `DetectWizardLanguage` |
| `ServeFinish`, `ServeUnticketed`, `SendBack` | `handleWizard`, step 3: the ticket is that of the session `Chosen` names; without one a page without a ticket when the session `Checked` names is found, else the first page |
| `Open` | the wizard host opens step 1 (external) |
| `Authenticate` (with `SignedInAs`) | `OnNext`: `PassportAuthenticate` gets login2.asp's answer for the user's credentials, or without any for the session that is there, whoever's it is |
| `OnBack`, `FinishPassport`, `OnCancel` | the script in `static/wizard.html` |
| `SessionDies` | one or both of the sessions the cookies name end between two pages |

A cookie is the account its session signs in, or `Dead`: which token it is tells
nothing more here. `StoreFails` says whether lookups of sessions and names may
fail. The character set of a page (`writeWizardBody`) is left out.

### Texts

`Type` types one symbol; the functions are `parsePassportAuthorization`,
`tokenFromRequest`, `splitRedirectURIs`, `joinRedirectURIs`,
`allowsRedirectURI`, the nested URLs of `handlePartnerComplete` and
`isSafeLocalReturn`, over `net/url` and `strings`, which are external. An
escaped character is two symbols, `%` and its code; a word the code writes
(`from-PP`, `ru`) is one. `Split` is a recursive function, a step for each
symbol; `Cleaned` is the loop that `splitRedirectURIs` and `joinRedirectURIs`
share. `Blank` and `Comma` name two characters that the notation of the provers
has no room for.

## Runs

| Run | Instance | What it shows |
| --- | --- | --- |
| `sessions_identity` | 2 accounts, 3 names, 2 tokens, 2 requests | `SessionIdentity`, `UntouchedSessionSurvives`, `LogoutFinal`, `PromiseKept` (refinement of `SessionPromise`), all interleavings of two requests |
| `sessions_serial` | the same with 1 request, 3 places of the token, 1 database error | `RowsFollowRename`, `RebindKeepsSession`: true sequentially, broken by races; `StaleEntryEvicted` (liveness) |
| `grants_exchange` | 2 accounts, 2 sign-ins, 2 clients, 2 URIs, 1 code, 2 bearers, 2 requests | `TokenScope`, `DeletedLeavesNothing`, `DisabledGetsNothing`, `UserInfoOwner`, `PromiseKept` (refinement of `GrantPromise`) |
| `identity_lookup` | 2 accounts, 3 texts (2 of them e-mail addresses), 1 token, 2 requests | `NeverStrays`, `SessionsTellTheirOwn` |
| `apps_owner` | 2 accounts, 3 names, 2 applications, 3 secrets, 2 requests | `OnlyCreatorAdministers`, `OnlyRenamesOrphan`, `SecretReachesOwner`; `PromiseKept` (refinement of `AppPromise`) |
| `credentials_edits` | 1 account; passwords, questions and answers of every kind; 2 keys, 2 requests | `ChosenPasswordOpens`, `AnswerFitsQuestion`, `ServedIsProtected`, `QuestionOpens`, `ComesUp` (liveness) |
| `browser_tabs` | 2 tokens, 2 CSRF tokens, 2 requests, every URL | `CancelledWasAsked`, `SignedOutStaysOut`, `OpenFormsValidate`, `SignedInIsLetIn` |
| `wizard_link` | 2 accounts in 2 cookies, lookups that fail, 4 language codes, every `Accept-Language` of up to 2 tags | `LinksOneAccount`, `SignInIsFinished`, `EndsInAPage` (liveness) |
| `texts` | every text of up to 4 of 14 symbols | `HeaderArrives`, `FormIsTheAllowlist`, `SignInLeadsBack` |
| `sessions_logout_race`, `sessions_edit_ppauth`, `apps_name_taken` | violations | see Findings |

**Bounds and why they are enough.**

* A race is between two requests. Two tokens tell "this session" from "another
  of the same account", two accounts "mine" from "theirs", three names allow a
  rename while the other two are taken.
* The finite sets of tokens, codes, bearers, secrets and CSRF tokens bound how
  often somebody signs in, consents or rotates. `Login` and its like need a
  fresh one; a table whose values run out still logs out, expires and restarts.
* `MaxFaults` bounds database errors in `Sessions`: one is enough for a step
  that fails beside steps that do not.
* `NamesReused = FALSE` and `SignInsReused = FALSE` select the behaviours in
  which a name (a sign-in) that one account has held is not taken by another:
  the properties about whom a token serves are false otherwise, because
  sessions, grants and applications store nothing else. `Identity` has no such
  restriction: its properties are about accounts that share no text, among
  others that share everything.
* `Beside` in `Browser` bounds what is asked for while another request is
  outstanding: `reuse`, `edit`, `logout` and `form` between them set, keep and
  clear every cookie. One at a time, everything in `Visits` is asked for.
* `credentials_edits` has one account, as rows do not influence each other except
  through the migration's list, and two keys: the one a question was encrypted
  with and another. Of the passwords one is ordinary, one looks like a hash and
  one is too long; the second is also the other password an edit may choose. The
  theorems of `CredentialsProofs` are for any number of all of them.
* `identity_lookup` has one token; that a rename leaves other sessions alone is
  `SessionsAreTheirOwners`, proved for any number.
* `MaxLength` is 4: an escape beside a separator on both sides. The theorems of
  `TextsProofs` are for texts of any length.

Symmetry is used in runs without liveness properties only, over model values no
definition singles out.

**Fairness.** `Sessions`: `WF_vars(Serve(r))`, a goroutine that has been started
goes on, which the Go scheduler and the finite SQLite busy time-out justify. No
request has to arrive, nothing has to expire or restart. `Credentials`:
`WF_vars(Startup)`, the container is started whenever it is down
(`docker-compose.yml`, `restart: unless-stopped`) and a start runs on; that
nobody kills it is a hypothesis of `ComesUp`, not an assumption. `Wizard`: the
server answers what it is asked and the host follows redirects; the user is
under no obligation.

**Deadlock** is checked in every run but `texts`, where typing ends at
`MaxLength`. In most modules some step of the environment (a restart, another
request) is always possible, so what it would find is an unexpected evaluation
error, not much more.

## Findings

* `server.go:158`: `tokenUser` writes the row it has read into the cache without
  looking again. When a logout ran in between, the token authenticates until the
  next restart (`sessions_logout_race`). `LogoutFinal` says what is true: the row
  is gone for good, and the cache entry too when no request of the token overlapped.
* `wizard.go:293`: an edit that carries only PPAuth finds its account, but
  rebinds `tokenFromRequest(r)`, which is empty: the cache keeps the old name,
  and the next request ends the session (`sessions_edit_ppauth`).
* `partners.go:87`: an application belongs to a name, and whoever takes the
  name its creator has given up administers it (`apps_name_taken`), where
  `docs/partner-sso.md:41` says "Only the account that created an application can
  list, rotate, disable, or delete it."

### Known limits

Behaviours the models have and the properties name as exceptions, or leave out;
each can be seen as a violation by dropping the exception.

| Behaviour | Code | Where |
| --- | --- | --- |
| After a rename the creator of an application can no longer administer it | `partners.go:87` | `OnlyRenamesOrphan` |
| `/partner/verify` reports the Passport name as `sign_in` (`docs/partner-sso.md:361` shows the e-mail address) | `passport.go:346` | comment of `VerifyTellsOwnName` |
| Where two accounts share a text, `/partner/verify` may answer with the other account's name | `passport.go:337` | `Unshared` in `VerifyTellsOwnName` |
| An access token dies when its account changes its sign-in: "Account no longer exists" | `oauth.go:361` | `UserInfoOwner` |
| Codes and tokens stored by a request that had passed the client's check outlive the client's deletion | `accounts.go:504`, `accounts.go:544` | `raced` in `DeletedLeavesNothing`, `DisabledGetsNothing` |
| Of two edits that cross, a blank password restores the one the other has replaced (`static/properties.html:51`: "Leave blank to keep the current password.") | `wizard.go:264` | `crossed` in `ChosenPasswordOpens` |
| A password that begins with `$2` is stored as typed and opens nothing | `account_security.go:75` | `HashLike` |
| A question that begins with `enc:v1:` makes the account unreadable | `account_security.go:92` | `CipherLike` |
| Without `ACCOUNT_ENCRYPTION_KEY` the pepper is the key of the questions too (`README.md:136` calls it the pepper for client secrets): under another pepper every account with a question is unreadable, and each visit deletes a session | `main.go:34`, `account_security.go:70` | `sealed[a] = key` in `QuestionOpens` |
| A database error while a session's name is looked up deletes the session | `server.go:151` | `Visit`; `UntouchedSessionSurvives` assumes no error |
| A failed logout leaves a session that serves on | `passport.go:179` | `closed` in `LogoutFinal` |
| The answer of a logout that is overtaken by a late one leaves the browser signed in | `passport.go:185` | `SignedOutStaysOut` |
| Of two rotations that race the page that comes last may show the secret that lost | `accounts.go:433` | `SecretReachesOwner` |
| A code is spent although no access token could be stored | `oauth.go:319` | `GrantPromise` |
| A legacy password or answer of more than 72 bytes keeps the server from starting | `accounts.go:152` | `Protectable` in `ComesUp` |
| A configured password of more than 72 bytes keeps an empty server from starting | `accounts.go:221`, `main.go:40` | `SeedFails` in `ComesUp` |
| A dead MSPAuth cookie hides a live PPAuth cookie from the gate | `passport.go:282` | `plain` in `SignedInIsLetIn` |
| A logout revokes one of two tokens; the browser only forgets the other | `passport.go:174` | `SignedOutStaysOut` |
| The gate checks a ticket and copies a dead PPAuth cookie beside it | `passport.go:257` | `plain` in `SignedInIsLetIn` |
| Two first pages at a time: the form of the first does not validate | `csrf.go:22` | `raced` in `OpenFormsValidate` |
| A wizard opened with another account's address shows that name beside the session's ticket | `wizard.go:70` | `own` in `LinksOneAccount` |
| Without credentials the wizard's sign-in succeeds with the session that is there: opened with the user's address while somebody else is signed in, it shows the user's address beside that session's ticket | `passport.go:61`, `wizard.go:70` | `own` in `LinksOneAccount` |
| A last page without a ticket, when one cookie's session is dead, or its lookup fails, and the other's is found | `wizard.go:78` | `ServeUnticketed` |
| A Russian page with a name windows-1251 lacks is in UTF-8 and names windows-1251 | `wizard.go:169` | not modelled |
| `passportrequired=1` is read at step 2 only, and the redirect goes to step 1 | `wizard.go:79`, `wizard.go:89` | `SendBack`, `ErrorOf` |
| A cached token is never checked against `expires_at` | `server.go:141` | `ReadCache` |

## Theorems

Proved by TLAPS for any constants that satisfy the named assumptions (missing
values lie outside the data sets; codes and bearers are rows of two tables;
`Vias` contains MSPAuth; sign-ins and names are positive numbers; flags are
Boolean, `MaxFaults` is a natural number; CSRF tokens are no session tokens;
`Dead` is no account; `Lcids` has a value for no `lcid`, and an
`Accept-Language` is a sequence of tags). Hypotheses of a single theorem are named with it.

`SessionsProofs`:

* `TypeCorrect`. `TypeOK` alone is not inductive: `TypeInv` adds which local
  variables a request has set at each step (`Locals`) and that only registered
  accounts are greeted or edited.
* `LogoutIsFinal`. `LogoutInv` says that a token being signed in belongs to one
  request only and was never issued (`TokensApart`), that closed tokens have no
  row (`ClosedRows`), that for a logout without overlap no request is left that
  could write the cache (`EndedQuiet`), and that a running logout has either met
  another request or is alone (`LogoutAlone`).
* `IdentityIsKept`. `IdentityInv`: every name stored for a token, in the cache,
  the table or a request, was first borne by the account that signed in
  (`Leads`); while names are not handed on, that is the only account it can be.
* `UntouchedSurvives`. `SurvivalInv`: without database errors, the row of an
  account that never changed its name is there, with that name, and no request
  is about to delete it.
* `PromiseIsKept` (under `~NamesReused`). `AllInv` gives `ServedByOwner`; every
  step either draws a token and changes nothing else that can be seen, or is a
  `Turn` of `SessionPromise`.
* `RenameIsFollowed`, `RebindKeeps` (under `OneRequest` and `~NamesReused`, the
  instance of `sessions_serial`). `SerialInv`: a row has the name its owner
  bears now, a cache entry has a row, unless a lookup is between the deletion of
  the two, and a request past its lookup has seen both (`Current`). It rests on
  `AllInv`, which tells that a name leads to one account; with a second request
  it is false, which is what the runs with violations show.
* `UpdatedStays` (`UpdatedSessionStays`, with `"PPAuth" \notin Vias` as well) and
  `SerialLogoutIsFinal` (`LogoutRequiresSignIn`, under `OneRequest`) delimit two
  findings: what `sessions_edit_ppauth` and `sessions_logout_race` refute is
  true one request at a time, the former when no edit carries PPAuth alone.

`OAuthGrantsProofs`:

* `TypeCorrect`, again with the local variables of requests.
* `CodesAreSingleUse` (`SingleUse`, which the runs check as a part of
  `PromiseKept`). `GrantInv` follows a code: rows agree with their grant
  (`CodesGranted`); the request about to store a bearer holds a spent code that
  no other request and no bearer has (`Redeeming`); bearers agree with the grant
  of a spent code (`BearersGot`).
* `DeletionIsClean`, `SwitchedOffClients`. `ClientInv`: no request is past the
  check of a client that is off, unless it was overtaken (`NobodyPassed`); URIs
  in flight and in rows are registered ones (`Homes`).
* `TokensStayInScope`, from `GrantInv` and `ClientInv`.
* `UserInfoIsOwners`. `OwnerInv`: while sign-ins are not handed on, the first
  bearer of a sign-in stands for it wherever it was copied.
* `PromiseIsKept`, from `GrantInv`: storing a code gives a grant, storing a
  bearer issues its token, everything else ends tokens or stutters.

`IdentityProofs`:

* `TypeCorrect`, with `Locals`: whoever is registered has a name, and a request
  past its lookup has a token that was drawn for somebody.
* `SessionsNeverStray`, `SessionsAreTheirOwners`. `OwnInv`: wherever a text is
  kept for an account `o` (its columns, rows and cache of its tokens, the locals
  of its requests), an account `a` that shares no text has borne it if and only
  if `a` is `o` (`Own`). The equivalence is what makes it inductive: a lookup
  that starts from a text of `a` ends at `a`, and one that does not, does not.
  `Unshared` can only be lost, so what holds for the `a` that are still
  unshared held before.
* `VerifyAnswers` (`VerifyTellsOwnName`, which no run repeats). About an account
  that shares no text, `/partner/verify` answers to its own sessions and to no
  others: from `OwnInv`. Where texts are shared it may answer about another
  account than the session's, but only about one that has borne the text the
  session told: `AnswerInv`, with `Borne` (whoever has a text has borne it) and
  `AnswersNamed`, which holds for all accounts.

`PartnerAppsProofs`:

* `TypeCorrect`, with `Locals`: an application has a creator and a drawn secret.
* `SecretsReachOwners`: inductive with the types.
* `OrphansComeFromRenames`. `Stale`: a request tells the present name of its
  account or the account has renamed itself.
* `OnlyCreators` (under `~NamesReused`). `Held`: every name
  in an account, a request or a row is that of its first holder, which is the
  creator of the row.
* `AppsKeepPromise`. `Apart`: no two applications have one secret.

`CredentialsProofs`:

* `TypeCorrect`, with `Working`: requests exist while the server serves only.
* `ServedRowsAreProtected`. `Protected`: a row the migration has passed, or has
  not read because it did not exist, is safe, and every write keeps it so.
* `AnswersFit`. `AllFit`: the pair of question and answer was given together,
  in rows and in the copies edits work on.
* `ChosenPasswordsOpen`. `PasswordInv`: a copy no other edit has crossed has
  the password of its row (`Copies`).
* `QuestionsOpen`. `SealInv`: an encrypted question has the key that was in force
  when it was chosen or first migrated, and one that is not encrypted was not yet
  migrated or begins with `enc:v1:` (`SealedRight`). The copies of edits need no
  claim of their own: an edit writes the question of its form.

`BrowserProofs`, for any number of tokens, forms and requests out at a time:

* `TypeCorrect`. `Typed`: what a request carries, and what its answer sets, are
  values of their cookies, and a request without an answer has set nothing.
* `CancelledIsAsked`. `PendingInv` follows the attempt cookie through jar,
  requests and answers: wherever it is, the browser was asked; a page that lets
  in or logs out takes it away, so `asked` is never reset too early (`WasAsked`).
* `StaysOut`. `ForgottenInv`: once the browser is out, no request on its way
  carries a session, and no answer sets one (`Clean`); the answer of a logout
  clears both cookies (`SignsOut`). The jar alone is not inductive: an answer
  that is late brings back what it was given before.
* `FormsValidate`. `CsrfInv`: unless raced, a form on its way is that of the
  jar's cookie or brings the first one (`AgreesWithJar`), and only one page at a
  time is asked for before there is a cookie (`OneFirst`).
* `SignedInIsAdmitted`, an action property. `LiveInv`: in a `plain` browser one
  request is out (`OneAtATime`), and a cookie in the jar is live unless an
  answer that clears it is on its way.

`WizardProofs`:

* `TypeCorrect`, for which negotiation has to end in a language the pages have
  (`LanguageType`): the first match of a header exists (`FirstKnown`, the one
  place that needs a least element).
* `SignInsAreFinished`. `SignedInv`: while a sign-in was answered and no session
  has ended since, PPAuth is its session, which the last page prefers.
* `LinkIsOneAccounts`. `LinkInv`: in a wizard opened without an address, or with
  the user's where nobody else is signed in, addresses are the user's up to the
  last page (`UsersText`), and while there is one no cookie names anybody else
  (`Alone`), so whichever session the sign-in is answered for is the user's;
  without an address the last page takes the name from the ticket.

`TextsProofs`, for texts of any length over any set of symbols:

* `HeaderAlwaysArrives`, `SignInAlwaysLeadsBack`. What is escaped is free of
  separators and quotes (`EscapeBare`), so fields, quotes and queries are cut
  where they were put together, and what is cut out is read as it was
  (`EscapeReads`, by induction over the text: each symbol is read by itself,
  whatever well-formed text stands before it).
* `FormIsAlwaysTheAllowlist`. Two facts: joining what a form was split into and
  splitting it again changes nothing (`StoredSame`: the lines of a cleaned list
  hold no break and have nothing to trim, `Good`), and the parts of a split text
  are the stretches between its separators (`SplitHas`, by induction, with the
  part that is still open told from the ended ones, `Parted`).
* The text grows by a symbol in every step and nothing else changes, so the
  three properties are facts about every text and need its type only
  (`TextType`). The library's theorems on induction and recursive definitions
  take an operator, which the provers cannot instantiate. The module proves what
  it needs from the well-foundedness of the naturals instead, with the set of
  the texts a claim holds for in place of the claim (`Induction`,
  `TextInduction`) and with the step of a recursion as a function (`Recursion`,
  `RecursionUnique`); `FlattenAppend` and `SplitAppend` say by it what
  concatenation and splitting do with one more part or symbol.

Every safety invariant and every action property of the passing runs is stated
by a theorem. Only model-checked: liveness (`StaleEntryEvicted`, `ComesUp`,
`EndsInAPage`), which is out of the provers' reach, and the three runs that end
in a violation, which are counterexamples and need no proof.

## Not modelled

The legacy browser gate (a predicate of the user agent and the path), the
allowlist of classic return URLs (`AllowsRedirectURI` of the clients that are on, read
once per request), the cookie domain, the redirects of errors and the character
set of a wizard page decide about one request without state of their own. The
Nexus document, templates and static files are rendering. `tlspproxy`,
`gencert`, Docker and CI share no state with the server. SQLite's transactions
are atomic, random tokens are fresh, cryptography opens with the key it was
sealed with: these are assumptions.

## Plan

1. `AuthCodeTx`: deferred SQLite transactions with a lock upgrade, shown to
   implement the atomic `Consume` of `OAuthGrants`.
2. The composition of `Sessions` with `OAuthGrants` at the consent step.
