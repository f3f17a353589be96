------------------------------- MODULE Wizard --------------------------------
(***************************************************************************)
(* The Passport wizard of Windows XP: three pages the server writes and    *)
(* the wizard host shows, with the script in them that asks for the next   *)
(* page, and the link between the local account and a Passport they end    *)
(* in.  The server keeps nothing between two pages: the step and the       *)
(* address travel in the URL, the session in cookies, and the language is  *)
(* found anew for each page.                                               *)
(*                                                                         *)
(* One action is one event of the host's script or one request served.     *)
(* Of a token, this module has the account it signs in, and of the browser *)
(* the two cookies: nothing else uses them while the wizard is open, and   *)
(* tickets in a header are in module Browser.  No sign-in is another's     *)
(* Passport name (module Identity has those).                              *)
(***************************************************************************)
EXTENDS Sequences, SequencesExt

CONSTANTS
  Accounts,  \* registered accounts
  Lcids,     \* values of lcid and langid the host sends, "none" for none
  Accepts,   \* values of Accept-Language, as sequences of tags
  None,      \* no cookie, no account
  Dead,      \* a cookie whose session has ended
  StoreFails \* whether the lookup of a token or a name may fail

ASSUME NoneAssumption == None \notin Accounts
ASSUME DeadAssumption == Dead \notin Accounts \cup {None}
ASSUME StoreFailsAssumption == StoreFails \in BOOLEAN
ASSUME LcidsAssumption == "none" \in Lcids
ASSUME AcceptsAssumption == Accepts \subseteq Seq(STRING)

VARIABLES
  accept,   \* Accept-Language of this host
  url,      \* what the host has asked for, NoUrl when it waits
  page,     \* the page it shows, NoPage before the first and after the last
  jar,      \* whose session each of its two cookies names
  user,     \* the account the user at the host has in mind
  linked,   \* what Windows was told at the end: a name and a ticket
  own,      \* history: the host opened the wizard with no address, or with the
            \* user's and no cookie of anybody else
  signed    \* history: whom the wizard's sign-in was answered for last, None
            \* once a session has ended or a lookup of it failed since

vars == <<accept, url, page, jar, user, linked, own, signed>>

-----------------------------------------------------------------------------

Steps == {"none", "1", "2", "3"}
Errors == {"none", "native", "required", "invalid"}
Languages == {"en", "ru"}

\* What stands in an address field: nothing, a sign-in or a Passport name.
NoText == <<>>
Text == {NoText} \cup ({"sign-in", "name"} \X Accounts)

Url == [step: Steps, email: Text, lcid: Lcids, langid: Lcids,
        nativeerror: BOOLEAN, passportrequired: BOOLEAN]

NoUrl == [step |-> "none", email |-> NoText, lcid |-> "none", langid |-> "none",
          nativeerror |-> FALSE, passportrequired |-> FALSE]

Page == [step: Steps, email: Text, name: Text, ticket: Accounts \cup {None},
         error: Errors, language: Languages]

NoPage == [step |-> "none", email |-> NoText, name |-> NoText, ticket |-> None,
           error |-> "none", language |-> "en"]

Jar == [{"PPAuth", "MSPAuth"} -> Accounts \cup {None, Dead}]

NoLink == [name |-> NoText, ticket |-> None]

TypeOK ==
  /\ accept \in Accepts /\ url \in Url /\ page \in Page
  /\ jar \in Jar /\ user \in Accounts
  /\ linked \in [name: Text, ticket: Accounts \cup {None}]
  /\ own \in BOOLEAN /\ signed \in Accounts \cup {None}

Init ==
  /\ accept \in Accepts
  /\ url = NoUrl /\ page = NoPage /\ linked = NoLink
  /\ jar \in Jar
  /\ user \in Accounts
  /\ own = TRUE /\ signed = None

-----------------------------------------------------------------------------
(* What the server writes.                                                 *)

LanguageFromLCID(lcid) == CASE lcid = "1049" -> {"ru"}
                            [] lcid = "1033" -> {"en"}
                            [] OTHER -> {}

NormalizeNothing(tag) == {tag}

NormalizeLanguage(tag) == {tag} \cap Languages

\* The first of lcid, langid and the tags of Accept-Language that is known.
DetectWizardLanguage(lcid, langid, tags) ==
  LET known == <<LanguageFromLCID(lcid), LanguageFromLCID(langid)>>
                 \o [i \in DOMAIN tags |-> NormalizeLanguage(tags[i])]
      first == SelectInSeq(known, LAMBDA s : s /= {})
  IN IF first = 0 THEN "en" ELSE CHOOSE language \in known[first] : TRUE

\* The names shown for an address: the account's, or the address itself.
PassportName(email) ==
  IF email /= NoText /\ email[1] = "sign-in"
  THEN {<<"name", email[2]>>} \cup (IF StoreFails THEN {email} ELSE {})
  ELSE {email}

WriteWizard(step, email, error, ticket) ==
  {[step |-> step, email |-> email, name |-> name, ticket |-> ticket, error |-> error,
    language |-> DetectWizardLanguage(url.lcid, url.langid, accept)] :
     name \in PassportName(email)}

-----------------------------------------------------------------------------
(* handleWizard.                                                           *)

ErrorOf(u) ==
  IF u.step /= "2" THEN "none"
  ELSE IF u.passportrequired THEN "required"
  ELSE IF u.nativeerror THEN "native" ELSE "none"

ServePage ==
  /\ url.step \in {"1", "2"}
  /\ page' \in WriteWizard(url.step, url.email, ErrorOf(url), None)
  /\ url' = NoUrl
  /\ UNCHANGED <<accept, jar, user, linked, own, signed>>

ChosenByMSPAuth == IF jar["MSPAuth"] /= None THEN jar["MSPAuth"] ELSE jar["PPAuth"]

\* The last page takes its ticket from one cookie, its gate looks at the other.
Chosen == IF jar["PPAuth"] /= None THEN jar["PPAuth"] ELSE jar["MSPAuth"]

Checked == IF jar["MSPAuth"] /= None THEN jar["MSPAuth"] ELSE jar["PPAuth"]

Found(session) == session \in Accounts

Missed(session) == session \notin Accounts \/ StoreFails

FinishNameFromUrl(email) == email

\* Step 3 names the session's account only when the URL has no address.
FinishName(email) == IF email = NoText THEN <<"name", Chosen>> ELSE email

ServeFinish ==
  /\ url.step = "3" /\ Found(Chosen)
  /\ page' \in WriteWizard("3", FinishName(url.email), "none", Chosen)
  /\ jar' = [jar EXCEPT !["MSPAuth"] = Chosen]
  /\ url' = NoUrl
  /\ UNCHANGED <<accept, user, linked, own, signed>>

\* The chosen token is missed and the checked one is found: no ticket.
ServeUnticketed ==
  /\ url.step = "3" /\ Missed(Chosen) /\ Found(Checked)
  /\ page' \in WriteWizard("3", url.email, "none", None)
  /\ url' = NoUrl /\ signed' = None
  /\ UNCHANGED <<accept, jar, user, linked, own>>

SendBackAgain ==
  /\ url.step = "3" /\ Missed(Chosen) /\ Missed(Checked)
  /\ url' = [NoUrl EXCEPT !.step = "3", !.email = url.email, !.passportrequired = TRUE]
  /\ signed' = None
  /\ UNCHANGED <<accept, page, jar, user, linked, own>>

SendBack ==
  /\ url.step = "3" /\ Missed(Chosen) /\ Missed(Checked)
  /\ url' = [NoUrl EXCEPT !.step = "1", !.email = url.email, !.passportrequired = TRUE]
  /\ signed' = None
  /\ UNCHANGED <<accept, page, jar, user, linked, own>>

\* A form no page offers any more: step 2 with fallback=1.
Fallback ==
  /\ page.step = "2" /\ url = NoUrl
  /\ \/ /\ jar' = [cookie \in DOMAIN jar |-> user] /\ signed' = user
        /\ url' = [NoUrl EXCEPT !.step = "3", !.email = <<"sign-in", user>>]
        /\ UNCHANGED page
     \/ /\ page' \in WriteWizard("2", <<"sign-in", user>>, "invalid", None)
        /\ UNCHANGED <<jar, signed, url>>
  /\ UNCHANGED <<accept, user, linked, own>>

-----------------------------------------------------------------------------
(* The host and the script of the page it shows.                           *)

Open ==
  /\ page = NoPage /\ url = NoUrl
  /\ \E lcid, langid \in Lcids, a \in Accounts, email \in Text :
       /\ email \in {NoText, <<"sign-in", a>>}
       /\ own' = \/ email = NoText
                 \/ /\ email = <<"sign-in", user>>
                    /\ \A cookie \in DOMAIN jar : jar[cookie] \in {user, None, Dead}
       /\ url' = [NoUrl EXCEPT !.step = "1", !.email = email, !.lcid = lcid, !.langid = langid]
  /\ linked' = NoLink
  /\ UNCHANGED <<accept, page, jar, user, signed>>

\* login2.asp answers for the account of the credentials, or without any for
\* the session that is there; the host may take the ticket back to
\* passport-signin.asp, which sets the other cookie.
SignedInAs(a) ==
  /\ signed' = a
  /\ jar' \in {[jar EXCEPT !["PPAuth"] = a], [cookie \in DOMAIN jar |-> a]}

\* OnNext on the first page: PassportAuthenticate.
Authenticate ==
  /\ page.step = "1" /\ url = NoUrl
  /\ \/ /\ SignedInAs(user) \/ (Found(Chosen) /\ SignedInAs(Chosen))
        /\ url' = [NoUrl EXCEPT !.step = "3", !.email = page.email]
     \/ /\ url' = [NoUrl EXCEPT !.step = "2", !.email = page.email, !.nativeerror = TRUE]
        /\ UNCHANGED <<jar, signed>>
  /\ UNCHANGED <<accept, page, user, linked, own>>

OnBack ==
  /\ page /= NoPage /\ url = NoUrl
  /\ IF page.step = "1"
     THEN page' = NoPage /\ UNCHANGED url
     ELSE /\ url' = [NoUrl EXCEPT !.step = IF page.step = "3" THEN "2" ELSE "1"]
          /\ UNCHANGED page
  /\ UNCHANGED <<accept, jar, user, linked, own, signed>>

\* finishPassport, 250 ms after the last page has loaded.
FinishPassport ==
  /\ page.step = "3" /\ url = NoUrl
  /\ linked' = [name |-> page.email, ticket |-> page.ticket]
  /\ page' = NoPage
  /\ UNCHANGED <<accept, url, jar, user, own, signed>>

OnCancel ==
  /\ page /= NoPage
  /\ page' = NoPage /\ url' = NoUrl
  /\ UNCHANGED <<accept, jar, user, linked, own, signed>>

\* Two cookies of one account may name one token or two.
SessionDies ==
  /\ \E ended \in SUBSET {cookie \in DOMAIN jar : Found(jar[cookie])} \ {{}} :
       jar' = [cookie \in DOMAIN jar |-> IF cookie \in ended THEN Dead ELSE jar[cookie]]
  /\ signed' = None
  /\ UNCHANGED <<accept, url, page, user, linked, own>>

Next ==
  \/ ServePage \/ ServeFinish \/ ServeUnticketed \/ SendBack \/ Fallback
  \/ Open \/ Authenticate \/ OnBack \/ FinishPassport \/ OnCancel \/ SessionDies

Spec == Init /\ [][Next]_vars

\* The server answers what it is asked, and the host follows its redirects.
FairSpec == Spec /\ WF_vars(ServePage \/ ServeFinish \/ ServeUnticketed \/ SendBack)

-----------------------------------------------------------------------------
(* Properties.                                                             *)

Of(text) == IF text = NoText THEN {} ELSE {text[2]}

\* The name Windows binds the local account to belongs to the account whose
\* ticket it gets, and so does the name the last page shows, although the name
\* comes from the URL and the ticket from a cookie that another account's
\* session may have left there (handleWizard, finishPassport); a page that has
\* no ticket has no other name than the user's.  The exceptions are a wizard
\* opened with somebody else's address, and one opened with the user's address
\* in a browser where somebody else is signed in.
LinksOneAccount ==
  own => /\ IF linked.ticket = None THEN Of(linked.name) \subseteq {user}
            ELSE Of(linked.name) = {linked.ticket}
         /\ page.step = "3" => IF page.ticket = None THEN Of(page.name) \subseteq {user}
                               ELSE Of(page.name) = {page.ticket}

\* A host whose sign-in was answered gets the last page, with the ticket of that
\* sign-in, whatever older session either cookie still names: it is not sent
\* back to the first page, and gets no page without a ticket, as long as no
\* session ends and no lookup fails (handleLogin, handleWizard).
SignInIsFinished ==
  signed /= None => /\ ~url.passportrequired
                    /\ page.step = "3" => page.ticket = signed

\* Whatever the host asks for, it ends with a page: a session that dies on the
\* way to the last page leads to the first one, not into redirects without end
\* (handleWizard).
EndsInAPage == url /= NoUrl ~> url = NoUrl

=============================================================================
