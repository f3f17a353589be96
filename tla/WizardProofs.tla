---------------------------- MODULE WizardProofs -----------------------------
(***************************************************************************)
(* For any accounts, hosts and languages: the wizard links the local       *)
(* account to one Passport, and finishes the sign-in it was answered.      *)
(***************************************************************************)
EXTENDS Wizard, SequenceTheorems, WellFoundedInduction, TLAPS

USE NoneAssumption, DeadAssumption, LcidsAssumption

-----------------------------------------------------------------------------
(* What the server writes. *)

LEMMA MinOfNaturals ==
  ASSUME NEW S \in SUBSET Nat, S /= {}
  PROVE  Min(S) \in S
<1> DEFINE less == {ss \in Nat \X Nat : ss[1] < ss[2]}
<1>1. OpToRel(<, Nat) = less
  BY Zenon DEF OpToRel
<1> HIDE DEF less
<1>2. \E x \in S : \A y \in S : <<y, x>> \notin less
  <2>1. \E x \in S : \A y \in S : ~(<<y, x>> \in OpToRel(<, Nat))
    BY NatLessThanWellFounded, WFMin
  <2> QED
    BY <1>1, <2>1, Zenon
<1>3. PICK x \in S : \A y \in S : <<y, x>> \notin less
  BY <1>2
<1>4. \A y \in S : x <= y
  <2> TAKE y \in S
  <2>1. x \in Nat /\ y \in Nat /\ <<y, x>> \notin less
    BY <1>3
  <2> QED
    BY <2>1 DEF less
<1> QED
  BY <1>3, <1>4 DEF Min

\* The first element of a sequence that passes a test is one of its elements
\* and passes it: here, the test of being a language at all.
LEMMA FirstKnown ==
  ASSUME NEW known \in Seq(SUBSET Languages),
         NEW i, i = SelectInSeq(known, LAMBDA s : s /= {}), i /= 0
  PROVE  known[i] /= {} /\ known[i] \in SUBSET Languages
<1> DEFINE I == {j \in 1..Len(known) : known[j] /= {}}
<1>1. I \in SUBSET Nat
  OBVIOUS
<1>2. SelectInSeq(known, LAMBDA s : s /= {}) = IF I /= {} THEN Min(I) ELSE 0
  BY DEF SelectInSeq
<1>3. i \in I
  BY <1>1, <1>2, MinOfNaturals
<1> QED
  BY <1>3, LenProperties

LEMMA LanguageType ==
  ASSUME NEW lcid, NEW langid, NEW tags \in Seq(STRING)
  PROVE  DetectWizardLanguage(lcid, langid, tags) \in Languages
<1> DEFINE head == <<LanguageFromLCID(lcid), LanguageFromLCID(langid)>>
           rest == [i \in DOMAIN tags |-> NormalizeLanguage(tags[i])]
           known == head \o rest
           first == SelectInSeq(known, LAMBDA s : s /= {})
<1>1. head \in Seq(SUBSET Languages)
  <2>1. \A id : LanguageFromLCID(id) \in SUBSET Languages
    BY DEF LanguageFromLCID, Languages
  <2> DEFINE S == SUBSET Languages
             a == LanguageFromLCID(lcid)
             b == LanguageFromLCID(langid)
  <2>2. a \in S /\ b \in S
    BY <2>1
  <2> HIDE DEF S, a, b
  <2>3. <<a, b>> \in Seq(S)
    BY <2>2
  <2> QED
    BY <2>3 DEF S, a, b
<1>2. rest \in Seq(SUBSET Languages)
  <2>1. rest \in [1..Len(tags) -> SUBSET Languages] /\ Len(tags) \in Nat
    BY LenProperties DEF NormalizeLanguage
  <2> HIDE DEF rest
  <2> QED
    BY <2>1, SeqDef
<1>3. known \in Seq(SUBSET Languages)
  BY <1>1, <1>2, ConcatProperties
<1>4. DetectWizardLanguage(lcid, langid, tags) =
        IF first = 0 THEN "en" ELSE CHOOSE language \in known[first] : TRUE
  BY DEF DetectWizardLanguage
<1> HIDE DEF known
<1>5. first /= 0 => known[first] /= {} /\ known[first] \in SUBSET Languages
  BY <1>3, FirstKnown
<1> HIDE DEF first
<1> QED
  BY <1>4, <1>5 DEF Languages

LEMMA TextFacts ==
  /\ NoText \in Text
  /\ \A a \in Accounts : /\ <<"sign-in", a>> \in Text /\ <<"name", a>> \in Text
                         /\ <<"sign-in", a>> /= NoText /\ <<"name", a>> /= NoText
                         /\ <<"sign-in", a>>[1] = "sign-in" /\ <<"name", a>>[1] = "name"
                         /\ <<"sign-in", a>>[2] = a /\ <<"name", a>>[2] = a
BY DEF Text, NoText

LEMMA PassportNameIs ==
  ASSUME NEW email \in Text, NEW name \in PassportName(email)
  PROVE  /\ name \in Text /\ Of(name) = Of(email)
<1>1. CASE email = NoText
  BY <1>1, TextFacts DEF PassportName
<1>2. ASSUME NEW a \in Accounts, email \in {<<"sign-in", a>>, <<"name", a>>}
      PROVE  name \in {<<"sign-in", a>>, <<"name", a>>}
  BY <1>2, TextFacts DEF PassportName
<1>3. email = NoText \/ \E a \in Accounts : email \in {<<"sign-in", a>>, <<"name", a>>}
  BY DEF Text
<1> QED
  BY <1>1, <1>2, <1>3, TextFacts DEF Of

\* A page of the server, field by field.
LEMMA Written ==
  ASSUME TypeOK, NEW step \in Steps, NEW email \in Text, NEW error \in Errors,
         NEW ticket \in Accounts \cup {None},
         NEW written \in WriteWizard(step, email, error, ticket)
  PROVE  /\ written \in Page
         /\ written.step = step /\ written.email = email /\ written.ticket = ticket
         /\ Of(written.name) = Of(email)
<1> DEFINE language == DetectWizardLanguage(url.lcid, url.langid, accept)
<1>1. language \in Languages
  BY LanguageType, AcceptsAssumption DEF TypeOK
<1>2. PICK name \in PassportName(email) :
        written = [step |-> step, email |-> email, name |-> name, ticket |-> ticket,
                   error |-> error, language |-> language]
  BY DEF WriteWizard
<1>3. name \in Text /\ Of(name) = Of(email)
  BY PassportNameIs
<1> HIDE DEF language
<1> QED
  BY <1>1, <1>2, <1>3 DEF Page

-----------------------------------------------------------------------------
(* Typing. *)

LEMMA ConstantsTyped ==
  /\ NoUrl \in Url /\ NoPage \in Page
  /\ NoLink \in [name: Text, ticket: Accounts \cup {None}]
  /\ NoUrl.step = "none" /\ NoUrl.email = NoText /\ ~NoUrl.passportrequired
  /\ NoPage.step = "none" /\ NoPage.email = NoText
  /\ NoLink.name = NoText /\ NoLink.ticket = None
BY TextFacts DEF NoUrl, Url, NoPage, Page, NoLink, Steps, Errors, Languages

LEMMA CookiesTyped ==
  ASSUME TypeOK
  PROVE  /\ Chosen \in Accounts \cup {None, Dead}
         /\ \A a \in Accounts : /\ [jar EXCEPT !["PPAuth"] = a] \in Jar
                                /\ [jar EXCEPT !["MSPAuth"] = a] \in Jar
                                /\ [cookie \in DOMAIN jar |-> a] \in Jar
BY DEF TypeOK, Jar, Chosen

LEMMA FinishNameType ==
  ASSUME NEW email \in Text, Chosen \in Accounts
  PROVE  FinishName(email) \in Text /\ FinishName(email) /= NoText
BY TextFacts DEF FinishName

LEMMA TypeInit == Init => TypeOK
BY ConstantsTyped DEF Init, TypeOK

LEMMA TypeNext == TypeOK /\ [Next]_vars => TypeOK'
<1> SUFFICES ASSUME TypeOK, [Next]_vars PROVE TypeOK'
  OBVIOUS
<1>0. /\ url \in Url /\ page \in Page /\ user \in Accounts /\ jar \in Jar
      /\ url.step \in Steps /\ url.email \in Text /\ page.step \in Steps /\ page.email \in Text
      /\ page.ticket \in Accounts \cup {None} /\ ErrorOf(url) \in Errors
      /\ {"1", "2", "3"} \subseteq Steps /\ {"none", "invalid"} \subseteq Errors
      /\ <<"sign-in", user>> \in Text
  BY TextFacts DEF TypeOK, Url, Page, ErrorOf, Errors, Steps
<1>1. ASSUME ServePage PROVE TypeOK'
  BY <1>0, <1>1, Written, ConstantsTyped DEF ServePage, TypeOK
<1>2. ASSUME ServeFinish PROVE TypeOK'
  <2>1. Chosen \in Accounts /\ page' \in WriteWizard("3", FinishName(url.email), "none", Chosen)
    BY <1>2 DEF ServeFinish, Found
  <2>2. page' \in Page
    BY <1>0, <2>1, Written, FinishNameType
  <2>3. jar' \in Jar
    BY <1>2, <2>1, CookiesTyped DEF ServeFinish
  <2> QED
    BY <1>2, <2>2, <2>3, ConstantsTyped DEF ServeFinish, TypeOK
<1>3. ASSUME ServeUnticketed PROVE TypeOK'
  <2>1. page' \in WriteWizard("3", url.email, "none", None)
    BY <1>3 DEF ServeUnticketed
  <2>2. page' \in Page
    BY <1>0, <2>1, Written
  <2> QED
    BY <1>3, <2>2, ConstantsTyped DEF ServeUnticketed, TypeOK
<1>4. ASSUME SendBack PROVE TypeOK'
  <2>1. url' \in Url
    BY <1>0, <1>4 DEF SendBack, NoUrl, Url
  <2> QED
    BY <1>4, <2>1 DEF SendBack, TypeOK
<1>5. ASSUME Fallback PROVE TypeOK'
  <2>1. url' \in Url
    BY <1>0, <1>5 DEF Fallback, NoUrl, Url
  <2>2. page' \in Page
    BY <1>0, <1>5, Written DEF Fallback
  <2>3. jar' \in Jar /\ signed' \in Accounts \cup {None}
    BY <1>0, <1>5, CookiesTyped DEF Fallback, TypeOK
  <2> QED
    BY <1>5, <2>1, <2>2, <2>3 DEF Fallback, TypeOK
<1>6. ASSUME Open PROVE TypeOK'
  <2>1. PICK lcid \in Lcids, langid \in Lcids, email \in Text :
          /\ own' = \/ email = NoText
                    \/ /\ email = <<"sign-in", user>>
                       /\ \A cookie \in DOMAIN jar : jar[cookie] \in {user, None, Dead}
          /\ url' = [NoUrl EXCEPT !.step = "1", !.email = email, !.lcid = lcid, !.langid = langid]
    BY <1>6 DEF Open
  <2>2. own' \in BOOLEAN
    BY <2>1
  <2>3. url' \in Url
    BY <1>0, <2>1 DEF NoUrl, Url
  <2> QED
    BY <1>6, <2>2, <2>3, ConstantsTyped DEF Open, TypeOK
<1>7. ASSUME Authenticate PROVE TypeOK'
  <2>1. url' \in Url
    BY <1>0, <1>7 DEF Authenticate, NoUrl, Url
  <2>2. \A a \in Accounts : SignedInAs(a) => jar' \in Jar /\ signed' \in Accounts \cup {None}
    BY CookiesTyped DEF SignedInAs
  <2>3. jar' \in Jar /\ signed' \in Accounts \cup {None}
    BY <1>0, <1>7, <2>2 DEF Authenticate, Found, TypeOK
  <2> QED
    BY <1>7, <2>1, <2>3 DEF Authenticate, TypeOK
<1>8. ASSUME OnBack PROVE TypeOK'
  <2>1. url' \in Url
    <3>1. url' = url \/ \E step \in {"1", "2"} : url' = [NoUrl EXCEPT !.step = step]
      BY <1>8 DEF OnBack
    <3>2. ASSUME NEW step \in {"1", "2"}, url' = [NoUrl EXCEPT !.step = step]
          PROVE  url' \in Url
      BY <1>0, <3>2, ConstantsTyped DEF NoUrl, Url
    <3> QED
      BY <1>0, <3>1, <3>2
  <2> QED
    BY <1>8, <2>1, ConstantsTyped DEF OnBack, TypeOK
<1>9. ASSUME FinishPassport PROVE TypeOK'
  BY <1>0, <1>9, ConstantsTyped DEF FinishPassport, TypeOK
<1>10. ASSUME OnCancel PROVE TypeOK'
  BY <1>10, ConstantsTyped DEF OnCancel, TypeOK
<1>11. ASSUME SessionDies PROVE TypeOK'
  <2>1. jar' \in Jar
    BY <1>0, <1>11 DEF SessionDies, Jar
  <2> QED
    BY <1>11, <2>1 DEF SessionDies, TypeOK
<1>12. CASE UNCHANGED vars
  BY <1>12 DEF vars, TypeOK
<1> QED
  BY <1>1, <1>2, <1>3, <1>4, <1>5, <1>6, <1>7, <1>8, <1>9, <1>10, <1>11, <1>12 DEF Next

\* Whatever the host sends and accepts, every page is in a language the server
\* has, and every address is a sign-in or a name (detectWizardLanguage).
THEOREM TypeCorrect == Spec => []TypeOK
BY TypeInit, TypeNext, PTL DEF Spec

-----------------------------------------------------------------------------
(* The sign-in that gets finished.                                         *)

\* The session of an answered sign-in is in the cookie the last page prefers.
SignedInv == signed /= None => jar["PPAuth"] = signed

LEMMA SignedInit == Init => SignedInv /\ SignInIsFinished
BY DEF Init, SignedInv, SignInIsFinished

LEMMA SignedNext ==
  TypeOK /\ SignedInv /\ SignInIsFinished /\ [Next]_vars => SignedInv' /\ SignInIsFinished'
<1> SUFFICES ASSUME TypeOK, SignedInv, SignInIsFinished, [Next]_vars
             PROVE  SignedInv' /\ SignInIsFinished'
  OBVIOUS
<1>0. /\ url \in Url /\ page \in Page /\ user \in Accounts /\ jar \in Jar
      /\ signed \in Accounts \cup {None}
      /\ url.step \in Steps /\ url.email \in Text /\ ErrorOf(url) \in Errors
      /\ {"1", "2", "3"} \subseteq Steps /\ {"none", "invalid"} \subseteq Errors
      /\ <<"sign-in", user>> \in Text
  BY TextFacts DEF TypeOK, Url, Page, ErrorOf, Errors, Steps
\* A step that leaves the jar alone and shows no last page.
<1>1. ASSUME jar' = jar, signed' = signed, page' = page \/ page'.step /= "3",
             url' = url \/ ~url'.passportrequired
      PROVE  SignedInv' /\ SignInIsFinished'
  BY <1>1 DEF SignedInv, SignInIsFinished
<1>2. ASSUME signed' = None PROVE SignedInv' /\ SignInIsFinished'
  BY <1>2 DEF SignedInv, SignInIsFinished
\* A sign-in that is answered.
<1>3. ASSUME NEW a \in Accounts, signed' = a, jar'["PPAuth"] = a, page' = page,
             page.step /= "3", ~url'.passportrequired
      PROVE  SignedInv' /\ SignInIsFinished'
  BY <1>3 DEF SignedInv, SignInIsFinished
<1>4. ASSUME ServePage PROVE SignedInv' /\ SignInIsFinished'
  <2>1. page'.step = url.step /\ url.step /= "3"
    BY <1>0, <1>4, Written DEF ServePage
  <2> QED
    BY <1>1, <1>4, <2>1, ConstantsTyped DEF ServePage
<1>5. ASSUME ServeFinish PROVE SignedInv' /\ SignInIsFinished'
  <2>1. /\ Chosen \in Accounts /\ url' = NoUrl /\ signed' = signed
        /\ jar' = [jar EXCEPT !["MSPAuth"] = Chosen]
        /\ page' \in WriteWizard("3", FinishName(url.email), "none", Chosen)
    BY <1>5 DEF ServeFinish, Found
  <2>2. page'.ticket = Chosen
    BY <1>0, <2>1, Written, FinishNameType
  <2>3. signed /= None => Chosen = signed
    BY <1>0 DEF SignedInv, Chosen
  <2>4. jar'["PPAuth"] = jar["PPAuth"]
    BY <1>0, <2>1 DEF Jar
  <2> QED
    BY <2>1, <2>2, <2>3, <2>4, ConstantsTyped DEF SignedInv, SignInIsFinished
<1>6. ASSUME Fallback PROVE SignedInv' /\ SignInIsFinished'
  <2>1. CASE /\ jar' = [cookie \in DOMAIN jar |-> user] /\ signed' = user
             /\ url' = [NoUrl EXCEPT !.step = "3", !.email = <<"sign-in", user>>]
             /\ UNCHANGED page
    <3>1. jar'["PPAuth"] = user /\ ~url'.passportrequired /\ page.step /= "3"
      BY <1>0, <1>6, <2>1 DEF Fallback, Jar, NoUrl
    <3> QED
      BY <1>0, <1>3, <2>1, <3>1
  <2>2. CASE /\ page' \in WriteWizard("2", <<"sign-in", user>>, "invalid", None)
             /\ UNCHANGED <<jar, signed, url>>
    <3>1. page'.step = "2"
      BY <1>0, <2>2, Written
    <3> QED
      BY <1>1, <2>2, <3>1
  <2> QED
    BY <1>6, <2>1, <2>2 DEF Fallback
<1>7. ASSUME Authenticate PROVE SignedInv' /\ SignInIsFinished'
  <2>1. ~url'.passportrequired /\ page' = page /\ page.step = "1"
    BY <1>7 DEF Authenticate, NoUrl
  <2>2. ASSUME NEW a \in Accounts, SignedInAs(a) PROVE SignedInv' /\ SignInIsFinished'
    <3>1. signed' = a /\ jar'["PPAuth"] = a
      BY <1>0, <2>2 DEF SignedInAs, Jar
    <3> QED
      BY <1>3, <2>1, <3>1
  <2> QED
    BY <1>0, <1>1, <1>7, <2>1, <2>2 DEF Authenticate, Found
<1>8. ASSUME Open \/ OnBack \/ FinishPassport \/ OnCancel PROVE SignedInv' /\ SignInIsFinished'
  <2>1. jar' = jar /\ signed' = signed /\ page' \in {page, NoPage}
    BY <1>8 DEF Open, OnBack, FinishPassport, OnCancel
  <2>2. url' = url \/ ~url'.passportrequired
    BY <1>8, ConstantsTyped DEF Open, OnBack, FinishPassport, OnCancel, NoUrl
  <2> QED
    BY <1>1, <2>1, <2>2, ConstantsTyped
<1>9. CASE ServeUnticketed \/ SendBack \/ SessionDies
  BY <1>2, <1>9 DEF ServeUnticketed, SendBack, SessionDies
<1>10. CASE UNCHANGED vars
  BY <1>1, <1>10 DEF vars
<1> QED
  BY <1>4, <1>5, <1>6, <1>7, <1>8, <1>9, <1>10 DEF Next

\* A sign-in that was answered ends with the last page and the ticket of that
\* sign-in, whoever's sessions the cookies named before and wherever the host
\* went in between, unless a session ends or a lookup fails (handleLogin,
\* handleWizard).
THEOREM SignInsAreFinished == Spec => []SignInIsFinished
BY TypeInit, TypeNext, SignedInit, SignedNext, PTL DEF Spec

-----------------------------------------------------------------------------
(* The account that gets linked.                                           *)

UsersText == {NoText, <<"sign-in", user>>, <<"name", user>>}

Alone == \A cookie \in DOMAIN jar : jar[cookie] \in {user, None, Dead}

\* Until the last page every address is the user's, and while one is there no
\* cookie names anybody else.  The last page and what Windows was told have
\* the account of their ticket, or nobody but the user.
LinkInv ==
  own => /\ url.email \in UsersText
         /\ page.step = "1" => page.email \in UsersText
         /\ url.email /= NoText /\ url.step \in {"1", "3"} => Alone
         /\ page.step = "1" /\ page.email /= NoText => Alone
         /\ page.step = "3" =>
              /\ Of(page.name) = Of(page.email)
              /\ IF page.ticket = None THEN Of(page.email) \subseteq {user}
                 ELSE Of(page.email) = {page.ticket}
         /\ IF linked.ticket = None THEN Of(linked.name) \subseteq {user}
            ELSE Of(linked.name) = {linked.ticket}

LEMMA LinkInit == Init => LinkInv
BY ConstantsTyped DEF Init, LinkInv, UsersText, Of

LEMMA LinkNext == TypeOK /\ LinkInv /\ [Next]_vars => LinkInv'
<1> SUFFICES ASSUME TypeOK, LinkInv, [Next]_vars PROVE LinkInv'
  OBVIOUS
<1>0. /\ user' = user /\ UsersText' = UsersText /\ UsersText \subseteq Text
      /\ \A text \in UsersText : Of(text) \subseteq {user}
      /\ \A text \in UsersText \ {NoText} : Of(text) = {user}
      /\ url.email \in Text /\ page.email \in Text /\ user \in Accounts /\ jar \in Jar
      /\ url.step \in Steps /\ page.step \in Steps
      /\ {"1", "2", "3"} \subseteq Steps /\ {"none", "invalid"} \subseteq Errors
      /\ ErrorOf(url) \in Errors /\ <<"sign-in", user>> \in UsersText \ {NoText}
  <2>1. user' = user
    BY DEF Next, ServePage, ServeFinish, ServeUnticketed, SendBack, Fallback, Open, Authenticate,
           OnBack, FinishPassport, OnCancel, SessionDies, vars
  <2>2. UsersText' = UsersText
    BY <2>1 DEF UsersText
  <2>3. user \in Accounts
    BY DEF TypeOK
  <2>4. /\ <<"sign-in", user>> \in Text /\ <<"name", user>> \in Text /\ NoText \in Text
        /\ Of(NoText) = {} /\ Of(<<"sign-in", user>>) = {user} /\ Of(<<"name", user>>) = {user}
        /\ <<"sign-in", user>> /= NoText
    BY <2>3, TextFacts DEF Of
  <2> QED
    BY <2>1, <2>2, <2>3, <2>4 DEF TypeOK, Url, Page, UsersText, Steps, Errors, ErrorOf
\* A step that brings no address, and nobody's session but the user's.
<1>1. ASSUME own' = own, linked' = linked, page' \in {page, NoPage}, Alone => Alone',
             \/ url' = url
             \/ url'.email = NoText
             \/ url'.email = url.email /\ url.step = "3"
             \/ url'.email = page.email /\ page.step = "1"
      PROVE  LinkInv'
  <2> SUFFICES ASSUME own PROVE LinkInv'
    BY <1>1 DEF LinkInv
  <2>1. linked'.name = linked.name /\ linked'.ticket = linked.ticket
    BY <1>1
  <2>2. NoText \in UsersText
    BY DEF UsersText
  <2>3. /\ url'.email \in UsersText
        /\ url'.email /= NoText /\ url'.step \in {"1", "3"} => Alone'
    BY <1>0, <1>1, <2>2 DEF LinkInv
  <2>4. /\ page'.step = "1" => page'.email \in UsersText
        /\ page'.step = "1" /\ page'.email /= NoText => Alone'
    BY <1>1, <2>2, ConstantsTyped DEF LinkInv
  <2>5. page'.step = "3" => page' = page
    BY <1>1, ConstantsTyped
  <2> QED
    BY <1>0, <2>1, <2>3, <2>4, <2>5 DEF LinkInv, Of
<1>2. ASSUME ServePage PROVE LinkInv'
  <2>1. /\ url.step \in {"1", "2"} /\ url' = NoUrl /\ UNCHANGED <<jar, linked, own>>
        /\ page' \in WriteWizard(url.step, url.email, ErrorOf(url), None)
    BY <1>2 DEF ServePage
  <2>2. page'.step = url.step /\ page'.email = url.email
    BY <1>0, <2>1, Written
  <2>3. Alone => Alone'
    BY <1>0, <2>1 DEF Alone
  <2>4. linked'.name = linked.name /\ linked'.ticket = linked.ticket /\ own' = own
    BY <2>1
  <2>5. url'.step = "none" /\ url'.email = NoText /\ NoText \in UsersText /\ page'.step /= "3"
    BY <2>1, <2>2, ConstantsTyped DEF UsersText
  <2>6. own => /\ page'.email \in UsersText
               /\ page'.step = "1" /\ page'.email /= NoText => Alone'
    BY <2>2, <2>3 DEF LinkInv
  <2> QED
    BY <1>0, <2>4, <2>5, <2>6 DEF LinkInv, Of
\* The last page, when it has the account of its ticket or nobody but the user.
<1>3. ASSUME own' = own, linked' = linked, url' = NoUrl, page'.step = "3",
             Of(page'.name) = Of(page'.email),
             own => IF page'.ticket = None THEN Of(page'.email) \subseteq {user}
                    ELSE Of(page'.email) = {page'.ticket}
      PROVE  LinkInv'
  <2>1. UsersText' = UsersText /\ NoText \in UsersText
    BY <1>0 DEF UsersText
  <2>2. linked'.name = linked.name /\ linked'.ticket = linked.ticket
    BY <1>3
  <2> QED
    BY <1>0, <1>3, <2>1, <2>2, ConstantsTyped DEF LinkInv, Of
<1>4. ASSUME ServeFinish PROVE LinkInv'
  <2>1. /\ url.step = "3" /\ Chosen \in Accounts /\ url' = NoUrl /\ UNCHANGED <<linked, own>>
        /\ page' \in WriteWizard("3", FinishName(url.email), "none", Chosen)
    BY <1>4 DEF ServeFinish, Found
  <2>2. /\ page'.step = "3" /\ page'.ticket = Chosen /\ page'.email = FinishName(url.email)
        /\ Of(page'.name) = Of(page'.email)
    BY <1>0, <2>1, Written, FinishNameType
  <2>3. own => Of(FinishName(url.email)) = {Chosen}
    <3>1. CASE url.email = NoText
      BY <2>1, <3>1, TextFacts DEF FinishName, Of
    <3>2. ASSUME url.email /= NoText, own PROVE Of(FinishName(url.email)) = {Chosen}
      <4>1. Alone /\ url.email \in UsersText \ {NoText}
        BY <2>1, <3>2 DEF LinkInv
      <4>2. Chosen = user
        BY <1>0, <2>1, <4>1 DEF Alone, Chosen, Jar
      <4> QED
        BY <1>0, <3>2, <4>1, <4>2 DEF FinishName
    <3> QED
      BY <3>1, <3>2
  <2> QED
    BY <1>3, <2>1, <2>2, <2>3
<1>5. ASSUME ServeUnticketed PROVE LinkInv'
  <2>1. /\ url.step = "3" /\ url' = NoUrl /\ UNCHANGED <<linked, own>>
        /\ page' \in WriteWizard("3", url.email, "none", None)
    BY <1>5 DEF ServeUnticketed
  <2>2. /\ page'.step = "3" /\ page'.ticket = None /\ page'.email = url.email
        /\ Of(page'.name) = Of(page'.email)
    BY <1>0, <2>1, Written
  <2>3. own => Of(url.email) \subseteq {user}
    BY <1>0 DEF LinkInv
  <2> QED
    BY <1>3, <2>1, <2>2, <2>3
<1>6. ASSUME SendBack PROVE LinkInv'
  <2>1. /\ url.step = "3" /\ url'.email = url.email /\ UNCHANGED <<page, jar, linked, own>>
    BY <1>6 DEF SendBack, NoUrl
  <2>2. Alone => Alone'
    BY <1>0, <2>1 DEF Alone
  <2> QED
    BY <1>1, <2>1, <2>2
<1>7. ASSUME Fallback PROVE LinkInv'
  <2>1. UNCHANGED <<linked, own>> /\ page.step = "2"
    BY <1>7 DEF Fallback
  <2>2. CASE /\ jar' = [cookie \in DOMAIN jar |-> user] /\ UNCHANGED page
             /\ url' = [NoUrl EXCEPT !.step = "3", !.email = <<"sign-in", user>>]
    <3>1. url'.email = <<"sign-in", user>>
      BY <2>2 DEF NoUrl
    <3>2. Alone'
      BY <1>0, <2>2 DEF Alone
    <3>3. page'.step = "2"
      BY <2>1, <2>2
    <3> QED
      BY <1>0, <2>1, <3>1, <3>2, <3>3 DEF LinkInv
  <2>3. CASE /\ page' \in WriteWizard("2", <<"sign-in", user>>, "invalid", None)
             /\ UNCHANGED <<jar, url>>
    <3>1. page'.step = "2" /\ page'.email = <<"sign-in", user>>
      BY <1>0, <2>3, Written
    <3>2. Alone => Alone'
      BY <1>0, <2>3 DEF Alone
    <3> QED
      BY <1>0, <2>1, <2>3, <3>1, <3>2 DEF LinkInv
  <2> QED
    BY <1>7, <2>2, <2>3 DEF Fallback
<1>8. ASSUME Open PROVE LinkInv'
  <2>1. PICK lcid \in Lcids, langid \in Lcids, email \in Text :
          /\ own' = \/ email = NoText
                    \/ /\ email = <<"sign-in", user>>
                       /\ \A cookie \in DOMAIN jar : jar[cookie] \in {user, None, Dead}
          /\ url' = [NoUrl EXCEPT !.step = "1", !.email = email, !.lcid = lcid, !.langid = langid]
    BY <1>8 DEF Open
  <2>2. url'.step = "1" /\ url'.email = email
    BY <2>1 DEF NoUrl
  <2>3. page' = NoPage /\ linked' = NoLink /\ jar' = jar
    BY <1>8 DEF Open
  <2>4. own' => email \in UsersText /\ (email /= NoText => Alone')
    <3>1. Alone' <=> \A cookie \in DOMAIN jar : jar[cookie] \in {user, None, Dead}
      BY <1>0, <2>3 DEF Alone
    <3> QED
      BY <2>1, <3>1 DEF UsersText
  <2>5. Of(NoText) = {}
    BY DEF Of
  <2> QED
    BY <1>0, <2>2, <2>3, <2>4, <2>5, ConstantsTyped DEF LinkInv, Of
<1>9. ASSUME Authenticate PROVE LinkInv'
  <2>1. /\ UNCHANGED <<page, linked, own>> /\ page.step = "1" /\ url'.email = page.email
    BY <1>9 DEF Authenticate, NoUrl
  <2>2. Alone => Alone'
    <3>1. Alone => Chosen \in {user, None, Dead}
      BY <1>0 DEF Alone, Chosen, Jar
    <3>2. ASSUME NEW a \in Accounts, a = user, SignedInAs(a), Alone PROVE Alone'
      BY <1>0, <3>2 DEF SignedInAs, Alone, Jar
    <3>3. ASSUME jar' = jar, Alone PROVE Alone'
      BY <1>0, <3>3 DEF Alone
    <3> QED
      BY <1>0, <1>9, <3>1, <3>2, <3>3 DEF Authenticate, Found
  <2> QED
    BY <1>1, <2>1, <2>2
<1>10. ASSUME OnBack PROVE LinkInv'
  <2>1. /\ UNCHANGED <<jar, linked, own>> /\ page' \in {page, NoPage}
        /\ url' = url \/ url'.email = NoText
    BY <1>10 DEF OnBack, NoUrl
  <2>2. Alone => Alone'
    BY <1>0, <2>1 DEF Alone
  <2> QED
    BY <1>1, <2>1, <2>2
<1>11. ASSUME FinishPassport PROVE LinkInv'
  <2>1. /\ page.step = "3" /\ page' = NoPage /\ UNCHANGED <<url, jar, own>>
        /\ linked'.name = page.email /\ linked'.ticket = page.ticket
    BY <1>11 DEF FinishPassport
  <2>2. Alone => Alone'
    BY <1>0, <2>1 DEF Alone
  <2>3. Of(linked'.name) = Of(page.email)
    BY <2>1
  <2> QED
    BY <1>0, <2>1, <2>2, <2>3, ConstantsTyped DEF LinkInv, Of
<1>12. ASSUME OnCancel PROVE LinkInv'
  <2>1. Alone => Alone'
    BY <1>0, <1>12 DEF OnCancel, Alone
  <2> QED
    BY <1>1, <1>12, <2>1, ConstantsTyped DEF OnCancel
<1>13. ASSUME SessionDies PROVE LinkInv'
  <2>1. Alone => Alone'
    BY <1>0, <1>13 DEF SessionDies, Alone
  <2> QED
    BY <1>1, <1>13, <2>1 DEF SessionDies
<1>14. ASSUME UNCHANGED vars PROVE LinkInv'
  <2>1. Alone => Alone'
    BY <1>0, <1>14 DEF vars, Alone
  <2> QED
    BY <1>1, <1>14, <2>1 DEF vars
<1> QED
  BY <1>2, <1>4, <1>5, <1>6, <1>7, <1>8, <1>9, <1>10, <1>11, <1>12, <1>13, <1>14 DEF Next

\* A wizard opened with no address, or with the user's in a browser nobody else
\* is signed in to, links the local account to the account of its ticket and
\* shows that account on the last page, whoever's session the sign-in found
\* there and wherever sessions end on the way; without a ticket it names nobody
\* but the user (handleLogin, handleWizard, finishPassport).
THEOREM LinkIsOneAccounts == Spec => []LinksOneAccount
<1>1. LinkInv => LinksOneAccount
  BY DEF LinkInv, LinksOneAccount
<1> QED
  BY <1>1, TypeInit, TypeNext, LinkInit, LinkNext, PTL DEF Spec
=============================================================================
