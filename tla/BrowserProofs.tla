---------------------------- MODULE BrowserProofs ----------------------------
(***************************************************************************)
(* For any number of tokens, forms and requests side by side, and whatever *)
(* the browser asks for beside what: what its cookies say is what it was   *)
(* asked, let in to and signed out of.                                     *)
(*                                                                         *)
(* Each argument follows a cookie through the three places it can be in:   *)
(* the jar, the copy a request has left with, and an answer on its way.    *)
(***************************************************************************)
EXTENDS Browser, TLAPS

USE NoneAssumption, FlagsAssumption, VisitsAssumption

-----------------------------------------------------------------------------
(* Typing: a cookie holds values of its own kind, wherever it is. *)

Typed(q) ==
  /\ \A c \in Cookies : /\ q.jar[c] \in Values(c) \cup {None}
                        /\ q.set[c] \in Values(c) \cup {None, Keep}
  /\ \A c \in SessionCookies : /\ q.jar[c] \in issued \cup {None}
                               /\ q.set[c] \in issued \cup {None, Keep}
  /\ q.auth \in issued \cup {None} /\ q.ticket \in issued \cup {None}
  /\ q.csrf \in open \cup {None} /\ q.form \in given \cup {None}
  /\ q.pc = "sent" => q.set = AsIs /\ q.page = "none" /\ q.form = None
  /\ q.pc = "idle" => q = Idle

TypeInv == TypeOK /\ \A r \in Requests : Typed(req[r])

LEMMA ValuesOf ==
  /\ Values("PPAuth") = Tokens /\ Values("MSPAuth") = Tokens
  /\ Values("attempt") = {"1"} /\ Values("LPCsrf") = Forms
BY DEF Values, SessionCookies

LEMMA NoCookiesTyped ==
  /\ NoCookies \in [Cookies -> Value] /\ AsIs \in [Cookies -> Value \cup {Keep}]
  /\ \A c \in Cookies : NoCookies[c] = None /\ AsIs[c] = Keep
BY DEF NoCookies, AsIs, Value

LEMMA IdleTyped ==
  /\ Idle \in Request /\ Typed(Idle)
  /\ Idle.pc = "idle" /\ Idle.op = "none" /\ Idle.jar = NoCookies
  /\ Idle.auth = None /\ Idle.csrf = None /\ Idle.set = AsIs
  /\ Idle.page = "none" /\ Idle.ticket = None /\ Idle.form = None
BY NoCookiesTyped DEF Idle, Request, Typed, SessionCookies, Cookies, Pages

LEMMA TypeInit == Init => TypeInv
BY IdleTyped, NoCookiesTyped DEF Init, TypeInv, TypeOK, SessionCookies, Cookies

\* What a request is once it has been answered.
LEMMA AnswerIs ==
  ASSUME TypeOK, NEW r \in Requests, NEW cookies \in [Cookies -> Value \cup {Keep}],
         NEW page \in Pages, NEW t \in Tokens \cup {None}, Answer(r, cookies, page, t)
  PROVE  /\ req' \in [Requests -> Request]
         /\ req'[r].pc = "answered" /\ req'[r].op = "none" /\ req'[r].jar = NoCookies
         /\ req'[r].auth = None /\ req'[r].csrf = None /\ req'[r].set = cookies
         /\ req'[r].page = page /\ req'[r].ticket = t /\ req'[r].form = None
         /\ \A s \in Requests \ {r} : req'[s] = req[s]
<1> DEFINE q == [Idle EXCEPT !.pc = "answered", !.set = cookies, !.page = page, !.ticket = t]
<1>1. /\ q \in Request
      /\ q.pc = "answered" /\ q.op = "none" /\ q.jar = NoCookies /\ q.auth = None
      /\ q.csrf = None /\ q.set = cookies /\ q.page = page /\ q.ticket = t /\ q.form = None
  BY NoCookiesTyped DEF Idle, Request
<1>2. req' = [req EXCEPT ![r] = q]
  BY DEF Answer
<1> HIDE DEF q
<1> QED
  BY <1>1, <1>2 DEF TypeOK

\* What a handler other than that of a form may set, with the tokens of T.
Settable(T) == {set \in [Cookies -> Value \cup {Keep}] :
                  /\ set["PPAuth"] \in T \cup {None, Keep}
                  /\ set["MSPAuth"] \in T \cup {None, Keep}
                  /\ set["attempt"] \in {"1", None, Keep}
                  /\ set["LPCsrf"] = Keep}

Attempt == [AsIs EXCEPT !["attempt"] = "1"]

LEMMA SetCookies ==
  ASSUME NEW T \in SUBSET Tokens
  PROVE  /\ \A t \in T : /\ SetPPAuth(t) \in Settable(T)
                         /\ SetPartnerToken(t) \in Settable(T)
                         /\ SetBoth(t) \in Settable(T)
         /\ {AsIs, Attempt, Cleared} \subseteq Settable(T)
BY DEF SetPPAuth, SetPartnerToken, SetBoth, Cleared, Attempt, AsIs, Cookies, Value, Settable

\* ... cookie by cookie.
LEMMA SessionSets ==
  ASSUME NEW t, NEW cookies \in {SetPPAuth(t), SetPartnerToken(t), SetBoth(t)}
  PROVE  cookies["attempt"] = Keep /\ \A c \in SessionCookies : cookies[c] \in {t, Keep}
BY DEF SetPPAuth, SetPartnerToken, SetBoth, AsIs, Cookies, SessionCookies

LEMMA SetValues ==
  /\ \A c \in SessionCookies : AsIs[c] = Keep /\ Attempt[c] = Keep /\ Cleared[c] = None
  /\ AsIs["attempt"] = Keep /\ Attempt["attempt"] = "1" /\ Cleared["attempt"] = None
BY DEF Cleared, Attempt, AsIs, Cookies, SessionCookies

LEMMA AdmissionSets ==
  ASSUME NEW T \in SUBSET Tokens, NEW q \in Request,
         \A c \in SessionCookies : q.jar[c] \in T \cup {None}, q.auth \in T \cup {None}
  PROVE  /\ Admission(q) \in Settable(T)
         /\ Admission(q)["attempt"] = None /\ Admission(q)["PPAuth"] = Keep
         /\ Admission(q)["MSPAuth"] \in (T \cap {PassportToken(q)}) \cup {Keep}
<1>1. PassportToken(q) \in T \cup {None}
  BY DEF PassportToken, TokenFromRequest, SessionCookies
<1> QED
  BY <1>1 DEF Admission, AsIs, Cookies, Value, Settable

\* An answer that sets such cookies and nothing else.
LEMMA AnswerTyped ==
  ASSUME TypeInv, NEW r \in Requests, NEW cookies \in Settable(issued'),
         NEW page \in Pages, NEW t \in issued' \cup {None}, Answer(r, cookies, page, t),
         Still, given' = given, asked' \in {asked, TRUE},
         (\E u \in Tokens : Draw(u)) \/ (issued' = issued /\ live' \subseteq live)
  PROVE  TypeInv'
<1>0. /\ issued' \in SUBSET Tokens /\ issued \subseteq issued' /\ live' \in SUBSET issued'
      /\ asked' \in BOOLEAN /\ cookies \in [Cookies -> Value \cup {Keep}]
  BY DEF Draw, TypeInv, TypeOK, Settable
<1>1. /\ req' \in [Requests -> Request]
      /\ req'[r].pc = "answered" /\ req'[r].jar = NoCookies
      /\ req'[r].auth = None /\ req'[r].csrf = None /\ req'[r].set = cookies
      /\ req'[r].ticket = t /\ req'[r].form = None
      /\ \A s \in Requests \ {r} : req'[s] = req[s]
  BY <1>0, AnswerIs DEF TypeInv
<1>2. TypeOK'
  BY <1>0, <1>1 DEF TypeInv, TypeOK, Still
<1>3. Typed(req[r])'
  <2>1. \A c \in Cookies : cookies[c] \in Values(c) \cup {None, Keep}
    BY <1>0, ValuesOf DEF Cookies, Settable
  <2> QED
    BY <1>1, <2>1, NoCookiesTyped DEF Typed, SessionCookies, Cookies, Settable
<1>4. \A s \in Requests \ {r} : Typed(req[s])'
  BY <1>0, <1>1 DEF TypeInv, Typed, Still
<1> QED
  BY <1>2, <1>3, <1>4 DEF TypeInv

\* What a request is once it has been answered with form f.
FormCookies(f) == {AsIs, [AsIs EXCEPT !["LPCsrf"] = f]}

ShowForm(r, op, f, cookies) ==
  /\ req' \in [Requests -> Request]
  /\ req'[r].pc = "answered" /\ req'[r].op = op /\ req'[r].jar = NoCookies
  /\ req'[r].auth = None /\ req'[r].csrf = None /\ req'[r].set = cookies
  /\ req'[r].page = "form" /\ req'[r].ticket = None /\ req'[r].form = f
  /\ \A s \in Requests \ {r} : req'[s] = req[s]

LEMMA FormCookiesTyped ==
  ASSUME NEW f \in Forms \cup {None}, NEW cookies \in FormCookies(f)
  PROVE  /\ cookies \in [Cookies -> Value \cup {Keep}] /\ cookies["LPCsrf"] \in {f, Keep}
         /\ \A c \in {"PPAuth", "MSPAuth", "attempt"} : cookies[c] = Keep
BY DEF FormCookies, AsIs, Cookies, Value

LEMMA FormTyped ==
  ASSUME TypeInv, NEW r \in Requests, NEW op \in {"form", "none"},
         NEW f \in given' \cup {None}, NEW cookies \in FormCookies(f),
         ShowForm(r, op, f, cookies),
         Still, UNCHANGED <<issued, live, asked>>,
         given \subseteq given', given' \subseteq Forms
  PROVE  TypeInv'
<1>1. /\ cookies["LPCsrf"] \in {f, Keep}
      /\ \A c \in {"PPAuth", "MSPAuth", "attempt"} : cookies[c] = Keep
  BY FormCookiesTyped DEF TypeInv
<1>2. TypeOK'
  BY DEF TypeInv, TypeOK, Still, ShowForm
<1>3. Typed(req[r])'
  <2>1. \A c \in Cookies : cookies[c] \in Values(c) \cup {None, Keep}
    BY <1>1, ValuesOf DEF Cookies
  <2> QED
    BY <1>1, <2>1, NoCookiesTyped DEF Typed, SessionCookies, Cookies, ShowForm
<1>4. \A s \in Requests \ {r} : Typed(req[s])'
  BY DEF TypeInv, Typed, Still, ShowForm
<1> QED
  BY <1>2, <1>3, <1>4 DEF TypeInv

\* The step of a form, and that of a post with a wrong password.
LEMMA FormSends ==
  ASSUME TypeOK, NEW r \in Requests, Form(r)
  PROVE  \E f \in Forms : \E cookies \in FormCookies(f) :
           /\ ShowForm(r, "form", f, cookies)
           /\ given' = given \cup {f} /\ Still /\ UNCHANGED <<issued, live, asked>>
           /\ EnsureCSRFToken(req[r], f) /\ Handling(r, {"form"})
           /\ cookies["LPCsrf"] = IF req[r].jar["LPCsrf"] = None THEN f ELSE Keep
<1>1. PICK f \in Forms :
        /\ Handling(r, {"form"}) /\ EnsureCSRFToken(req[r], f) /\ given' = given \cup {f}
        /\ req' = [req EXCEPT ![r] =
             [Idle EXCEPT !.pc = "answered", !.op = "form", !.page = "form", !.form = f,
                          !.set = IF req[r].jar["LPCsrf"] = None
                                  THEN [AsIs EXCEPT !["LPCsrf"] = f] ELSE AsIs]]
        /\ Still /\ UNCHANGED <<issued, live, asked>>
  BY DEF Form
<1> DEFINE cookies == IF req[r].jar["LPCsrf"] = None
                      THEN [AsIs EXCEPT !["LPCsrf"] = f] ELSE AsIs
           q == [Idle EXCEPT !.pc = "answered", !.op = "form", !.page = "form", !.form = f,
                             !.set = cookies]
<1>2. /\ cookies \in FormCookies(f)
      /\ cookies["LPCsrf"] = IF req[r].jar["LPCsrf"] = None THEN f ELSE Keep
  BY DEF AsIs, Cookies, FormCookies
<1>3. req' = [req EXCEPT ![r] = q]
  BY <1>1
<1> HIDE DEF cookies
<1>4. /\ q \in Request /\ q.pc = "answered" /\ q.op = "form" /\ q.jar = NoCookies
      /\ q.auth = None /\ q.csrf = None /\ q.set = cookies /\ q.page = "form"
      /\ q.ticket = None /\ q.form = f
  BY <1>2, FormCookiesTyped, NoCookiesTyped DEF Idle, Request, Urls, Pages
<1> HIDE DEF q
<1>5. ShowForm(r, "form", f, cookies)
  BY <1>3, <1>4 DEF ShowForm, TypeOK
<1> QED
  BY <1>1, <1>2, <1>5

PostSignsIn(r) ==
  \E t \in Tokens \ issued : /\ Draw(t) /\ Answer(r, SetPPAuth(t), "signed in", None)
                             /\ Still /\ UNCHANGED <<given, asked>>

PostShowsForm(r) ==
  /\ ShowForm(r, "none", req[r].csrf, AsIs)
  /\ Still /\ UNCHANGED <<issued, live, given, asked>>

LEMMA PostSends ==
  ASSUME TypeInv, NEW r \in Requests, Post(r)
  PROVE  /\ Handling(r, {"post"}) /\ req[r].jar["LPCsrf"] = req[r].csrf
         /\ PostSignsIn(r) \/ PostShowsForm(r)
<1> DEFINE f == req[r].csrf
           q == [Idle EXCEPT !.pc = "answered", !.page = "form", !.form = f]
<1>1. \/ PostSignsIn(r)
      \/ /\ req' = [req EXCEPT ![r] = q]
         /\ Still /\ UNCHANGED <<issued, live, given, asked>>
  BY DEF Post, PostSignsIn
<1>2. f \in Forms \cup {None} /\ req \in [Requests -> Request]
  BY DEF TypeInv, TypeOK, Typed
<1>3. /\ q \in Request /\ q.pc = "answered" /\ q.op = "none" /\ q.jar = NoCookies
      /\ q.auth = None /\ q.csrf = None /\ q.set = AsIs /\ q.page = "form"
      /\ q.ticket = None /\ q.form = f
  BY <1>2, NoCookiesTyped DEF Idle, Request, Urls, Pages
<1> HIDE DEF q
<1>4. req' = [req EXCEPT ![r] = q] => ShowForm(r, "none", f, AsIs)
  BY <1>2, <1>3 DEF ShowForm
<1> QED
  BY <1>1, <1>4 DEF Post, PostShowsForm

LEMMA TypeHandle ==
  ASSUME TypeInv, NEW r \in Requests, Handle(r)
  PROVE  TypeInv'
<1>0. issued \in SUBSET Tokens /\ live \subseteq issued
  BY DEF TypeInv, TypeOK
<1>1. ASSUME Login(r) PROVE TypeInv'
  <2>1. PICK t \in Tokens \ issued :
          /\ Draw(t) /\ Still /\ UNCHANGED <<given, asked>>
          /\ \/ Answer(r, SetPPAuth(t), "signed in", t)
             \/ Answer(r, SetBoth(t), "signed in", None)
             \/ Answer(r, SetPPAuth(t), "signed in", None)
    BY <1>1 DEF Login
  <2>2. issued' \in SUBSET Tokens /\ t \in issued'
    BY <1>0, <2>1 DEF Draw
  <2> QED
    BY <2>1, <2>2, AnswerTyped, SetCookies DEF Pages
<1>2. ASSUME Reuse(r) PROVE TypeInv'
  <2>1. PICK t \in live :
          /\ Still /\ UNCHANGED <<issued, live, given, asked>>
          /\ \/ Answer(r, SetPPAuth(t), "signed in", t)
             \/ Answer(r, SetBoth(t), "signed in", None)
    BY <1>2 DEF Reuse
  <2> QED
    BY <1>0, <2>1, AnswerTyped, SetCookies DEF Pages
<1>3. ASSUME Refuse(r) PROVE TypeInv'
  BY <1>0, <1>3, AnswerTyped, SetCookies DEF Refuse, Pages
<1>4. ASSUME Form(r) PROVE TypeInv'
  <2>1. PICK f \in Forms : \E cookies \in FormCookies(f) :
          /\ ShowForm(r, "form", f, cookies)
          /\ given' = given \cup {f} /\ Still /\ UNCHANGED <<issued, live, asked>>
    BY <1>4, FormSends DEF TypeInv
  <2>2. given' \subseteq Forms /\ given \subseteq given' /\ f \in given'
    BY <2>1 DEF TypeInv, TypeOK
  <2> QED
    BY <2>1, <2>2, FormTyped
<1>5. ASSUME Post(r) PROVE TypeInv'
  <2>1. CASE PostSignsIn(r)
    <3>1. PICK t \in Tokens \ issued : /\ Draw(t) /\ Still /\ UNCHANGED <<given, asked>>
                                       /\ Answer(r, SetPPAuth(t), "signed in", None)
      BY <2>1 DEF PostSignsIn
    <3>2. issued' \in SUBSET Tokens /\ t \in issued'
      BY <1>0, <3>1 DEF Draw
    <3> QED
      BY <3>1, <3>2, AnswerTyped, SetCookies DEF Pages
  <2>2. CASE PostShowsForm(r)
    <3>1. req[r].csrf \in given \cup {None} /\ given \subseteq Forms
      BY DEF TypeInv, TypeOK, Typed
    <3>2. AsIs \in FormCookies(req[r].csrf)
      BY DEF FormCookies
    <3> QED
      BY <2>2, <3>1, <3>2, FormTyped DEF PostShowsForm
  <2> QED
    BY <1>5, <2>1, <2>2, PostSends
<1>6. ASSUME Fallback(r) PROVE TypeInv'
  <2>1. PICK t \in Tokens \ issued : /\ Draw(t) /\ Still /\ UNCHANGED <<given, asked>>
                                     /\ Answer(r, SetBoth(t), "signed in", None)
    BY <1>6 DEF Fallback
  <2>2. issued' \in SUBSET Tokens /\ t \in issued'
    BY <1>0, <2>1 DEF Draw
  <2> QED
    BY <2>1, <2>2, AnswerTyped, SetCookies DEF Pages
<1>7. ASSUME Finish(r) PROVE TypeInv'
  <2>1. /\ Still /\ UNCHANGED <<issued, live, given, asked>>
        /\ \/ \E t \in live : Answer(r, SetPartnerToken(t), "signed in", t)
           \/ Answer(r, AsIs, "signed in", None)
    BY <1>7 DEF Finish
  <2> QED
    BY <1>0, <2>1, AnswerTyped, SetCookies DEF Pages
<1>8. ASSUME Partner(r) PROVE TypeInv'
  <2>1. /\ Still /\ UNCHANGED <<issued, live, given, asked>>
        /\ \E t \in live, u \in live \cup {None} : Answer(r, SetPartnerToken(t), "signed in", u)
    BY <1>8 DEF Partner
  <2> QED
    BY <1>0, <2>1, AnswerTyped, SetCookies DEF Pages
<1>9. ASSUME Admit(r) PROVE TypeInv'
  <2>1. /\ Still /\ UNCHANGED <<issued, live, given, asked>>
        /\ Answer(r, Admission(req[r]), "editor", None)
    BY <1>9 DEF Admit
  <2>2. /\ req[r] \in Request /\ req[r].auth \in issued \cup {None}
        /\ \A c \in SessionCookies : req[r].jar[c] \in issued \cup {None}
    BY DEF TypeInv, TypeOK, Typed
  <2>3. Admission(req[r]) \in Settable(issued)
    BY <1>0, <2>2, AdmissionSets
  <2> QED
    BY <2>1, <2>3, AnswerTyped DEF Pages
<1>10. ASSUME Challenge(r) PROVE TypeInv'
  <2>1. PICK cookies \in {AsIs, Attempt}, page \in {"cancelled", "challenge"} :
          Answer(r, cookies, page, None)
    BY <1>10 DEF Challenge, Attempt
  <2>2. Still /\ UNCHANGED <<issued, live, given>> /\ asked' \in {asked, TRUE}
    BY <1>10 DEF Challenge, TypeInv, TypeOK
  <2>3. cookies \in Settable(issued') /\ page \in Pages
    BY <1>0, <2>2, SetCookies DEF Pages
  <2> QED
    BY <2>1, <2>2, <2>3, AnswerTyped
<1>11. ASSUME Logout(r) PROVE TypeInv'
  BY <1>0, <1>11, AnswerTyped, SetCookies DEF Logout, Pages
<1>12. ASSUME LogoutFails(r) PROVE TypeInv'
  BY <1>0, <1>12, AnswerTyped, SetCookies DEF LogoutFails, Pages
<1> QED
  BY <1>1, <1>2, <1>3, <1>4, <1>5, <1>6, <1>7, <1>8, <1>9, <1>10, <1>11, <1>12 DEF Handle

LEMMA TypeNext == TypeInv /\ [Next]_vars => TypeInv'
<1> SUFFICES ASSUME TypeInv, [Next]_vars PROVE TypeInv'
  OBVIOUS
<1>1. ASSUME NEW r \in Requests, Send(r) PROVE TypeInv'
  <2>1. PICK op \in Visits, auth \in {None, ticket}, csrf \in open \cup {None} :
          req' = [req EXCEPT ![r] = [Idle EXCEPT !.pc = "sent", !.op = op, !.jar = jar,
                                                 !.auth = auth, !.csrf = csrf]]
    BY <1>1 DEF Send
  <2> DEFINE q == [Idle EXCEPT !.pc = "sent", !.op = op, !.jar = jar,
                               !.auth = auth, !.csrf = csrf]
  <2>2. /\ UNCHANGED <<issued, live, given, jar, ticket, open, asked>>
        /\ plain' \in BOOLEAN /\ raced' \in BOOLEAN /\ out' \in BOOLEAN
    BY <1>1 DEF Send, TypeInv, TypeOK
  <2>3. /\ q \in Request /\ q.pc = "sent" /\ q.jar = jar /\ q.auth = auth /\ q.csrf = csrf
        /\ q.set = AsIs /\ q.page = "none" /\ q.ticket = None /\ q.form = None
    <3>1. auth \in Tokens \cup {None} /\ csrf \in Forms \cup {None} /\ op \in Urls
          /\ jar \in [Cookies -> Value]
      BY DEF TypeInv, TypeOK
    <3> QED
      BY <3>1, NoCookiesTyped DEF Idle, Request, Pages
  <2>4. req' = [req EXCEPT ![r] = q]
    BY <2>1
  <2> HIDE DEF q
  <2>5. req' \in [Requests -> Request] /\ req'[r] = q /\ \A s \in Requests \ {r} : req'[s] = req[s]
    BY <2>3, <2>4 DEF TypeInv, TypeOK
  <2>6. TypeOK'
    BY <2>2, <2>5 DEF TypeInv, TypeOK
  <2>7. Typed(req[r])'
    BY <2>2, <2>3, <2>5, NoCookiesTyped DEF TypeInv, TypeOK, Typed, SessionCookies, Cookies
  <2>8. \A s \in Requests \ {r} : Typed(req[s])'
    BY <2>2, <2>5 DEF TypeInv, Typed
  <2> QED
    BY <2>6, <2>7, <2>8 DEF TypeInv
<1>2. ASSUME NEW r \in Requests, Handle(r) PROVE TypeInv'
  BY <1>2, TypeHandle
<1>3. ASSUME NEW r \in Requests, req' = [req EXCEPT ![r] = Idle],
             UNCHANGED <<issued, live, given>>, open \subseteq open'
      PROVE  /\ req' \in [Requests -> Request]
             /\ \A s \in Requests : Typed(req[s])'
  <2>1. req' \in [Requests -> Request] /\ req'[r] = Idle /\ \A s \in Requests \ {r} : req'[s] = req[s]
    BY <1>3, IdleTyped DEF TypeInv, TypeOK
  <2>2. Typed(req[r])'
    BY <1>3, <2>1, IdleTyped, NoCookiesTyped DEF Typed, SessionCookies, Cookies
  <2>3. \A s \in Requests \ {r} : Typed(req[s])'
    BY <1>3, <2>1 DEF TypeInv, Typed
  <2> QED
    BY <2>1, <2>2, <2>3
<1>4. ASSUME NEW r \in Requests, Deliver(r) PROVE TypeInv'
  <2>1. Typed(req[r]) /\ TypeOK
    BY DEF TypeInv
  <2>2. /\ req' \in [Requests -> Request] /\ \A s \in Requests : Typed(req[s])'
    BY <1>3, <1>4 DEF Deliver
  <2>3. /\ jar' \in [Cookies -> Value]
        /\ \A c \in Cookies : jar'[c] \in Values(c) \cup {None}
        /\ \A c \in SessionCookies : jar'[c] \in issued \cup {None}
    <3>1. \A c \in Cookies : jar'[c] = IF req[r].set[c] = Keep THEN jar[c] ELSE req[r].set[c]
      BY <1>4 DEF Deliver, Merged
    <3>2. \A c \in Cookies : jar'[c] \in Values(c) \cup {None}
      BY <2>1, <3>1 DEF Typed, TypeOK
    <3>3. \A c \in SessionCookies : jar'[c] \in issued \cup {None}
      BY <2>1, <3>1 DEF Typed, TypeOK, SessionCookies, Cookies
    <3>4. \A c \in Cookies : Values(c) \subseteq Value
      BY ValuesOf DEF Cookies, Value
    <3>5. jar' = [c \in Cookies |-> jar'[c]]
      BY <1>4 DEF Deliver, Merged
    <3>6. \A c \in Cookies : jar'[c] \in Value
      BY <3>2, <3>4 DEF Value
    <3> QED
      BY <3>2, <3>3, <3>5, <3>6
  <2>4. /\ ticket' \in issued \cup {None} /\ open' \in SUBSET given
        /\ {plain', raced', asked', out'} \subseteq BOOLEAN
        /\ UNCHANGED <<issued, live, given>>
    BY <1>4, <2>1 DEF Deliver, Typed, TypeOK
  <2> QED
    BY <2>1, <2>2, <2>3, <2>4 DEF TypeInv, TypeOK
<1>5. ASSUME NEW r \in Requests, Lose(r) PROVE TypeInv'
  BY <1>3, <1>5 DEF Lose, TypeInv, TypeOK
<1>6. ASSUME AttemptExpires PROVE TypeInv'
  <2>1. /\ jar' \in [Cookies -> Value] /\ \A c \in Cookies \ {"attempt"} : jar'[c] = jar[c]
        /\ jar'["attempt"] = None
    BY <1>6 DEF AttemptExpires, TypeInv, TypeOK, Cookies, Value
  <2> QED
    BY <1>6, <2>1 DEF AttemptExpires, TypeInv, TypeOK, Typed, SessionCookies, Cookies
<1>7. ASSUME NEW t \in Tokens, TokenDies(t) PROVE TypeInv'
  BY <1>7 DEF TokenDies, TypeInv, TypeOK, Typed
<1>8. CASE UNCHANGED vars
  BY <1>8 DEF vars, TypeInv, TypeOK, Typed
<1> QED
  BY <1>1, <1>2, <1>4, <1>5, <1>6, <1>7, <1>8 DEF Next

LEMMA Typing == Spec => []TypeInv
BY TypeInit, TypeNext, PTL DEF Spec

\* Every cookie, ticket and form is of its kind, and every session cookie and
\* ticket names a token that was drawn, whatever answers arrive and when.
THEOREM TypeCorrect == Spec => []TypeOK
BY Typing, PTL DEF TypeInv

-----------------------------------------------------------------------------
(* What the steps do to the three places a cookie can be in.               *)

\* A page asked for leaves with the jar.
LEMMA Sent ==
  ASSUME TypeInv, NEW r \in Requests, Send(r)
  PROVE  /\ req[r].pc = "idle"
         /\ req'[r].pc = "sent" /\ req'[r].jar = jar /\ req'[r].set = AsIs
         /\ req'[r].page = "none" /\ req'[r].form = None
         /\ req'[r].op \in Visits /\ req'[r].auth \in {None, ticket}
         /\ req'[r].csrf \in open \cup {None} /\ (req'[r].csrf /= None <=> req'[r].op = "post")
         /\ \A s \in Requests \ {r} : req'[s] = req[s]
         /\ out' = (out /\ req'[r].op \notin SignIns /\ req'[r].auth = None)
         /\ plain' = (plain /\ Outstanding(r) = {})
         /\ raced' = (raced \/ (/\ NeedsCsrf(req'[r].op, jar)
                                /\ \E s \in Outstanding(r) : req[s].op = "form"))
         /\ UNCHANGED <<issued, live, given, jar, ticket, open, asked>>
<1>1. PICK op \in Visits, auth \in {None, ticket}, csrf \in open \cup {None} :
        /\ req' = [req EXCEPT ![r] = [Idle EXCEPT !.pc = "sent", !.op = op, !.jar = jar,
                                               !.auth = auth, !.csrf = csrf]]
        /\ (csrf /= None) <=> (op = "post")
        /\ out' = (out /\ op \notin SignIns /\ auth = None)
        /\ plain' = (plain /\ Outstanding(r) = {})
        /\ raced' = (raced \/ (/\ NeedsCsrf(op, jar)
                               /\ \E s \in Outstanding(r) : req[s].op = "form"))
  BY DEF Send
<1> DEFINE q == [Idle EXCEPT !.pc = "sent", !.op = op, !.jar = jar,
                             !.auth = auth, !.csrf = csrf]
<1>2. /\ q.pc = "sent" /\ q.jar = jar /\ q.auth = auth /\ q.csrf = csrf /\ q.op = op
      /\ q.set = AsIs /\ q.page = "none" /\ q.form = None
  BY DEF Idle
<1>3. req' = [req EXCEPT ![r] = q]
  BY <1>1
<1> HIDE DEF q
<1>4. req'[r] = q /\ \A s \in Requests \ {r} : req'[s] = req[s]
  BY <1>3 DEF TypeInv, TypeOK
<1>5. req[r].pc = "idle" /\ UNCHANGED <<issued, live, given, jar, ticket, open, asked>>
  BY DEF Send
<1> QED
  BY <1>1, <1>2, <1>4, <1>5

\* An answer that arrives changes the jar; the request is over, as it is when
\* it is lost.
LEMMA Over ==
  ASSUME TypeInv, NEW r \in Requests, Deliver(r) \/ Lose(r)
  PROVE  req'[r] = Idle /\ \A s \in Requests \ {r} : req'[s] = req[s]
BY DEF Deliver, Lose, TypeInv, TypeOK

LEMMA Delivered ==
  ASSUME TypeInv, NEW r \in Requests, Deliver(r)
  PROVE  \A c \in Cookies : jar'[c] = IF req[r].set[c] = Keep THEN jar[c] ELSE req[r].set[c]
BY DEF Deliver, Merged

\* A request that is alone: the others are not under way.
LEMMA Alone ==
  ASSUME TypeInv, NEW r \in Requests, Outstanding(r) = {}
  PROVE  \A s \in Requests \ {r} : req[s] = Idle
BY DEF Outstanding, TypeInv, Typed

\* What every handler leaves alone, and the request it answers.
Answers(r) ==
  /\ Still /\ given \subseteq given'
  /\ req[r].pc = "sent" /\ req' \in [Requests -> Request]
  /\ req'[r].pc = "answered" /\ req'[r].op \in {"form", "none"} /\ req'[r].jar = NoCookies
  /\ req'[r].auth = None /\ req'[r].csrf = None
  /\ \A s \in Requests \ {r} : req'[s] = req[s]

\* What becomes of the attempt cookie: it is set where a sign-in is asked,
\* and cleared with the page that lets in or logs out.
OfAttempt(r) ==
  /\ asked => asked'
  /\ req'[r].set["attempt"] = "1" => asked'
  /\ req'[r].page = "cancelled" => req[r].jar["attempt"] /= None
  /\ req'[r].page \in {"editor", "signed out"} => req'[r].set["attempt"] = None

\* What becomes of the cookies of a session: without a password, they are
\* set to what the request carried.
OfSession(r) ==
  \A c \in SessionCookies :
    /\ req'[r].page = "signed out" => req'[r].set[c] = None
    /\ req[r].op \notin SignIns =>
         req'[r].set[c] \in {None, Keep, req[r].jar["PPAuth"], req[r].jar["MSPAuth"], req[r].auth}
    /\ \/ req'[r].set[c] = None
       \/ /\ live \subseteq live'
          /\ req'[r].set[c] \in live' \cup {None, Keep, req[r].jar["PPAuth"]}
  
\* What becomes of the CSRF cookie: nothing, or a form is shown.
OfForm(r) ==
  LET q == req[r]
      a == req'[r]
  IN \/ a.op = "none" /\ a.form \in {None, q.csrf} /\ a.set["LPCsrf"] = Keep
     \/ /\ q.op = "form" /\ a.op = "form" /\ a.form \in Forms
        /\ IF q.jar["LPCsrf"] = None THEN a.set["LPCsrf"] = a.form
           ELSE a.form = q.jar["LPCsrf"] /\ a.set["LPCsrf"] = Keep

LEMMA AnswersSo ==
  ASSUME TypeInv, NEW r \in Requests, NEW cookies \in Settable(Tokens),
         NEW page \in Pages, NEW t \in Tokens \cup {None}, Answer(r, cookies, page, t),
         Still, given' = given, req[r].pc = "sent"
  PROVE  /\ Answers(r) /\ OfForm(r)
         /\ req'[r].set = cookies /\ req'[r].page = page
<1>1. cookies \in [Cookies -> Value \cup {Keep}] /\ cookies["LPCsrf"] = Keep
  BY DEF Settable
<1> QED
  BY <1>1, AnswerIs DEF Answers, OfForm, TypeInv

LEMMA Handled ==
  ASSUME TypeInv, NEW r \in Requests, Handle(r)
  PROVE  Answers(r) /\ OfAttempt(r) /\ OfSession(r) /\ OfForm(r)
<1> DEFINE q == req[r]
           Outcome == Answers(r) /\ OfAttempt(r) /\ OfSession(r) /\ OfForm(r)
<1>0. /\ issued \in SUBSET Tokens /\ live \subseteq issued /\ live \in SUBSET Tokens
      /\ {AsIs, Attempt, Cleared} \subseteq Settable(Tokens)
      /\ None \notin live /\ asked \in BOOLEAN
      /\ \A t \in Tokens : /\ SetPPAuth(t) \in Settable(Tokens)
                           /\ SetPartnerToken(t) \in Settable(Tokens)
                           /\ SetBoth(t) \in Settable(Tokens)
  BY SetCookies DEF TypeInv, TypeOK
\* A password: a new token.
<1>1. ASSUME NEW t \in Tokens, NEW cookies \in {SetPPAuth(t), SetBoth(t)}, NEW u \in {t, None},
             Draw(t), Answer(r, cookies, "signed in", u), Still, UNCHANGED <<given, asked>>,
             q.pc = "sent", q.op \in SignIns
      PROVE  Outcome
  <2>0. cookies \in Settable(Tokens) /\ u \in Tokens \cup {None}
        /\ Still /\ given' = given /\ q.pc = "sent" /\ "signed in" \in Pages
    BY <1>0, <1>1 DEF Pages
  <2>1. Answers(r) /\ OfForm(r) /\ req'[r].set = cookies /\ req'[r].page = "signed in"
    BY <1>1, <2>0, AnswersSo
  <2>2. live' = live \cup {t}
    BY <1>1 DEF Draw
  <2>3. cookies["attempt"] = Keep /\ \A c \in SessionCookies : cookies[c] \in {t, Keep}
    BY SessionSets
  <2> QED
    BY <1>1, <2>1, <2>2, <2>3 DEF OfAttempt, OfSession
\* A session the request carries: its token is live.
<1>2. ASSUME NEW t \in live, NEW cookies \in {SetPPAuth(t), SetPartnerToken(t), SetBoth(t)},
             NEW u \in {t, None}, Answer(r, cookies, "signed in", u),
             t \in {q.jar["PPAuth"], q.jar["MSPAuth"], q.auth},
             Still, UNCHANGED <<issued, live, given, asked>>, q.pc = "sent"
      PROVE  Outcome
  <2>1. cookies \in Settable(Tokens) /\ u \in Tokens \cup {None}
        /\ Still /\ given' = given /\ q.pc = "sent" /\ "signed in" \in Pages
    BY <1>0, <1>2 DEF Pages
  <2>2. Answers(r) /\ OfForm(r) /\ req'[r].set = cookies /\ req'[r].page = "signed in"
    BY <1>2, <2>1, AnswersSo
  <2>3. cookies["attempt"] = Keep /\ \A c \in SessionCookies : cookies[c] \in {t, Keep}
    BY SessionSets
  <2> QED
    BY <1>2, <2>2, <2>3 DEF OfAttempt, OfSession
\* No cookie is set.
<1>3. ASSUME NEW page \in {"none", "challenge", "signed in"},
             Answer(r, AsIs, page, None), Still,
             UNCHANGED <<issued, live, given, asked>>, q.pc = "sent"
      PROVE  Outcome
  <2>0. page \in Pages /\ Still /\ given' = given /\ q.pc = "sent"
    BY <1>3 DEF Pages
  <2>1. Answers(r) /\ OfForm(r) /\ req'[r].set = AsIs /\ req'[r].page = page
    BY <1>0, <1>3, <2>0, AnswersSo
  <2> QED
    BY <1>3, <2>1, SetValues DEF OfAttempt, OfSession
\* Where the token of a session comes from.
<1>4. /\ PassportToken(q) \in {q.jar["PPAuth"], q.jar["MSPAuth"], q.auth}
      /\ TokenFromRequest(q) \in {q.jar["MSPAuth"], q.auth}
  BY DEF PassportToken, TokenFromRequest
<1>5. ASSUME Login(r) PROVE Outcome
  <2>1. PICK t \in Tokens : /\ Draw(t) /\ Still /\ UNCHANGED <<given, asked>>
                            /\ Handling(r, {"login", "login classic", "register"})
                            /\ \/ Answer(r, SetPPAuth(t), "signed in", t)
                               \/ Answer(r, SetBoth(t), "signed in", None)
                               \/ Answer(r, SetPPAuth(t), "signed in", None)
    BY <1>5 DEF Login, Handling
  <2>2. q.pc = "sent" /\ q.op \in SignIns
    BY <2>1 DEF Handling, SignIns
  <2> HIDE DEF Outcome
  <2> QED
    BY <1>1, <2>1, <2>2
<1>6. ASSUME Reuse(r) PROVE Outcome
  <2>1. PICK t \in live : /\ Still /\ UNCHANGED <<issued, live, given, asked>>
                          /\ t = PassportToken(q) /\ q.pc = "sent"
                          /\ \/ Answer(r, SetPPAuth(t), "signed in", t)
                             \/ Answer(r, SetBoth(t), "signed in", None)
    BY <1>6 DEF Reuse, Handling
  <2> HIDE DEF Outcome
  <2> QED
    BY <1>2, <1>4, <2>1
<1>7. ASSUME Refuse(r) PROVE Outcome
  <2>1. q.pc = "sent" /\ Answer(r, AsIs, "challenge", None)
        /\ Still /\ UNCHANGED <<issued, live, given, asked>>
    BY <1>7 DEF Refuse, Handling
  <2> HIDE DEF Outcome
  <2> QED
    BY <1>3, <2>1
<1>8. ASSUME Form(r) PROVE Outcome
  <2>1. PICK f \in Forms : \E cookies \in FormCookies(f) :
          /\ ShowForm(r, "form", f, cookies)
          /\ given' = given \cup {f} /\ Still /\ UNCHANGED <<issued, live, asked>>
          /\ EnsureCSRFToken(q, f) /\ Handling(r, {"form"})
          /\ cookies["LPCsrf"] = IF q.jar["LPCsrf"] = None THEN f ELSE Keep
    BY <1>8, FormSends DEF TypeInv
  <2>2. PICK cookies \in FormCookies(f) :
          /\ ShowForm(r, "form", f, cookies)
          /\ cookies["LPCsrf"] = IF q.jar["LPCsrf"] = None THEN f ELSE Keep
    BY <2>1
  <2>3. \A c \in {"PPAuth", "MSPAuth", "attempt"} : cookies[c] = Keep
    BY FormCookiesTyped
  <2>4. Answers(r) /\ OfForm(r)
    BY <2>1, <2>2 DEF Answers, OfForm, ShowForm, Handling, EnsureCSRFToken
  <2>5. OfAttempt(r) /\ OfSession(r)
    BY <2>1, <2>2, <2>3 DEF ShowForm, OfAttempt, OfSession, SessionCookies
  <2> QED
    BY <2>4, <2>5
<1>9. ASSUME Post(r) PROVE Outcome
  <2>1. CASE PostSignsIn(r)
    <3>1. PICK t \in Tokens : /\ Draw(t) /\ Still /\ UNCHANGED <<given, asked>>
                              /\ Answer(r, SetPPAuth(t), "signed in", None)
      BY <2>1 DEF PostSignsIn
    <3>2. q.pc = "sent" /\ q.op \in SignIns
      BY <1>9, PostSends DEF Handling, SignIns
    <3> HIDE DEF Outcome
    <3> QED
      BY <1>1, <3>1, <3>2
  <2>2. CASE PostShowsForm(r)
    <3>1. Answers(r) /\ OfForm(r)
      BY <1>9, <2>2, PostSends, NoCookiesTyped
      DEF PostShowsForm, Answers, OfForm, ShowForm, Handling, Cookies
    <3>2. OfAttempt(r) /\ OfSession(r)
      BY <2>2, SetValues DEF PostShowsForm, ShowForm, OfAttempt, OfSession
    <3> QED
      BY <3>1, <3>2
  <2> QED
    BY <1>9, <2>1, <2>2, PostSends
<1>10. ASSUME Fallback(r) PROVE Outcome
  <2>1. PICK t \in Tokens : /\ Draw(t) /\ Still /\ UNCHANGED <<given, asked>>
                            /\ Answer(r, SetBoth(t), "signed in", None)
    BY <1>10 DEF Fallback
  <2>2. q.pc = "sent" /\ q.op \in SignIns
    BY <1>10 DEF Fallback, Handling, SignIns
  <2> HIDE DEF Outcome
  <2> QED
    BY <1>1, <2>1, <2>2
<1>11. ASSUME Finish(r) PROVE Outcome
  <2>1. /\ q.pc = "sent" /\ Still /\ UNCHANGED <<issued, live, given, asked>>
        /\ \/ \E t \in live : t = PassportToken(q) /\ Answer(r, SetPartnerToken(t), "signed in", t)
           \/ Answer(r, AsIs, "signed in", None)
    BY <1>11 DEF Finish, Handling
  <2> HIDE DEF Outcome
  <2> QED
    BY <1>2, <1>3, <1>4, <2>1
<1>12. ASSUME Partner(r) PROVE Outcome
  <2>1. /\ q.pc = "sent" /\ Still /\ UNCHANGED <<issued, live, given, asked>>
        /\ \E t \in live : /\ t \in {PassportToken(q), TokenFromRequest(q), q.auth}
                           /\ \E u \in {t, None} : Answer(r, SetPartnerToken(t), "signed in", u)
    BY <1>12 DEF Partner, Handling
  <2> HIDE DEF Outcome
  <2> QED
    BY <1>2, <1>4, <2>1
<1>13. ASSUME Admit(r) PROVE Outcome
  <2>1. /\ Still /\ UNCHANGED <<issued, live, given, asked>> /\ q.pc = "sent"
        /\ HasValidPassportAuth(q) /\ Answer(r, Admission(q), "editor", None)
    BY <1>13 DEF Admit, Handling
  <2>2. /\ q \in Request /\ q.auth \in Tokens \cup {None}
        /\ \A c \in SessionCookies : q.jar[c] \in Tokens \cup {None}
    BY DEF TypeInv, TypeOK, Typed
  <2>3. /\ Admission(q) \in Settable(Tokens)
        /\ Admission(q)["attempt"] = None /\ Admission(q)["PPAuth"] = Keep
        /\ Admission(q)["MSPAuth"] \in {PassportToken(q), Keep}
    BY <2>2, AdmissionSets
  <2>4. Admission(q)["MSPAuth"] \in live \cup {Keep, q.jar["PPAuth"]}
    BY <2>1, <2>3 DEF HasValidPassportAuth, PassportToken
  <2>5. Answers(r) /\ OfForm(r) /\ req'[r].set = Admission(q) /\ req'[r].page = "editor"
    <3>1. "editor" \in Pages /\ Admission(q) \in Settable(Tokens) /\ given' = given
      BY <2>1, <2>3 DEF Pages
    <3> QED
      BY <2>1, <3>1, AnswersSo
  <2>6. OfAttempt(r)
    BY <2>1, <2>3, <2>5 DEF OfAttempt
  <2>7. OfSession(r)
    BY <1>4, <2>1, <2>3, <2>4, <2>5 DEF OfSession, SessionCookies
  <2> QED
    BY <2>5, <2>6, <2>7
<1>14. ASSUME Challenge(r) PROVE Outcome
  <2>1. /\ Still /\ UNCHANGED <<issued, live, given>> /\ q.pc = "sent" /\ (asked => asked')
        /\ \/ /\ q.jar["attempt"] /= None /\ asked' = asked
              /\ Answer(r, AsIs, "cancelled", None)
           \/ asked' = TRUE /\ Answer(r, Attempt, "challenge", None)
    BY <1>0, <1>14 DEF Challenge, Handling, Attempt
  <2>2. /\ Answers(r) /\ OfForm(r)
        /\ \/ /\ req'[r].set = AsIs /\ req'[r].page = "cancelled"
              /\ asked' = asked /\ q.jar["attempt"] /= None
           \/ req'[r].set = Attempt /\ req'[r].page = "challenge" /\ asked' = TRUE
    BY <1>0, <2>1, AnswersSo DEF Pages
  <2>3. OfAttempt(r)
    <3>1. CASE req'[r].set = AsIs /\ req'[r].page = "cancelled" /\ q.jar["attempt"] /= None
      BY <2>1, <3>1, SetValues DEF OfAttempt
    <3>2. CASE req'[r].set = Attempt /\ req'[r].page = "challenge" /\ asked' = TRUE
      BY <2>1, <3>2, SetValues DEF OfAttempt
    <3> QED
      BY <2>2, <3>1, <3>2
  <2>4. OfSession(r)
    BY <2>1, <2>2, SetValues DEF OfSession
  <2> QED
    BY <2>2, <2>3, <2>4
<1>15. ASSUME Logout(r) PROVE Outcome
  <2>1. /\ Still /\ UNCHANGED <<issued, given, asked>> /\ q.pc = "sent"
        /\ Answer(r, Cleared, "signed out", None)
    BY <1>15 DEF Logout, Handling
  <2>2. Answers(r) /\ OfForm(r) /\ req'[r].set = Cleared /\ req'[r].page = "signed out"
    BY <1>0, <2>1, AnswersSo DEF Pages
  <2> QED
    BY <2>1, <2>2, SetValues DEF OfAttempt, OfSession
<1>16. ASSUME LogoutFails(r) PROVE Outcome
  <2>1. q.pc = "sent" /\ Answer(r, AsIs, "none", None)
        /\ Still /\ UNCHANGED <<issued, live, given, asked>>
    BY <1>16 DEF LogoutFails, Handling
  <2> HIDE DEF Outcome
  <2> QED
    BY <1>3, <2>1
<1> QED
  BY <1>5, <1>6, <1>7, <1>8, <1>9, <1>10, <1>11, <1>12, <1>13, <1>14, <1>15, <1>16 DEF Handle

-----------------------------------------------------------------------------
(* The attempt cookie.                                                     *)

\* Wherever the cookie is, a sign-in was asked; a page that lets in or logs
\* out takes it away.
WasAsked(q) ==
  /\ q.jar["attempt"] /= None \/ q.set["attempt"] = "1" \/ q.page = "cancelled" => asked
  /\ q.page \in {"editor", "signed out"} => q.set["attempt"] = None

PendingInv ==
  /\ jar["attempt"] /= None => asked
  /\ \A r \in Requests : WasAsked(req[r])

LEMMA PendingInit == Init => PendingInv
BY NoCookiesTyped, IdleTyped DEF Init, PendingInv, WasAsked, Cookies

LEMMA PendingNext == TypeInv /\ PendingInv /\ [Next]_vars => PendingInv'
<1> SUFFICES ASSUME TypeInv, PendingInv, [Next]_vars PROVE PendingInv'
  OBVIOUS
<1>0. /\ NoCookies["attempt"] = None /\ AsIs["attempt"] = Keep
      /\ Idle.jar = NoCookies /\ Idle.set = AsIs /\ Idle.page = "none"
  BY NoCookiesTyped, IdleTyped DEF Cookies
<1>1. ASSUME NEW r \in Requests, Send(r) PROVE PendingInv'
  <2>1. /\ req'[r].jar = jar /\ req'[r].set = AsIs /\ req'[r].page = "none"
        /\ \A s \in Requests \ {r} : req'[s] = req[s]
        /\ jar' = jar /\ asked' = asked
    BY <1>1, Sent
  <2> QED
    BY <1>0, <2>1 DEF PendingInv, WasAsked
<1>2. ASSUME NEW r \in Requests, Handle(r) PROVE PendingInv'
  <2>1. Answers(r) /\ OfAttempt(r)
    BY <1>2, Handled
  <2>2. jar' = jar /\ (asked => asked') /\ \A s \in Requests \ {r} : req'[s] = req[s]
    BY <2>1 DEF Answers, OfAttempt, Still
  <2>3. WasAsked(req[r])'
    <3>1. req'[r].jar["attempt"] = None
      BY <1>0, <2>1 DEF Answers
    <3>2. req'[r].page = "cancelled" => asked
      BY <2>1 DEF OfAttempt, PendingInv, WasAsked
    <3> QED
      BY <2>1, <2>2, <3>1, <3>2 DEF OfAttempt, WasAsked
  <2>4. \A s \in Requests \ {r} : WasAsked(req[s])'
    BY <2>2 DEF PendingInv, WasAsked
  <2> QED
    BY <2>2, <2>3, <2>4 DEF PendingInv
<1>3. ASSUME NEW r \in Requests, Deliver(r) PROVE PendingInv'
  <2>1. /\ req'[r] = Idle /\ \A s \in Requests \ {r} : req'[s] = req[s]
        /\ jar'["attempt"] = IF req[r].set["attempt"] = Keep THEN jar["attempt"]
                             ELSE req[r].set["attempt"]
    BY <1>3, Over, Delivered DEF Cookies
  <2>2. req[r].set["attempt"] \in {"1", None, Keep}
    BY ValuesOf DEF TypeInv, Typed, Cookies
  <2>3. CASE Outstanding(r) = {} /\ req[r].page \in {"editor", "signed out"}
    <3>1. \A s \in Requests : req'[s] = Idle
      BY <2>1, <2>3, Alone
    <3>2. jar'["attempt"] = None
      BY <2>1, <2>3 DEF PendingInv, WasAsked
    <3> QED
      BY <1>0, <3>1, <3>2 DEF PendingInv, WasAsked
  <2>4. CASE ~(Outstanding(r) = {} /\ req[r].page \in {"editor", "signed out"})
    <3>1. asked' = asked
      BY <1>3, <2>4 DEF Deliver, TypeInv, TypeOK
    <3> QED
      BY <1>0, <2>1, <2>2, <3>1 DEF PendingInv, WasAsked
  <2> QED
    BY <2>3, <2>4
<1>4. ASSUME NEW r \in Requests, Lose(r) PROVE PendingInv'
  BY <1>0, <1>4, Over DEF Lose, PendingInv, WasAsked
<1>5. ASSUME AttemptExpires PROVE PendingInv'
  BY <1>5 DEF AttemptExpires, PendingInv, WasAsked, TypeInv, TypeOK, Cookies
<1>6. ASSUME NEW t \in Tokens, TokenDies(t) PROVE PendingInv'
  BY <1>6 DEF TokenDies, PendingInv, WasAsked
<1>7. CASE UNCHANGED vars
  BY <1>7 DEF vars, PendingInv, WasAsked
<1> QED
  BY <1>1, <1>2, <1>3, <1>4, <1>5, <1>6, <1>7 DEF Next

\* The profile editor says that a sign-in was cancelled only to a browser it
\* asked to sign in and has not let in, nor logged out, since, however its
\* requests cross (requirePassportAuth and the attempt cookie).
THEOREM CancelledIsAsked == Spec => []CancelledWasAsked
<1>1. PendingInv => CancelledWasAsked
  BY DEF PendingInv, WasAsked, CancelledWasAsked
<1> QED
  BY <1>1, TypeInit, TypeNext, PendingInit, PendingNext, PTL DEF Spec

-----------------------------------------------------------------------------
(* The cookies of a session.                                               *)

\* Once it is out, the browser has none, has sent none and will be given none.
Clean(q) ==
  /\ q.auth = None /\ q.op \notin SignIns
  /\ \A c \in SessionCookies : q.jar[c] = None /\ q.set[c] \in {None, Keep}

SignsOut(q) == q.page = "signed out" => \A c \in SessionCookies : q.set[c] = None

ForgottenInv ==
  /\ out => \A c \in SessionCookies : jar[c] = None
  /\ \A r \in Requests : (out => Clean(req[r])) /\ SignsOut(req[r])

LEMMA ForgottenInit == Init => ForgottenInv
BY IdleTyped DEF Init, ForgottenInv, SignsOut

LEMMA ForgottenNext == TypeInv /\ ForgottenInv /\ [Next]_vars => ForgottenInv'
<1> SUFFICES ASSUME TypeInv, ForgottenInv, [Next]_vars PROVE ForgottenInv'
  OBVIOUS
<1>0. /\ \A c \in SessionCookies : c \in Cookies /\ NoCookies[c] = None /\ AsIs[c] = Keep
      /\ Clean(Idle) /\ SignsOut(Idle)
  BY NoCookiesTyped, IdleTyped DEF Cookies, SessionCookies, SignIns, Clean, SignsOut
<1>1. ASSUME NEW r \in Requests, Send(r) PROVE ForgottenInv'
  <2>1. /\ req'[r].jar = jar /\ req'[r].set = AsIs /\ req'[r].page = "none"
        /\ \A s \in Requests \ {r} : req'[s] = req[s]
        /\ jar' = jar /\ out' = (out /\ req'[r].op \notin SignIns /\ req'[r].auth = None)
    BY <1>1, Sent
  <2>2. out' => Clean(req[r])'
    BY <1>0, <2>1 DEF ForgottenInv, Clean
  <2>3. SignsOut(req[r])'
    BY <2>1 DEF SignsOut
  <2> QED
    BY <2>1, <2>2, <2>3 DEF ForgottenInv
<1>2. ASSUME NEW r \in Requests, Handle(r) PROVE ForgottenInv'
  <2>1. Answers(r) /\ OfSession(r)
    BY <1>2, Handled
  <2>2. jar' = jar /\ out' = out /\ \A s \in Requests \ {r} : req'[s] = req[s]
    BY <2>1 DEF Answers, Still
  <2>3. out => Clean(req[r])'
    <3> SUFFICES ASSUME out PROVE Clean(req[r])'
      OBVIOUS
    <3>1. req'[r].auth = None /\ req'[r].op \notin SignIns /\ req'[r].jar = NoCookies
      BY <2>1 DEF Answers, SignIns
    <3>2. \A c \in SessionCookies : req'[r].set[c] \in {None, Keep}
      <4>1. Clean(req[r])
        BY DEF ForgottenInv
      <4> QED
        BY <2>1, <4>1 DEF OfSession, Clean, SessionCookies
    <3> QED
      BY <1>0, <3>1, <3>2 DEF Clean
  <2>4. SignsOut(req[r])'
    BY <2>1 DEF OfSession, SignsOut
  <2>5. \A s \in Requests \ {r} : (out => Clean(req[s])') /\ SignsOut(req[s])'
    BY <2>2 DEF ForgottenInv
  <2> QED
    BY <2>2, <2>3, <2>4, <2>5 DEF ForgottenInv
<1>3. ASSUME NEW r \in Requests, Deliver(r) PROVE ForgottenInv'
  <2>1. /\ req'[r] = Idle /\ \A s \in Requests \ {r} : req'[s] = req[s]
        /\ \A c \in SessionCookies :
             jar'[c] = IF req[r].set[c] = Keep THEN jar[c] ELSE req[r].set[c]
    BY <1>0, <1>3, Over, Delivered
  <2>2. CASE Outstanding(r) = {} /\ req[r].page = "signed out"
    <3>1. \A s \in Requests : req'[s] = Idle
      BY <2>1, <2>2, Alone
    <3>2. \A c \in SessionCookies : jar'[c] = None
      BY <2>1, <2>2 DEF ForgottenInv, SignsOut
    <3> QED
      BY <1>0, <3>1, <3>2 DEF ForgottenInv, Clean, SignsOut
  <2>3. CASE ~(Outstanding(r) = {} /\ req[r].page = "signed out")
    <3>1. out' = out
      BY <1>3, <2>3 DEF Deliver, TypeInv, TypeOK
    <3>2. out => \A c \in SessionCookies : jar'[c] = None
      BY <2>1 DEF ForgottenInv, Clean
    <3>3. \A s \in Requests : (out => Clean(req[s])') /\ SignsOut(req[s])'
      BY <1>0, <2>1 DEF ForgottenInv
    <3> QED
      BY <3>1, <3>2, <3>3 DEF ForgottenInv
  <2> QED
    BY <2>2, <2>3
<1>4. ASSUME NEW r \in Requests, Lose(r) PROVE ForgottenInv'
  <2>1. req'[r] = Idle /\ \A s \in Requests \ {r} : req'[s] = req[s]
    BY <1>4, Over
  <2>2. jar' = jar /\ out' = out
    BY <1>4 DEF Lose
  <2> QED
    BY <1>0, <2>1, <2>2 DEF ForgottenInv
<1>5. ASSUME AttemptExpires PROVE ForgottenInv'
  <2>1. \A c \in SessionCookies : jar'[c] = jar[c]
    BY <1>5 DEF AttemptExpires, SessionCookies, TypeInv, TypeOK, Cookies
  <2>2. req' = req /\ out' = out
    BY <1>5 DEF AttemptExpires
  <2> QED
    BY <2>1, <2>2 DEF ForgottenInv, Clean, SignsOut
<1>6. ASSUME NEW t \in Tokens, TokenDies(t) PROVE ForgottenInv'
  BY <1>6 DEF TokenDies, ForgottenInv, Clean, SignsOut
<1>7. CASE UNCHANGED vars
  BY <1>7 DEF vars, ForgottenInv, Clean, SignsOut
<1> QED
  BY <1>1, <1>2, <1>3, <1>4, <1>5, <1>6, <1>7 DEF Next

\* After a logout whose answer came last, no cookie of a session comes back
\* before a password or a ticket is given: no answer still on its way, nor any
\* page asked for since, brings one (handleLogout clears all three cookies).
THEOREM StaysOut == Spec => []SignedOutStaysOut
<1>1. ForgottenInv => SignedOutStaysOut
  BY DEF ForgottenInv, SignedOutStaysOut
<1> QED
  BY <1>1, TypeInit, TypeNext, ForgottenInit, ForgottenNext, PTL DEF Spec

-----------------------------------------------------------------------------
(* The CSRF cookie.                                                        *)

\* An answer that sets the cookie carries the form it is for.
BringsForm(q) ==
  q.set["LPCsrf"] /= Keep => q.op = "form" /\ q.form = q.set["LPCsrf"] /\ q.form \in Forms

\* A form on its way is that of the jar's cookie, or brings the first one.
AgreesWithJar(q) ==
  /\ q.pc = "sent" /\ q.op = "form" => q.jar["LPCsrf"] = jar["LPCsrf"]
  /\ q.csrf /= None => q.csrf = jar["LPCsrf"]
  /\ q.form /= None => \/ q.form = jar["LPCsrf"] /\ q.set["LPCsrf"] = Keep
                       \/ q.form = q.set["LPCsrf"] /\ jar["LPCsrf"] = None

\* While there is no cookie, one page at a time asks for it.
OneFirst ==
  jar["LPCsrf"] = None =>
    \A r, s \in Requests : req[r].op = "form" /\ req[s].op = "form" => r = s

CsrfInv ==
  /\ \A r \in Requests : BringsForm(req[r])
  /\ ~raced => /\ \A f \in open : f = jar["LPCsrf"]
               /\ \A r \in Requests : AgreesWithJar(req[r])
               /\ OneFirst

LEMMA IdleForm == BringsForm(Idle) /\ AgreesWithJar(Idle) /\ AgreesWithJar(Idle)'
BY IdleTyped, NoCookiesTyped DEF BringsForm, AgreesWithJar, Cookies

\* What the jar and an untouched request agree on, they go on agreeing on.
LEMMA AgreesStill ==
  ASSUME NEW s \in Requests, req'[s] = req[s], jar'["LPCsrf"] = jar["LPCsrf"],
         AgreesWithJar(req[s])
  PROVE  AgreesWithJar(req[s])'
BY DEF AgreesWithJar

LEMMA CsrfInit == Init => CsrfInv
BY IdleTyped, IdleForm DEF Init, CsrfInv, OneFirst

LEMMA CsrfNext == TypeInv /\ CsrfInv /\ [Next]_vars => CsrfInv'
<1> SUFFICES ASSUME TypeInv, CsrfInv, [Next]_vars PROVE CsrfInv'
  OBVIOUS
<1> DEFINE csrf == jar["LPCsrf"]
<1>0. /\ Idle.op = "none" /\ None \notin Forms /\ Keep \notin Forms /\ open \subseteq Forms
      /\ \A r \in Requests : /\ req[r].form \in Forms \cup {None}
                             /\ req[r].pc = "idle" => req[r].op = "none"
  BY IdleTyped DEF TypeInv, TypeOK, Typed
<1>1. ASSUME NEW r \in Requests, Send(r) PROVE CsrfInv'
  <2>1. /\ req'[r].pc = "sent" /\ req'[r].jar = jar /\ req'[r].set = AsIs
        /\ req'[r].form = None /\ req'[r].csrf \in open \cup {None}
        /\ \A s \in Requests \ {r} : req'[s] = req[s]
        /\ raced' = (raced \/ (/\ NeedsCsrf(req'[r].op, jar)
                               /\ \E s \in Outstanding(r) : req[s].op = "form"))
        /\ UNCHANGED <<jar, open>>
    BY <1>1, Sent
  <2>2. BringsForm(req[r])'
    BY <2>1, NoCookiesTyped DEF BringsForm, Cookies
  <2>3. \A s \in Requests \ {r} : BringsForm(req[s])'
    BY <2>1 DEF CsrfInv
  <2>4. ASSUME ~raced' PROVE (\A s \in Requests : AgreesWithJar(req[s])') /\ OneFirst'
    <3>1. ~raced
      BY <2>1, <2>4
    <3>2. AgreesWithJar(req[r])'
      BY <2>1, <3>1 DEF CsrfInv, AgreesWithJar
    <3>3. \A s \in Requests \ {r} : AgreesWithJar(req[s])'
      BY <2>1, <3>1, AgreesStill DEF CsrfInv
    <3>4. ASSUME req'[r].op = "form", csrf = None, NEW s \in Requests \ {r}
          PROVE  req[s].op /= "form"
      BY <1>0, <2>1, <2>4, <3>4 DEF NeedsCsrf, Outstanding
    <3>5. OneFirst'
      BY <2>1, <3>1, <3>4 DEF OneFirst, CsrfInv
    <3> QED
      BY <3>2, <3>3, <3>5
  <2> QED
    BY <2>1, <2>2, <2>3, <2>4 DEF CsrfInv
<1>2. ASSUME NEW r \in Requests, Handle(r) PROVE CsrfInv'
  <2>1. Answers(r) /\ OfForm(r)
    BY <1>2, Handled
  <2>2. /\ UNCHANGED <<jar, open, raced>> /\ req[r].pc = "sent"
        /\ req'[r].pc = "answered" /\ req'[r].csrf = None
        /\ \A s \in Requests \ {r} : req'[s] = req[s]
    BY <2>1 DEF Answers, Still
  <2>3. BringsForm(req[r])'
    BY <1>0, <2>1 DEF OfForm, BringsForm
  <2>4. \A s \in Requests \ {r} : BringsForm(req[s])'
    BY <2>2 DEF CsrfInv
  <2>5. ASSUME ~raced PROVE (\A s \in Requests : AgreesWithJar(req[s])') /\ OneFirst'
    <3>1. AgreesWithJar(req[r]) /\ OneFirst
      BY <2>5 DEF CsrfInv
    <3>2. AgreesWithJar(req[r])'
      BY <2>1, <2>2, <3>1 DEF OfForm, AgreesWithJar
    <3>3. \A s \in Requests \ {r} : AgreesWithJar(req[s])'
      BY <2>2, <2>5, AgreesStill DEF CsrfInv
    <3>4. req'[r].op = "form" => req[r].op = "form"
      BY <2>1 DEF OfForm
    <3>5. OneFirst'
      BY <2>2, <3>1, <3>4 DEF OneFirst
    <3> QED
      BY <3>2, <3>3, <3>5
  <2> QED
    BY <2>2, <2>3, <2>4, <2>5 DEF CsrfInv
<1>3. ASSUME NEW r \in Requests, Deliver(r) \/ Lose(r)
      PROVE  /\ \A s \in Requests : BringsForm(req[s])'
             /\ req'[r] = Idle /\ \A s \in Requests \ {r} : req'[s] = req[s]
             /\ ~raced /\ jar'["LPCsrf"] = csrf =>
                  (\A s \in Requests : AgreesWithJar(req[s])') /\ OneFirst'
  <2>1. req'[r] = Idle /\ \A s \in Requests \ {r} : req'[s] = req[s]
    BY <1>3, Over
  <2>2. \A s \in Requests : BringsForm(req[s])'
    BY <2>1, IdleForm DEF CsrfInv
  <2>3. ASSUME ~raced, jar'["LPCsrf"] = csrf
        PROVE  (\A s \in Requests : AgreesWithJar(req[s])') /\ OneFirst'
    <3>1. AgreesWithJar(req[r])'
      BY <2>1, IdleTyped, NoCookiesTyped DEF AgreesWithJar, Cookies
    <3>2. \A s \in Requests \ {r} : AgreesWithJar(req[s])'
      BY <2>1, <2>3, AgreesStill DEF CsrfInv
    <3>3. OneFirst'
      BY <1>0, <2>1, <2>3 DEF OneFirst, CsrfInv
    <3> QED
      BY <3>1, <3>2, <3>3
  <2> QED
    BY <2>1, <2>2, <2>3
<1>4. ASSUME NEW r \in Requests, Deliver(r) PROVE CsrfInv'
  <2> DEFINE q == req[r]
  <2>1. /\ jar'["LPCsrf"] = IF q.set["LPCsrf"] = Keep THEN csrf ELSE q.set["LPCsrf"]
        /\ open' = IF q.form = None THEN open ELSE open \cup {q.form}
        /\ raced' = raced
    BY <1>4, Delivered DEF Deliver, Cookies
  <2>2. CASE ~raced /\ q.set["LPCsrf"] = Keep
    <3>1. q.form = None \/ q.form = csrf
      BY <1>0, <2>2 DEF CsrfInv, AgreesWithJar
    <3>2. \A f \in open' : f = jar'["LPCsrf"]
      BY <2>1, <2>2, <3>1 DEF CsrfInv
    <3> QED
      BY <1>3, <1>4, <2>1, <2>2, <3>2 DEF CsrfInv
  <2>3. CASE ~raced /\ q.set["LPCsrf"] /= Keep
    <3>1. q.op = "form" /\ q.form = q.set["LPCsrf"] /\ q.form \in Forms
      BY <2>3 DEF CsrfInv, BringsForm
    <3>2. csrf = None /\ open = {}
      BY <1>0, <2>3, <3>1 DEF CsrfInv, AgreesWithJar
    <3>3. jar'["LPCsrf"] = q.form /\ open' = {q.form}
      BY <1>0, <2>1, <2>3, <3>1, <3>2
    <3>4. ASSUME NEW s \in Requests \ {r} PROVE AgreesWithJar(req[s])'
      <4>1. req'[s] = req[s] /\ AgreesWithJar(req[s]) /\ BringsForm(req[s])
        BY <1>3, <1>4, <2>3 DEF CsrfInv
      <4>2. req[s].op /= "form"
        BY <2>3, <3>1, <3>2 DEF CsrfInv, OneFirst
      <4>3. req[s].csrf = None /\ req[s].form = None
        BY <1>0, <3>2, <4>1, <4>2 DEF AgreesWithJar, BringsForm
      <4> QED
        BY <4>1, <4>2, <4>3 DEF AgreesWithJar
    <3>5. AgreesWithJar(req[r])'
      BY <1>3, <1>4, IdleTyped, NoCookiesTyped DEF AgreesWithJar, Cookies
    <3>6. OneFirst'
      BY <1>0, <3>1, <3>3 DEF OneFirst
    <3> QED
      BY <1>3, <1>4, <3>3, <3>4, <3>5, <3>6 DEF CsrfInv
  <2>4. CASE raced
    BY <1>3, <1>4, <2>1, <2>4 DEF CsrfInv
  <2> QED
    BY <2>2, <2>3, <2>4
<1>5. ASSUME NEW r \in Requests, Lose(r) PROVE CsrfInv'
  <2>1. UNCHANGED <<jar, open, raced>>
    BY <1>5 DEF Lose
  <2> QED
    BY <1>3, <1>5, <2>1 DEF CsrfInv
<1>6. ASSUME UNCHANGED <<req, open, raced>>, jar'["LPCsrf"] = csrf PROVE CsrfInv'
  BY <1>6 DEF CsrfInv, BringsForm, AgreesWithJar, OneFirst
<1>7. ASSUME AttemptExpires PROVE CsrfInv'
  <2>1. jar'["LPCsrf"] = csrf /\ UNCHANGED <<req, open, raced>>
    BY <1>7 DEF AttemptExpires, TypeInv, TypeOK, Cookies
  <2> QED
    BY <1>6, <2>1
<1>8. ASSUME NEW t \in Tokens, TokenDies(t) PROVE CsrfInv'
  BY <1>6, <1>8 DEF TokenDies
<1>9. CASE UNCHANGED vars
  BY <1>6, <1>9 DEF vars
<1> QED
  BY <1>1, <1>2, <1>4, <1>5, <1>7, <1>8, <1>9 DEF Next

\* However its pages and posts cross, and whatever answers are lost, every form
\* the browser has open carries the token of its CSRF cookie, so that
\* validateCSRF accepts it, unless two pages were asked for at a time before
\* the first cookie came (ensureCSRFToken).
THEOREM FormsValidate == Spec => []OpenFormsValidate
<1>1. CsrfInv => OpenFormsValidate
  BY DEF CsrfInv, OpenFormsValidate
<1> QED
  BY <1>1, TypeInit, TypeNext, CsrfInit, CsrfNext, PTL DEF Spec

-----------------------------------------------------------------------------
(* A browser that asks for one page at a time and whose tokens do not      *)
(* expire.                                                                 *)

Carries(q) ==
  \A c \in SessionCookies :
    /\ q.pc = "sent" => q.jar[c] \in live \cup {None}
    /\ q.set[c] \in live \cup {None, Keep}

OneAtATime == \A r, s \in Requests : r /= s => req[r].pc = "idle" \/ req[s].pc = "idle"

\* A cookie of the jar, or of a request, names a live token, unless an answer
\* is on its way that clears it.
LiveInv ==
  plain => /\ OneAtATime
           /\ \A r \in Requests : Carries(req[r])
           /\ \A c \in SessionCookies :
                jar[c] \in live \cup {None} \/ \E r \in Requests : req[r].set[c] = None

LEMMA IdleCarries == Carries(Idle) /\ Carries(Idle)' /\ \A c \in SessionCookies : Idle.set[c] = Keep
BY IdleTyped, NoCookiesTyped DEF Carries, SessionCookies, Cookies

LEMMA LiveInit == Init => LiveInv
BY IdleTyped, IdleCarries, NoCookiesTyped
DEF Init, LiveInv, OneAtATime, SessionCookies, Cookies

LEMMA LiveNext == TypeInv /\ LiveInv /\ [Next]_vars => LiveInv'
<1> SUFFICES ASSUME TypeInv, LiveInv, [Next]_vars PROVE LiveInv'
  OBVIOUS
\* A request under way is alone, and no other answer clears a cookie.
<1>0. ASSUME plain, NEW r \in Requests, req[r].pc /= "idle" \/ Outstanding(r) = {}
      PROVE  /\ \A s \in Requests \ {r} : req[s] = Idle
             /\ \A c \in SessionCookies :
                  jar[c] \in live \cup {None} \/ req[r].set[c] = None
  <2>1. \A s \in Requests \ {r} : req[s] = Idle
    <3>1. Outstanding(r) = {}
      BY <1>0 DEF LiveInv, OneAtATime, Outstanding
    <3> QED
      BY <3>1, Alone
  <2> QED
    BY <1>0, <2>1, IdleCarries DEF LiveInv
<1>1. ASSUME NEW r \in Requests, Send(r) PROVE LiveInv'
  <2> SUFFICES ASSUME plain' PROVE LiveInv'
    BY DEF LiveInv
  <2>1. /\ req[r].pc = "idle" /\ plain /\ Outstanding(r) = {}
        /\ req'[r].pc = "sent" /\ req'[r].jar = jar /\ req'[r].set = AsIs
        /\ \A s \in Requests \ {r} : req'[s] = req[s]
        /\ UNCHANGED <<live, jar>>
    BY <1>1, Sent
  <2>2. /\ \A s \in Requests \ {r} : req'[s] = Idle
        /\ \A c \in SessionCookies : jar[c] \in live \cup {None}
    <3>1. req[r] = Idle
      BY <2>1 DEF TypeInv, Typed
    <3> QED
      BY <1>0, <2>1, <3>1, IdleCarries
  <2>3. Carries(req[r])'
    BY <2>1, <2>2, NoCookiesTyped DEF Carries, SessionCookies, Cookies
  <2>4. \A s \in Requests \ {r} : Carries(req[s])'
    BY <2>2, IdleCarries
  <2>5. OneAtATime'
    BY <2>2, IdleTyped DEF OneAtATime
  <2> QED
    BY <2>1, <2>2, <2>3, <2>4, <2>5 DEF LiveInv
<1>2. ASSUME NEW r \in Requests, Handle(r) PROVE LiveInv'
  <2>1. Answers(r) /\ OfSession(r)
    BY <1>2, Handled
  <2>2. /\ UNCHANGED <<jar, plain>> /\ req[r].pc = "sent" /\ req'[r].pc = "answered"
        /\ \A s \in Requests \ {r} : req'[s] = req[s]
    BY <2>1 DEF Answers, Still
  <2> SUFFICES ASSUME plain PROVE LiveInv'
    BY <2>2 DEF LiveInv
  <2>3. /\ \A s \in Requests \ {r} : req'[s] = Idle
        /\ \A c \in SessionCookies : jar[c] \in live \cup {None}
    <3>1. \A c \in SessionCookies : req[r].set[c] /= None
      BY <2>2, NoCookiesTyped DEF TypeInv, Typed, SessionCookies, Cookies
    <3> QED
      BY <1>0, <2>2, <3>1
  <2>4. Carries(req[r])'
    <3>1. req[r].jar["PPAuth"] \in live \cup {None}
      BY <2>2 DEF LiveInv, Carries, SessionCookies
    <3>2. \A c \in SessionCookies : req'[r].set[c] \in live' \cup {None, Keep}
      BY <2>1, <3>1 DEF OfSession
    <3> QED
      BY <2>2, <3>2 DEF Carries
  <2>5. \A s \in Requests \ {r} : Carries(req[s])'
    BY <2>3, IdleCarries
  <2>6. OneAtATime'
    BY <2>3, IdleTyped DEF OneAtATime
  <2>7. \A c \in SessionCookies : jar'[c] \in live' \cup {None} \/ req'[r].set[c] = None
    BY <2>1, <2>2, <2>3 DEF OfSession
  <2> QED
    BY <2>4, <2>5, <2>6, <2>7 DEF LiveInv
<1>3. ASSUME NEW r \in Requests, Deliver(r) PROVE LiveInv'
  <2>1. /\ req'[r] = Idle /\ \A s \in Requests \ {r} : req'[s] = req[s]
        /\ \A c \in SessionCookies :
             jar'[c] = IF req[r].set[c] = Keep THEN jar[c] ELSE req[r].set[c]
    BY <1>3, Over, Delivered DEF SessionCookies, Cookies
  <2>2. UNCHANGED <<live, plain>> /\ req[r].pc = "answered"
    BY <1>3 DEF Deliver
  <2> SUFFICES ASSUME plain PROVE LiveInv'
    BY <2>2 DEF LiveInv
  <2>3. /\ \A s \in Requests : req'[s] = Idle
        /\ \A c \in SessionCookies : jar[c] \in live \cup {None} \/ req[r].set[c] = None
    BY <1>0, <2>1, <2>2
  <2>4. \A c \in SessionCookies : req[r].set[c] \in live \cup {None, Keep}
    BY DEF LiveInv, Carries
  <2>5. \A c \in SessionCookies : jar'[c] \in live' \cup {None}
    BY <2>1, <2>2, <2>3, <2>4
  <2>6. OneAtATime' /\ \A s \in Requests : Carries(req[s])'
    BY <2>3, IdleTyped, IdleCarries DEF OneAtATime
  <2> QED
    BY <2>5, <2>6 DEF LiveInv
<1>4. ASSUME NEW r \in Requests, Lose(r) PROVE LiveInv'
  BY <1>4 DEF Lose, LiveInv
<1>5. ASSUME UNCHANGED <<req, live, plain>>, \A c \in SessionCookies : jar'[c] = jar[c]
      PROVE  LiveInv'
  BY <1>5 DEF LiveInv, OneAtATime, Carries
<1>6. ASSUME AttemptExpires PROVE LiveInv'
  <2>1. UNCHANGED <<req, live, plain>> /\ \A c \in SessionCookies : jar'[c] = jar[c]
    BY <1>6 DEF AttemptExpires, SessionCookies, TypeInv, TypeOK, Cookies
  <2> QED
    BY <1>5, <2>1
<1>7. ASSUME NEW t \in Tokens, TokenDies(t) PROVE LiveInv'
  BY <1>7 DEF TokenDies, LiveInv
<1>8. CASE UNCHANGED vars
  BY <1>5, <1>8 DEF vars
<1> QED
  BY <1>1, <1>2, <1>3, <1>4, <1>6, <1>7, <1>8 DEF Next

\* requirePassportAuth asks for a sign-in only where it finds no live token.
LEMMA GateAsks ==
  ASSUME TypeInv, NEW r \in Requests, Handle(r), req[r].op \in Gate,
         req'[r].page \in {"challenge", "cancelled"}
  PROVE  ~HasValidPassportAuth(req[r])
<1>1. Admit(r) \/ Challenge(r) \/ LogoutFails(r)
  BY DEF Handle, Login, Reuse, Refuse, Form, Post, Fallback, Finish, Partner, Logout,
         Handling, Gate
<1>2. ~LogoutFails(r)
  BY DEF LogoutFails, Handling, Gate
<1>3. ASSUME Admit(r) PROVE FALSE
  <2>1. /\ req[r] \in Request /\ req[r].auth \in Tokens \cup {None}
        /\ \A c \in SessionCookies : req[r].jar[c] \in Tokens \cup {None}
        /\ Answer(r, Admission(req[r]), "editor", None)
    BY <1>3 DEF Admit, TypeInv, TypeOK, Typed
  <2>2. Admission(req[r]) \in [Cookies -> Value \cup {Keep}] /\ "editor" \in Pages
    BY <2>1, AdmissionSets DEF Settable, Pages
  <2>3. req'[r].page = "editor"
    BY <2>1, <2>2, AnswerIs DEF TypeInv
  <2> QED
    BY <2>3
<1> QED
  BY <1>1, <1>2, <1>3 DEF Challenge

\* A browser that asks for one page at a time and whose tokens die by logouts
\* alone is let in to the profile editor with every live PPAuth cookie: no
\* MSPAuth cookie left behind by requirePassportAuth, the partner pages, the
\* wizard or a logout stands in its way (hasValidPassportAuth).
THEOREM SignedInIsAdmitted == Spec => SignedInIsLetIn
<1> DEFINE Admitted(r) ==
      (/\ plain
       /\ Handling(r, Gate) /\ req'[r].page \in {"challenge", "cancelled"}
       /\ req[r].auth \in live \cup {None})
         => req[r].jar["PPAuth"] \notin live
<1>1. ASSUME TypeInv, LiveInv, [Next]_vars, NEW r \in Requests, plain, Handling(r, Gate),
             req'[r].page \in {"challenge", "cancelled"}, req[r].auth \in live \cup {None}
      PROVE  req[r].jar["PPAuth"] \notin live
  <2>1. req[r].pc = "sent" /\ req[r].op \in Gate /\ req[r].page = "none"
    BY <1>1 DEF Handling, TypeInv, Typed
  <2>2. Handle(r)
    <3>1. ASSUME NEW s \in Requests, Send(s) \/ Deliver(s) \/ Lose(s) PROVE FALSE
      <4>1. CASE s = r
        BY <1>1, <2>1, <3>1, <4>1, Over, IdleTyped DEF Send, Deliver
      <4>2. CASE s /= r
        BY <1>1, <2>1, <3>1, <4>2, Sent, Over
      <4> QED
        BY <4>1, <4>2
    <3>2. ASSUME NEW s \in Requests, Handle(s), s /= r PROVE FALSE
      BY <1>1, <2>1, <3>2, Handled DEF Answers
    <3>3. ~(AttemptExpires \/ (\E t \in Tokens : TokenDies(t)) \/ UNCHANGED vars)
      BY <1>1, <2>1 DEF AttemptExpires, TokenDies, vars
    <3> QED
      BY <1>1, <3>1, <3>2, <3>3 DEF Next
  <2>3. ~HasValidPassportAuth(req[r])
    BY <1>1, <2>1, <2>2, GateAsks
  <2>4. req[r].jar["MSPAuth"] \in live \cup {None}
    BY <1>1, <2>1 DEF LiveInv, Carries, SessionCookies
  <2>5. None \notin live
    BY <1>1 DEF TypeInv, TypeOK
  <2> QED
    BY <1>1, <2>3, <2>4, <2>5 DEF HasValidPassportAuth, PassportToken, TokenFromRequest
<1>2. TypeInv /\ LiveInv /\ [Next]_vars => [\A r \in Requests : Admitted(r)]_vars
  BY <1>1
<1> HIDE DEF Admitted
<1>3. Spec => [][\A r \in Requests : Admitted(r)]_vars
  BY <1>2, TypeInit, TypeNext, LiveInit, LiveNext, PTL DEF Spec
<1> QED
  BY <1>3 DEF SignedInIsLetIn, Admitted
=============================================================================
