-------------------------------- MODULE Texts --------------------------------
(***************************************************************************)
(* Texts the server takes apart again after it, or the browser, has put    *)
(* them together: the Authorization header with a password or a ticket in  *)
(* it, the list of redirect URIs of a partner application, and the URL a   *)
(* browser that has to sign in is to come back to.                         *)
(*                                                                         *)
(* A text is a sequence of symbols: a character, or one of the names the   *)
(* code writes ("pwd", "from-PP", "t", "ru").  An escaped character is two *)
(* symbols, "%" and its code.  Someone types a text, one symbol at a time; *)
(* the properties put it through what the code does with it and compare    *)
(* the result with what was typed.                                         *)
(***************************************************************************)
EXTENDS Naturals, Sequences, FiniteSets, SequencesExt

CONSTANTS
  Symbols,   \* what can be typed
  MaxLength  \* how many symbols are typed at most

ASSUME LengthAssumption == MaxLength \in Nat

VARIABLE text  \* what has been typed

-----------------------------------------------------------------------------
(* Package net/url and package strings.                                    *)

\* Two characters the proofs keep opaque: the provers' own notation has no
\* room for them.
Blank == " "
Comma == ","

\* Characters url.QueryEscape does not leave alone, with their codes.
Codes == [c \in {Comma, "=", "'", "%", "+", "&", "/", ":", "?", "\r", "\n"} |->
            CASE c = Comma -> "2C" [] c = "=" -> "3D" [] c = "'" -> "27" [] c = "%" -> "25"
              [] c = "+" -> "2B" [] c = "&" -> "26" [] c = "/" -> "2F" [] c = ":" -> "3A"
              [] c = "?" -> "3F" [] c = "\r" -> "0D" [] c = "\n" -> "0A"]

Decode(code) == CHOOSE c \in DOMAIN Codes : Codes[c] = code

Escaped(c) ==
  IF c = Blank THEN <<"+">> ELSE IF c \in DOMAIN Codes THEN <<"%", Codes[c]>> ELSE <<c>>

QueryEscape(s) == FlattenSeq([i \in 1..Len(s) |-> Escaped(s[i])])

IsEscape(s, i) ==
  s[i] = "%" /\ i < Len(s) /\ s[i + 1] \in {Codes[c] : c \in DOMAIN Codes}

Unescaped(s, i) ==
  IF s[i] = "%" THEN <<Decode(s[i + 1])>>
  ELSE IF i > 1 /\ s[i - 1] = "%" THEN <<>>
  ELSE IF s[i] = "+" THEN <<Blank>> ELSE <<s[i]>>

\* The text itself when it holds a "%" that starts no escape.
QueryUnescape(s) ==
  IF \E i \in 1..Len(s) : s[i] = "%" /\ ~IsEscape(s, i) THEN s
  ELSE FlattenSeq([i \in 1..Len(s) |-> Unescaped(s, i)])

Cut(s, c) ==  \* the parts before and after the first c
  LET i == SelectInSeq(s, LAMBDA x : x = c)
  IN IF i = 0 THEN <<s, <<>>>> ELSE <<SubSeq(s, 1, i - 1), SubSeq(s, i + 1, Len(s))>>

\* Another character: the last part goes on, or c ends it and begins the next.
Continue(parts, x, c) ==
  IF x = c THEN Append(parts, <<>>)
  ELSE Append(Front(parts), Append(Last(parts), x))

Split(s, c) ==
  LET parts[n \in 0..Len(s)] ==
        IF n = 0 THEN <<<<>>>> ELSE Continue(parts[n - 1], s[n], c)
  IN parts[Len(s)]

Trim(s, cutset) ==
  LET kept == {i \in 1..Len(s) : s[i] \notin cutset}
      least == CHOOSE i \in kept : \A j \in kept : i <= j
      most == CHOOSE i \in kept : \A j \in kept : j <= i
  IN IF kept = {} THEN <<>> ELSE SubSeq(s, least, most)

Space == {Blank, "\n", "\r"}

TrimSpace(s) == Trim(s, Space)

-----------------------------------------------------------------------------
(* parsePassportAuthorization: fields between commas, a key before the     *)
(* first "=", and a value without quotes, unescaped.                       *)

ValueTrimsLast(raw) == Trim(QueryUnescape(TrimSpace(raw)), {"'"})

Value(raw) == QueryUnescape(Trim(TrimSpace(raw), {"'"}))

KeyAndRaw(field) == Cut(field, "=")

\* The value of a key, that of its last field; nothing without one.
Authorization(header, key) ==
  LET fields == Split(header, Comma)
      i == SelectLastInSeq(fields, LAMBDA f : /\ \E n \in 1..Len(f) : f[n] = "="
                                              /\ TrimSpace(KeyAndRaw(f)[1]) = <<key>>)
  IN IF i = 0 THEN <<>> ELSE Value(KeyAndRaw(fields[i])[2])

TokenFromHeader(header) ==
  LET fromPP == Authorization(header, "from-PP")
  IN IF Len(fromPP) >= 2 /\ SubSeq(fromPP, 1, 2) = <<"t", "=">>
     THEN Cut(SubSeq(fromPP, 3, Len(fromPP)), "&")[1] ELSE fromPP

\* Client and server have the client's side of it from each other: the
\* client escapes what was typed, the ticket it sends as it got it.
Credentials(signIn, pwd) ==
  <<"sign-in", "=">> \o QueryEscape(signIn) \o <<Comma, "pwd", "=">> \o QueryEscape(pwd)

\* writePassportTokenResponse: from-PP with the profile of a member.
FromPP(member) ==
  <<"from-PP", "=", "'", "t", "=", "token", "&", "p", "=">>
    \o QueryEscape(<<"MemberName", "=">> \o member) \o <<"'">>

-----------------------------------------------------------------------------
(* Redirect URIs of a partner application, one per line of a form.         *)

\* What splitRedirectURIs and joinRedirectURIs both do to a list of lines.
Cleaned(lines) ==
  FlattenSeq([i \in 1..Len(lines) |->
                IF TrimSpace(lines[i]) = <<>> THEN <<>> ELSE <<TrimSpace(lines[i])>>])

SplitRedirectURIs(raw) == Cleaned(Split(raw, "\n"))

Joined(uris, separator) ==
  FlattenSeq([i \in 1..Len(uris) |-> IF i = 1 THEN uris[i] ELSE <<separator>> \o uris[i]])

JoinWithSpaces(uris) == Joined(Cleaned(uris), Blank)

JoinRedirectURIs(uris) == Joined(Cleaned(uris), "\n")

AllowsRedirectURI(stored, uri) == Contains(SplitRedirectURIs(stored), TrimSpace(uri))

-----------------------------------------------------------------------------
(* handlePartnerComplete sends a browser without a session to sign in.     *)

Query(url, key) ==
  LET fields == Split(Cut(url, "?")[2], "&")
      i == SelectInSeq(fields, LAMBDA f : Cut(f, "=")[1] = <<key>>)
  IN IF i = 0 THEN <<>> ELSE QueryUnescape(Cut(fields[i], "=")[2])

CompleteURLUnescaped(ru) == <<"/", "partner", "/", "complete", "?", "ru", "=">> \o ru

CompleteURL(ru) == <<"/", "partner", "/", "complete", "?", "ru", "=">> \o QueryEscape(ru)

LoginURL(ru) ==
  <<"/", "oauth", "/", "login", "?", "return_to", "=">> \o QueryEscape(CompleteURL(ru))

IsSafeLocalReturn(path) ==
  /\ path /= <<>> /\ path[1] = "/" /\ ~(Len(path) > 1 /\ path[2] = "/")
  /\ ~\E i \in 1..Len(path) - 2 : SubSeq(path, i, i + 2) = <<":", "/", "/">>

-----------------------------------------------------------------------------

Init == text = <<>>

Type(c) ==
  /\ Len(text) < MaxLength
  /\ text' = Append(text, c)

Next == \E c \in Symbols : Type(c)

Spec == Init /\ [][Next]_text

-----------------------------------------------------------------------------
(* Properties.                                                             *)

\* Whatever is typed as a sign-in or as a password is what the account store
\* is asked about: quotes, commas, signs and blanks in it survive the escape,
\* the fields and the quotes of the header (parsePassportAuthorization).  And a
\* ticket comes back with the token it was issued with, whatever the name of
\* the member in its profile (profileBlobForToken, tokenFromRequest).
HeaderArrives ==
  /\ Authorization(Credentials(<<"a">>, text), "pwd") = text
  /\ Authorization(Credentials(text, <<"a">>), "sign-in") = text
  /\ TokenFromHeader(FromPP(text)) = <<"token">>

\* A line of the form: a stretch without line breaks, blanks at its ends left
\* out, and nothing but blanks between it and the breaks around it.
IsLine(form, i, j) ==
  LET blank(k) == form[k] \in {Blank, "\r"}
      between(m, n) == \A k \in m..n : form[k] /= "\n"
  IN /\ between(i, j) /\ ~blank(i) /\ ~blank(j)
     /\ \E m \in 0..i - 1 : /\ m = 0 \/ form[m] = "\n"
                            /\ \A k \in m + 1..i - 1 : blank(k)
     /\ \E n \in j + 1..Len(form) + 1 : /\ n = Len(form) + 1 \/ form[n] = "\n"
                                        /\ \A k \in j + 1..n - 1 : blank(k)

\* An application admits the lines of the form it was created with and nothing
\* else: the list it is stored as says the same as the form (createOAuthClient,
\* allowsRedirectURI).
FormIsTheAllowlist ==
  LET stored == JoinRedirectURIs(SplitRedirectURIs(text))
      pieces == {SubSeq(text, i, j) : i, j \in 1..Len(text)} \ {<<>>}
  IN \A uri \in pieces :
       TrimSpace(uri) = uri =>
         (AllowsRedirectURI(stored, uri)
            <=> \E i, j \in 1..Len(text) : /\ i <= j /\ SubSeq(text, i, j) = uri
                                           /\ IsLine(text, i, j))

\* A browser that had to sign in first completes the visit it was sent away
\* from: the URL to come back to counts as local, and names the same return
\* URL (handlePartnerComplete, isSafeLocalReturn).
SignInLeadsBack ==
  LET ru == TrimSpace(text)
      returnTo == Query(LoginURL(ru), "return_to")
  IN ru /= <<>> => IsSafeLocalReturn(returnTo) /\ Query(returnTo, "ru") = ru

=============================================================================
