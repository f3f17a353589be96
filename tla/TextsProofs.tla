----------------------------- MODULE TextsProofs -----------------------------
(***************************************************************************)
(* Theorems about Texts, for any set of symbols that can be typed and any  *)
(* length of what is typed.                                                *)
(*                                                                         *)
(* The only variable grows by a symbol at a time, so nothing is inductive  *)
(* in the steps: each property is a fact about every text, and follows     *)
(* from the type of the variable.  The facts are proved by induction over  *)
(* the text (TextInduction), the functions that escape, split, clean and   *)
(* join one by what they do with one more symbol, or one more part, at its *)
(* end (EscapeAppend, SplitAppend, CleanedAppend, JoinedAppend).  That     *)
(* such a function exists and is unique is proved here as well, because    *)
(* the theorems of the library about induction and recursion take an       *)
(* operator, and these take a set or a function.                           *)
(***************************************************************************)
EXTENDS Texts, SequenceTheorems, WellFoundedInduction, TLAPS

-----------------------------------------------------------------------------
(* Induction and recursion. *)

\* Induction over the naturals, with the set of those the claim is true of in
\* the place of the claim: the least one outside the set has a predecessor in it.
LEMMA Induction ==
  ASSUME NEW P \in SUBSET Nat, 0 \in P, \A n \in P : n + 1 \in P
  PROVE  \A n \in Nat : n \in P
<1> DEFINE less == {ss \in Nat \X Nat : ss[1] < ss[2]}
<1>1. OpToRel(<, Nat) = less
  BY Zenon DEF OpToRel
<1> HIDE DEF less
<1> SUFFICES ASSUME ~(\A n \in Nat : n \in P) PROVE FALSE
  OBVIOUS
<1> DEFINE R == Nat \ P
<1>2. R \in SUBSET Nat /\ R /= {}
  OBVIOUS
<1> HIDE DEF R
<1>3. \E x \in R : \A y \in R : <<y, x>> \notin less
  <2>1. \E x \in R : \A y \in R : ~(<<y, x>> \in OpToRel(<, Nat))
    BY <1>2, NatLessThanWellFounded, WFMin
  <2> QED
    BY <1>1, <2>1, Zenon
<1>4. PICK x \in R : \A y \in R : <<y, x>> \notin less
  BY <1>3
<1>5. x \in Nat /\ x /= 0 /\ x - 1 \in Nat
  BY DEF R
<1>6. x - 1 \notin R
  <2>1. <<x - 1, x>> \in less
    BY <1>5 DEF less
  <2> QED BY <1>4, <2>1
<1> QED
  BY <1>4, <1>5, <1>6 DEF R

\* f starts as a at k and goes on with G.
Follows(f, k, n, a, G) == f[k] = a /\ \A i \in k + 1..n : f[i] = G[<<i, f[i - 1]>>]

\* A function with a beginning and a step exists.
LEMMA Recursion ==
  ASSUME NEW T, NEW k \in Nat, NEW n \in Nat, k <= n, NEW a \in T,
         NEW G \in [(k + 1..n) \X T -> T]
  PROVE  \E f \in [k..n -> T] : Follows(f, k, n, a, G)
<1> DEFINE P == {d \in Nat : k + d <= n => \E f \in [k..k + d -> T] : Follows(f, k, k + d, a, G)}
<1>1. 0 \in P
  <2> DEFINE f == [i \in k..k |-> a]
  <2>1. f \in [k..k -> T] /\ f[k] = a
    OBVIOUS
  <2> HIDE DEF f
  <2>2. Follows(f, k, k, a, G) /\ k + 0 = k
    BY <2>1 DEF Follows
  <2> QED BY <2>1, <2>2
<1>2. ASSUME NEW d \in P PROVE d + 1 \in P
  <2> SUFFICES ASSUME k + (d + 1) <= n
               PROVE  \E g \in [k..k + (d + 1) -> T] : Follows(g, k, k + (d + 1), a, G)
    OBVIOUS
  <2> DEFINE m == k + d
  <2>1. d \in Nat /\ m \in Nat /\ m + 1 = k + (d + 1) /\ m < n /\ k <= m
    OBVIOUS
  <2>2. \E f \in [k..m -> T] : Follows(f, k, m, a, G)
    BY <2>1
  <2> HIDE DEF m, P
  <2>3. PICK f \in [k..m -> T] : Follows(f, k, m, a, G)
    BY <2>2
  <2> DEFINE g == [i \in k..m + 1 |-> IF i = m + 1 THEN G[<<m + 1, f[m]>>] ELSE f[i]]
  <2>4. f[m] \in T /\ G[<<m + 1, f[m]>>] \in T
    BY <2>1
  <2>5. g \in [k..m + 1 -> T] /\ g[m + 1] = G[<<m + 1, f[m]>>] /\ \A i \in k..m : g[i] = f[i]
    BY <2>1, <2>4
  <2> HIDE DEF g
  <2>6. \A i \in k + 1..m + 1 : i - 1 \in k..m /\ (i = m + 1 \/ (i \in k + 1..m /\ i \in k..m))
    BY <2>1
  <2>7. Follows(g, k, m + 1, a, G)
    <3>1. g[k] = a
      BY <2>1, <2>3, <2>5 DEF Follows
    <3>2. ASSUME NEW i \in k + 1..m PROVE g[i] = G[<<i, g[i - 1]>>]
      BY <3>2, <2>3, <2>5, <2>6, <2>1 DEF Follows
    <3>3. (m + 1) - 1 = m /\ m \in k..m
      BY <2>1
    <3>4. g[m + 1] = G[<<m + 1, g[m]>>]
      BY <3>3, <2>5
    <3> QED BY <3>1, <3>2, <3>3, <3>4, <2>6 DEF Follows
  <2> QED BY <2>1, <2>5, <2>7
<1>3. \A d \in Nat : d \in P
  <2>1. P \in SUBSET Nat
    OBVIOUS
  <2> HIDE DEF P
  <2> QED BY <1>1, <1>2, <2>1, Induction
<1> DEFINE e == n - k
<1>4. e \in Nat /\ k + e = n /\ k + e <= n
  OBVIOUS
<1> HIDE DEF e
<1>5. \E f \in [k..k + e -> T] : Follows(f, k, k + e, a, G)
  BY <1>3, <1>4
<1> QED BY <1>4, <1>5, Zenon

\* And two functions that follow the same step agree.
LEMMA RecursionUnique ==
  ASSUME NEW k \in Nat, NEW n \in Nat, NEW a, NEW G, NEW f, NEW g,
         Follows(f, k, n, a, G), Follows(g, k, n, a, G)
  PROVE  \A i \in k..n : f[i] = g[i]
<1> DEFINE P == {d \in Nat : k + d <= n => f[k + d] = g[k + d]}
<1>1. ASSUME NEW d \in P PROVE d + 1 \in P
  <2> SUFFICES ASSUME k + (d + 1) <= n PROVE f[k + (d + 1)] = g[k + (d + 1)]
    OBVIOUS
  <2>1. k + (d + 1) \in k + 1..n /\ (k + (d + 1)) - 1 = k + d /\ f[k + d] = g[k + d]
    OBVIOUS
  <2> QED BY <2>1 DEF Follows
<1>2. \A d \in Nat : d \in P
  <2>1. P \in SUBSET Nat
    OBVIOUS
  <2>2. 0 \in P
    BY DEF Follows
  <2> HIDE DEF P
  <2> QED BY <1>1, <2>1, <2>2, Induction
<1> SUFFICES ASSUME NEW i \in k..n PROVE f[i] = g[i]
  OBVIOUS
<1>3. i - k \in Nat /\ k + (i - k) = i /\ i <= n
  OBVIOUS
<1> QED BY <1>2, <1>3

\* The parts of ss one after the other.
Longer(S, ss) == [p \in (2..Len(ss)) \X Seq(S) |-> p[2] \o ss[p[1]]]

LEMMA LongerType ==
  ASSUME NEW S, NEW ss \in Seq(Seq(S))
  PROVE  Longer(S, ss) \in [(1 + 1..Len(ss)) \X Seq(S) -> Seq(S)]
<1>1. \A i \in 2..Len(ss), t \in Seq(S) : t \o ss[i] \in Seq(S)
  BY ElementOfSeq, ConcatProperties
<1>2. 1 + 1 = 2
  OBVIOUS
<1> QED BY <1>1, <1>2 DEF Longer

\* FlattenSeq is the last value of such a function.
LEMMA FlattenDef ==
  ASSUME NEW S, NEW ss \in Seq(Seq(S)), ss # <<>>
  PROVE  \E f \in [1..Len(ss) -> Seq(S)] :
           Follows(f, 1, Len(ss), ss[1], Longer(S, ss)) /\ FlattenSeq(ss) = f[Len(ss)]
<1> DEFINE n == Len(ss)
           flatten[i \in 1..n] == IF i = 1 THEN ss[i] ELSE flatten[i-1] \o ss[i]
           R(h) == h = [i \in 1..n |-> IF i = 1 THEN ss[i] ELSE h[i-1] \o ss[i]]
<1>1. n \in Nat \ {0} /\ ss[1] \in Seq(S) /\ 1 \in Nat /\ 1 <= n
  BY EmptySeq, ElementOfSeq
<1>2. FlattenSeq(ss) = flatten[n]
  BY <1>1 DEF FlattenSeq
<1>3. \E f \in [1..n -> Seq(S)] : Follows(f, 1, n, ss[1], Longer(S, ss))
  BY <1>1, LongerType, Recursion
<1> HIDE DEF n
<1>4. PICK f \in [1..n -> Seq(S)] : Follows(f, 1, n, ss[1], Longer(S, ss))
  BY <1>3
<1>5. R(f)
  <2>1. \A i \in 1..n : f[i] = IF i = 1 THEN ss[i] ELSE f[i - 1] \o ss[i]
    <3> TAKE i \in 1..n
    <3>1. CASE i = 1
      BY <1>4, <3>1 DEF Follows
    <3>2. CASE i # 1
      <4>1. i \in 2..n /\ i \in 1 + 1..n /\ i - 1 \in 1..n
        BY <1>1, <3>2
      <4>2. f[i - 1] \in Seq(S)
        BY <4>1
      <4>3. f[i] = Longer(S, ss)[<<i, f[i - 1]>>]
        BY <4>1, <1>4 DEF Follows
      <4>4. Longer(S, ss)[<<i, f[i - 1]>>] = f[i - 1] \o ss[i]
        BY <4>1, <4>2 DEF Longer, n
      <4> QED BY <3>2, <4>3, <4>4
    <3> QED BY <3>1, <3>2
  <2> DEFINE e == [i \in 1..n |-> IF i = 1 THEN ss[i] ELSE f[i-1] \o ss[i]]
  <2>2. DOMAIN f = DOMAIN e /\ \A i \in DOMAIN f : f[i] = e[i]
    BY <2>1
  <2>3. f = [i \in DOMAIN f |-> f[i]] /\ e = [i \in DOMAIN e |-> e[i]]
    OBVIOUS
  <2>4. f = e
    <3> HIDE DEF e
    <3> QED BY <2>2, <2>3
  <2> QED BY <2>4
<1>6. R(flatten)
  <2> HIDE DEF R
  <2>1. R(CHOOSE h : R(h))
    BY <1>5
  <2> QED BY <2>1 DEF R, flatten
<1> HIDE DEF flatten
<1>7. \A i \in 1..n : flatten[i] = f[i]
  <2> DEFINE P == {d \in Nat : d \in 1..n => flatten[d] = f[d]}
  <2>1. ASSUME NEW d \in P PROVE d + 1 \in P
    <3> SUFFICES ASSUME d + 1 \in 1..n PROVE flatten[d + 1] = f[d + 1]
      OBVIOUS
    <3>1. CASE d = 0
      BY <1>5, <1>6, <3>1
    <3>2. CASE d # 0
      <4>1. d \in 1..n /\ (d + 1) - 1 = d /\ d + 1 # 1 /\ flatten[d] = f[d]
        BY <1>1, <3>2
      <4>2. f[d + 1] = f[d] \o ss[d + 1] /\ flatten[d + 1] = flatten[d] \o ss[d + 1]
        BY <1>5, <1>6, <4>1
      <4> QED BY <4>1, <4>2
    <3> QED BY <3>1, <3>2
  <2>2. \A d \in Nat : d \in P
    <3>1. P \in SUBSET Nat /\ 0 \in P
      OBVIOUS
    <3> HIDE DEF P
    <3> QED BY <2>1, <3>1, Induction
  <2> QED
    <3> SUFFICES ASSUME NEW i \in 1..n PROVE flatten[i] = f[i]
      OBVIOUS
    <3> QED BY <1>1, <2>2
<1> QED BY <1>1, <1>2, <1>4, <1>7 DEF n

LEMMA FlattenNone == FlattenSeq(<<>>) = <<>>
BY DEF FlattenSeq

\* One more part goes to the end.
LEMMA FlattenAppend ==
  ASSUME NEW S, NEW ss \in Seq(Seq(S)), NEW s \in Seq(S)
  PROVE  /\ FlattenSeq(ss) \in Seq(S)
         /\ FlattenSeq(Append(ss, s)) = FlattenSeq(ss) \o s
<1> DEFINE n == Len(ss)
           tt == Append(ss, s)
<1>1. /\ n \in Nat /\ tt \in Seq(Seq(S)) /\ tt # <<>> /\ Len(tt) = n + 1 /\ tt[n + 1] = s
      /\ \A i \in 1..n : tt[i] = ss[i]
  BY AppendProperties, LenProperties
<1> HIDE DEF n, tt
<1>2. PICK g \in [1..n + 1 -> Seq(S)] :
           Follows(g, 1, n + 1, tt[1], Longer(S, tt)) /\ FlattenSeq(tt) = g[n + 1]
  BY <1>1, FlattenDef
<1>3. CASE ss = <<>>
  <2>1. n = 0
    BY <1>3 DEF n
  <2>2. FlattenSeq(tt) = s
    BY <1>1, <1>2, <2>1 DEF Follows
  <2>3. <<>> \o s = s /\ <<>> \in Seq(S)
    BY ConcatEmptySeq, EmptySeq
  <2> QED BY <1>3, <2>2, <2>3, FlattenNone DEF tt
<1>4. CASE ss # <<>>
  <2>1. n \in Nat \ {0}
    BY <1>4, EmptySeq DEF n
  <2>2. PICK f \in [1..n -> Seq(S)] :
             Follows(f, 1, n, ss[1], Longer(S, ss)) /\ FlattenSeq(ss) = f[n]
    BY <1>4, FlattenDef DEF n
  <2>3. \A i \in 1 + 1..n + 1 : i \in 2..Len(tt) /\ i - 1 \in 1..n + 1 /\ g[i - 1] \in Seq(S)
    BY <1>1, <2>1
  <2>4. \A i \in 1 + 1..n + 1 : g[i] = g[i - 1] \o tt[i]
    BY <1>2, <2>3 DEF Follows, Longer
  <2>5. \A i \in 1 + 1..n : i \in 2..Len(ss) /\ i \in 1 + 1..n + 1 /\ tt[i] = ss[i]
    BY <1>1, <2>1 DEF n
  <2>6. \A i \in 1 + 1..n : g[i] = Longer(S, ss)[<<i, g[i - 1]>>]
    BY <2>3, <2>4, <2>5 DEF Longer
  <2>7. g[1] = ss[1]
    BY <1>1, <1>2, <2>1 DEF Follows
  <2>8. Follows(g, 1, n, ss[1], Longer(S, ss))
    BY <2>6, <2>7 DEF Follows
  <2>9. g[n] = f[n] /\ n + 1 \in 1 + 1..n + 1 /\ (n + 1) - 1 = n /\ f[n] \in Seq(S)
    BY <2>1, <2>2, <2>8, RecursionUnique, SMTT(20)
  <2> QED BY <1>1, <1>2, <2>2, <2>4, <2>9 DEF tt
<1> QED BY <1>3, <1>4

-----------------------------------------------------------------------------

\* Induction over a text: one more symbol at its end.
LEMMA TextInduction ==
  ASSUME NEW X, NEW P \in SUBSET Seq(X), <<>> \in P, \A s \in P, x \in X : Append(s, x) \in P
  PROVE  \A s \in Seq(X) : s \in P
<1> DEFINE N == {n \in Nat : \A s \in Seq(X) : Len(s) = n => s \in P}
<1>1. 0 \in N
  <2> SUFFICES ASSUME NEW s \in Seq(X), Len(s) = 0 PROVE s \in P
    OBVIOUS
  <2>1. s = <<>>
    BY EmptySeq
  <2> QED BY <2>1
<1>2. ASSUME NEW n \in N PROVE n + 1 \in N
  <2> SUFFICES ASSUME NEW s \in Seq(X), Len(s) = n + 1 PROVE s \in P
    OBVIOUS
  <2>1. n \in Nat /\ \A t \in Seq(X) : Len(t) = n => t \in P
    OBVIOUS
  <2> HIDE DEF N
  <2>2. s # <<>>
    BY <2>1, EmptySeq
  <2>3. PICK t \in Seq(X), x \in X : s = Append(t, x)
    BY <2>2, SequenceEmptyOrAppend
  <2>4. Len(t) = n
    BY <2>1, <2>3, AppendProperties, LenProperties
  <2> QED BY <2>1, <2>3, <2>4
<1>3. \A n \in Nat : n \in N
  <2>1. N \in SUBSET Nat
    OBVIOUS
  <2> HIDE DEF N
  <2> QED BY <1>1, <1>2, <2>1, Induction
<1> SUFFICES ASSUME NEW s \in Seq(X) PROVE s \in P
  OBVIOUS
<1>4. Len(s) \in Nat
  BY LenProperties
<1> QED BY <1>3, <1>4

Regroups(S) == \A s, t, u \in S : (s \o t) \o u = s \o (t \o u)

\* Concatenation is associative; the next lemma says it of Cat.
LEMMA Associative ==
  ASSUME NEW X
  PROVE  Regroups(Seq(X))
<1>1. \A s, t, u \in Seq(X) : (s \o t) \o u = s \o (t \o u)
  BY ConcatAssociative
<1> QED BY <1>1 DEF Regroups

\* The same without what the provers know of it.
Cat(s, t) == s \o t

LEMMA Groups ==
  ASSUME NEW X
  PROVE  /\ \A s, t, u \in Seq(X) : Cat(Cat(s, t), u) = Cat(s, Cat(t, u))
         /\ \A s, t \in Seq(X) : Cat(s, t) \in Seq(X)
<1>1. \A s, t, u \in Seq(X) : (s \o t) \o u = s \o (t \o u)
  BY ConcatAssociative
<1>2. \A s, t \in Seq(X) : s \o t \in Seq(X)
  BY ConcatProperties
<1> QED BY <1>1, <1>2 DEF Cat

\* Texts of one and of two symbols.
LEMMA Short ==
  ASSUME NEW X, NEW x \in X, NEW y \in X
  PROVE  /\ <<>> \in Seq(X) /\ <<x>> \in Seq(X) /\ <<x, y>> \in Seq(X)
         /\ Len(<<x>>) = 1 /\ Len(<<x, y>>) = 2 /\ <<x>>[1] = x
         /\ <<x, y>>[1] = x /\ <<x, y>>[2] = y /\ <<x, y>> = Append(<<x>>, y)
OBVIOUS

-----------------------------------------------------------------------------
(* Escaping. *)

\* The words of the code, and of the properties.
Words == {"sign-in", "pwd", "from-PP", "t", "token", "p", "MemberName", "a", "partner",
          "complete", "ru", "oauth", "login", "return_to"}

CodeSet == {Codes[c] : c \in DOMAIN Codes}

Char == Symbols \cup Words \cup DOMAIN Codes \cup CodeSet \cup {Blank}

Plain(c) == c \notin DOMAIN Codes /\ c # Blank

\* The two opaque characters differ from the others that are written here.
LEMMA Marks ==
  /\ Comma # Blank
  /\ Comma # "=" /\ Comma # "'" /\ Comma # "%" /\ Comma # "+" /\ Comma # "&" /\ Comma # "/"
  /\ Comma # ":" /\ Comma # "?" /\ Comma # "\r" /\ Comma # "\n" /\ Comma # "2C" /\ Comma # "3D"
  /\ Comma # "27" /\ Comma # "25" /\ Comma # "2B" /\ Comma # "26" /\ Comma # "2F" /\ Comma # "3A"
  /\ Comma # "3F" /\ Comma # "0D" /\ Comma # "0A" /\ Comma # "sign-in" /\ Comma # "pwd" /\ Comma # "from-PP"
  /\ Comma # "t" /\ Comma # "token" /\ Comma # "p" /\ Comma # "MemberName"
  /\ Blank # "=" /\ Blank # "'" /\ Blank # "%" /\ Blank # "+" /\ Blank # "&" /\ Blank # "/"
  /\ Blank # ":" /\ Blank # "?" /\ Blank # "\r" /\ Blank # "\n" /\ Blank # "2C" /\ Blank # "3D"
  /\ Blank # "27" /\ Blank # "25" /\ Blank # "2B" /\ Blank # "26" /\ Blank # "2F" /\ Blank # "3A"
  /\ Blank # "3F" /\ Blank # "0D" /\ Blank # "0A" /\ Blank # "sign-in" /\ Blank # "pwd" /\ Blank # "from-PP"
  /\ Blank # "t" /\ Blank # "token" /\ Blank # "p" /\ Blank # "MemberName"
BY Zenon DEF Comma, Blank

\* The table of codes, spelled out.
LEMMA CodesAre ==
  /\ DOMAIN Codes = {Comma, "=", "'", "%", "+", "&", "/", ":", "?", "\r", "\n"}
  /\ Codes[Comma] = "2C" /\ Codes["="] = "3D" /\ Codes["'"] = "27" /\ Codes["%"] = "25"
  /\ Codes["+"] = "2B" /\ Codes["&"] = "26" /\ Codes["/"] = "2F" /\ Codes[":"] = "3A"
  /\ Codes["?"] = "3F" /\ Codes["\r"] = "0D" /\ Codes["\n"] = "0A"
  /\ Blank \notin DOMAIN Codes
BY Marks DEF Codes

LEMMA Signs == {"+", "%", Blank} \subseteq Char /\ Words \subseteq Char /\ Symbols \subseteq Char
BY CodesAre DEF Char

\* A code is no reserved character, and stands for one character.
LEMMA CodeFacts ==
  \A c \in DOMAIN Codes : /\ c \in Char /\ Codes[c] \in Char /\ Codes[c] \in CodeSet
                          /\ Plain(Codes[c]) /\ Codes[c] # "%" /\ Decode(Codes[c]) = c
<1>1. \A c, d \in DOMAIN Codes : Codes[c] = Codes[d] => c = d
  <2> SUFFICES ASSUME NEW c \in DOMAIN Codes, NEW d \in DOMAIN Codes, Codes[c] = Codes[d]
               PROVE  c = d
    OBVIOUS
  <2>1. Codes[d] = "2C" => d = Comma
    BY CodesAre
  <2>2. Codes[d] = "3D" => d = "="
    BY CodesAre
  <2>3. Codes[d] = "27" => d = "'"
    BY CodesAre
  <2>4. Codes[d] = "25" => d = "%"
    BY CodesAre
  <2>5. Codes[d] = "2B" => d = "+"
    BY CodesAre
  <2>6. Codes[d] = "26" => d = "&"
    BY CodesAre
  <2>7. Codes[d] = "2F" => d = "/"
    BY CodesAre
  <2>8. Codes[d] = "3A" => d = ":"
    BY CodesAre
  <2>9. Codes[d] = "3F" => d = "?"
    BY CodesAre
  <2>10. Codes[d] = "0D" => d = "\r"
    BY CodesAre
  <2>11. Codes[d] = "0A" => d = "\n"
    BY CodesAre
  <2> QED BY CodesAre, <2>1, <2>2, <2>3, <2>4, <2>5, <2>6, <2>7, <2>8, <2>9, <2>10, <2>11
<1>2. \A c \in DOMAIN Codes : Decode(Codes[c]) = c
  BY <1>1 DEF Decode
<1>3. \A c \in DOMAIN Codes : Codes[c] \notin DOMAIN Codes /\ Codes[c] # Blank
  <2>1. \A x \in {"2C", "3D", "27", "25", "2B", "26", "2F", "3A", "3F", "0D", "0A"} :
          x \notin DOMAIN Codes /\ x # Blank
    BY CodesAre, Marks
  <2>2. \A c \in DOMAIN Codes :
          Codes[c] \in {"2C", "3D", "27", "25", "2B", "26", "2F", "3A", "3F", "0D", "0A"}
    BY CodesAre
  <2> QED BY <2>1, <2>2
<1>4. "%" \in DOMAIN Codes
  BY CodesAre
<1> QED BY <1>2, <1>3, <1>4 DEF Char, Plain, CodeSet

\* Nothing reserved but the signs of escapes and blanks.
Bare(s) == \A i \in 1..Len(s) : Plain(s[i]) \/ s[i] \in {"%", "+"}

\* Each "%" has a code behind it.
Whole(s) == \A i \in 1..Len(s) : s[i] = "%" => i < Len(s) /\ s[i + 1] \in CodeSet

Pieces(s) == [i \in 1..Len(s) |-> Unescaped(s, i)]

\* Nothing is refused when each "%" has its code behind it.
LEMMA WholeUnescape ==
  ASSUME NEW s \in Seq(Char), Whole(s)
  PROVE  /\ QueryUnescape(s) = FlattenSeq(Pieces(s))
         /\ Pieces(s) \in Seq(Seq(Char)) /\ Len(Pieces(s)) = Len(s)
         /\ \A i \in 1..Len(s) : Pieces(s)[i] = Unescaped(s, i)
<1>1. Len(s) \in Nat /\ \A i \in 1..Len(s) : s[i] \in Char
  BY LenProperties, ElementOfSeq
<1>2. \A i \in 1..Len(s) : s[i] = "%" => IsEscape(s, i)
  BY DEF Whole, IsEscape, CodeSet
<1>3. \A i \in 1..Len(s) : Unescaped(s, i) \in Seq(Char)
  <2> TAKE i \in 1..Len(s)
  <2>1. CASE s[i] = "%"
    <3>1. s[i + 1] \in CodeSet
      BY <2>1 DEF Whole
    <3>2. Decode(s[i + 1]) \in Char
      BY <3>1, CodeFacts DEF CodeSet
    <3> QED BY <2>1, <3>2 DEF Unescaped
  <2>2. CASE s[i] # "%"
    <3>1. Blank \in Char /\ s[i] \in Char
      BY <1>1, Signs
    <3>2. Unescaped(s, i) \in {<<>>, <<Blank>>, <<s[i]>>}
      BY <2>2 DEF Unescaped
    <3>3. <<>> \in Seq(Char) /\ <<Blank>> \in Seq(Char) /\ <<s[i]>> \in Seq(Char)
      BY <3>1, Short
    <3> QED BY <3>2, <3>3
  <2> QED BY <2>1, <2>2
<1>4. Pieces(s) \in [1..Len(s) -> Seq(Char)]
  BY <1>3 DEF Pieces
<1>5. Pieces(s) \in Seq(Seq(Char)) /\ Len(Pieces(s)) = Len(s)
  BY <1>1, <1>4, SeqDef
<1> QED BY <1>2, <1>5 DEF QueryUnescape, Pieces

\* What becomes of each kind of character.
LEMMA EscapedIs ==
  \A c \in Char : Escaped(c) \in Seq(Char) /\ Bare(Escaped(c))
<1> TAKE c \in Char
<1>1. "+" \in Char /\ "%" \in Char
  BY Signs
<1>2. c \in DOMAIN Codes => Codes[c] \in Char /\ Plain(Codes[c])
  BY CodeFacts
<1>3. CASE c = Blank
  <2>1. Escaped(c) = <<"+">>
    BY <1>3 DEF Escaped
  <2> QED BY <1>1, <2>1 DEF Bare
<1>4. CASE c # Blank /\ c \in DOMAIN Codes
  <2> DEFINE code == Codes[c]
             u == <<"%", code>>
  <2>1. Escaped(c) = u
    BY <1>4 DEF Escaped
  <2>2. code \in Char /\ Plain(code)
    BY <1>2, <1>4
  <2> HIDE DEF code
  <2>3. u \in Seq(Char) /\ Len(u) = 2 /\ u[1] = "%" /\ u[2] = code
    BY <1>1, <2>2, Short
  <2> HIDE DEF u
  <2>4. Bare(u)
    BY <2>2, <2>3 DEF Bare
  <2> QED BY <2>1, <2>3, <2>4
<1>5. CASE c # Blank /\ c \notin DOMAIN Codes
  <2>1. Escaped(c) = <<c>>
    BY <1>5 DEF Escaped
  <2>2. Plain(c) /\ <<c>> \in Seq(Char) /\ Len(<<c>>) = 1 /\ <<c>>[1] = c
    BY <1>5, Short DEF Plain
  <2>3. Bare(<<c>>)
    BY <2>2 DEF Bare
  <2> QED BY <2>1, <2>2, <2>3
<1> QED BY <1>3, <1>4, <1>5

LEMMA BareConcat ==
  ASSUME NEW s \in Seq(Char), Bare(s), NEW t \in Seq(Char), Bare(t)
  PROVE  Bare(s \o t)
<1>1. Len(s \o t) = Len(s) + Len(t) /\ Len(s) \in Nat /\ Len(t) \in Nat
  BY ConcatProperties, LenProperties
<1>2. ASSUME NEW i \in 1..Len(s) + Len(t)
      PROVE  Plain((s \o t)[i]) \/ (s \o t)[i] \in {"%", "+"}
  <2>1. i <= Len(s) => (s \o t)[i] = s[i] /\ i \in 1..Len(s)
    BY <1>1, ConcatProperties
  <2>2. ~(i <= Len(s)) => (s \o t)[i] = t[i - Len(s)] /\ i - Len(s) \in 1..Len(t)
    BY <1>1, ConcatProperties
  <2> QED BY <2>1, <2>2 DEF Bare
<1> QED BY <1>1, <1>2 DEF Bare

\* Escaping goes symbol by symbol.
LEMMA EscapeAppend ==
  ASSUME NEW s \in Seq(Char), NEW c \in Char
  PROVE  /\ QueryEscape(s) \in Seq(Char)
         /\ QueryEscape(Append(s, c)) = QueryEscape(s) \o Escaped(c)
<1> DEFINE e(t) == [i \in 1..Len(t) |-> Escaped(t[i])]
<1>1. \A d \in Char : Escaped(d) \in Seq(Char)
  BY EscapedIs
<1>2. \A t \in Seq(Char) : e(t) \in Seq(Seq(Char)) /\ Len(e(t)) = Len(t)
  <2> TAKE t \in Seq(Char)
  <2>1. Len(t) \in Nat /\ \A i \in 1..Len(t) : t[i] \in Char
    BY LenProperties, ElementOfSeq
  <2>2. e(t) \in [1..Len(t) -> Seq(Char)]
    BY <1>1, <2>1
  <2> HIDE DEF e
  <2> QED BY <2>1, <2>2, SeqDef
<1>3. e(Append(s, c)) = Append(e(s), Escaped(c))
  <2> DEFINE t == Append(s, c)
             n == Len(s)
  <2>1. n \in Nat /\ t \in Seq(Char) /\ Len(t) = n + 1 /\ t[n + 1] = c /\ \A i \in 1..n : t[i] = s[i]
    BY AppendProperties, LenProperties
  <2>2. /\ Append(e(s), Escaped(c)) \in Seq(Seq(Char))
        /\ Len(Append(e(s), Escaped(c))) = n + 1
        /\ \A i \in 1..n : Append(e(s), Escaped(c))[i] = e(s)[i]
        /\ Append(e(s), Escaped(c))[n + 1] = Escaped(c)
    <3> HIDE DEF e
    <3> QED BY <1>1, <1>2, AppendProperties, SMTT(20)
  <2>3. \A i \in 1..n + 1 : e(t)[i] = Append(e(s), Escaped(c))[i]
    <3>1. \A i \in 1..n + 1 : e(t)[i] = Escaped(t[i])
      BY <2>1
    <3>2. \A i \in 1..n : e(s)[i] = Escaped(s[i])
      OBVIOUS
    <3>3. \A i \in 1..n + 1 : i = n + 1 \/ i \in 1..n
      BY <2>1
    <3> HIDE DEF e, t, n
    <3> QED BY <2>1, <2>2, <3>1, <3>2, <3>3
  <2> HIDE DEF e, t, n
  <2>4. e(t) = Append(e(s), Escaped(c))
    BY <1>2, <2>1, <2>2, <2>3, SeqEqual
  <2> QED BY <2>4 DEF t
<1>4. \A t : QueryEscape(t) = FlattenSeq(e(t))
  BY DEF QueryEscape
<1> HIDE DEF e
<1> QED BY <1>1, <1>2, <1>3, <1>4, FlattenAppend

\* A symbol that is no "%" and no code is read as itself, or as a blank.
LEMMA ReadSymbol ==
  ASSUME NEW s \in Seq(Char), Whole(s), NEW c \in Char, c # "%"
  PROVE  /\ Whole(Append(s, c))
         /\ QueryUnescape(Append(s, c)) = QueryUnescape(s) \o <<IF c = "+" THEN Blank ELSE c>>
<1> DEFINE t == Append(s, c)
           n == Len(s)
           d == IF c = "+" THEN Blank ELSE c
<1>1. n \in Nat /\ t \in Seq(Char) /\ Len(t) = n + 1 /\ t[n + 1] = c /\ \A i \in 1..n : t[i] = s[i]
  BY AppendProperties, LenProperties
<1>2. c # "%" /\ d \in Char /\ <<d>> \in Seq(Char)
  BY Signs, Short
<1> HIDE DEF t, d
<1>3. Whole(t)
  BY <1>1, <1>2 DEF Whole
<1>4. \A i \in 1..n : Unescaped(t, i) = Unescaped(s, i)
  <2> TAKE i \in 1..n
  <2>1. t[i] = s[i] /\ (i > 1 => t[i - 1] = s[i - 1]) /\ (i < n => t[i + 1] = s[i + 1])
    BY <1>1
  <2>2. s[i] = "%" => i < n
    BY DEF Whole
  <2> QED BY <2>1, <2>2 DEF Unescaped
<1>5. Unescaped(t, n + 1) = <<d>>
  <2>1. n + 1 > 1 => s[n] # "%"
    BY <1>1 DEF Whole
  <2>2. n + 1 > 1 => t[(n + 1) - 1] = s[n]
    BY <1>1
  <2> QED BY <1>1, <1>2, <2>1, <2>2 DEF Unescaped, d
<1>6. Pieces(t) = Append(Pieces(s), <<d>>)
  <2>1. /\ Pieces(s) \in Seq(Seq(Char)) /\ Len(Pieces(s)) = n
        /\ \A i \in 1..n : Pieces(s)[i] = Unescaped(s, i)
    BY WholeUnescape
  <2>2. /\ Pieces(t) \in Seq(Seq(Char)) /\ Len(Pieces(t)) = n + 1
        /\ \A i \in 1..n + 1 : Pieces(t)[i] = Unescaped(t, i)
    BY <1>1, <1>3, WholeUnescape
  <2> DEFINE q == Append(Pieces(s), <<d>>)
  <2>3. /\ q \in Seq(Seq(Char)) /\ Len(q) = n + 1 /\ q[n + 1] = <<d>>
        /\ \A i \in 1..n : q[i] = Pieces(s)[i]
    BY <1>2, <2>1, AppendProperties
  <2> HIDE DEF q
  <2>4. \A i \in 1..n + 1 : Pieces(t)[i] = q[i]
    <3>1. \A i \in 1..n + 1 : i = n + 1 \/ i \in 1..n
      BY <1>1
    <3> QED BY <3>1, <2>1, <2>2, <2>3, <1>4, <1>5
  <2>5. Pieces(t) = q
    BY <2>2, <2>3, <2>4, SeqEqual
  <2> QED BY <2>5 DEF q
<1>7. FlattenSeq(Pieces(t)) = FlattenSeq(Pieces(s)) \o <<d>>
  BY <1>2, <1>6, WholeUnescape, FlattenAppend
<1>8. QueryUnescape(t) = QueryUnescape(s) \o <<d>>
  BY <1>1, <1>3, <1>7, WholeUnescape
<1> QED BY <1>3, <1>8 DEF t, d

\* An escape is read as the character it stands for.
LEMMA ReadEscape ==
  ASSUME NEW s \in Seq(Char), Whole(s), NEW c \in DOMAIN Codes
  PROVE  /\ Whole(s \o <<"%", Codes[c]>>)
         /\ QueryUnescape(s \o <<"%", Codes[c]>>) = QueryUnescape(s) \o <<c>>
<1> DEFINE code == Codes[c]
           t == s \o <<"%", code>>
           n == Len(s)
<1>1. /\ "%" \in Char /\ code \in Char /\ code \in CodeSet /\ Plain(code)
      /\ code # "%" /\ Decode(code) = c /\ c \in Char
  BY Signs, CodeFacts
<1> HIDE DEF code
<1>2. n \in Nat /\ t \in Seq(Char) /\ Len(t) = n + 2 /\ \A i \in 1..n : t[i] = s[i]
  <2>1. <<"%", code>> \in Seq(Char) /\ Len(<<"%", code>>) = 2
    BY <1>1, Short
  <2> QED BY <2>1, ConcatProperties, LenProperties
<1>3. t[n + 1] = "%" /\ t[n + 2] = code
  <2> DEFINE u == <<"%", code>>
  <2>1. u \in Seq(Char) /\ Len(u) = 2 /\ u[1] = "%" /\ u[2] = code
    BY <1>1, Short
  <2> HIDE DEF u
  <2>2. t = s \o u
    BY DEF u
  <2>3. (n + 1) - n = 1 /\ (n + 2) - n = 2 /\ ~(n + 1 <= n) /\ ~(n + 2 <= n)
    BY <1>2
  <2>4. n + 1 \in 1..n + 2 /\ n + 2 \in 1..n + 2
    BY <1>2
  <2> HIDE DEF t
  <2>5. \A i \in 1..Len(s) + Len(u) : (s \o u)[i] = IF i <= Len(s) THEN s[i] ELSE u[i - Len(s)]
    BY <2>1, ConcatProperties
  <2>6. Len(s) + Len(u) = n + 2
    BY <2>1
  <2> QED BY <2>1, <2>2, <2>3, <2>4, <2>5, <2>6
<1> HIDE DEF t
<1>4. Whole(t)
  <2> SUFFICES ASSUME NEW i \in 1..n + 2
               PROVE  t[i] = "%" => i < n + 2 /\ t[i + 1] \in CodeSet
    BY <1>2 DEF Whole
  <2>1. CASE i \in 1..n
    <3>1. t[i] = s[i] /\ (i < n => t[i + 1] = s[i + 1])
      BY <1>2, <2>1
    <3>2. s[i] = "%" => i < n /\ s[i + 1] \in CodeSet
      BY <2>1 DEF Whole
    <3>3. i < n => i < n + 2
      BY <1>2, <2>1
    <3> QED BY <3>1, <3>2, <3>3
  <2>2. CASE i = n + 1
    <3>1. i < n + 2 /\ i + 1 = n + 2
      BY <1>2, <2>2
    <3> QED BY <3>1, <1>1, <1>3, <2>2
  <2>3. CASE i = n + 2
    BY <1>1, <1>3, <2>3
  <2> QED BY <1>2, <2>1, <2>2, <2>3
<1>5. \A i \in 1..n : Unescaped(t, i) = Unescaped(s, i)
  <2> TAKE i \in 1..n
  <2>1. t[i] = s[i] /\ (i > 1 => t[i - 1] = s[i - 1]) /\ (i < n => t[i + 1] = s[i + 1])
    BY <1>2
  <2>2. s[i] = "%" => i < n
    BY DEF Whole
  <2> QED BY <2>1, <2>2 DEF Unescaped
<1>6. Unescaped(t, n + 1) = <<c>>
  <2>1. (n + 1) + 1 = n + 2
    BY <1>2
  <2> QED BY <1>1, <1>3, <2>1 DEF Unescaped
<1>7. Unescaped(t, n + 2) = <<>>
  <2>1. (n + 2) - 1 = n + 1 /\ n + 2 > 1
    BY <1>2
  <2> QED BY <1>1, <1>3, <2>1 DEF Unescaped
<1>8. Pieces(t) = Append(Append(Pieces(s), <<c>>), <<>>)
  <2>0. <<c>> \in Seq(Char) /\ <<>> \in Seq(Char)
    BY <1>1, Short
  <2>1. /\ Pieces(s) \in Seq(Seq(Char)) /\ Len(Pieces(s)) = n
        /\ \A i \in 1..n : Pieces(s)[i] = Unescaped(s, i)
    BY WholeUnescape
  <2>2. /\ Pieces(t) \in Seq(Seq(Char)) /\ Len(Pieces(t)) = n + 2
        /\ \A i \in 1..n + 2 : Pieces(t)[i] = Unescaped(t, i)
    BY <1>2, <1>4, WholeUnescape
  <2> DEFINE p == Append(Pieces(s), <<c>>)
  <2>3. /\ p \in Seq(Seq(Char)) /\ Len(p) = n + 1 /\ p[n + 1] = <<c>>
        /\ \A i \in 1..n : p[i] = Pieces(s)[i]
    BY <2>0, <2>1, AppendProperties
  <2> HIDE DEF p
  <2> DEFINE q == Append(p, <<>>)
  <2>4. /\ q \in Seq(Seq(Char)) /\ Len(q) = (n + 1) + 1 /\ q[(n + 1) + 1] = <<>>
        /\ \A i \in 1..n + 1 : q[i] = p[i]
    BY <2>0, <2>3, AppendProperties
  <2> HIDE DEF q
  <2>5. (n + 1) + 1 = n + 2 /\ n + 1 \in 1..n + 1
    BY <1>2
  <2>6. q[n + 1] = <<c>> /\ q[n + 2] = <<>> /\ \A i \in 1..n : q[i] = Pieces(s)[i]
    <3>1. \A i \in 1..n : i \in 1..n + 1
      BY <1>2
    <3> QED BY <2>3, <2>4, <2>5, <3>1
  <2>7. \A i \in 1..n + 2 : Pieces(t)[i] = q[i]
    <3>1. \A i \in 1..n + 2 : i = n + 1 \/ i = n + 2 \/ i \in 1..n
      BY <1>2
    <3> QED BY <3>1, <2>1, <2>2, <2>6, <1>5, <1>6, <1>7
  <2>8. Pieces(t) = q
    BY <2>2, <2>4, <2>5, <2>7, SeqEqual
  <2> QED BY <2>8 DEF q, p
<1>9. FlattenSeq(Pieces(t)) = FlattenSeq(Pieces(s)) \o <<c>>
  <2>0. <<c>> \in Seq(Char) /\ <<>> \in Seq(Char)
    BY <1>1, Short
  <2>1. Pieces(s) \in Seq(Seq(Char)) /\ Append(Pieces(s), <<c>>) \in Seq(Seq(Char))
    BY <2>0, WholeUnescape, AppendProperties
  <2>2. FlattenSeq(Pieces(s)) \in Seq(Char)
    BY <2>1, <2>0, FlattenAppend
  <2>3. FlattenSeq(Append(Pieces(s), <<c>>)) = FlattenSeq(Pieces(s)) \o <<c>>
    BY <2>0, <2>1, FlattenAppend
  <2>4. FlattenSeq(Pieces(t)) = (FlattenSeq(Pieces(s)) \o <<c>>) \o <<>>
    BY <1>8, <2>0, <2>1, <2>3, FlattenAppend
  <2>5. FlattenSeq(Pieces(s)) \o <<c>> \in Seq(Char)
    BY <2>0, <2>2, ConcatProperties
  <2> QED BY <2>4, <2>5, ConcatEmptySeq
<1>10. QueryUnescape(t) = QueryUnescape(s) \o <<c>>
  BY <1>2, <1>4, <1>9, WholeUnescape
<1> QED BY <1>4, <1>10 DEF t, code

\* What is escaped has nothing reserved in it.
LEMMA EscapeBare ==
  ASSUME NEW s \in Seq(Char)
  PROVE  QueryEscape(s) \in Seq(Char) /\ Bare(QueryEscape(s))
<1> DEFINE P == {u \in Seq(Char) : QueryEscape(u) \in Seq(Char) /\ Bare(QueryEscape(u))}
<1>1. <<>> \in P
  <2>1. QueryEscape(<<>>) = <<>>
    <3>1. [i \in 1..Len(<<>>) |-> Escaped(<<>>[i])] = <<>>
      OBVIOUS
    <3> QED BY <3>1, FlattenNone DEF QueryEscape
  <2>2. <<>> \in Seq(Char) /\ Bare(<<>>)
    BY EmptySeq DEF Bare
  <2> QED BY <2>1, <2>2
<1>2. ASSUME NEW u \in P, NEW c \in Char PROVE Append(u, c) \in P
  <2> DEFINE e == QueryEscape(u)
             t == Append(u, c)
             f == Escaped(c)
  <2>1. u \in Seq(Char) /\ e \in Seq(Char) /\ Bare(e) /\ t \in Seq(Char)
    BY AppendProperties
  <2>2. QueryEscape(t) \in Seq(Char) /\ QueryEscape(t) = e \o f
    BY <2>1, EscapeAppend
  <2>3. f \in Seq(Char) /\ Bare(f)
    BY EscapedIs
  <2> HIDE DEF e, t, f, P
  <2>4. Bare(e \o f)
    BY <2>1, <2>3, BareConcat
  <2> QED BY <2>1, <2>2, <2>4 DEF P, t
<1>3. \A u \in Seq(Char) : u \in P
  <2>1. P \in SUBSET Seq(Char)
    OBVIOUS
  <2> HIDE DEF P
  <2> QED BY <1>1, <1>2, <2>1, TextInduction
<1> QED BY <1>3

\* What is escaped is read as it was, whatever stands before it.
LEMMA EscapeReads ==
  ASSUME NEW p \in Seq(Char), Whole(p), NEW s \in Seq(Char)
  PROVE  /\ p \o QueryEscape(s) \in Seq(Char) /\ Whole(p \o QueryEscape(s))
         /\ QueryUnescape(p \o QueryEscape(s)) = QueryUnescape(p) \o s
<1> DEFINE q == QueryUnescape(p)
           P == {u \in Seq(Char) : /\ p \o QueryEscape(u) \in Seq(Char)
                                   /\ Whole(p \o QueryEscape(u))
                                   /\ QueryUnescape(p \o QueryEscape(u)) = q \o u}
<1>0. Regroups(Seq(Char))
  BY Associative
<1>1. q \in Seq(Char)
  <2>1. FlattenSeq(Pieces(p)) \in Seq(Char)
    BY EmptySeq, WholeUnescape, FlattenAppend
  <2> QED BY <2>1, WholeUnescape
<1>2. <<>> \in P
  <2>1. QueryEscape(<<>>) = <<>>
    <3>1. [i \in 1..Len(<<>>) |-> Escaped(<<>>[i])] = <<>>
      OBVIOUS
    <3> QED BY <3>1, FlattenNone DEF QueryEscape
  <2>2. p \o <<>> = p /\ q \o <<>> = q /\ <<>> \in Seq(Char)
    BY <1>1, ConcatEmptySeq, EmptySeq
  <2> QED BY <2>1, <2>2
<1>3. ASSUME NEW u \in P, NEW c \in Char PROVE Append(u, c) \in P
  <2> DEFINE e == QueryEscape(u)
             t == Append(u, c)
             f == Escaped(c)
             one == <<c>>
             pe == p \o e
  <2>1. /\ u \in Seq(Char) /\ e \in Seq(Char) /\ f \in Seq(Char) /\ one \in Seq(Char)
        /\ t \in Seq(Char) /\ t = u \o one
    BY EscapeBare, EscapedIs, AppendProperties, AppendIsConcat, Short
  <2>2. QueryEscape(t) = e \o f
    BY <2>1, EscapeAppend
  <2>3. pe \in Seq(Char) /\ Whole(pe) /\ QueryUnescape(pe) = q \o u
    OBVIOUS
  <2> HIDE DEF e, t, f, one, P, q
  <2>4. p \o QueryEscape(t) = pe \o f
    <3>1. p \o (e \o f) = (p \o e) \o f
      <4>1. p \in Seq(Char) /\ e \in Seq(Char) /\ f \in Seq(Char)
        BY <2>1
      <4> HIDE DEF pe
      <4>2. \A r, x, y \in Seq(Char) : (r \o x) \o y = r \o (x \o y)
        BY <1>0 DEF Regroups
      <4> QED BY <4>1, <4>2
    <3> QED BY <2>2, <3>1
  <2>5. q \o t = (q \o u) \o one
    BY <1>0, <1>1, <2>1, ZenonT(30) DEF Regroups
  <2> HIDE DEF pe
  <2>6. pe \o f \in Seq(Char) /\ Whole(pe \o f) /\ QueryUnescape(pe \o f) = QueryUnescape(pe) \o one
    <3>0. pe \o f \in Seq(Char)
      BY <2>1, <2>3, ConcatProperties
    <3>1. CASE c \in DOMAIN Codes
      <4>1. f = <<"%", Codes[c]>>
        BY <3>1, CodesAre DEF Escaped, f
      <4>2. /\ Whole(pe \o <<"%", Codes[c]>>)
            /\ QueryUnescape(pe \o <<"%", Codes[c]>>) = QueryUnescape(pe) \o <<c>>
        BY <3>1, <2>3, ReadEscape
      <4> QED BY <3>0, <4>1, <4>2 DEF one
    <3>2. CASE c = Blank
      <4>1. f = <<"+">> /\ "+" \in Char
        BY <3>2, Signs DEF Escaped, f
      <4>2. pe \o f = Append(pe, "+")
        BY <4>1, <2>3, AppendIsConcat
      <4>3. Whole(Append(pe, "+")) /\ QueryUnescape(Append(pe, "+")) = QueryUnescape(pe) \o <<Blank>>
        BY <4>1, <2>3, ReadSymbol
      <4> QED BY <3>0, <3>2, <4>2, <4>3 DEF one
    <3>3. CASE c \notin DOMAIN Codes /\ c # Blank
      <4>1. f = <<c>> /\ c # "+" /\ c # "%"
        BY <3>3, CodesAre DEF Escaped, f
      <4>2. pe \o f = Append(pe, c)
        BY <4>1, <2>3, AppendIsConcat
      <4>3. Whole(Append(pe, c)) /\ QueryUnescape(Append(pe, c)) = QueryUnescape(pe) \o <<c>>
        BY <4>1, <2>3, ReadSymbol
      <4> QED BY <3>0, <4>2, <4>3 DEF one
    <3> QED BY <3>1, <3>2, <3>3
  <2>7. /\ t \in Seq(Char) /\ p \o QueryEscape(t) \in Seq(Char)
        /\ Whole(p \o QueryEscape(t))
        /\ QueryUnescape(p \o QueryEscape(t)) = q \o t
    BY <2>1, <2>3, <2>4, <2>5, <2>6
  <2> QED BY <2>7, Zenon DEF P, t
<1>4. \A u \in Seq(Char) : u \in P
  <2>1. P \in SUBSET Seq(Char)
    OBVIOUS
  <2> HIDE DEF P
  <2> QED BY <1>2, <1>3, <2>1, TextInduction
<1> QED BY <1>4

\* Escaping and unescaping gives the text back (url.QueryEscape,
\* url.QueryUnescape).
LEMMA EscapeRound ==
  ASSUME NEW s \in Seq(Char)
  PROVE  QueryUnescape(QueryEscape(s)) = s
<1> DEFINE e == <<>>
           f == QueryEscape(s)
<1>1. e \in Seq(Char) /\ Whole(e) /\ Pieces(e) = <<>>
  BY EmptySeq DEF Whole, Pieces
<1>2. QueryUnescape(e) = <<>>
  BY <1>1, FlattenNone, WholeUnescape
<1>3. f \in Seq(Char) /\ e \o f = f /\ e \o s = s
  BY EscapeBare, ConcatEmptySeq
<1> HIDE DEF e
<1>4. QueryUnescape(e \o f) = QueryUnescape(e) \o s
  BY <1>1, EscapeReads
<1> QED BY <1>2, <1>3, <1>4 DEF e

-----------------------------------------------------------------------------
(* Cutting. *)

Free(s, c) == \A i \in 1..Len(s) : s[i] # c

LEMMA FreeConcat ==
  ASSUME NEW X, NEW s \in Seq(X), NEW t \in Seq(X), NEW c, Free(s, c), Free(t, c)
  PROVE  Free(s \o t, c)
<1>1. Len(s \o t) = Len(s) + Len(t) /\ Len(s) \in Nat /\ Len(t) \in Nat
  BY ConcatProperties, LenProperties
<1>2. ASSUME NEW i \in 1..Len(s) + Len(t) PROVE (s \o t)[i] # c
  <2>1. i <= Len(s) => (s \o t)[i] = s[i] /\ i \in 1..Len(s)
    BY <1>1, ConcatProperties
  <2>2. ~(i <= Len(s)) => (s \o t)[i] = t[i - Len(s)] /\ i - Len(s) \in 1..Len(t)
    BY <1>1, ConcatProperties
  <2> QED BY <2>1, <2>2 DEF Free
<1> QED BY <1>1, <1>2 DEF Free

\* The first of the places that pass a test.
LEMMA LeastIs ==
  ASSUME NEW S \in SUBSET Nat, NEW k \in S, \A i \in S : k <= i
  PROVE  Min(S) = k
<1>1. \A x \in S : (\A y \in S : x <= y) => x = k
  OBVIOUS
<1> QED BY <1>1 DEF Min

\* The first c is where a text is cut.
LEMMA CutFirst ==
  ASSUME NEW X, NEW a \in Seq(X), NEW b \in Seq(X), NEW c \in X, Free(a, c)
  PROVE  Cut((a \o <<c>>) \o b, c) = <<a, b>>
<1> DEFINE s == (a \o <<c>>) \o b
           k == Len(a) + 1
           I == {i \in 1..Len(s) : s[i] = c}
<1>1. /\ a \o <<c>> \in Seq(X) /\ Len(a \o <<c>>) = k /\ (a \o <<c>>)[k] = c
      /\ \A i \in 1..Len(a) : (a \o <<c>>)[i] = a[i]
  BY AppendIsConcat, AppendProperties
<1>2. Len(a) \in Nat /\ Len(b) \in Nat /\ k \in Nat
  BY LenProperties
<1>3. s \in Seq(X) /\ Len(s) = k + Len(b)
  BY <1>1, ConcatProperties
<1>4. \A i \in 1..k : s[i] = (a \o <<c>>)[i]
  BY <1>1, <1>2, ConcatProperties
<1>5. \A i \in 1..Len(a) : s[i] = a[i] /\ s[i] # c
  BY <1>1, <1>2, <1>4 DEF Free
<1>6. s[k] = c /\ k \in 1..Len(s)
  BY <1>1, <1>2, <1>3, <1>4
<1> HIDE DEF s
<1>7. k \in I /\ I \in SUBSET Nat /\ \A i \in I : k <= i
  BY <1>2, <1>5, <1>6
<1>8. I # {} /\ Min(I) = k /\ k # 0
  <2> HIDE DEF I
  <2> QED BY <1>2, <1>7, LeastIs
<1>9. Cut(s, c) = <<SubSeq(s, 1, k - 1), SubSeq(s, k + 1, Len(s))>>
  <2> HIDE DEF k
  <2> QED BY <1>8 DEF Cut, SelectInSeq
<1>10. SubSeq(s, 1, k - 1) = a
  <2>1. \A i \in 1..k - 1 : s[i] \in X
    BY <1>2, <1>3, ElementOfSeq
  <2>2. /\ SubSeq(s, 1, k - 1) \in Seq(X) /\ Len(SubSeq(s, 1, k - 1)) = Len(a)
        /\ \A i \in 1..Len(a) : SubSeq(s, 1, k - 1)[i] = a[i]
    BY <1>2, <1>5, <2>1, SubSeqProperties
  <2> QED BY <2>2, SeqEqual
<1>11. SubSeq(s, k + 1, Len(s)) = b
  <2>1. \A i \in k + 1..Len(s) : s[i] \in X
    BY <1>2, <1>3, ElementOfSeq
  <2>2. \A i \in 1..Len(b) : s[k + i] = b[i]
    <3>1. \A i \in 1..Len(b) : k + i \in 1..k + Len(b) /\ ~(k + i <= k) /\ (k + i) - k = i
      BY <1>2
    <3> QED BY <1>1, <1>2, <3>1, ConcatProperties DEF s
  <2>3. /\ SubSeq(s, k + 1, Len(s)) \in Seq(X) /\ Len(SubSeq(s, k + 1, Len(s))) = Len(b)
        /\ \A i \in 1..Len(b) : SubSeq(s, k + 1, Len(s))[i] = s[k + i]
    BY <1>2, <1>3, <2>1, SubSeqProperties
  <2> QED BY <2>2, <2>3, SeqEqual
<1> QED BY <1>9, <1>10, <1>11 DEF s

\* Lists of parts, one at least.
Lists(X) == Seq(Seq(X)) \ {<<>>}

LEMMA ListIs ==
  ASSUME NEW X, NEW p \in Lists(X)
  PROVE  \E q \in Seq(Seq(X)), l \in Seq(X) : p = Append(q, l)
BY SequenceEmptyOrAppend DEF Lists

LEMMA FrontLast ==
  ASSUME NEW X, NEW q \in Seq(X), NEW l \in X
  PROVE  Front(Append(q, l)) = q /\ Last(Append(q, l)) = l
<1> DEFINE p == Append(q, l)
<1>1. /\ p \in Seq(X) /\ Len(p) = Len(q) + 1 /\ p[Len(q) + 1] = l /\ Len(q) \in Nat
      /\ \A i \in 1..Len(q) : p[i] = q[i] /\ q[i] \in X
  BY AppendProperties, LenProperties, ElementOfSeq
<1> HIDE DEF p
<1>2. Last(p) = l
  BY <1>1 DEF Last
<1>3. SubSeq(p, 1, Len(q)) = q
  <2>1. /\ SubSeq(p, 1, Len(q)) \in Seq(X) /\ Len(SubSeq(p, 1, Len(q))) = Len(q)
        /\ \A i \in 1..Len(q) : SubSeq(p, 1, Len(q))[i] = p[i]
    BY <1>1, SubSeqProperties
  <2> QED BY <1>1, <2>1, SeqEqual
<1>4. Front(p) = q
  <2>1. Len(p) - 1 = Len(q)
    BY <1>1
  <2> QED BY <1>3, <2>1 DEF Front
<1> QED BY <1>2, <1>4 DEF p

\* Another character, with the last part named.
LEMMA ContinueIs ==
  ASSUME NEW X, NEW q \in Seq(Seq(X)), NEW l \in Seq(X), NEW x \in X, NEW c
  PROVE  /\ Continue(Append(q, l), x, c) \in Lists(X)
         /\ x = c => Continue(Append(q, l), x, c) = Append(Append(q, l), <<>>)
         /\ x # c => Continue(Append(q, l), x, c) = Append(q, Append(l, x))
<1>1. <<>> \in Seq(X) /\ Append(l, x) \in Seq(X)
  BY EmptySeq, AppendProperties
<1>2. /\ Append(q, l) \in Seq(Seq(X))
      /\ Append(Append(q, l), <<>>) \in Lists(X)
      /\ Append(q, Append(l, x)) \in Lists(X)
  <2> DEFINE S == Seq(X)
             m == Append(l, x)
             p == Append(q, l)
  <2>1. <<>> \in S /\ m \in S /\ q \in Seq(S) /\ l \in S
    BY <1>1
  <2> HIDE DEF S, m
  <2>2. p \in Seq(S) /\ Append(q, m) \in Seq(S) /\ Append(q, m) # <<>>
    BY <2>1, AppendProperties
  <2> HIDE DEF p
  <2>3. Append(p, <<>>) \in Seq(S) /\ Append(p, <<>>) # <<>>
    BY <2>1, <2>2, AppendProperties
  <2> QED BY <2>2, <2>3 DEF Lists, S, m, p
<1>3. Front(Append(q, l)) = q /\ Last(Append(q, l)) = l
  BY FrontLast
<1>4. CASE x = c
  BY <1>2, <1>4 DEF Continue
<1>5. CASE x # c
  BY <1>2, <1>3, <1>5 DEF Continue
<1> QED BY <1>4, <1>5

Goes(X, s, c) == [p \in (1..Len(s)) \X Lists(X) |-> Continue(p[2], s[p[1]], c)]

LEMMA GoesType ==
  ASSUME NEW X, NEW s \in Seq(X), NEW c
  PROVE  Goes(X, s, c) \in [(0 + 1..Len(s)) \X Lists(X) -> Lists(X)]
<1>1. ASSUME NEW i \in 1..Len(s), NEW p \in Lists(X)
      PROVE  Continue(p, s[i], c) \in Lists(X)
  <2>1. PICK q \in Seq(Seq(X)), l \in Seq(X) : p = Append(q, l)
    BY ListIs
  <2>2. s[i] \in X
    BY ElementOfSeq
  <2> QED BY <2>1, <2>2, ContinueIs
<1>2. 0 + 1 = 1
  OBVIOUS
<1> QED BY <1>1, <1>2 DEF Goes

\* Split is the last value of a function that follows Continue.
LEMMA SplitDef ==
  ASSUME NEW X, NEW s \in Seq(X), NEW c
  PROVE  \E f \in [0..Len(s) -> Lists(X)] :
           Follows(f, 0, Len(s), <<<<>>>>, Goes(X, s, c)) /\ Split(s, c) = f[Len(s)]
<1> DEFINE n == Len(s)
           none == <<<<>>>>
           parts[i \in 0..n] == IF i = 0 THEN none ELSE Continue(parts[i - 1], s[i], c)
           R(h) == h = [i \in 0..n |-> IF i = 0 THEN none ELSE Continue(h[i - 1], s[i], c)]
<1>1. n \in Nat /\ none \in Lists(X) /\ 0 \in Nat /\ 0 <= n
  <2>1. <<>> \in Seq(X) /\ <<<<>>>> \in Seq(Seq(X)) /\ Len(<<<<>>>>) = 1 /\ Len(<<>>) = 0
    BY Short, EmptySeq
  <2> QED BY <2>1, LenProperties DEF Lists
<1>2. Split(s, c) = parts[n]
  BY DEF Split
<1>3. \E f \in [0..n -> Lists(X)] : Follows(f, 0, n, none, Goes(X, s, c))
  BY <1>1, GoesType, Recursion
<1> HIDE DEF n, none
<1>4. PICK f \in [0..n -> Lists(X)] : Follows(f, 0, n, none, Goes(X, s, c))
  BY <1>3
<1>5. R(f)
  <2>1. \A i \in 0..n : f[i] = IF i = 0 THEN none ELSE Continue(f[i - 1], s[i], c)
    <3> TAKE i \in 0..n
    <3>1. CASE i = 0
      BY <1>4, <3>1 DEF Follows
    <3>2. CASE i # 0
      <4>1. i \in 1..n /\ i \in 0 + 1..n /\ i - 1 \in 0..n
        BY <1>1, <3>2
      <4>2. f[i - 1] \in Lists(X)
        BY <4>1
      <4>3. f[i] = Goes(X, s, c)[<<i, f[i - 1]>>]
        BY <4>1, <1>4 DEF Follows
      <4>4. Goes(X, s, c)[<<i, f[i - 1]>>] = Continue(f[i - 1], s[i], c)
        BY <4>1, <4>2 DEF Goes, n
      <4> QED BY <3>2, <4>3, <4>4
    <3> QED BY <3>1, <3>2
  <2> DEFINE e == [i \in 0..n |-> IF i = 0 THEN none ELSE Continue(f[i - 1], s[i], c)]
  <2>2. DOMAIN f = DOMAIN e /\ \A i \in DOMAIN f : f[i] = e[i]
    BY <2>1
  <2>3. f = [i \in DOMAIN f |-> f[i]] /\ e = [i \in DOMAIN e |-> e[i]]
    OBVIOUS
  <2>4. f = e
    <3> HIDE DEF e
    <3> QED BY <2>2, <2>3
  <2> QED BY <2>4
<1>6. R(parts)
  <2> HIDE DEF R
  <2>1. R(CHOOSE h : R(h))
    BY <1>5
  <2> QED BY <2>1 DEF R, parts
<1> HIDE DEF parts
<1>7. \A i \in 0..n : parts[i] = f[i]
  <2> DEFINE P == {d \in Nat : d \in 0..n => parts[d] = f[d]}
  <2>1. ASSUME NEW d \in P PROVE d + 1 \in P
    <3> SUFFICES ASSUME d + 1 \in 0..n PROVE parts[d + 1] = f[d + 1]
      OBVIOUS
    <3>1. d \in 0..n /\ (d + 1) - 1 = d /\ d + 1 # 0 /\ parts[d] = f[d]
      BY <1>1
    <3>2. /\ f[d + 1] = Continue(f[d], s[d + 1], c)
          /\ parts[d + 1] = Continue(parts[d], s[d + 1], c)
      BY <1>5, <1>6, <3>1
    <3> QED BY <3>1, <3>2
  <2>2. \A d \in Nat : d \in P
    <3>1. P \in SUBSET Nat
      OBVIOUS
    <3>2. 0 \in P
      BY <1>1, <1>5, <1>6
    <3> HIDE DEF P
    <3> QED BY <2>1, <3>1, <3>2, Induction
  <2> QED
    <3> SUFFICES ASSUME NEW i \in 0..n PROVE parts[i] = f[i]
      OBVIOUS
    <3> QED BY <1>1, <2>2
<1> QED BY <1>1, <1>2, <1>4, <1>7 DEF n, none

\* Splitting nothing gives one empty part.
LEMMA SplitNone ==
  ASSUME NEW X, NEW c
  PROVE  Split(<<>>, c) = <<<<>>>>
<1>1. <<>> \in Seq(X) /\ Len(<<>>) = 0
  BY EmptySeq
<1>2. \E h : Follows(h, 0, 0, <<<<>>>>, Goes(X, <<>>, c)) /\ Split(<<>>, c) = h[0]
  BY <1>1, SplitDef
<1> QED BY <1>2 DEF Follows

\* Splitting goes symbol by symbol.
LEMMA SplitAppend ==
  ASSUME NEW X, NEW s \in Seq(X), NEW x \in X, NEW c
  PROVE  /\ Split(s, c) \in Lists(X)
         /\ Split(Append(s, x), c) = Continue(Split(s, c), x, c)
<1> DEFINE n == Len(s)
           t == Append(s, x)
<1>1. /\ n \in Nat /\ t \in Seq(X) /\ Len(t) = n + 1 /\ t[n + 1] = x
      /\ \A i \in 1..n : t[i] = s[i]
  BY AppendProperties, LenProperties
<1>2. PICK f \in [0..n -> Lists(X)] :
           Follows(f, 0, n, <<<<>>>>, Goes(X, s, c)) /\ Split(s, c) = f[n]
  BY SplitDef
<1> HIDE DEF t
<1>3. PICK g \in [0..n + 1 -> Lists(X)] :
           Follows(g, 0, n + 1, <<<<>>>>, Goes(X, t, c)) /\ Split(t, c) = g[n + 1]
  BY <1>1, SplitDef
<1>5. \A i \in 0 + 1..n + 1 : i \in 1..Len(t) /\ i - 1 \in 0..n + 1 /\ g[i - 1] \in Lists(X)
  BY <1>1, SMTT(20)
<1>6. \A i \in 0 + 1..n + 1 : g[i] = Continue(g[i - 1], t[i], c)
  BY <1>3, <1>5 DEF Follows, Goes
<1>7. \A i \in 0 + 1..n : i \in 1..Len(s) /\ i \in 0 + 1..n + 1 /\ t[i] = s[i]
  BY <1>1
<1>8. \A i \in 0 + 1..n : g[i] = Goes(X, s, c)[<<i, g[i - 1]>>]
  BY <1>5, <1>6, <1>7 DEF Goes
<1>9. Follows(g, 0, n, <<<<>>>>, Goes(X, s, c))
  BY <1>3, <1>8 DEF Follows
<1>10. g[n] = f[n] /\ n + 1 \in 0 + 1..n + 1 /\ (n + 1) - 1 = n
  BY <1>1, <1>2, <1>9, RecursionUnique
<1>11. Split(t, c) = Continue(Split(s, c), x, c)
  BY <1>1, <1>2, <1>3, <1>6, <1>10
<1> QED BY <1>1, <1>2, <1>11 DEF t

\* What is added without a separator goes to the end of the last part.
GoesOn(X, s, c, q, l) ==
  \A t \in Seq(X) : Free(t, c) => Split(s \o t, c) = Append(q, l \o t)

LEMMA SplitFree ==
  ASSUME NEW X, NEW s \in Seq(X), NEW c, NEW q \in Seq(Seq(X)), NEW l \in Seq(X),
         Split(s, c) = Append(q, l)
  PROVE  GoesOn(X, s, c, q, l)
<1> DEFINE P == {u \in Seq(X) : Free(u, c) => Split(s \o u, c) = Append(q, l \o u)}
<1>0. Regroups(Seq(X))
  BY Associative
<1>1. <<>> \in P
  BY EmptySeq, ConcatEmptySeq
<1>2. ASSUME NEW u \in P, NEW x \in X PROVE Append(u, x) \in P
  <2> DEFINE v == Append(u, x)
  <2>1. /\ u \in Seq(X) /\ v \in Seq(X) /\ v = u \o <<x>> /\ <<x>> \in Seq(X)
        /\ Len(v) = Len(u) + 1 /\ Len(u) \in Nat /\ v[Len(u) + 1] = x
        /\ \A i \in 1..Len(u) : v[i] = u[i]
    BY AppendProperties, AppendIsConcat, LenProperties, Short
  <2> SUFFICES ASSUME Free(v, c) PROVE Split(s \o v, c) = Append(q, l \o v)
    BY <2>1
  <2>2. Free(u, c) /\ x # c
    BY <2>1 DEF Free
  <2>3. Split(s \o u, c) = Append(q, l \o u)
    BY <2>2
  <2> HIDE DEF P, v
  <2> DEFINE one == <<x>>
             a == s \o u
             b == l \o u
  <2>4. a \in Seq(X) /\ b \in Seq(X)
    BY <2>1, ConcatProperties
  <2>5. s \o v = a \o one /\ l \o v = b \o one
    <3>1. one \in Seq(X) /\ v = u \o one
      BY <2>1
    <3> HIDE DEF one
    <3>2. u \in Seq(X) /\ s \in Seq(X) /\ l \in Seq(X) /\ one \in Seq(X)
      BY <2>1, <3>1
    <3>3. (s \o u) \o one = s \o (u \o one)
      BY <1>0, <3>2 DEF Regroups
    <3>4. (l \o u) \o one = l \o (u \o one)
      BY <1>0, <3>2 DEF Regroups
    <3> QED BY <3>1, <3>3, <3>4 DEF a, b
  <2>6. Append(a, x) = a \o one /\ Append(b, x) = b \o one
    BY <2>4, AppendIsConcat
  <2>7. Split(a, c) = Append(q, b)
    BY <2>3
  <2> HIDE DEF a, b, one
  <2>8. Split(Append(a, x), c) = Continue(Append(q, b), x, c)
    BY <2>4, <2>7, SplitAppend, ZenonT(30)
  <2>9. Continue(Append(q, b), x, c) = Append(q, Append(b, x))
    BY <2>2, <2>4, ContinueIs
  <2> QED BY <2>5, <2>6, <2>8, <2>9
<1>3. \A u \in Seq(X) : u \in P
  <2>1. P \in SUBSET Seq(X)
    OBVIOUS
  <2> HIDE DEF P
  <2> QED BY <1>1, <1>2, <2>1, TextInduction
<1> QED BY <1>3 DEF GoesOn

\* Without a separator there is one part.
LEMMA SplitOne ==
  ASSUME NEW X, NEW t \in Seq(X), NEW c, Free(t, c)
  PROVE  Split(t, c) = <<t>>
<1>1. <<>> \in Seq(X) /\ <<>> \in Seq(Seq(X)) /\ <<>> \o t = t
  BY EmptySeq, ConcatEmptySeq
<1> DEFINE e == <<>>
<1>2. Split(e, c) = Append(e, e)
  BY SplitNone
<1>3. e \in Seq(X) /\ e \in Seq(Seq(X))
  BY <1>1
<1> HIDE DEF e
<1>4. GoesOn(X, e, c, e, e)
  BY <1>2, <1>3, SplitFree
<1>5. Split(e \o t, c) = Append(e, e \o t)
  BY <1>4 DEF GoesOn
<1> QED BY <1>1, <1>5 DEF e

\* A separator ends a part, and what follows it is the next.
LEMMA SplitNext ==
  ASSUME NEW X, NEW s \in Seq(X), NEW c \in X, NEW t \in Seq(X), Free(t, c)
  PROVE  Split((s \o <<c>>) \o t, c) = Append(Split(s, c), t)
<1>1. Split(s, c) \in Lists(X) /\ Split(Append(s, c), c) = Continue(Split(s, c), c, c)
  BY SplitAppend
<1>2. PICK q \in Seq(Seq(X)), l \in Seq(X) : Split(s, c) = Append(q, l)
  BY <1>1, ListIs
<1>3. Split(Append(s, c), c) = Append(Split(s, c), <<>>)
  BY <1>1, <1>2, ContinueIs
<1>4. Append(s, c) = s \o <<c>> /\ Append(s, c) \in Seq(X)
  BY AppendIsConcat, AppendProperties
<1> DEFINE e == <<>>
           u == Append(s, c)
           p == Split(s, c)
<1>5. e \in Seq(X) /\ p \in Seq(Seq(X)) /\ e \o t = t /\ u \in Seq(X) /\ Split(u, c) = Append(p, e)
  BY <1>1, <1>3, <1>4, EmptySeq, ConcatEmptySeq DEF Lists
<1> HIDE DEF e, u, p
<1>6. GoesOn(X, u, c, p, e)
  BY <1>5, SplitFree
<1>7. Split(u \o t, c) = Append(p, e \o t)
  BY <1>6 DEF GoesOn
<1> QED BY <1>4, <1>5, <1>7 DEF u, p

-----------------------------------------------------------------------------
(* Trimming. *)

\* Every set of naturals has a least member, every bounded one a greatest.
LEMMA Least ==
  ASSUME NEW S \in SUBSET Nat, S # {}
  PROVE  \E k \in S : \A i \in S : k <= i
<1> SUFFICES ASSUME ~\E k \in S : \A i \in S : k <= i PROVE FALSE
  OBVIOUS
<1> DEFINE P == {n \in Nat : \A i \in S : n <= i}
<1>1. 0 \in P
  OBVIOUS
<1>2. ASSUME NEW n \in P PROVE n + 1 \in P
  <2>1. n \notin S
    OBVIOUS
  <2> QED BY <2>1
<1>3. \A n \in Nat : n \in P
  <2>1. P \in SUBSET Nat
    OBVIOUS
  <2> HIDE DEF P
  <2> QED BY <1>1, <1>2, <2>1, Induction
<1>4. PICK k \in S : TRUE
  OBVIOUS
<1>5. k + 1 \in P
  BY <1>3
<1> QED BY <1>5

LEMMA Greatest ==
  ASSUME NEW n \in Nat, NEW S \in SUBSET (0..n), S # {}
  PROVE  \E k \in S : \A i \in S : i <= k
<1> DEFINE T == {n - i : i \in S}
<1>0. \A i \in S : n - i \in Nat
  OBVIOUS
<1>1. T \in SUBSET Nat /\ T # {}
  BY <1>0
<1> HIDE DEF T
<1>2. PICK m \in T : \A i \in T : m <= i
  BY <1>1, Least
<1>3. PICK k \in S : m = n - k
  BY <1>2 DEF T
<1>4. \A i \in S : n - k <= n - i
  BY <1>2, <1>3 DEF T
<1> QED BY <1>3, <1>4

\* From i to j is what is left of s.
Kept(s, cs, i, j) ==
  /\ s[i] \notin cs /\ s[j] \notin cs
  /\ \A k \in 1..i - 1 : s[k] \in cs
  /\ \A k \in j + 1..Len(s) : s[k] \in cs

\* Nothing is left of a text of which all is to go.
LEMMA TrimNone ==
  ASSUME NEW s, NEW cs, \A k \in 1..Len(s) : s[k] \in cs
  PROVE  Trim(s, cs) = <<>>
<1>1. {i \in 1..Len(s) : s[i] \notin cs} = {}
  OBVIOUS
<1> QED BY <1>1 DEF Trim

\* What is left is the stretch between the first and the last that stay.
LEMMA TrimIs ==
  ASSUME NEW X, NEW s \in Seq(X), NEW cs, NEW i \in 1..Len(s), NEW j \in 1..Len(s),
         Kept(s, cs, i, j)
  PROVE  /\ i <= j /\ Trim(s, cs) = SubSeq(s, i, j) /\ SubSeq(s, i, j) \in Seq(X)
         /\ Len(SubSeq(s, i, j)) = (j - i) + 1
         /\ \A k \in 1..(j - i) + 1 : SubSeq(s, i, j)[k] = s[(i + k) - 1]
<1> DEFINE kept == {k \in 1..Len(s) : s[k] \notin cs}
<1>1. Len(s) \in Nat
  BY LenProperties
<1>2. i \in kept /\ j \in kept /\ \A k \in kept : i <= k /\ k <= j
  BY <1>1 DEF Kept
<1>3. \A k \in kept : k \in Nat
  BY <1>1
<1>4. /\ Trim(s, cs) = SubSeq(s, CHOOSE k \in kept : \A m \in kept : k <= m,
                                CHOOSE k \in kept : \A m \in kept : m <= k)
  BY <1>2 DEF Trim
<1> HIDE DEF kept
<1>5. (CHOOSE k \in kept : \A m \in kept : k <= m) = i
  <2>1. \A k \in kept : (\A m \in kept : k <= m) <=> k = i
    BY <1>2, <1>3
  <2> QED BY <1>2, <2>1
<1>6. (CHOOSE k \in kept : \A m \in kept : m <= k) = j
  <2>1. \A k \in kept : (\A m \in kept : m <= k) <=> k = j
    BY <1>2, <1>3
  <2> QED BY <1>2, <2>1
<1>7. i <= j
  BY <1>2
<1>8. Trim(s, cs) = SubSeq(s, i, j)
  BY <1>4, <1>5, <1>6
<1>9. \A k \in i..j : s[k] \in X
  BY <1>1, ElementOfSeq
<1>10. /\ SubSeq(s, i, j) \in Seq(X) /\ Len(SubSeq(s, i, j)) = (j - i) + 1
       /\ \A k \in 1..(j - i) + 1 : SubSeq(s, i, j)[k] = s[(i + k) - 1]
  BY <1>1, <1>7, <1>9, SubSeqProperties
<1> QED BY <1>7, <1>8, <1>10

\* There are no other cases.
LEMMA TrimCases ==
  ASSUME NEW X, NEW s \in Seq(X), NEW cs
  PROVE  \/ \A k \in 1..Len(s) : s[k] \in cs
         \/ \E i, j \in 1..Len(s) : Kept(s, cs, i, j)
<1> DEFINE kept == {k \in 1..Len(s) : s[k] \notin cs}
<1>1. Len(s) \in Nat
  BY LenProperties
<1>2. CASE kept = {}
  BY <1>2
<1>3. CASE kept # {}
  <2>1. kept \in SUBSET Nat /\ kept \in SUBSET (0..Len(s))
    BY <1>1
  <2>2. \E i \in kept : \A k \in kept : i <= k
    <3> HIDE DEF kept
    <3> QED BY <1>3, <2>1, Least
  <2>3. \E j \in kept : \A k \in kept : k <= j
    <3> HIDE DEF kept
    <3> QED BY <1>1, <1>3, <2>1, Greatest
  <2>4. PICK i \in kept, j \in kept : \A k \in kept : i <= k /\ k <= j
    BY <2>2, <2>3
  <2>5. \A k \in 1..i - 1 : k \in 1..Len(s) /\ ~(i <= k)
    BY <1>1
  <2>6. \A k \in j + 1..Len(s) : k \in 1..Len(s) /\ ~(k <= j)
    BY <1>1
  <2>7. Kept(s, cs, i, j)
    BY <2>4, <2>5, <2>6 DEF Kept
  <2> QED BY <2>7
<1> QED BY <1>2, <1>3

LEMMA TrimType ==
  ASSUME NEW X, NEW s \in Seq(X), NEW cs
  PROVE  Trim(s, cs) \in Seq(X)
<1>1. CASE \A k \in 1..Len(s) : s[k] \in cs
  BY <1>1, TrimNone, EmptySeq
<1>2. CASE \E i, j \in 1..Len(s) : Kept(s, cs, i, j)
  BY <1>2, TrimIs
<1> QED BY <1>1, <1>2, TrimCases

\* A text with nothing to trim at its ends stays.
LEMMA TrimSame ==
  ASSUME NEW X, NEW s \in Seq(X), NEW cs,
         s = <<>> \/ (s[1] \notin cs /\ s[Len(s)] \notin cs)
  PROVE  Trim(s, cs) = s
<1>1. CASE s = <<>>
  BY <1>1, TrimNone
<1>2. CASE s # <<>>
  <2>1. Len(s) \in Nat \ {0}
    BY <1>2, EmptySeq
  <2>2. 1 \in 1..Len(s) /\ Len(s) \in 1..Len(s) /\ Kept(s, cs, 1, Len(s))
    BY <1>2, <2>1 DEF Kept
  <2>3. Trim(s, cs) = SubSeq(s, 1, Len(s))
    BY <2>2, TrimIs
  <2> QED BY <2>3, SubSeqFull
<1> QED BY <1>1, <1>2

-----------------------------------------------------------------------------
(* What the browser is sent away with. *)

\* The query of a URL gives the value of its only key back.
LEMMA QueryReads ==
  ASSUME NEW a \in Seq(Char), Free(a, "?"), NEW key \in Char, key # "=", key # "&",
         NEW m \in Seq(Char)
  PROVE  Query((a \o <<"?">>) \o ((<<key>> \o <<"=">>) \o QueryEscape(m)), key) = m
<1> DEFINE e == QueryEscape(m)
           k == <<key>>
           b == (k \o <<"=">>) \o e
           url == (a \o <<"?">>) \o b
<1>1. e \in Seq(Char) /\ Bare(e) /\ QueryUnescape(e) = m
  BY EscapeBare, EscapeRound
<1>2. "=" \in Char /\ "?" \in Char /\ k \in Seq(Char) /\ <<"=">> \in Seq(Char)
  BY CodesAre, Short DEF Char
<1>3. Free(k, "=") /\ Len(k) = 1 /\ k[1] = key
  BY DEF Free
<1> HIDE DEF e, k
<1>4. Cut(b, "=") = <<k, e>>
  BY <1>1, <1>2, <1>3, CutFirst
<1>5. b \in Seq(Char) /\ Free(b, "&")
  <2>1. k \o <<"=">> \in Seq(Char)
    BY <1>2, ConcatProperties
  <2>2. Free(k, "&") /\ Free(<<"=">>, "&")
    BY <1>3 DEF Free
  <2>3. Free(e, "&")
    BY <1>1, CodesAre DEF Bare, Plain, Free
  <2>4. Free(k \o <<"=">>, "&")
    BY <1>2, <2>2, FreeConcat
  <2> QED BY <1>1, <2>1, <2>3, <2>4, FreeConcat, ConcatProperties
<1> HIDE DEF b
<1>6. Cut(url, "?") = <<a, b>>
  BY <1>2, <1>5, CutFirst
<1> HIDE DEF url
<1>7. Split(Cut(url, "?")[2], "&") = <<b>>
  BY <1>5, <1>6, SplitOne
<1> DEFINE fields == <<b>>
           I == {i \in 1..Len(fields) : Cut(fields[i], "=")[1] = <<key>>}
<1>8. SelectInSeq(fields, LAMBDA f : Cut(f, "=")[1] = <<key>>) = 1
  <2>1. I = {1}
    <3>1. Len(fields) = 1 /\ fields[1] = b
      OBVIOUS
    <3> QED BY <1>4, <3>1 DEF k
  <2>2. I # {} /\ Min(I) = 1
    <3>1. I \in SUBSET Nat /\ 1 \in I /\ \A i \in I : 1 <= i
      BY <2>1
    <3> HIDE DEF I
    <3> QED BY <3>1, LeastIs
  <2> QED BY <2>2 DEF SelectInSeq
<1>9. Query(url, key) = QueryUnescape(Cut(fields[1], "=")[2])
  BY <1>7, <1>8 DEF Query
<1>10. fields[1] = b
  OBVIOUS
<1> HIDE DEF fields
<1>11. QueryUnescape(Cut(fields[1], "=")[2]) = m
  BY <1>1, <1>4, <1>10
<1> QED BY <1>9, <1>11 DEF url, b, k, e

\* Short texts put together, symbol by symbol: the provers do not evaluate a
\* concatenation of tuples.
LEMMA ConcatIs ==
  ASSUME NEW X, NEW a \in Seq(X), NEW b \in Seq(X), NEW r \in Seq(X), Len(r) = Len(a) + Len(b),
         \A i \in 1..Len(a) : r[i] = a[i], \A i \in 1..Len(b) : r[Len(a) + i] = b[i]
  PROVE  a \o b = r
<1> DEFINE c == a \o b
<1>1. /\ c \in Seq(X) /\ Len(c) = Len(a) + Len(b) /\ Len(a) \in Nat /\ Len(b) \in Nat
      /\ \A i \in 1..Len(a) + Len(b) : c[i] = IF i <= Len(a) THEN a[i] ELSE b[i - Len(a)]
  BY ConcatProperties, LenProperties
<1> HIDE DEF c
<1>2. ASSUME NEW i \in 1..Len(a) + Len(b) PROVE c[i] = r[i]
  <2>1. CASE i <= Len(a)
    BY <1>1, <2>1
  <2>2. CASE ~(i <= Len(a))
    <3>1. i - Len(a) \in 1..Len(b) /\ Len(a) + (i - Len(a)) = i
      BY <1>1, <2>2
    <3>2. r[Len(a) + (i - Len(a))] = b[i - Len(a)]
      BY <3>1
    <3>3. c[i] = b[i - Len(a)]
      BY <1>1, <2>2
    <3> QED BY <3>1, <3>2, <3>3
  <2> QED BY <2>1, <2>2
<1>3. c = r
  BY <1>1, <1>2, SeqEqual
<1> QED BY <1>3 DEF c

LEMMA FiveIs ==
  ASSUME NEW X, NEW x1 \in X, NEW x2 \in X, NEW x3 \in X, NEW x4 \in X, NEW x5 \in X
  PROVE  /\ <<x1, x2, x3, x4>> \o <<x5>> = <<x1, x2, x3, x4, x5>>
         /\ <<x1, x2, x3, x4, x5>> \in Seq(X)
<1> DEFINE a == <<x1, x2, x3, x4>>
           b == <<x5>>
           r == <<x1, x2, x3, x4, x5>>
<1>1. /\ a \in Seq(X) /\ Len(a) = 4 /\ a[1] = x1 /\ a[2] = x2 /\ a[3] = x3 /\ a[4] = x4
  OBVIOUS
<1>2. /\ b \in Seq(X) /\ Len(b) = 1 /\ b[1] = x5
  OBVIOUS
<1>3. /\ r \in Seq(X) /\ Len(r) = 5 /\ r[1] = x1 /\ r[2] = x2 /\ r[3] = x3 /\ r[4] = x4
      /\ r[5] = x5
  OBVIOUS
<1> HIDE DEF a, b, r
<1>4. \A i \in 1..Len(a) : r[i] = a[i]
  BY <1>1, <1>3
<1>5. \A i \in 1..Len(b) : r[Len(a) + i] = b[i]
  BY <1>1, <1>2, <1>3
<1>6. Len(r) = Len(a) + Len(b)
  BY <1>1, <1>2, <1>3
<1>7. a \in Seq(X) /\ b \in Seq(X) /\ r \in Seq(X)
  BY <1>1, <1>2, <1>3
<1>8. a \o b = r
  BY <1>4, <1>5, <1>6, <1>7, ConcatIs
<1> QED BY <1>7, <1>8 DEF a, b, r

LEMMA SevenIs ==
  ASSUME NEW X, NEW x1 \in X, NEW x2 \in X, NEW x3 \in X, NEW x4 \in X, NEW x5 \in X,
         NEW x6 \in X, NEW x7 \in X
  PROVE  /\ <<x1, x2, x3, x4, x5>> \o <<x6, x7>> = <<x1, x2, x3, x4, x5, x6, x7>>
         /\ <<x1, x2, x3, x4, x5, x6, x7>> \in Seq(X)
<1> DEFINE a == <<x1, x2, x3, x4, x5>>
           b == <<x6, x7>>
           r == <<x1, x2, x3, x4, x5, x6, x7>>
<1>1. /\ a \in Seq(X) /\ Len(a) = 5 /\ a[1] = x1 /\ a[2] = x2 /\ a[3] = x3 /\ a[4] = x4
      /\ a[5] = x5
  OBVIOUS
<1>2. /\ b \in Seq(X) /\ Len(b) = 2 /\ b[1] = x6 /\ b[2] = x7
  OBVIOUS
<1>3. /\ r \in Seq(X) /\ Len(r) = 7 /\ r[1] = x1 /\ r[2] = x2 /\ r[3] = x3 /\ r[4] = x4
      /\ r[5] = x5 /\ r[6] = x6 /\ r[7] = x7
  OBVIOUS
<1> HIDE DEF a, b, r
<1>4. \A i \in 1..Len(a) : r[i] = a[i]
  BY <1>1, <1>3
<1>5. \A i \in 1..Len(b) : r[Len(a) + i] = b[i]
  BY <1>1, <1>2, <1>3
<1>6. Len(r) = Len(a) + Len(b)
  BY <1>1, <1>2, <1>3
<1>7. a \in Seq(X) /\ b \in Seq(X) /\ r \in Seq(X)
  BY <1>1, <1>2, <1>3
<1>8. a \o b = r
  BY <1>4, <1>5, <1>6, <1>7, ConcatIs
<1> QED BY <1>7, <1>8 DEF a, b, r

LEMMA TwoIs ==
  ASSUME NEW X, NEW x1 \in X, NEW x2 \in X
  PROVE  /\ <<x1>> \o <<x2>> = <<x1, x2>>
         /\ <<x1, x2>> \in Seq(X)
<1> DEFINE a == <<x1>>
           b == <<x2>>
           r == <<x1, x2>>
<1>1. /\ a \in Seq(X) /\ Len(a) = 1 /\ a[1] = x1
  OBVIOUS
<1>2. /\ b \in Seq(X) /\ Len(b) = 1 /\ b[1] = x2
  OBVIOUS
<1>3. /\ r \in Seq(X) /\ Len(r) = 2 /\ r[1] = x1 /\ r[2] = x2
  OBVIOUS
<1> HIDE DEF a, b, r
<1>4. \A i \in 1..Len(a) : r[i] = a[i]
  BY <1>1, <1>3
<1>5. \A i \in 1..Len(b) : r[Len(a) + i] = b[i]
  BY <1>1, <1>2, <1>3
<1>6. Len(r) = Len(a) + Len(b)
  BY <1>1, <1>2, <1>3
<1>7. a \in Seq(X) /\ b \in Seq(X) /\ r \in Seq(X)
  BY <1>1, <1>2, <1>3
<1>8. a \o b = r
  BY <1>4, <1>5, <1>6, <1>7, ConcatIs
<1> QED BY <1>7, <1>8 DEF a, b, r

LEMMA ThreeIs ==
  ASSUME NEW X, NEW x1 \in X, NEW x2 \in X, NEW x3 \in X
  PROVE  /\ <<x1, x2>> \o <<x3>> = <<x1, x2, x3>>
         /\ <<x1, x2, x3>> \in Seq(X)
<1> DEFINE a == <<x1, x2>>
           b == <<x3>>
           r == <<x1, x2, x3>>
<1>1. /\ a \in Seq(X) /\ Len(a) = 2 /\ a[1] = x1 /\ a[2] = x2
  OBVIOUS
<1>2. /\ b \in Seq(X) /\ Len(b) = 1 /\ b[1] = x3
  OBVIOUS
<1>3. /\ r \in Seq(X) /\ Len(r) = 3 /\ r[1] = x1 /\ r[2] = x2 /\ r[3] = x3
  OBVIOUS
<1> HIDE DEF a, b, r
<1>4. \A i \in 1..Len(a) : r[i] = a[i]
  BY <1>1, <1>3
<1>5. \A i \in 1..Len(b) : r[Len(a) + i] = b[i]
  BY <1>1, <1>2, <1>3
<1>6. Len(r) = Len(a) + Len(b)
  BY <1>1, <1>2, <1>3
<1>7. a \in Seq(X) /\ b \in Seq(X) /\ r \in Seq(X)
  BY <1>1, <1>2, <1>3
<1>8. a \o b = r
  BY <1>4, <1>5, <1>6, <1>7, ConcatIs
<1> QED BY <1>7, <1>8 DEF a, b, r

LEMMA ThreeSplit ==
  ASSUME NEW X, NEW x1 \in X, NEW x2 \in X, NEW x3 \in X
  PROVE  /\ <<x1>> \o <<x2, x3>> = <<x1, x2, x3>>
         /\ <<x1, x2, x3>> \in Seq(X)
<1> DEFINE a == <<x1>>
           b == <<x2, x3>>
           r == <<x1, x2, x3>>
<1>1. /\ a \in Seq(X) /\ Len(a) = 1 /\ a[1] = x1
  OBVIOUS
<1>2. /\ b \in Seq(X) /\ Len(b) = 2 /\ b[1] = x2 /\ b[2] = x3
  OBVIOUS
<1>3. /\ r \in Seq(X) /\ Len(r) = 3 /\ r[1] = x1 /\ r[2] = x2 /\ r[3] = x3
  OBVIOUS
<1> HIDE DEF a, b, r
<1>4. \A i \in 1..Len(a) : r[i] = a[i]
  BY <1>1, <1>3
<1>5. \A i \in 1..Len(b) : r[Len(a) + i] = b[i]
  BY <1>1, <1>2, <1>3
<1>6. Len(r) = Len(a) + Len(b)
  BY <1>1, <1>2, <1>3
<1>7. a \in Seq(X) /\ b \in Seq(X) /\ r \in Seq(X)
  BY <1>1, <1>2, <1>3
<1>8. a \o b = r
  BY <1>4, <1>5, <1>6, <1>7, ConcatIs
<1> QED BY <1>7, <1>8 DEF a, b, r

LEMMA FourIs ==
  ASSUME NEW X, NEW x1 \in X, NEW x2 \in X, NEW x3 \in X, NEW x4 \in X
  PROVE  /\ <<x1, x2>> \o <<x3, x4>> = <<x1, x2, x3, x4>>
         /\ <<x1, x2, x3, x4>> \in Seq(X)
<1> DEFINE a == <<x1, x2>>
           b == <<x3, x4>>
           r == <<x1, x2, x3, x4>>
<1>1. /\ a \in Seq(X) /\ Len(a) = 2 /\ a[1] = x1 /\ a[2] = x2
  OBVIOUS
<1>2. /\ b \in Seq(X) /\ Len(b) = 2 /\ b[1] = x3 /\ b[2] = x4
  OBVIOUS
<1>3. /\ r \in Seq(X) /\ Len(r) = 4 /\ r[1] = x1 /\ r[2] = x2 /\ r[3] = x3 /\ r[4] = x4
  OBVIOUS
<1> HIDE DEF a, b, r
<1>4. \A i \in 1..Len(a) : r[i] = a[i]
  BY <1>1, <1>3
<1>5. \A i \in 1..Len(b) : r[Len(a) + i] = b[i]
  BY <1>1, <1>2, <1>3
<1>6. Len(r) = Len(a) + Len(b)
  BY <1>1, <1>2, <1>3
<1>7. a \in Seq(X) /\ b \in Seq(X) /\ r \in Seq(X)
  BY <1>1, <1>2, <1>3
<1>8. a \o b = r
  BY <1>4, <1>5, <1>6, <1>7, ConcatIs
<1> QED BY <1>7, <1>8 DEF a, b, r

LEMMA SixIs ==
  ASSUME NEW X, NEW x1 \in X, NEW x2 \in X, NEW x3 \in X, NEW x4 \in X, NEW x5 \in X,
         NEW x6 \in X
  PROVE  /\ <<x1, x2>> \o <<x3, x4, x5, x6>> = <<x1, x2, x3, x4, x5, x6>>
         /\ <<x1, x2, x3, x4, x5, x6>> \in Seq(X)
<1> DEFINE a == <<x1, x2>>
           b == <<x3, x4, x5, x6>>
           r == <<x1, x2, x3, x4, x5, x6>>
<1>1. /\ a \in Seq(X) /\ Len(a) = 2 /\ a[1] = x1 /\ a[2] = x2
  OBVIOUS
<1>2. /\ b \in Seq(X) /\ Len(b) = 4 /\ b[1] = x3 /\ b[2] = x4 /\ b[3] = x5 /\ b[4] = x6
  OBVIOUS
<1>3. /\ r \in Seq(X) /\ Len(r) = 6 /\ r[1] = x1 /\ r[2] = x2 /\ r[3] = x3 /\ r[4] = x4
      /\ r[5] = x5 /\ r[6] = x6
  OBVIOUS
<1> HIDE DEF a, b, r
<1>4. \A i \in 1..Len(a) : r[i] = a[i]
  BY <1>1, <1>3
<1>5. \A i \in 1..Len(b) : r[Len(a) + i] = b[i]
  BY <1>1, <1>2, <1>3
<1>6. Len(r) = Len(a) + Len(b)
  BY <1>1, <1>2, <1>3
<1>7. a \in Seq(X) /\ b \in Seq(X) /\ r \in Seq(X)
  BY <1>1, <1>2, <1>3
<1>8. a \o b = r
  BY <1>4, <1>5, <1>6, <1>7, ConcatIs
<1> QED BY <1>7, <1>8 DEF a, b, r

Joins(a, b, r) == a \o b = r

LEMMA NineIs ==
  ASSUME NEW X, NEW x1 \in X, NEW x2 \in X, NEW x3 \in X, NEW x4 \in X, NEW x5 \in X,
         NEW x6 \in X, NEW x7 \in X, NEW x8 \in X, NEW x9 \in X
  PROVE  Joins(<<x1, x2, x3>>, <<x4, x5, x6, x7, x8, x9>>, <<x1, x2, x3, x4, x5, x6, x7, x8, x9>>)
<1> DEFINE a == <<x1, x2, x3>>
           b == <<x4, x5, x6, x7, x8, x9>>
           r == <<x1, x2, x3, x4, x5, x6, x7, x8, x9>>
<1>1. /\ a \in Seq(X) /\ Len(a) = 3 /\ a[1] = x1 /\ a[2] = x2 /\ a[3] = x3
  OBVIOUS
<1>2. /\ b \in Seq(X) /\ Len(b) = 6 /\ b[1] = x4 /\ b[2] = x5 /\ b[3] = x6 /\ b[4] = x7
      /\ b[5] = x8 /\ b[6] = x9
  OBVIOUS
<1>3. /\ r \in Seq(X) /\ Len(r) = 9 /\ r[1] = x1 /\ r[2] = x2 /\ r[3] = x3 /\ r[4] = x4
      /\ r[5] = x5 /\ r[6] = x6 /\ r[7] = x7 /\ r[8] = x8 /\ r[9] = x9
  OBVIOUS
<1> HIDE DEF a, b, r
<1>4. \A i \in 1..Len(a) : r[i] = a[i]
  BY <1>1, <1>3
<1>5. \A i \in 1..Len(b) : r[Len(a) + i] = b[i]
  BY <1>1, <1>2, <1>3
<1>6. Len(r) = Len(a) + Len(b)
  BY <1>1, <1>2, <1>3
<1>7. a \in Seq(X) /\ b \in Seq(X) /\ r \in Seq(X)
  BY <1>1, <1>2, <1>3
<1>8. a \o b = r
  BY <1>4, <1>5, <1>6, <1>7, ConcatIs
<1> QED BY <1>7, <1>8 DEF a, b, r, Joins

UrlOf(X, x1, x2, x3, x4, x5, x6, x7, e) ==
  /\ <<x1, x2, x3, x4, x5, x6, x7>> \in Seq(X)
  /\ <<x1, x2, x3, x4>> \in Seq(X)
  /\ <<x1, x2, x3, x4, x5, x6, x7>> \o e
       = (<<x1, x2, x3, x4>> \o <<x5>>) \o ((<<x6>> \o <<x7>>) \o e)

\* A URL, taken apart at its "?" and at the "=" of its query.
LEMMA UrlIs ==
  ASSUME NEW X, NEW x1 \in X, NEW x2 \in X, NEW x3 \in X, NEW x4 \in X, NEW x5 \in X,
         NEW x6 \in X, NEW x7 \in X, NEW e \in Seq(X)
  PROVE  UrlOf(X, x1, x2, x3, x4, x5, x6, x7, e)
<1> DEFINE four == <<x1, x2, x3, x4>>
           k == <<x6>> \o <<x7>>
           five == four \o <<x5>>
<1>1. four \in Seq(X) /\ <<x5>> \in Seq(X) /\ <<x6>> \in Seq(X) /\ <<x7>> \in Seq(X)
  OBVIOUS
<1>2. <<x1, x2, x3, x4, x5, x6, x7>> \in Seq(X)
  BY SevenIs
<1>3. k = <<x6, x7>> /\ k \in Seq(X)
  <2>1. <<x6>> \in Seq(X) /\ <<x6, x7>> = Append(<<x6>>, x7) /\ <<x6, x7>> \in Seq(X)
    BY Short
  <2>2. Append(<<x6>>, x7) = <<x6>> \o <<x7>>
    BY <2>1, AppendIsConcat
  <2> QED BY <2>1, <2>2
<1>4. five = <<x1, x2, x3, x4, x5>> /\ five \in Seq(X)
  BY FiveIs
<1>5. <<x1, x2, x3, x4, x5>> \o <<x6, x7>> = <<x1, x2, x3, x4, x5, x6, x7>>
  BY SevenIs
<1>6. Regroups(Seq(X))
  BY Associative
<1> HIDE DEF five, k
<1>7. (five \o k) \o e = five \o (k \o e)
  BY <1>3, <1>4, <1>6 DEF Regroups
<1>8. five \o k = <<x1, x2, x3, x4, x5, x6, x7>>
  BY <1>3, <1>4, <1>5
<1> QED BY <1>1, <1>2, <1>7, <1>8 DEF five, k, UrlOf

Typed == text \in Seq(Symbols)

\* What is typed is a text.
LEMMA TextType == Spec => []Typed
<1>1. Init => Typed
  BY EmptySeq DEF Init, Typed
<1>2. Typed /\ [Next]_text => Typed'
  BY AppendProperties DEF Next, Type, Typed
<1> QED BY <1>1, <1>2, PTL DEF Spec

\* The words and the marks are symbols of texts.
LEMMA WordsAre ==
  /\ "/" \in Char /\ "?" \in Char /\ "=" \in Char /\ "&" \in Char /\ Comma \in Char
  /\ "'" \in Char /\ "partner" \in Char /\ "complete" \in Char /\ "ru" \in Char
  /\ "oauth" \in Char /\ "login" \in Char /\ "return_to" \in Char
  /\ "sign-in" \in Char /\ "pwd" \in Char /\ "from-PP" \in Char /\ "t" \in Char
  /\ "token" \in Char /\ "p" \in Char /\ "MemberName" \in Char /\ "a" \in Char
BY CodesAre DEF Char, Words

\* The return URL comes back from the query of the complete page.
LEMMA CompleteRead ==
  ASSUME NEW ru \in Seq(Char)
  PROVE  CompleteURL(ru) \in Seq(Char) /\ Query(CompleteURL(ru), "ru") = ru
<1> DEFINE e == QueryEscape(ru)
           seven == <<"/", "partner", "/", "complete", "?", "ru", "=">>
           four == <<"/", "partner", "/", "complete">>
<1>1. e \in Seq(Char)
  BY EscapeBare
<1>2. /\ seven \in Seq(Char) /\ four \in Seq(Char)
      /\ seven \o e = (four \o <<"?">>) \o ((<<"ru">> \o <<"=">>) \o e)
  <2>1. "/" \in Char /\ "?" \in Char /\ "=" \in Char /\ "partner" \in Char /\ "complete" \in Char /\ "ru" \in Char
    BY WordsAre
  <2> HIDE DEF e
  <2>2. UrlOf(Char, "/", "partner", "/", "complete", "?", "ru", "=", e)
    BY <1>1, <2>1, UrlIs
  <2> QED BY <2>2 DEF UrlOf
<1>3. Free(four, "?")
  BY DEF Free
<1>4. CompleteURL(ru) = seven \o e
  BY DEF CompleteURL
<1> HIDE DEF four, seven
<1>5. Query((four \o <<"?">>) \o ((<<"ru">> \o <<"=">>) \o e), "ru") = ru
  BY <1>2, <1>3, WordsAre, QueryReads
<1>6. seven \o e \in Seq(Char)
  BY <1>1, <1>2, ConcatProperties
<1> HIDE DEF e
<1> QED BY <1>2, <1>4, <1>5, <1>6

\* And the URL of the complete page from the query of the login page.
LEMMA LoginRead ==
  ASSUME NEW ru \in Seq(Char)
  PROVE  Query(LoginURL(ru), "return_to") = CompleteURL(ru)
<1> DEFINE url == CompleteURL(ru)
           e == QueryEscape(url)
           seven == <<"/", "oauth", "/", "login", "?", "return_to", "=">>
           four == <<"/", "oauth", "/", "login">>
<1>0. url \in Seq(Char)
  BY CompleteRead
<1>1. e \in Seq(Char)
  BY <1>0, EscapeBare
<1>4. LoginURL(ru) = seven \o e
  BY DEF LoginURL
<1> HIDE DEF url
<1>2. /\ seven \in Seq(Char) /\ four \in Seq(Char)
      /\ seven \o e = (four \o <<"?">>) \o ((<<"return_to">> \o <<"=">>) \o e)
  <2>1. "/" \in Char /\ "?" \in Char /\ "=" \in Char /\ "oauth" \in Char /\ "login" \in Char /\ "return_to" \in Char
    BY WordsAre
  <2> HIDE DEF e
  <2>2. UrlOf(Char, "/", "oauth", "/", "login", "?", "return_to", "=", e)
    BY <1>1, <2>1, UrlIs
  <2> QED BY <2>2 DEF UrlOf
<1>3. Free(four, "?")
  BY DEF Free
<1> HIDE DEF four, seven
<1>5. Query((four \o <<"?">>) \o ((<<"return_to">> \o <<"=">>) \o e), "return_to") = url
  BY <1>0, <1>2, <1>3, WordsAre, QueryReads
<1> HIDE DEF e
<1> QED BY <1>2, <1>4, <1>5 DEF url

\* The complete page counts as local.
LEMMA CompleteIsLocal ==
  ASSUME NEW ru \in Seq(Char)
  PROVE  IsSafeLocalReturn(CompleteURL(ru))
<1> DEFINE e == QueryEscape(ru)
           seven == <<"/", "partner", "/", "complete", "?", "ru", "=">>
           url == seven \o e
<1>1. e \in Seq(Char) /\ Bare(e)
  BY EscapeBare
<1>2. seven \in Seq(Char) /\ Len(seven) = 7 /\ seven[1] = "/" /\ seven[2] = "partner"
  <2>1. "/" \in Char /\ "?" \in Char /\ "=" \in Char /\ "partner" \in Char
        /\ "complete" \in Char /\ "ru" \in Char
    BY WordsAre
  <2>2. seven \in Seq(Char)
    BY <2>1, SevenIs
  <2> QED BY <2>2
<1>3. Free(seven, ":")
  BY DEF Free
<1>4. Free(e, ":")
  BY <1>1, CodesAre DEF Bare, Plain, Free
<1>5. CompleteURL(ru) = url
  BY DEF CompleteURL
<1> HIDE DEF e, seven
<1>6. Free(url, ":")
  BY <1>1, <1>2, <1>3, <1>4, FreeConcat
<1>7. url \in Seq(Char) /\ Len(url) = 7 + Len(e) /\ Len(e) \in Nat
  <2>1. Len(url) = Len(seven) + Len(e) /\ url \in Seq(Char) /\ Len(e) \in Nat
    BY <1>1, <1>2, ConcatProperties, LenProperties
  <2> QED BY <1>2, <2>1
<1>8. url[1] = "/" /\ url[2] = "partner"
  BY <1>1, <1>2, <1>7, ConcatProperties
<1> HIDE DEF url
<1>9. url # <<>>
  BY <1>7, EmptySeq
<1>10. ASSUME NEW i \in 1..Len(url) - 2 PROVE SubSeq(url, i, i + 2) # <<":", "/", "/">>
  <2>1. i \in 1..Len(url) /\ url[i] # ":"
    BY <1>6, <1>7 DEF Free
  <2>2. \A k \in i..i + 2 : url[k] \in Char
    BY <1>7, ElementOfSeq
  <2>3. SubSeq(url, i, i + 2)[1] = url[i]
    BY <1>7, <2>2, SubSeqProperties
  <2>4. <<":", "/", "/">>[1] = ":"
    OBVIOUS
  <2> QED BY <2>1, <2>3, <2>4
<1> QED BY <1>5, <1>8, <1>9, <1>10 DEF IsSafeLocalReturn

\* A browser that has to sign in first comes back to the visit it was sent
\* away from, whatever return URL is typed: the URL to come back to is local
\* and names the same return URL (handlePartnerComplete, isSafeLocalReturn).
THEOREM SignInAlwaysLeadsBack == Spec => []SignInLeadsBack
<1>1. Typed => SignInLeadsBack
  <2> SUFFICES ASSUME Typed PROVE SignInLeadsBack
    OBVIOUS
  <2>1. text \in Seq(Char)
    BY Signs, SeqMonotonic DEF Typed
  <2> DEFINE ru == TrimSpace(text)
  <2>2. ru \in Seq(Char)
    BY <2>1, TrimType DEF TrimSpace
  <2> HIDE DEF ru
  <2>3. Query(LoginURL(ru), "return_to") = CompleteURL(ru)
    BY <2>2, LoginRead
  <2>4. IsSafeLocalReturn(CompleteURL(ru)) /\ Query(CompleteURL(ru), "ru") = ru
    BY <2>2, CompleteIsLocal, CompleteRead
  <2> QED BY <2>3, <2>4 DEF SignInLeadsBack, ru
<1> QED BY <1>1, TextType, PTL

-----------------------------------------------------------------------------
(* The Authorization header. *)

\* A field with this key.
Passes(f, key) ==
  /\ \E n \in 1..Len(f) : f[n] = "="
  /\ TrimSpace(KeyAndRaw(f)[1]) = <<key>>

\* The last of the places that pass a test.
LEMMA GreatestIs ==
  ASSUME NEW S \in SUBSET Nat, NEW k \in S, \A i \in S : i <= k
  PROVE  Max(S) = k
<1>1. \A x \in S : (\A y \in S : x >= y) <=> x = k
  OBVIOUS
<1> QED BY <1>1 DEF Max

IsLast(header, i, key) ==
  LET fields == Split(header, Comma)
  IN /\ i \in 1..Len(fields) /\ Passes(fields[i], key)
     /\ \A j \in 1..Len(fields) : j > i => ~Passes(fields[j], key)

\* The last field with a key gives the value.
LEMMA AuthorizationIs ==
  ASSUME NEW header, NEW key, NEW i, Len(Split(header, Comma)) \in Nat, IsLast(header, i, key)
  PROVE  Authorization(header, key) = Value(KeyAndRaw(Split(header, Comma)[i])[2])
<1> DEFINE fields == Split(header, Comma)
           I == {j \in 1..Len(fields) : Passes(fields[j], key)}
<1>1. /\ Len(fields) \in Nat /\ i \in 1..Len(fields) /\ Passes(fields[i], key)
      /\ \A j \in 1..Len(fields) : j > i => ~Passes(fields[j], key)
  BY DEF IsLast
<1>2. I # {} /\ Max(I) = i /\ i # 0
  <2> HIDE DEF fields
  <2>1. I \in SUBSET Nat /\ i \in I /\ i # 0 /\ \A j \in I : j <= i
    BY <1>1
  <2> HIDE DEF I
  <2> QED BY <2>1, GreatestIs
<1>3. SelectLastInSeq(fields, LAMBDA f : /\ \E n \in 1..Len(f) : f[n] = "="
                                         /\ TrimSpace(KeyAndRaw(f)[1]) = <<key>>) = i
  <2> HIDE DEF fields
  <2> QED BY <1>2 DEF SelectLastInSeq, Passes
<1> QED BY <1>2, <1>3 DEF Authorization

IsField(f, k, e) ==
  f \in Seq(Char) /\ KeyAndRaw(f) = <<<<k>>, e>> /\ \A key : Passes(f, key) <=> key = k

\* A field is its key, "=" and the rest.
LEMMA FieldRead ==
  ASSUME NEW k \in Char, k # "=", k \notin Space, NEW e \in Seq(Char)
  PROVE  IsField(<<k, "=">> \o e, k, e)
<1> DEFINE one == <<k>>
           ke == <<k, "=">>
           f == ke \o e
<1>1. "=" \in Char
  BY WordsAre
<1>2. /\ one \in Seq(Char) /\ Len(one) = 1 /\ one[1] = k /\ one # <<>>
      /\ ke \in Seq(Char) /\ ke = one \o <<"=">>
      /\ Len(ke) = 2 /\ ke[2] = "="
  BY <1>1, Short, TwoIs
<1>3. Free(one, "=")
  BY <1>2 DEF Free
<1>4. TrimSpace(one) = one
  <2> HIDE DEF one
  <2> QED BY <1>2, TrimSame DEF TrimSpace
<1>5. \A key : one = <<key>> <=> key = k
  OBVIOUS
<1> HIDE DEF one, ke
<1>6. f \in Seq(Char)
  BY <1>2, ConcatProperties
<1>7. Cut((one \o <<"=">>) \o e, "=") = <<one, e>>
  BY <1>1, <1>2, <1>3, CutFirst
<1>8. KeyAndRaw(f) = <<one, e>>
  BY <1>2, <1>7 DEF KeyAndRaw
<1>9. \E n \in 1..Len(f) : f[n] = "="
  <2>1. /\ Len(f) = Len(ke) + Len(e) /\ Len(e) \in Nat /\ Len(ke) = 2
        /\ \A i \in 1..Len(ke) + Len(e) : f[i] = IF i <= Len(ke) THEN ke[i] ELSE e[i - Len(ke)]
    BY <1>2, ConcatProperties, LenProperties
  <2> HIDE DEF f
  <2>2. 2 \in 1..Len(f) /\ f[2] = "="
    BY <1>2, <2>1
  <2> QED BY <2>2
<1> HIDE DEF f
<1>10. \A key : Passes(f, key) <=> key = k
  BY <1>4, <1>5, <1>8, <1>9 DEF Passes
<1> QED BY <1>6, <1>8, <1>10 DEF f, ke, one, IsField

\* An escaped text as a value is the text.
LEMMA ValueRound ==
  ASSUME NEW m \in Seq(Char)
  PROVE  Value(QueryEscape(m)) = m
<1> DEFINE e == QueryEscape(m)
<1>1. e \in Seq(Char) /\ Bare(e) /\ QueryUnescape(e) = m
  BY EscapeBare, EscapeRound
<1> HIDE DEF e
<1>2. \A i \in 1..Len(e) : e[i] \notin Space /\ e[i] \notin {"'"}
  BY <1>1, CodesAre DEF Bare, Plain, Space
<1>3. e = <<>> \/ (1 \in 1..Len(e) /\ Len(e) \in 1..Len(e))
  BY <1>1, EmptySeq
<1>4. TrimSpace(e) = e
  BY <1>1, <1>2, <1>3, TrimSame DEF TrimSpace
<1>5. Trim(e, {"'"}) = e
  BY <1>1, <1>2, <1>3, TrimSame
<1> QED BY <1>1, <1>4, <1>5 DEF Value, e

LEMMA FreePair ==
  ASSUME NEW x, NEW y, NEW c, x # c, y # c
  PROVE  Free(<<x, y>>, c)
<1> DEFINE s == <<x, y>>
<1>1. Len(s) = 2 /\ s[1] = x /\ s[2] = y
  OBVIOUS
<1> HIDE DEF s
<1>2. Free(s, c)
  BY <1>1 DEF Free
<1> QED BY <1>2 DEF s

\* The fields are read one by one.
BothRead(f1, f2, k1, k2, e1, e2) ==
  /\ Authorization((f1 \o <<Comma>>) \o f2, k1) = Value(e1)
  /\ Authorization((f1 \o <<Comma>>) \o f2, k2) = Value(e2)

\* A header of two fields is split into them.
LEMMA TwoFields ==
  ASSUME NEW k1, NEW k2, NEW e1, NEW e2, NEW f1 \in Seq(Char), NEW f2 \in Seq(Char),
         IsField(f1, k1, e1), IsField(f2, k2, e2), k1 # k2, Free(f1, Comma), Free(f2, Comma)
  PROVE  BothRead(f1, f2, k1, k2, e1, e2)
<1> DEFINE header == (f1 \o <<Comma>>) \o f2
           fields == Split(header, Comma)
           one == <<f1>>
           X == Seq(Char)
<1>1. Split(f1, Comma) = one
  BY SplitOne
<1>2. Comma \in Char
  BY WordsAre
<1>3. fields = Append(one, f2)
  <2>1. fields = Append(Split(f1, Comma), f2)
    BY <1>2, SplitNext
  <2> QED BY <1>1, <2>1
<1> HIDE DEF header
<1>4. one \in Seq(X) /\ Len(one) = 1 /\ one[1] = f1 /\ f2 \in X
  OBVIOUS
<1> HIDE DEF one, X
<1> DEFINE l == Append(one, f2)
<1>50. /\ Len(l) = Len(one) + 1 /\ l[Len(one) + 1] = f2
       /\ \A i \in 1..Len(one) : l[i] = one[i]
  <2>1. one \in Seq(X) /\ f2 \in X
    BY <1>4
  <2> QED BY <2>1, AppendProperties
<1> HIDE DEF l
<1>51. Len(l) = 2
  BY <1>4, <1>50
<1>52. l[1] = f1
  BY <1>4, <1>50
<1>53. l[2] = f2
  BY <1>4, <1>50
<1>54. fields = l
  BY <1>3 DEF l
<1>6. KeyAndRaw(f1)[2] = e1 /\ KeyAndRaw(f2)[2] = e2
  BY DEF IsField
<1>71. Passes(l[1], k1)
  BY <1>52 DEF IsField
<1>72. ~Passes(l[2], k1)
  BY <1>53 DEF IsField
<1>73. Passes(l[2], k2)
  BY <1>53 DEF IsField
<1> HIDE DEF fields
<1>8. IsLast(header, 1, k1) /\ IsLast(header, 2, k2) /\ Len(fields) \in Nat
  <2>1. \A j \in 1..Len(l) : (j > 1 => j = 2) /\ ~(j > 2)
    BY <1>51
  <2>2. 1 \in 1..Len(l) /\ 2 \in 1..Len(l) /\ Len(l) \in Nat
    BY <1>51
  <2>3. Split(header, Comma) = l
    BY <1>54 DEF fields
  <2>4. IsLast(header, 1, k1)
    BY <1>71, <1>72, <2>1, <2>2, <2>3 DEF IsLast
  <2>5. IsLast(header, 2, k2)
    BY <1>73, <2>1, <2>2, <2>3 DEF IsLast
  <2> QED BY <2>2, <2>3, <2>4, <2>5 DEF fields
<1>9. Authorization(header, k1) = Value(KeyAndRaw(fields[1])[2])
  BY <1>8, AuthorizationIs DEF fields
<1>10. Authorization(header, k2) = Value(KeyAndRaw(fields[2])[2])
  BY <1>8, AuthorizationIs DEF fields
<1>11. KeyAndRaw(fields[1])[2] = e1 /\ KeyAndRaw(fields[2])[2] = e2
  BY <1>52, <1>53, <1>54, <1>6
<1> QED BY <1>9, <1>10, <1>11 DEF header, BothRead

IsBetween(f, c, b, e) == (f \o (c \o b)) \o e = (f \o c) \o (b \o e)

LEMMA Between ==
  ASSUME NEW X, NEW f \in Seq(X), NEW c \in Seq(X), NEW b \in Seq(X), NEW e \in Seq(X)
  PROVE  IsBetween(f, c, b, e)
<1>1. f \o (c \o b) = (f \o c) \o b
  BY ConcatAssociative, SMTT(20)
<1>2. f \o c \in Seq(X)
  BY ConcatProperties
<1> DEFINE g == f \o c
<1> HIDE DEF g
<1>3. (g \o b) \o e = g \o (b \o e)
  BY <1>2, ConcatAssociative, SMTT(20) DEF g
<1> QED BY <1>1, <1>3 DEF g, IsBetween

\* Both credentials are read as they were typed.
LEMMA CredentialsRead ==
  ASSUME NEW m \in Seq(Char), NEW w \in Seq(Char)
  PROVE  /\ Authorization(Credentials(m, w), "sign-in") = m
         /\ Authorization(Credentials(m, w), "pwd") = w
<1> DEFINE k1 == "sign-in"
           k2 == "pwd"
           a == <<k1, "=">>
           b == <<k2, "=">>
           e1 == QueryEscape(m)
           e2 == QueryEscape(w)
           comma == <<Comma>>
           f1 == a \o e1
           f2 == b \o e2
<1>1. /\ e1 \in Seq(Char) /\ Bare(e1) /\ Value(e1) = m
      /\ e2 \in Seq(Char) /\ Bare(e2) /\ Value(e2) = w
  BY EscapeBare, ValueRound
<1>2. /\ k1 \in Char /\ k1 # "=" /\ k1 \notin Space
      /\ k2 \in Char /\ k2 # "=" /\ k2 \notin Space /\ k1 # k2
      /\ Comma \in Char /\ "=" \in Char
  BY WordsAre, Marks DEF Space
<1>3. Free(a, Comma) /\ Free(b, Comma)
  <2>1. k1 # Comma /\ k2 # Comma /\ "=" # Comma
    BY Marks
  <2> HIDE DEF k1, k2
  <2> QED BY <2>1, FreePair
<1>4. a \in Seq(Char) /\ b \in Seq(Char) /\ comma \in Seq(Char)
  BY <1>2, Short
<1>5. comma \o b = <<Comma, k2, "=">>
  BY <1>2, ThreeSplit
<1>6. Credentials(m, w) = (f1 \o <<Comma, k2, "=">>) \o e2
  BY DEF Credentials
<1> HIDE DEF e1, e2, k1, k2
<1>7. IsField(f1, k1, e1) /\ IsField(f2, k2, e2)
  BY <1>1, <1>2, FieldRead
<1>8. f1 \in Seq(Char) /\ f2 \in Seq(Char)
  BY <1>7 DEF IsField
<1>9. Free(e1, Comma) /\ Free(e2, Comma)
  BY <1>1, CodesAre DEF Bare, Plain, Free
<1> HIDE DEF a, b, comma
<1>10. Free(f1, Comma) /\ Free(f2, Comma)
  BY <1>1, <1>3, <1>4, <1>9, FreeConcat
<1>11. Credentials(m, w) = (f1 \o comma) \o f2
  <2> HIDE DEF f1
  <2>1. IsBetween(f1, comma, b, e2)
    BY <1>1, <1>4, <1>8, Between
  <2> QED BY <1>5, <1>6, <2>1 DEF IsBetween
<1> HIDE DEF f1, f2
<1>12. BothRead(f1, f2, k1, k2, e1, e2)
  BY <1>2, <1>7, <1>8, <1>10, TwoFields
<1> QED BY <1>1, <1>11, <1>12 DEF BothRead, comma, k1, k2

-----------------------------------------------------------------------------
(* The ticket. *)

\* What holds neither signs nor codes is read as it is.
LEMMA ReadPlain ==
  ASSUME NEW s \in Seq(Char), Free(s, "%"), Free(s, "+")
  PROVE  Whole(s) /\ QueryUnescape(s) = s
<1> DEFINE P == {u \in Seq(Char) :
                   Free(u, "%") /\ Free(u, "+") => Whole(u) /\ QueryUnescape(u) = u}
<1>1. <<>> \in P
  <2> DEFINE e == <<>>
  <2>1. e \in Seq(Char) /\ Whole(e) /\ Pieces(e) = <<>>
    BY EmptySeq DEF Whole, Pieces
  <2>2. QueryUnescape(e) = <<>>
    BY <2>1, FlattenNone, WholeUnescape
  <2> QED BY <2>1, <2>2
<1>2. ASSUME NEW u \in P, NEW x \in Char PROVE Append(u, x) \in P
  <2> DEFINE v == Append(u, x)
  <2>1. /\ u \in Seq(Char) /\ v \in Seq(Char) /\ v = u \o <<x>>
        /\ Len(v) = Len(u) + 1 /\ Len(u) \in Nat /\ v[Len(u) + 1] = x
        /\ \A i \in 1..Len(u) : v[i] = u[i]
    BY AppendProperties, AppendIsConcat, LenProperties
  <2> SUFFICES ASSUME Free(v, "%"), Free(v, "+") PROVE Whole(v) /\ QueryUnescape(v) = v
    BY <2>1
  <2>2. Free(u, "%") /\ Free(u, "+") /\ x # "%" /\ x # "+"
    BY <2>1 DEF Free
  <2>3. Whole(u) /\ QueryUnescape(u) = u
    BY <2>2
  <2> HIDE DEF P
  <2>4. /\ Whole(Append(u, x))
        /\ QueryUnescape(Append(u, x)) = QueryUnescape(u) \o <<IF x = "+" THEN Blank ELSE x>>
    BY <2>1, <2>2, <2>3, ReadSymbol
  <2> QED BY <2>1, <2>2, <2>3, <2>4
<1>3. \A u \in Seq(Char) : u \in P
  <2>1. P \in SUBSET Seq(Char)
    OBVIOUS
  <2> HIDE DEF P
  <2> QED BY <1>1, <1>2, <2>1, TextInduction
<1> QED BY <1>3

\* The halves of a concatenation.
LEMMA Halves ==
  ASSUME NEW X, NEW a \in Seq(X), NEW b \in Seq(X)
  PROVE  /\ SubSeq(a \o b, 1, Len(a)) = a
         /\ SubSeq(a \o b, Len(a) + 1, Len(a \o b)) = b
<1> DEFINE c == a \o b
           n == Len(a)
<1>1. /\ c \in Seq(X) /\ Len(c) = n + Len(b) /\ n \in Nat /\ Len(b) \in Nat
      /\ \A i \in 1..n + Len(b) : c[i] = IF i <= n THEN a[i] ELSE b[i - n]
  BY ConcatProperties, LenProperties
<1> HIDE DEF c
<1>2. \A i \in 1..Len(c) : c[i] \in X
  BY <1>1, ElementOfSeq
<1>3. SubSeq(c, 1, n) = a
  <2>1. \A i \in 1..n : c[i] \in X
    BY <1>1, <1>2
  <2>2. /\ SubSeq(c, 1, n) \in Seq(X) /\ Len(SubSeq(c, 1, n)) = n
        /\ \A i \in 1..n : SubSeq(c, 1, n)[i] = c[i]
    BY <1>1, <2>1, SubSeqProperties
  <2>3. \A i \in 1..n : SubSeq(c, 1, n)[i] = a[i]
    BY <1>1, <2>2
  <2> QED BY <2>2, <2>3, SeqEqual
<1>4. SubSeq(c, n + 1, Len(c)) = b
  <2>1. \A i \in n + 1..Len(c) : c[i] \in X
    BY <1>1, <1>2
  <2>2. /\ SubSeq(c, n + 1, Len(c)) \in Seq(X) /\ Len(SubSeq(c, n + 1, Len(c))) = Len(b)
        /\ \A i \in 1..Len(b) : SubSeq(c, n + 1, Len(c))[i] = c[n + i]
    BY <1>1, <2>1, SubSeqProperties
  <2>3. \A i \in 1..Len(b) : c[n + i] = b[i]
    <3> TAKE i \in 1..Len(b)
    <3>1. n + i \in 1..n + Len(b) /\ ~(n + i <= n) /\ (n + i) - n = i
      BY <1>1
    <3> QED BY <1>1, <3>1
  <2> QED BY <2>2, <2>3, SeqEqual
<1> QED BY <1>3, <1>4 DEF c

\* Quotes around a value are left out.
LEMMA QuotesOff ==
  ASSUME NEW s \in Seq(Char), s # <<>>, s[1] # "'", s[Len(s)] # "'"
  PROVE  Value((<<"'">> \o s) \o <<"'">>) = QueryUnescape(s)
<1> DEFINE q == <<"'">>
           a == q \o s
           r == a \o q
           n == Len(s)
<1>1. q \in Seq(Char) /\ Len(q) = 1 /\ q[1] = "'"
  BY WordsAre
<1>2. n \in Nat /\ n # 0
  BY EmptySeq
<1> HIDE DEF q
<1>3. /\ a \in Seq(Char) /\ Len(a) = 1 + n /\ a[1] = "'" /\ \A i \in 1..n : a[1 + i] = s[i]
  <2>1. /\ a \in Seq(Char) /\ Len(a) = Len(q) + n
        /\ \A i \in 1..Len(q) + n : a[i] = IF i <= Len(q) THEN q[i] ELSE s[i - Len(q)]
    BY <1>1, ConcatProperties
  <2> HIDE DEF a
  <2>2. Len(q) = 1
    BY <1>1
  <2>3. Len(a) = 1 + n
    BY <2>1, <2>2
  <2>4. a[1] = "'"
    BY <1>1, <1>2, <2>1, <2>2
  <2>5. \A i \in 1..n : 1 + i \in 1..1 + n /\ ~(1 + i <= 1) /\ (1 + i) - 1 = i
    BY <1>2
  <2>6. \A i \in 1..n : a[1 + i] = s[i]
    BY <2>1, <2>2, <2>5
  <2> QED BY <2>1, <2>3, <2>4, <2>6
<1> HIDE DEF a
<1>4. /\ r \in Seq(Char) /\ Len(r) = n + 2 /\ r[n + 2] = "'" /\ \A i \in 1..n + 1 : r[i] = a[i]
  <2>1. /\ r \in Seq(Char) /\ Len(r) = Len(a) + Len(q)
        /\ \A i \in 1..Len(a) + Len(q) : r[i] = IF i <= Len(a) THEN a[i] ELSE q[i - Len(a)]
    BY <1>1, <1>3, ConcatProperties
  <2> HIDE DEF r
  <2>2. Len(q) = 1 /\ Len(a) = 1 + n
    BY <1>1, <1>3
  <2>3. Len(r) = n + 2
    BY <1>2, <2>1, <2>2
  <2>4. r[n + 2] = q[1]
    <3>1. n + 2 \in 1..(1 + n) + 1 /\ ~(n + 2 <= 1 + n) /\ (n + 2) - (1 + n) = 1
      BY <1>2
    <3> QED BY <2>1, <2>2, <3>1
  <2>5. \A i \in 1..n + 1 : r[i] = a[i]
    <3>1. \A i \in 1..n + 1 : i \in 1..(1 + n) + 1 /\ i <= 1 + n
      BY <1>2
    <3> QED BY <2>1, <2>2, <3>1
  <2> QED BY <1>1, <2>1, <2>3, <2>4, <2>5
<1> HIDE DEF r
<1>5. r[1] = "'" /\ \A i \in 1..n : r[1 + i] = s[i]
  <2>1. 1 \in 1..n + 1 /\ \A i \in 1..n : 1 + i \in 1..n + 1
    BY <1>2
  <2> QED BY <1>3, <1>4, <2>1
<1>6. TrimSpace(r) = r
  <2>1. "'" \notin Space
    BY Marks DEF Space
  <2> QED BY <1>4, <1>5, <2>1, TrimSame DEF TrimSpace
<1>7. Trim(r, {"'"}) = s
  <2>1. r[2] = s[1] /\ r[n + 1] = s[n]
    <3>1. 1 + 1 = 2 /\ 1 + n = n + 1 /\ 1 \in 1..n /\ n \in 1..n
      BY <1>2
    <3> QED BY <1>5, <3>1
  <2>2. Kept(r, {"'"}, 2, n + 1)
    <3>1. \A k \in 1..2 - 1 : r[k] = "'"
      BY <1>5
    <3>2. \A k \in (n + 1) + 1..n + 2 : r[k] = "'"
      BY <1>2, <1>4
    <3> QED BY <1>4, <2>1, <3>1, <3>2 DEF Kept
  <2>3. 2 \in 1..Len(r) /\ n + 1 \in 1..Len(r)
    BY <1>2, <1>4
  <2>4. /\ Trim(r, {"'"}) = SubSeq(r, 2, n + 1)
        /\ SubSeq(r, 2, n + 1) \in Seq(Char) /\ Len(SubSeq(r, 2, n + 1)) = ((n + 1) - 2) + 1
        /\ \A k \in 1..((n + 1) - 2) + 1 : SubSeq(r, 2, n + 1)[k] = r[(2 + k) - 1]
    BY <1>4, <2>2, <2>3, TrimIs
  <2>5. ((n + 1) - 2) + 1 = n /\ \A k \in 1..n : (2 + k) - 1 = 1 + k
    BY <1>2
  <2> DEFINE t == SubSeq(r, 2, n + 1)
  <2>6. t \in Seq(Char) /\ Len(t) = n
    BY <2>4, <2>5
  <2>7. \A k \in 1..n : t[k] = s[k]
    BY <1>5, <2>4, <2>5
  <2> HIDE DEF t
  <2>8. t = s
    BY <2>6, <2>7, SeqEqual
  <2> QED BY <2>4, <2>8 DEF t
<1>8. Value(r) = QueryUnescape(Trim(TrimSpace(r), {"'"}))
  BY DEF Value
<1> QED BY <1>6, <1>7, <1>8 DEF r, a, q

\* A header of one field has its value.
LEMMA OneField ==
  ASSUME NEW k, NEW e, NEW f \in Seq(Char), IsField(f, k, e), Free(f, Comma)
  PROVE  Authorization(f, k) = Value(e)
<1> DEFINE l == <<f>>
<1>1. Split(f, Comma) = l
  BY SplitOne
<1>2. Len(l) = 1
  OBVIOUS
<1>3. l[1] = f
  OBVIOUS
<1> HIDE DEF l
<1>4. Passes(l[1], k) /\ KeyAndRaw(l[1])[2] = e
  BY <1>3 DEF IsField
<1>5. 1 \in 1..Len(l) /\ Len(l) \in Nat /\ \A j \in 1..Len(l) : ~(j > 1)
  BY <1>2
<1>6. IsLast(f, 1, k)
  BY <1>1, <1>4, <1>5 DEF IsLast
<1>7. Authorization(f, k) = Value(KeyAndRaw(l[1])[2])
  BY <1>1, <1>5, <1>6, AuthorizationIs
<1> QED BY <1>4, <1>7

Chained(a, b, c, d) == (a \o (b \o c)) \o d = a \o (b \o (c \o d))

LEMMA Chain ==
  ASSUME NEW X, NEW a \in Seq(X), NEW b \in Seq(X), NEW c \in Seq(X), NEW d \in Seq(X)
  PROVE  Chained(a, b, c, d)
<1>1. a \o (b \o c) = (a \o b) \o c
  BY ConcatAssociative, SMTT(20)
<1>2. a \o b \in Seq(X) /\ c \o d \in Seq(X)
  BY ConcatProperties
<1> DEFINE g == a \o b
           h == c \o d
<1> HIDE DEF g, h
<1>3. (g \o c) \o d = g \o (c \o d)
  BY <1>2, ConcatAssociative, SMTT(20) DEF g
<1>4. (a \o b) \o h = a \o (b \o h)
  BY <1>2, ConcatAssociative, SMTT(20) DEF h
<1> QED BY <1>1, <1>3, <1>4 DEF g, h, Chained

\* The token of a ticket, without the profile behind it.
LEMMA TokenCut ==
  ASSUME NEW w \in Seq(Char), NEW z, z = <<"t", "=", "token", "&", "p", "=">> \o w
  PROVE  /\ Len(z) >= 2 /\ SubSeq(z, 1, 2) = <<"t", "=">>
         /\ Cut(SubSeq(z, 3, Len(z)), "&")[1] = <<"token">>
<1> DEFINE te == <<"t", "=">>
           token == <<"token">>
           amp == <<"&">>
           pe == <<"p", "=">>
           rest == pe \o w
           y == (token \o amp) \o rest
           four == <<"token", "&", "p", "=">>
           six == <<"t", "=", "token", "&", "p", "=">>
<1>1. "t" \in Char /\ "=" \in Char /\ "token" \in Char /\ "&" \in Char /\ "p" \in Char
  BY WordsAre
<1>2. /\ te \in Seq(Char) /\ token \in Seq(Char) /\ amp \in Seq(Char) /\ pe \in Seq(Char)
      /\ Len(te) = 2
  BY <1>1, Short
<1>3. token \o amp = <<"token", "&">> /\ <<"token", "&">> \o pe = four /\ four \in Seq(Char)
  BY <1>1, TwoIs, FourIs
<1>4. te \o four = six
  BY <1>1, SixIs
<1>5. Free(token, "&")
  BY DEF Free
<1>6. rest \in Seq(Char)
  BY <1>2, ConcatProperties
<1>7. token \o amp \in Seq(Char)
  BY <1>2, ConcatProperties
<1> HIDE DEF te, token, amp, pe, four, six
<1>8. y \in Seq(Char)
  BY <1>6, <1>7, ConcatProperties
<1>9. z = te \o y
  <2> DEFINE ta == token \o amp
  <2>1. Chained(te, ta, pe, w)
    <3>1. ta \in Seq(Char)
      BY <1>7
    <3> HIDE DEF ta
    <3> QED BY <1>2, <3>1, Chain
  <2>2. ta \o pe = four
    BY <1>3
  <2> QED BY <1>4, <2>1, <2>2 DEF six, Chained
<1>10. Cut(y, "&") = <<token, rest>>
  BY <1>1, <1>2, <1>5, <1>6, CutFirst DEF amp
<1>101. Cut(y, "&")[1] = token
  BY <1>10
<1> HIDE DEF y
<1>11. SubSeq(z, 1, 2) = te /\ SubSeq(z, 3, Len(z)) = y
  <2>1. SubSeq(te \o y, 1, Len(te)) = te /\ SubSeq(te \o y, Len(te) + 1, Len(te \o y)) = y
    BY <1>2, <1>8, Halves
  <2>2. Len(te) = 2 /\ 2 + 1 = 3
    BY <1>2
  <2> QED BY <1>9, <2>1, <2>2
<1>12. Len(z) >= 2
  <2>1. Len(te \o y) = Len(te) + Len(y) /\ Len(y) \in Nat
    BY <1>2, <1>8, ConcatProperties, LenProperties
  <2> QED BY <1>2, <1>9, <2>1
<1>13. Cut(SubSeq(z, 3, Len(z)), "&")[1] = token
  BY <1>101, <1>11
<1> QED BY <1>11, <1>12, <1>13 DEF te, token

Quotes(k, q, s, e) == (((k \o q) \o s) \o e) \o q = k \o ((q \o (s \o e)) \o q)

LEMMA Quoted ==
  ASSUME NEW X, NEW k \in Seq(X), NEW q \in Seq(X), NEW s \in Seq(X), NEW e \in Seq(X)
  PROVE  Quotes(k, q, s, e)
<1>1. \A a, b, c \in Seq(X) : Cat(Cat(a, b), c) = Cat(a, Cat(b, c))
  BY Groups
<1>2. \A a, b \in Seq(X) : Cat(a, b) \in Seq(X)
  BY Groups
<1>3. Cat(Cat(Cat(Cat(k, q), s), e), q) = Cat(k, Cat(Cat(q, Cat(s, e)), q))
  <2>1. Cat(k, q) \in Seq(X) /\ Cat(s, e) \in Seq(X) /\ Cat(q, Cat(s, e)) \in Seq(X)
    BY <1>2
  <2>2. Cat(Cat(Cat(k, q), s), e) = Cat(Cat(k, q), Cat(s, e))
    BY <1>1, <2>1
  <2>3. Cat(Cat(k, q), Cat(s, e)) = Cat(k, Cat(q, Cat(s, e)))
    BY <1>1, <2>1
  <2>4. Cat(Cat(k, Cat(q, Cat(s, e))), q) = Cat(k, Cat(Cat(q, Cat(s, e)), q))
    BY <1>1, <2>1
  <2> QED BY <2>2, <2>3, <2>4
<1> QED BY <1>3 DEF Quotes, Cat

\* The token comes back, whatever the name in the profile.
LEMMA TicketRead ==
  ASSUME NEW m \in Seq(Char)
  PROVE  TokenFromHeader(FromPP(m)) = <<"token">>
<1> DEFINE w == <<"MemberName", "=">> \o m
           e == QueryEscape(w)
           key == "from-PP"
           ke == <<key, "=">>
           q == <<"'">>
           six == <<"t", "=", "token", "&", "p", "=">>
           three == <<key, "=", "'">>
           nine == <<key, "=", "'", "t", "=", "token", "&", "p", "=">>
           mid == six \o e
           r == (q \o mid) \o q
           h == ke \o r
<1>1. /\ "t" \in Char /\ "=" \in Char /\ "token" \in Char /\ "&" \in Char /\ "p" \in Char
      /\ "'" \in Char /\ key \in Char /\ "MemberName" \in Char
  BY WordsAre
<1>2. key # "=" /\ key \notin Space /\ key # Comma
  BY Marks DEF Space
<1>3. w \in Seq(Char)
  <2>1. <<"MemberName", "=">> \in Seq(Char)
    BY <1>1, Short
  <2> QED BY <2>1, ConcatProperties
<1>4. FromPP(m) = (nine \o e) \o q
  BY DEF FromPP
<1> HIDE DEF w, key
<1>5. e \in Seq(Char) /\ Bare(e)
  BY <1>3, EscapeBare
<1>6. q \in Seq(Char) /\ ke \in Seq(Char) /\ three = ke \o q
  BY <1>1, Short, ThreeIs
<1>7. six \in Seq(Char) /\ nine = three \o six
  <2>1. six \in Seq(Char)
    BY <1>1, SixIs
  <2>2. Joins(three, six, nine)
    BY <1>1, NineIs
  <2> QED BY <2>1, <2>2 DEF Joins
<1>8. /\ Free(six, "%") /\ Free(six, "+") /\ Free(six, "'") /\ Free(six, Comma)
      /\ Len(six) = 6 /\ six[1] = "t"
  <2>1. Free(six, "%") /\ Free(six, "+") /\ Free(six, "'")
    BY DEF Free
  <2>2. Free(six, Comma)
    BY Marks DEF Free
  <2> QED BY <2>1, <2>2
<1>9. Free(ke, Comma) /\ Free(q, Comma)
  <2>1. "=" # Comma /\ "'" # Comma
    BY Marks
  <2>2. Free(ke, Comma)
    BY <1>2, <2>1, FreePair
  <2>3. Free(q, Comma)
    BY <2>1 DEF Free
  <2> QED BY <2>2, <2>3
<1> HIDE DEF e, ke, six, three, nine
<1>10. FromPP(m) = h
  <2>1. Quotes(ke, q, six, e)
    BY <1>5, <1>6, <1>7, Quoted
  <2> QED BY <1>4, <1>6, <1>7, <2>1 DEF Quotes
<1>11. mid \in Seq(Char) /\ QueryUnescape(mid) = six \o w
  <2>1. Whole(six) /\ QueryUnescape(six) = six
    BY <1>7, <1>8, ReadPlain
  <2> QED BY <1>3, <1>7, <2>1, EscapeReads DEF e
<1>12. Free(mid, "'") /\ Free(mid, Comma)
  <2>1. Free(e, "'") /\ Free(e, Comma)
    BY <1>5, CodesAre DEF Bare, Plain, Free
  <2> QED BY <1>5, <1>7, <1>8, <2>1, FreeConcat
<1>13. Len(mid) \in Nat /\ Len(mid) # 0
  BY <1>5, <1>7, <1>8, ConcatProperties, LenProperties
<1> HIDE DEF mid
<1>14. mid # <<>> /\ mid[1] # "'" /\ mid[Len(mid)] # "'"
  BY <1>11, <1>12, <1>13, EmptySeq DEF Free
<1>15. Value(r) = six \o w
  BY <1>11, <1>14, QuotesOff
<1>16. r \in Seq(Char) /\ Free(r, Comma)
  <2>1. q \o mid \in Seq(Char) /\ Free(q \o mid, Comma)
    BY <1>6, <1>9, <1>11, <1>12, FreeConcat, ConcatProperties
  <2> HIDE DEF q
  <2> QED BY <1>6, <1>9, <2>1, FreeConcat, ConcatProperties
<1> HIDE DEF q, r
<1>17. IsField(h, key, r)
  BY <1>1, <1>2, <1>16, FieldRead DEF ke
<1>18. h \in Seq(Char) /\ Free(h, Comma)
  BY <1>6, <1>9, <1>16, FreeConcat, ConcatProperties
<1> HIDE DEF h
<1>19. Authorization(h, key) = six \o w
  BY <1>15, <1>17, <1>18, OneField
<1> DEFINE z == Authorization(h, key)
<1>20. /\ Len(z) >= 2 /\ SubSeq(z, 1, 2) = <<"t", "=">>
       /\ Cut(SubSeq(z, 3, Len(z)), "&")[1] = <<"token">>
  <2>1. z = six \o w
    BY <1>19
  <2> HIDE DEF z
  <2> QED BY <1>3, <2>1, TokenCut DEF six
<1> QED BY <1>10, <1>20 DEF TokenFromHeader, key

\* Whatever is typed as a sign-in or as a password is what the account store is
\* asked about, and a ticket comes back with the token it was issued with,
\* whatever the name in its profile (parsePassportAuthorization,
\* profileBlobForToken, tokenFromRequest).
THEOREM HeaderAlwaysArrives == Spec => []HeaderArrives
<1>1. Typed => HeaderArrives
  <2> SUFFICES ASSUME Typed PROVE HeaderArrives
    OBVIOUS
  <2>1. text \in Seq(Char)
    BY Signs, SeqMonotonic DEF Typed
  <2>2. <<"a">> \in Seq(Char)
    BY WordsAre, Short
  <2>3. Authorization(Credentials(<<"a">>, text), "pwd") = text
    BY <2>1, <2>2, CredentialsRead
  <2>4. Authorization(Credentials(text, <<"a">>), "sign-in") = text
    BY <2>1, <2>2, CredentialsRead
  <2>5. TokenFromHeader(FromPP(text)) = <<"token">>
    BY <2>1, TicketRead
  <2> QED BY <2>3, <2>4, <2>5 DEF HeaderArrives
<1> QED BY <1>1, TextType, PTL

-----------------------------------------------------------------------------
(* The lines of a form, and the list they are stored as. *)

Each(s, G) == [i \in 1..Len(s) |-> G[<<i, s[i]>>]]

Grows(X, Y, G, s, x) ==
  /\ Each(s, G) \in Seq(Y)
  /\ Each(Append(s, x), G) = Append(Each(s, G), G[<<Len(s) + 1, x>>])

\* What is done to each part is done to one more at the end.
LEMMA EachAppend ==
  ASSUME NEW X, NEW Y, NEW G \in [Nat \X X -> Y], NEW s \in Seq(X), NEW x \in X
  PROVE  Grows(X, Y, G, s, x)
<1> DEFINE t == Append(s, x)
           n == Len(s)
           y == G[<<n + 1, x>>]
<1>1. /\ n \in Nat /\ t \in Seq(X) /\ Len(t) = n + 1 /\ t[n + 1] = x
      /\ \A i \in 1..n : t[i] = s[i]
  BY AppendProperties, LenProperties
<1>2. y \in Y
  BY <1>1
<1> HIDE DEF t, y
<1>3. \A r \in Seq(X) : Each(r, G) \in Seq(Y) /\ Len(Each(r, G)) = Len(r)
  <2> TAKE r \in Seq(X)
  <2>1. Len(r) \in Nat /\ \A i \in 1..Len(r) : i \in Nat /\ r[i] \in X
    BY LenProperties, ElementOfSeq
  <2>2. Each(r, G) \in [1..Len(r) -> Y]
    BY <2>1 DEF Each
  <2> QED BY <2>1, <2>2, SeqDef
<1>4. /\ Append(Each(s, G), y) \in Seq(Y) /\ Len(Append(Each(s, G), y)) = n + 1
      /\ \A i \in 1..n : Append(Each(s, G), y)[i] = Each(s, G)[i]
      /\ Append(Each(s, G), y)[n + 1] = y
  BY <1>2, <1>3, AppendProperties
<1>5. /\ \A i \in 1..n + 1 : Each(t, G)[i] = G[<<i, t[i]>>]
      /\ \A i \in 1..n : Each(s, G)[i] = G[<<i, s[i]>>]
      /\ \A i \in 1..n + 1 : i = n + 1 \/ i \in 1..n
  BY <1>1 DEF Each
<1>6. \A i \in 1..n + 1 : Each(t, G)[i] = Append(Each(s, G), y)[i]
  <2> HIDE DEF n
  <2> QED BY <1>1, <1>4, <1>5 DEF y
<1>7. Each(t, G) = Append(Each(s, G), y)
  <2> HIDE DEF n
  <2> QED BY <1>1, <1>3, <1>4, <1>6, SeqEqual
<1> QED BY <1>3, <1>7 DEF t, y, Grows

Has(q, u) == \E k \in 1..Len(q) : q[k] = u

\* A list with one more part holds that part too.
LEMMA HasAppend ==
  ASSUME NEW X, NEW q \in Seq(X), NEW l \in X, NEW u
  PROVE  Has(Append(q, l), u) <=> Has(q, u) \/ u = l
<1>1. /\ Len(q) \in Nat /\ Len(Append(q, l)) = Len(q) + 1 /\ Append(q, l)[Len(q) + 1] = l
      /\ \A i \in 1..Len(q) : Append(q, l)[i] = q[i]
  BY AppendProperties, LenProperties
<1> QED BY <1>1 DEF Has

Clean(l) == IF TrimSpace(l) = <<>> THEN <<>> ELSE <<TrimSpace(l)>>

\* Cleaning goes part by part.
LEMMA CleanedAppend ==
  ASSUME NEW X, NEW ls \in Seq(Seq(X)), NEW l \in Seq(X)
  PROVE  /\ Cleaned(ls) \in Seq(Seq(X))
         /\ Cleaned(Append(ls, l)) = Cleaned(ls) \o Clean(l)
<1> DEFINE G == [p \in Nat \X Seq(X) |-> Clean(p[2])]
           Y == Seq(Seq(X))
<1>1. \A r \in Seq(X) : Clean(r) \in Y
  <2> TAKE r \in Seq(X)
  <2>1. TrimSpace(r) \in Seq(X)
    BY TrimType DEF TrimSpace
  <2> QED BY <2>1, Short, EmptySeq DEF Clean
<1>2. G \in [Nat \X Seq(X) -> Y]
  BY <1>1
<1>3. \A r \in Seq(Seq(X)) : Cleaned(r) = FlattenSeq(Each(r, G))
  <2> TAKE r \in Seq(Seq(X))
  <2>1. Len(r) \in Nat /\ \A i \in 1..Len(r) : i \in Nat /\ r[i] \in Seq(X)
    BY LenProperties, ElementOfSeq
  <2>2. Each(r, G) = [i \in 1..Len(r) |-> Clean(r[i])]
    BY <2>1 DEF Each
  <2> QED BY <2>2 DEF Cleaned, Clean
<1>4. Len(ls) + 1 \in Nat /\ Append(ls, l) \in Seq(Seq(X))
  BY LenProperties, AppendProperties
<1>5. G[<<Len(ls) + 1, l>>] = Clean(l) /\ Clean(l) \in Y
  BY <1>1, <1>4
<1> HIDE DEF G
<1>6. Each(ls, G) \in Seq(Y) /\ Each(Append(ls, l), G) = Append(Each(ls, G), Clean(l))
  <2> DEFINE L == Seq(X)
  <2>1. G \in [Nat \X L -> Y] /\ ls \in Seq(L) /\ l \in L
    BY <1>2
  <2> HIDE DEF L, Y
  <2>2. Grows(L, Y, G, ls, l)
    BY <2>1, EachAppend
  <2> QED BY <1>5, <2>2 DEF Grows
<1> DEFINE e == Each(ls, G)
           c == Clean(l)
<1>7. e \in Seq(Seq(Seq(X))) /\ c \in Seq(Seq(X)) /\ Each(Append(ls, l), G) = Append(e, c)
  BY <1>5, <1>6
<1>8. Cleaned(ls) = FlattenSeq(e) /\ Cleaned(Append(ls, l)) = FlattenSeq(Append(e, c))
  BY <1>3, <1>4, <1>7
<1> HIDE DEF e, c
<1>9. FlattenSeq(e) \in Seq(Seq(X)) /\ FlattenSeq(Append(e, c)) = FlattenSeq(e) \o c
  <2> DEFINE L == Seq(X)
  <2>1. e \in Seq(Seq(L)) /\ c \in Seq(L)
    BY <1>7
  <2> HIDE DEF L
  <2>2. FlattenSeq(e) \in Seq(L) /\ FlattenSeq(Append(e, c)) = FlattenSeq(e) \o c
    BY <2>1, FlattenAppend
  <2> QED BY <2>2 DEF L
<1> QED BY <1>8, <1>9 DEF c

LEMMA CleanedNone == Cleaned(<<>>) = <<>>
BY FlattenNone DEF Cleaned

\* A part of blanks goes, another one stays without the blanks at its ends.
LEMMA CleanedGoesOn ==
  ASSUME NEW X, NEW ls \in Seq(Seq(X)), NEW l \in Seq(X)
  PROVE  /\ TrimSpace(l) = <<>> => Cleaned(Append(ls, l)) = Cleaned(ls)
         /\ TrimSpace(l) # <<>> => Cleaned(Append(ls, l)) = Append(Cleaned(ls), TrimSpace(l))
<1>1. /\ Cleaned(ls) \in Seq(Seq(X))
      /\ Cleaned(Append(ls, l)) = Cleaned(ls) \o Clean(l)
  BY CleanedAppend
<1>2. TrimSpace(l) \in Seq(X)
  BY TrimType DEF TrimSpace
<1> DEFINE c == Cleaned(ls)
           u == TrimSpace(l)
<1>3. /\ Clean(l) = IF u = <<>> THEN <<>> ELSE <<u>>
      /\ c \o <<>> = c
      /\ Append(c, u) = c \o <<u>>
  <2>1. Clean(l) = IF u = <<>> THEN <<>> ELSE <<u>>
    BY DEF Clean
  <2> HIDE DEF c, u
  <2> QED BY <1>1, <1>2, <2>1, ConcatEmptySeq, AppendIsConcat DEF c, u
<1> QED BY <1>1, <1>3

\* A cleaned list holds what is left of the parts that are not blank.
LEMMA CleanedHas ==
  ASSUME NEW X
  PROVE  \A ls \in Seq(Seq(X)) : \A u :
           Has(Cleaned(ls), u) <=> u # <<>> /\ \E l : Has(ls, l) /\ TrimSpace(l) = u
<1> DEFINE P == {ls \in Seq(Seq(X)) : \A u :
                   Has(Cleaned(ls), u) <=> u # <<>> /\ \E l : Has(ls, l) /\ TrimSpace(l) = u}
<1>1. <<>> \in P
  BY CleanedNone, EmptySeq DEF Has
<1>2. ASSUME NEW ls \in P, NEW l \in Seq(X) PROVE Append(ls, l) \in P
  <2>1. /\ ls \in Seq(Seq(X)) /\ Cleaned(ls) \in Seq(Seq(X)) /\ Append(ls, l) \in Seq(Seq(X))
        /\ TrimSpace(l) \in Seq(X)
    BY CleanedAppend, AppendProperties, TrimType DEF TrimSpace
  <2>2. \A u : Has(Cleaned(ls), u) <=> u # <<>> /\ \E k : Has(ls, k) /\ TrimSpace(k) = u
    OBVIOUS
  <2> SUFFICES ASSUME NEW u
               PROVE  Has(Cleaned(Append(ls, l)), u)
                        <=> u # <<>> /\ \E k : Has(Append(ls, l), k) /\ TrimSpace(k) = u
    BY <2>1
  <2> HIDE DEF P
  <2>3. \A k : Has(Append(ls, l), k) <=> Has(ls, k) \/ k = l
    BY <2>1, HasAppend
  <2>4. CASE TrimSpace(l) = <<>>
    <3>1. Cleaned(Append(ls, l)) = Cleaned(ls)
      BY <2>1, <2>4, CleanedGoesOn
    <3> QED BY <2>2, <2>3, <2>4, <3>1
  <2>5. CASE TrimSpace(l) # <<>>
    <3>1. Cleaned(Append(ls, l)) = Append(Cleaned(ls), TrimSpace(l))
      BY <2>1, <2>5, CleanedGoesOn
    <3>2. Has(Append(Cleaned(ls), TrimSpace(l)), u) <=> Has(Cleaned(ls), u) \/ u = TrimSpace(l)
      BY <2>1, HasAppend
    <3> QED BY <2>2, <2>3, <2>5, <3>1, <3>2
  <2> QED BY <2>4, <2>5
<1>3. \A ls \in Seq(Seq(X)) : ls \in P
  <2>1. P \in SUBSET Seq(Seq(X))
    OBVIOUS
  <2> HIDE DEF P
  <2> QED BY <1>1, <1>2, <2>1, TextInduction
<1> QED BY <1>3

\* What a stored line is: no break in it, and nothing to trim.
Good(X) == {u \in Seq(X) : u # <<>> /\ Free(u, "\n") /\ TrimSpace(u) = u}

Lines(X) == {l \in Seq(X) : Free(l, "\n")}

\* What is left of a line can be stored.
LEMMA TrimmedIsGood ==
  ASSUME NEW X, NEW l \in Lines(X), TrimSpace(l) # <<>>
  PROVE  TrimSpace(l) \in Good(X)
<1>1. l \in Seq(X) /\ Free(l, "\n") /\ Len(l) \in Nat
  BY LenProperties DEF Lines
<1>2. ~\A k \in 1..Len(l) : l[k] \in Space
  BY TrimNone DEF TrimSpace
<1>3. PICK i \in 1..Len(l), j \in 1..Len(l) : Kept(l, Space, i, j)
  BY <1>1, <1>2, TrimCases
<1> DEFINE u == TrimSpace(l)
           n == (j - i) + 1
<1>4. /\ i <= j /\ u \in Seq(X) /\ Len(u) = n /\ \A k \in 1..n : u[k] = l[(i + k) - 1]
  <2> DEFINE v == SubSeq(l, i, j)
  <2>1. /\ i <= j /\ Trim(l, Space) = SubSeq(l, i, j) /\ SubSeq(l, i, j) \in Seq(X)
        /\ Len(SubSeq(l, i, j)) = (j - i) + 1
        /\ \A k \in 1..(j - i) + 1 : SubSeq(l, i, j)[k] = l[(i + k) - 1]
    BY <1>1, <1>3, TrimIs, ZenonT(30)
  <2>2. u = v
    BY <2>1 DEF TrimSpace
  <2>3. i <= j /\ v \in Seq(X) /\ Len(v) = n /\ \A k \in 1..n : v[k] = l[(i + k) - 1]
    BY <2>1
  <2> HIDE DEF v, u, n
  <2> QED BY <2>2, <2>3
<1> HIDE DEF u
<1>5. /\ n \in Nat /\ 1 \in 1..n /\ n \in 1..n /\ (i + 1) - 1 = i /\ (i + n) - 1 = j
      /\ \A k \in 1..n : (i + k) - 1 \in 1..Len(l)
  BY <1>1, <1>4
<1>6. u[1] \notin Space /\ u[Len(u)] \notin Space
  BY <1>3, <1>4, <1>5 DEF Kept
<1>7. Free(u, "\n")
  BY <1>1, <1>4, <1>5 DEF Free
<1>8. TrimSpace(u) = u
  BY <1>4, <1>6, TrimSame DEF TrimSpace
<1> QED BY <1>4, <1>7, <1>8 DEF u, Good

\* Lines that are cleaned can be stored.
LEMMA CleanedIsGood ==
  ASSUME NEW X
  PROVE  \A ls \in Seq(Lines(X)) : Cleaned(ls) \in Seq(Good(X))
<1> DEFINE L == Lines(X)
           P == {ls \in Seq(L) : Cleaned(ls) \in Seq(Good(X))}
<1>0. L \subseteq Seq(X)
  BY DEF Lines
<1>1. <<>> \in P
  BY CleanedNone, EmptySeq
<1>2. ASSUME NEW ls \in P, NEW l \in L PROVE Append(ls, l) \in P
  <2>1. ls \in Seq(L) /\ Cleaned(ls) \in Seq(Good(X))
    OBVIOUS
  <2>2. ls \in Seq(Seq(X)) /\ l \in Seq(X)
    <3> HIDE DEF L
    <3> QED BY <1>0, <2>1, SeqMonotonic
  <2>3. Append(ls, l) \in Seq(L)
    <3> HIDE DEF L
    <3> QED BY <2>1, AppendProperties
  <2>4. CASE TrimSpace(l) = <<>>
    BY <2>1, <2>2, <2>3, <2>4, CleanedGoesOn
  <2>5. CASE TrimSpace(l) # <<>>
    <3>1. Cleaned(Append(ls, l)) = Append(Cleaned(ls), TrimSpace(l))
      BY <2>2, <2>5, CleanedGoesOn
    <3>2. TrimSpace(l) \in Good(X)
      BY <2>5, TrimmedIsGood
    <3>3. Append(Cleaned(ls), TrimSpace(l)) \in Seq(Good(X))
      BY <2>1, <3>2, AppendProperties
    <3> QED BY <2>3, <3>1, <3>3
  <2> QED BY <2>4, <2>5
<1>3. P \in SUBSET Seq(L)
  OBVIOUS
<1>4. \A ls \in Seq(L) : ls \in P
  <2> HIDE DEF P, L
  <2> QED BY <1>1, <1>2, <1>3, TextInduction
<1> QED BY <1>4

\* Lines that can be stored stay as they are when they are cleaned.
LEMMA CleanedSame ==
  ASSUME NEW X
  PROVE  \A us \in Seq(Good(X)) : Cleaned(us) = us
<1> DEFINE L == Good(X)
           P == {us \in Seq(L) : Cleaned(us) = us}
<1>0. L \subseteq Seq(X) /\ \A u \in L : u # <<>> /\ TrimSpace(u) = u
  BY DEF Good
<1> HIDE DEF L
<1>1. <<>> \in P
  BY CleanedNone, EmptySeq
<1>2. ASSUME NEW us \in P, NEW u \in L PROVE Append(us, u) \in P
  <2>1. us \in Seq(L) /\ Cleaned(us) = us /\ us \in Seq(Seq(X)) /\ u \in Seq(X)
    BY <1>0, SeqMonotonic
  <2>2. Append(us, u) \in Seq(L)
    BY <2>1, AppendProperties
  <2> QED BY <1>0, <2>1, <2>2, CleanedGoesOn
<1>3. P \in SUBSET Seq(L)
  OBVIOUS
<1>4. \A us \in Seq(L) : us \in P
  <2> HIDE DEF P
  <2> QED BY <1>1, <1>2, <1>3, TextInduction
<1> QED BY <1>4 DEF L

\* Each line but the first comes after a separator.
JoinedGoesOn(X, us, u, c) ==
  /\ Joined(us, c) \in Seq(X)
  /\ Joined(Append(us, u), c) = IF us = <<>> THEN u ELSE Joined(us, c) \o (<<c>> \o u)

LEMMA JoinedAppend ==
  ASSUME NEW X, NEW c \in X, NEW us \in Seq(Seq(X)), NEW u \in Seq(X)
  PROVE  JoinedGoesOn(X, us, u, c)
<1> DEFINE L == Seq(X)
           H(i, r) == IF i = 1 THEN r ELSE <<c>> \o r
           G == [p \in Nat \X L |-> H(p[1], p[2])]
           y == G[<<Len(us) + 1, u>>]
<1>1. \A r \in L : r \in L /\ <<c>> \o r \in L
  BY Short, ConcatProperties
<1>2. G \in [Nat \X L -> L]
  BY <1>1
<1>3. \A r \in Seq(L) : Joined(r, c) = FlattenSeq(Each(r, G))
  <2> TAKE r \in Seq(L)
  <2>1. Len(r) \in Nat /\ \A i \in 1..Len(r) : i \in Nat /\ r[i] \in L
    BY LenProperties, ElementOfSeq
  <2>2. Each(r, G) = [i \in 1..Len(r) |-> H(i, r[i])]
    BY <2>1 DEF Each
  <2> QED BY <2>2 DEF Joined
<1>4. Len(us) \in Nat /\ Append(us, u) \in Seq(L) /\ us \in Seq(L) /\ u \in L /\ (us = <<>> <=> Len(us) = 0)
  BY LenProperties, AppendProperties, EmptySeq
<1>5. y = H(Len(us) + 1, u) /\ y \in L
  <2>1. Len(us) + 1 \in Nat
    BY <1>4
  <2> QED BY <1>1, <1>4, <2>1
<1>6. y = IF us = <<>> THEN u ELSE <<c>> \o u
  BY <1>4, <1>5
<1> HIDE DEF L, H, G
<1>7. Grows(L, L, G, us, u)
  BY <1>2, <1>4, EachAppend
<1> DEFINE e == Each(us, G)
<1>8. e \in Seq(L) /\ Each(Append(us, u), G) = Append(e, y)
  BY <1>7 DEF Grows
<1> HIDE DEF e, y
<1>9. FlattenSeq(e) \in Seq(X) /\ FlattenSeq(Append(e, y)) = FlattenSeq(e) \o y
  BY <1>5, <1>8, FlattenAppend DEF L
<1>10. Joined(us, c) = FlattenSeq(e) /\ Joined(Append(us, u), c) = FlattenSeq(Append(e, y))
  BY <1>3, <1>4, <1>8 DEF e
<1>11. CASE us = <<>>
  <2>1. e = <<>>
    BY <1>11 DEF e, Each
  <2>2. FlattenSeq(e) = <<>> /\ <<>> \o u = u
    BY <2>1, FlattenNone, ConcatEmptySeq
  <2> QED BY <1>6, <1>9, <1>10, <1>11, <2>2 DEF JoinedGoesOn
<1>12. CASE us # <<>>
  BY <1>6, <1>9, <1>10, <1>12 DEF JoinedGoesOn
<1> QED BY <1>11, <1>12

\* What was joined is taken apart at the same places.
LEMMA SplitJoined ==
  ASSUME NEW X, "\n" \in X
  PROVE  \A us \in Seq(Good(X)) : us # <<>> => Split(Joined(us, "\n"), "\n") = us
<1> DEFINE L == Good(X)
           c == "\n"
           P == {us \in Seq(L) : us # <<>> => Split(Joined(us, c), c) = us}
<1>0. L \subseteq Seq(X) /\ \A u \in L : Free(u, c)
  BY DEF Good
<1>00. c \in X
  OBVIOUS
<1> HIDE DEF L, c
<1>1. <<>> \in P
  BY EmptySeq
<1>2. ASSUME NEW us \in P, NEW u \in L PROVE Append(us, u) \in P
  <2>1. us \in Seq(L) /\ us \in Seq(Seq(X)) /\ u \in Seq(X) /\ Free(u, c)
    BY <1>0, SeqMonotonic
  <2>2. Append(us, u) \in Seq(L)
    BY <2>1, AppendProperties
  <2>3. us # <<>> => Split(Joined(us, c), c) = us
    OBVIOUS
  <2>4. JoinedGoesOn(X, us, u, c)
    BY <1>00, <2>1, JoinedAppend
  <2> DEFINE j == Joined(us, c)
  <2>5. CASE us = <<>>
    <3>1. Joined(Append(us, u), c) = u
      BY <2>4, <2>5 DEF JoinedGoesOn
    <3>2. Split(u, c) = <<u>>
      BY <2>1, SplitOne
    <3>3. Append(us, u) = <<u>>
      BY <2>5
    <3> QED BY <2>2, <3>1, <3>2, <3>3
  <2>6. CASE us # <<>>
    <3>1. j \in Seq(X) /\ Joined(Append(us, u), c) = j \o (<<c>> \o u)
      BY <2>4, <2>6 DEF JoinedGoesOn
    <3> HIDE DEF j
    <3>2. <<c>> \in Seq(X)
      BY <1>00, Short
    <3>3. j \o (<<c>> \o u) = (j \o <<c>>) \o u
      <4>1. Regroups(Seq(X))
        BY Associative
      <4> QED BY <2>1, <3>1, <3>2, <4>1 DEF Regroups
    <3>4. Split((j \o <<c>>) \o u, c) = Append(Split(j, c), u)
      BY <1>00, <2>1, <3>1, SplitNext, ZenonT(30)
    <3>5. Split(j, c) = us
      BY <2>3, <2>6 DEF j
    <3> QED BY <2>2, <3>1, <3>3, <3>4, <3>5
  <2> QED BY <2>5, <2>6
<1>3. P \in SUBSET Seq(L)
  OBVIOUS
<1>4. \A us \in Seq(L) : us \in P
  <2> HIDE DEF P
  <2> QED BY <1>1, <1>2, <1>3, TextInduction
<1> QED BY <1>4 DEF L, c

\* Where the parts of a split text stand in it: between one separator, or the
\* beginning, and the next, or the end.
Begins(t, c, m) == m = 0 \/ t[m] = c

Stands(t, c, p, m, n) ==
  /\ \A k \in m + 1..n - 1 : t[k] # c
  /\ Len(p) = (n - m) - 1
  /\ \A k \in 1..(n - m) - 1 : p[k] = t[m + k]

IsPart(t, c, p) ==
  \E m \in 0..Len(t), n \in 1..Len(t) + 1 :
    /\ m < n /\ Begins(t, c, m) /\ (n = Len(t) + 1 \/ t[n] = c) /\ Stands(t, c, p, m, n)

\* One that a separator follows; and the last one.
IsEnded(t, c, p) ==
  \E m \in 0..Len(t), n \in 1..Len(t) :
    m < n /\ Begins(t, c, m) /\ t[n] = c /\ Stands(t, c, p, m, n)

IsOpen(t, c, p) == \E m \in 0..Len(t) : Begins(t, c, m) /\ Stands(t, c, p, m, Len(t) + 1)

\* There is one open part.
LEMMA OneOpen ==
  ASSUME NEW X, NEW t \in Seq(X), NEW c, NEW p \in Seq(X), IsOpen(t, c, p),
         NEW r \in Seq(X), IsOpen(t, c, r)
  PROVE  p = r
<1>1. Len(t) \in Nat
  BY LenProperties
<1>2. PICK m \in 0..Len(t) : Begins(t, c, m) /\ Stands(t, c, p, m, Len(t) + 1)
  BY DEF IsOpen
<1>3. PICK n \in 0..Len(t) : Begins(t, c, n) /\ Stands(t, c, r, n, Len(t) + 1)
  BY DEF IsOpen
<1>4. ~(m < n) /\ ~(n < m)
  BY <1>1, <1>2, <1>3 DEF Begins, Stands
<1>5. m = n
  BY <1>1, <1>4
<1>6. Len(p) = Len(r) /\ \A k \in 1..Len(p) : p[k] = r[k]
  BY <1>2, <1>3, <1>5 DEF Stands
<1> QED BY <1>6, SeqEqual

\* A part is ended or open.
LEMMA PartCases ==
  ASSUME NEW X, NEW t \in Seq(X), NEW c, NEW p
  PROVE  IsPart(t, c, p) <=> IsEnded(t, c, p) \/ IsOpen(t, c, p)
<1>1. Len(t) \in Nat
  BY LenProperties
<1>2. ASSUME IsPart(t, c, p) PROVE IsEnded(t, c, p) \/ IsOpen(t, c, p)
  BY <1>1, <1>2 DEF IsPart, IsEnded, IsOpen
<1>3. ASSUME IsEnded(t, c, p) PROVE IsPart(t, c, p)
  <2>1. \A n \in 1..Len(t) : n \in 1..Len(t) + 1
    BY <1>1
  <2> QED BY <1>3, <2>1 DEF IsPart, IsEnded
<1>4. ASSUME IsOpen(t, c, p) PROVE IsPart(t, c, p)
  <2>1. PICK m \in 0..Len(t) : Begins(t, c, m) /\ Stands(t, c, p, m, Len(t) + 1)
    BY <1>4 DEF IsOpen
  <2>2. m < Len(t) + 1 /\ Len(t) + 1 \in 1..Len(t) + 1
    BY <1>1
  <2> QED BY <2>1, <2>2 DEF IsPart
<1> QED BY <1>2, <1>3, <1>4

\* What stands before the end stands there in the longer text.
LEMMA StandsStill ==
  ASSUME NEW X, NEW t \in Seq(X), NEW x \in X, NEW c, NEW p, NEW m \in 0..Len(t),
         NEW n \in 1..Len(t) + 1, m < n
  PROVE  /\ Begins(Append(t, x), c, m) <=> Begins(t, c, m)
         /\ Stands(Append(t, x), c, p, m, n) <=> Stands(t, c, p, m, n)
<1> DEFINE s == Append(t, x)
<1>1. Len(t) \in Nat /\ \A i \in 1..Len(t) : s[i] = t[i]
  BY LenProperties, AppendProperties
<1> HIDE DEF s
<1>2. Begins(s, c, m) <=> Begins(t, c, m)
  BY <1>1 DEF Begins
<1>3. /\ \A k \in m + 1..n - 1 : s[k] = t[k]
      /\ \A k \in 1..(n - m) - 1 : s[m + k] = t[m + k]
  BY <1>1
<1>4. Stands(s, c, p, m, n) <=> Stands(t, c, p, m, n)
  BY <1>3 DEF Stands
<1> QED BY <1>2, <1>4 DEF s

\* A separator ends the open part, and nothing else ends one.
LEMMA EndedOn ==
  ASSUME NEW X, NEW t \in Seq(X), NEW x \in X, NEW c, NEW p
  PROVE  IsEnded(Append(t, x), c, p) <=> IsEnded(t, c, p) \/ (x = c /\ IsOpen(t, c, p))
<1> DEFINE s == Append(t, x)
<1>1. /\ Len(t) \in Nat /\ Len(s) = Len(t) + 1 /\ s[Len(t) + 1] = x
      /\ \A i \in 1..Len(t) : s[i] = t[i]
  BY LenProperties, AppendProperties
<1>2. \A m \in 0..Len(t), n \in 1..Len(t) + 1 : m < n =>
        /\ Begins(s, c, m) <=> Begins(t, c, m)
        /\ Stands(s, c, p, m, n) <=> Stands(t, c, p, m, n)
  BY StandsStill
<1> HIDE DEF s
<1>3. ASSUME IsEnded(s, c, p) PROVE IsEnded(t, c, p) \/ (x = c /\ IsOpen(t, c, p))
  <2>1. PICK m \in 0..Len(s), n \in 1..Len(s) :
               m < n /\ Begins(s, c, m) /\ s[n] = c /\ Stands(s, c, p, m, n)
    BY <1>3 DEF IsEnded
  <2>2. m \in 0..Len(t) /\ n \in 1..Len(t) + 1
    BY <1>1, <2>1
  <2>3. Begins(t, c, m) /\ Stands(t, c, p, m, n)
    BY <1>2, <2>1, <2>2
  <2>4. CASE n = Len(t) + 1
    BY <1>1, <2>1, <2>2, <2>3, <2>4 DEF IsOpen
  <2>5. CASE n # Len(t) + 1
    <3>1. n \in 1..Len(t) /\ t[n] = c
      BY <1>1, <2>1, <2>2, <2>5
    <3> QED BY <2>1, <2>2, <2>3, <3>1 DEF IsEnded
  <2> QED BY <2>4, <2>5
<1>4. ASSUME IsEnded(t, c, p) PROVE IsEnded(s, c, p)
  <2>1. PICK m \in 0..Len(t), n \in 1..Len(t) :
               m < n /\ Begins(t, c, m) /\ t[n] = c /\ Stands(t, c, p, m, n)
    BY <1>4 DEF IsEnded
  <2>2. m \in 0..Len(s) /\ n \in 1..Len(s) /\ n \in 1..Len(t) + 1 /\ s[n] = c
    BY <1>1, <2>1
  <2> QED BY <1>2, <2>1, <2>2 DEF IsEnded
<1>5. ASSUME x = c, IsOpen(t, c, p) PROVE IsEnded(s, c, p)
  <2>1. PICK m \in 0..Len(t) : Begins(t, c, m) /\ Stands(t, c, p, m, Len(t) + 1)
    BY <1>5 DEF IsOpen
  <2> DEFINE n == Len(t) + 1
  <2>2. m < n /\ n \in 1..Len(t) + 1 /\ m \in 0..Len(s) /\ n \in 1..Len(s) /\ s[n] = c
    BY <1>1, <1>5
  <2>3. Begins(s, c, m) /\ Stands(s, c, p, m, n)
    BY <1>2, <2>1, <2>2
  <2> HIDE DEF n
  <2> QED BY <2>2, <2>3 DEF IsEnded
<1> QED BY <1>3, <1>4, <1>5 DEF s

\* A separator opens an empty part; another symbol goes to the open one.
LEMMA OpenOn ==
  ASSUME NEW X, NEW t \in Seq(X), NEW x \in X, NEW c, NEW l \in Seq(X), IsOpen(t, c, l)
  PROVE  /\ x = c => IsOpen(Append(t, x), c, <<>>)
         /\ x # c => IsOpen(Append(t, x), c, Append(l, x))
<1> DEFINE s == Append(t, x)
           n == Len(t) + 1
           r == Append(l, x)
<1>1. /\ Len(t) \in Nat /\ n \in Nat /\ Len(s) = n /\ s[n] = x
      /\ \A i \in 1..Len(t) : s[i] = t[i]
  BY LenProperties, AppendProperties
<1>2. /\ Len(l) \in Nat /\ Len(r) = Len(l) + 1 /\ r[Len(l) + 1] = x
      /\ \A i \in 1..Len(l) : r[i] = l[i]
  BY LenProperties, AppendProperties
<1>3. PICK m \in 0..Len(t) : Begins(t, c, m) /\ Stands(t, c, l, m, Len(t) + 1)
  BY DEF IsOpen
<1> HIDE DEF s, r
<1>4. CASE x = c
  <2>1. n \in 0..Len(s) /\ Begins(s, c, n)
    BY <1>1, <1>4 DEF Begins
  <2>2. Stands(s, c, <<>>, n, n + 1)
    BY <1>1 DEF Stands
  <2>3. IsOpen(s, c, <<>>)
    BY <1>1, <2>1, <2>2 DEF IsOpen
  <2> QED BY <1>4, <2>3 DEF s
<1>5. CASE x # c
  <2>1. m \in 0..Len(s) /\ Begins(s, c, m)
    BY <1>1, <1>3 DEF Begins
  <2>2. /\ \A k \in m + 1..Len(t) : t[k] # c
        /\ Len(l) = Len(t) - m
        /\ \A k \in 1..Len(t) - m : l[k] = t[m + k]
    BY <1>1, <1>3 DEF Stands
  <2>3. \A k \in m + 1..n : s[k] # c
    <3> TAKE k \in m + 1..n
    <3>1. CASE k = n
      BY <1>1, <1>5, <3>1
    <3>2. CASE k # n
      <4>1. k \in m + 1..Len(t) /\ k \in 1..Len(t)
        BY <1>1, <3>2
      <4> QED BY <1>1, <2>2, <4>1
    <3> QED BY <3>1, <3>2
  <2>4. Len(r) = n - m /\ Len(l) + 1 = n - m /\ m + (n - m) = n
    BY <1>1, <1>2, <2>2
  <2>5. \A k \in 1..n - m : r[k] = s[m + k]
    <3> TAKE k \in 1..n - m
    <3>1. CASE k = n - m
      BY <1>1, <1>2, <2>4, <3>1
    <3>2. CASE k # n - m
      <4>1. k \in 1..Len(l) /\ k \in 1..Len(t) - m /\ m + k \in 1..Len(t)
        BY <1>1, <2>2, <2>4, <3>2
      <4> QED BY <1>1, <1>2, <2>2, <4>1
    <3> QED BY <3>1, <3>2
  <2>6. (n + 1) - 1 = n /\ ((n + 1) - m) - 1 = n - m
    BY <1>1
  <2>7. Stands(s, c, r, m, n + 1)
    BY <2>3, <2>4, <2>5, <2>6 DEF Stands
  <2>8. IsOpen(s, c, r)
    BY <1>1, <2>1, <2>7 DEF IsOpen
  <2> QED BY <1>5, <2>8 DEF s, r
<1> QED BY <1>4, <1>5

Parted(X, t, c, q, l) ==
  /\ Split(t, c) = Append(q, l) /\ IsOpen(t, c, l)
  /\ \A p \in Seq(X) : Has(q, p) <=> IsEnded(t, c, p)

\* A split text is its ended parts and then the open one.
LEMMA SplitParts ==
  ASSUME NEW X, NEW c
  PROVE  \A t \in Seq(X) : \E q \in Seq(Seq(X)), l \in Seq(X) : Parted(X, t, c, q, l)
<1> DEFINE P == {t \in Seq(X) : \E q \in Seq(Seq(X)), l \in Seq(X) : Parted(X, t, c, q, l)}
<1>1. <<>> \in P
  <2> DEFINE e == <<>>
  <2>1. e \in Seq(X) /\ e \in Seq(Seq(X)) /\ Len(e) = 0 /\ Split(e, c) = Append(e, e)
    BY EmptySeq, SplitNone
  <2> HIDE DEF e
  <2>2. 0 \in 0..Len(e) /\ Begins(e, c, 0) /\ Stands(e, c, e, 0, Len(e) + 1)
    BY <2>1 DEF Begins, Stands
  <2>3. IsOpen(e, c, e)
    BY <2>2 DEF IsOpen
  <2>4. ASSUME NEW p PROVE ~Has(e, p) /\ ~IsEnded(e, c, p)
    BY <2>1 DEF Has, IsEnded
  <2>5. Parted(X, e, c, e, e)
    BY <2>1, <2>3, <2>4 DEF Parted
  <2> QED BY <2>1, <2>5 DEF e
<1>2. ASSUME NEW t \in P, NEW x \in X PROVE Append(t, x) \in P
  <2>1. t \in Seq(X)
    OBVIOUS
  <2>2. PICK q \in Seq(Seq(X)), l \in Seq(X) : Parted(X, t, c, q, l)
    OBVIOUS
  <2> DEFINE s == Append(t, x)
  <2>3. s \in Seq(X) /\ Split(s, c) = Continue(Append(q, l), x, c)
    <3>1. Append(t, x) \in Seq(X)
      BY <2>1, AppendProperties
    <3>2. Split(Append(t, x), c) = Continue(Split(t, c), x, c)
      BY <2>1, SplitAppend
    <3>3. Split(t, c) = Append(q, l)
      BY <2>2 DEF Parted
    <3> QED BY <3>1, <3>2, <3>3
  <2>4. /\ \A p \in Seq(X) : Has(q, p) <=> IsEnded(t, c, p)
        /\ IsOpen(t, c, l)
    BY <2>2 DEF Parted
  <2>5. \A p : IsEnded(s, c, p) <=> IsEnded(t, c, p) \/ (x = c /\ IsOpen(t, c, p))
    BY <2>1, EndedOn
  <2>6. /\ x = c => IsOpen(s, c, <<>>)
        /\ x # c => IsOpen(s, c, Append(l, x))
    BY <2>1, <2>4, OpenOn
  <2> HIDE DEF s
  <2>7. CASE x = c
    <3> DEFINE r == Append(q, l)
    <3>1. r \in Seq(Seq(X)) /\ <<>> \in Seq(X) /\ Split(s, c) = Append(r, <<>>)
      BY <2>3, <2>7, ContinueIs, EmptySeq, AppendProperties
    <3>2. \A p : Has(r, p) <=> Has(q, p) \/ p = l
      BY HasAppend
    <3>3. \A p \in Seq(X) : IsOpen(t, c, p) <=> p = l
      BY <2>1, <2>4, OneOpen
    <3> HIDE DEF r
    <3>4. \A p \in Seq(X) : Has(r, p) <=> IsEnded(s, c, p)
      BY <2>4, <2>5, <2>7, <3>2, <3>3
    <3>5. Parted(X, s, c, r, <<>>)
      BY <2>6, <2>7, <3>1, <3>4 DEF Parted
    <3> QED BY <2>3, <3>1, <3>5 DEF s
  <2>8. CASE x # c
    <3> DEFINE r == Append(l, x)
    <3>1. r \in Seq(X) /\ Split(s, c) = Append(q, r)
      BY <2>3, <2>8, ContinueIs, AppendProperties
    <3>2. IsOpen(s, c, r)
      BY <2>6, <2>8
    <3> HIDE DEF r
    <3>3. Parted(X, s, c, q, r)
      BY <2>4, <2>5, <2>8, <3>1, <3>2 DEF Parted
    <3> QED BY <2>3, <3>1, <3>3 DEF s
  <2> QED BY <2>7, <2>8
<1>3. P \in SUBSET Seq(X)
  OBVIOUS
<1>4. \A t \in Seq(X) : t \in P
  <2> HIDE DEF P
  <2> QED BY <1>1, <1>2, <1>3, TextInduction
<1> QED BY <1>4

\* The parts of a split text are the stretches between its separators.
LEMMA SplitHas ==
  ASSUME NEW X, NEW t \in Seq(X), NEW c
  PROVE  /\ Split(t, c) \in Seq(Seq(X))
         /\ \A p : Has(Split(t, c), p) <=> p \in Seq(X) /\ IsPart(t, c, p)
<1>1. PICK q \in Seq(Seq(X)), l \in Seq(X) : Parted(X, t, c, q, l)
  BY SplitParts
<1>2. /\ Split(t, c) = Append(q, l) /\ IsOpen(t, c, l)
      /\ \A p \in Seq(X) : Has(q, p) <=> IsEnded(t, c, p)
  BY <1>1 DEF Parted
<1> DEFINE r == Append(q, l)
<1>3. r \in Seq(Seq(X)) /\ \A p : Has(r, p) <=> Has(q, p) \/ p = l
  BY AppendProperties, HasAppend
<1>4. \A p : Has(q, p) => p \in Seq(X)
  BY ElementOfSeq DEF Has
<1>5. \A p \in Seq(X) : IsOpen(t, c, p) <=> p = l
  BY <1>2, OneOpen
<1>6. \A p : IsPart(t, c, p) <=> IsEnded(t, c, p) \/ IsOpen(t, c, p)
  BY PartCases
<1> HIDE DEF r
<1>7. \A p : Has(r, p) <=> p \in Seq(X) /\ IsPart(t, c, p)
  BY <1>2, <1>3, <1>4, <1>5, <1>6
<1> QED BY <1>2, <1>3, <1>7 DEF r

\* No part of a form has a line break in it.
LEMMA PartsAreLines ==
  ASSUME NEW X, NEW t \in Seq(X)
  PROVE  Split(t, "\n") \in Seq(Lines(X))
<1> DEFINE q == Split(t, "\n")
<1>1. q \in Seq(Seq(X)) /\ \A p : Has(q, p) <=> p \in Seq(X) /\ IsPart(t, "\n", p)
  BY SplitHas
<1> HIDE DEF q
<1>2. Len(t) \in Nat
  BY LenProperties
<1>3. ASSUME NEW p \in Seq(X), IsPart(t, "\n", p) PROVE Free(p, "\n")
  <2>1. PICK m \in 0..Len(t), n \in 1..Len(t) + 1 : m < n /\ Stands(t, "\n", p, m, n)
    BY <1>3 DEF IsPart
  <2>2. \A k \in 1..(n - m) - 1 : m + k \in m + 1..n - 1
    BY <1>2, <2>1
  <2> QED BY <2>1, <2>2 DEF Stands, Free
<1>4. \A k \in 1..Len(q) : q[k] \in Lines(X)
  BY <1>1, <1>3 DEF Has, Lines
<1>5. q \in [1..Len(q) -> Lines(X)] /\ Len(q) \in Nat
  BY <1>1, <1>4, LenProperties
<1> QED BY <1>5, SeqDef DEF q

\* The list an application is stored as says what its form says.
LEMMA StoredSame ==
  ASSUME NEW X, "\n" \in X, NEW t \in Seq(X)
  PROVE  LET uris == SplitRedirectURIs(t) IN SplitRedirectURIs(JoinRedirectURIs(uris)) = uris
<1> DEFINE us == SplitRedirectURIs(t)
<1>1. us \in Seq(Good(X))
  BY PartsAreLines, CleanedIsGood DEF SplitRedirectURIs
<1> HIDE DEF us
<1>2. Cleaned(us) = us
  BY <1>1, CleanedSame
<1>3. JoinRedirectURIs(us) = Joined(us, "\n")
  BY <1>2 DEF JoinRedirectURIs
<1>4. CASE us = <<>>
  <2>1. Joined(us, "\n") = <<>>
    BY <1>4, FlattenNone DEF Joined
  <2>2. Split(<<>>, "\n") = <<<<>>>>
    BY SplitNone
  <2>3. Cleaned(<<<<>>>>) = <<>>
    <3> DEFINE e == <<>>
    <3>1. e \in Seq(X) /\ e \in Seq(Seq(X)) /\ Cleaned(e) = e /\ TrimSpace(e) = e
      BY CleanedNone, EmptySeq, TrimNone DEF TrimSpace
    <3> HIDE DEF e
    <3>2. e = <<>>
      BY DEF e
    <3>3. Cleaned(Append(e, e)) = e
      BY <3>1, <3>2, CleanedGoesOn
    <3> QED BY <3>2, <3>3
  <2> QED BY <1>3, <1>4, <2>1, <2>2, <2>3 DEF SplitRedirectURIs, us
<1>5. CASE us # <<>>
  <2>1. Split(Joined(us, "\n"), "\n") = us
    BY <1>1, <1>5, SplitJoined
  <2> QED BY <1>2, <1>3, <2>1 DEF SplitRedirectURIs, us
<1> QED BY <1>4, <1>5 DEF us

\* A stretch of a text, symbol by symbol.
LEMMA StretchIs ==
  ASSUME NEW X, NEW t \in Seq(X), NEW i \in 1..Len(t), NEW j \in 1..Len(t), i <= j
  PROVE  /\ SubSeq(t, i, j) \in Seq(X) /\ Len(SubSeq(t, i, j)) = (j - i) + 1
         /\ \A k \in 1..(j - i) + 1 : SubSeq(t, i, j)[k] = t[(i + k) - 1]
<1>1. Len(t) \in Nat /\ i \in Int /\ j \in Int
  BY LenProperties
<1>2. \A k \in i..j : t[k] \in X
  BY <1>1, ElementOfSeq
<1> QED BY <1>1, <1>2, SubSeqProperties

\* What is left of a part is a line of the form.
LEMMA PartToLine ==
  ASSUME NEW X, NEW t \in Seq(X), NEW p \in Seq(X), IsPart(t, "\n", p), TrimSpace(p) # <<>>
  PROVE  \E i, j \in 1..Len(t) : i <= j /\ SubSeq(t, i, j) = TrimSpace(p) /\ IsLine(t, i, j)
<1>1. Len(t) \in Nat /\ Len(p) \in Nat
  BY LenProperties
<1>2. PICK m \in 0..Len(t), n \in 1..Len(t) + 1 :
             /\ m < n /\ Begins(t, "\n", m) /\ (n = Len(t) + 1 \/ t[n] = "\n")
             /\ Stands(t, "\n", p, m, n)
  BY DEF IsPart
<1>3. /\ \A k \in m + 1..n - 1 : t[k] # "\n"
      /\ Len(p) = (n - m) - 1
      /\ \A k \in 1..(n - m) - 1 : p[k] = t[m + k]
  BY <1>2 DEF Stands
<1>4. ~\A k \in 1..Len(p) : p[k] \in Space
  BY TrimNone DEF TrimSpace
<1>5. PICK a \in 1..Len(p), b \in 1..Len(p) : Kept(p, Space, a, b)
  BY <1>4, TrimCases
<1> DEFINE v == SubSeq(p, a, b)
           i == m + a
           j == m + b
           u == SubSeq(t, i, j)
           l == (b - a) + 1
<1>6. /\ a <= b /\ Trim(p, Space) = v /\ v \in Seq(X) /\ Len(v) = l
      /\ \A k \in 1..l : v[k] = p[(a + k) - 1]
  BY <1>5, TrimIs
<1>7. /\ i \in 1..Len(t) /\ j \in 1..Len(t) /\ i <= j /\ (j - i) + 1 = l
      /\ m \in 0..i - 1 /\ n \in j + 1..Len(t) + 1
      /\ \A k \in 1..l : /\ (a + k) - 1 \in 1..(n - m) - 1
                         /\ m + ((a + k) - 1) = (i + k) - 1
  BY <1>1, <1>2, <1>3, <1>6
<1>8. u \in Seq(X) /\ Len(u) = l /\ \A k \in 1..l : u[k] = t[(i + k) - 1]
  <2>1. i \in 1..Len(t) /\ j \in 1..Len(t) /\ i <= j /\ (j - i) + 1 = l
    BY <1>7
  <2> HIDE DEF i, j, l, u, v
  <2>2. /\ SubSeq(t, i, j) \in Seq(X) /\ Len(SubSeq(t, i, j)) = (j - i) + 1
        /\ \A k \in 1..(j - i) + 1 : SubSeq(t, i, j)[k] = t[(i + k) - 1]
    BY <2>1, StretchIs
  <2> QED BY <2>1, <2>2 DEF u
<1>9. u = TrimSpace(p)
  <2> HIDE DEF v, u, i, j, l
  <2>1. \A k \in 1..l : v[k] = u[k]
    BY <1>3, <1>6, <1>7, <1>8
  <2>2. v = u
    BY <1>6, <1>8, <2>1, SeqEqual
  <2> QED BY <1>6, <2>2 DEF TrimSpace
<1>10. /\ p[a] \notin Space /\ p[b] \notin Space
       /\ \A k \in 1..a - 1 : p[k] \in Space
       /\ \A k \in b + 1..Len(p) : p[k] \in Space
  BY <1>5 DEF Kept
<1>11. p[a] = t[i] /\ p[b] = t[j]
  BY <1>3
<1>12. t[i] \notin {Blank, "\r"} /\ t[j] \notin {Blank, "\r"}
  <2> HIDE DEF i, j
  <2> QED BY <1>10, <1>11 DEF Space
<1>13. \A k \in i..j : t[k] # "\n"
  BY <1>1, <1>3, <1>7
<1>14. \A k \in m + 1..i - 1 : t[k] \in {Blank, "\r"}
  <2> TAKE k \in m + 1..i - 1
  <2>1. k - m \in 1..a - 1 /\ k - m \in 1..(n - m) - 1 /\ m + (k - m) = k /\ k \in m + 1..n - 1
    BY <1>1, <1>2, <1>3, <1>7
  <2>2. p[k - m] = t[k] /\ p[k - m] \in Space /\ t[k] # "\n"
    <3> HIDE DEF i
    <3> QED BY <1>3, <1>10, <2>1
  <2> QED BY <2>2 DEF Space
<1>15. \A k \in j + 1..n - 1 : t[k] \in {Blank, "\r"}
  <2> TAKE k \in j + 1..n - 1
  <2>1. k - m \in b + 1..Len(p) /\ k - m \in 1..(n - m) - 1 /\ m + (k - m) = k /\ k \in m + 1..n - 1
    BY <1>1, <1>2, <1>3, <1>7
  <2>2. p[k - m] = t[k] /\ p[k - m] \in Space /\ t[k] # "\n"
    <3> HIDE DEF j
    <3> QED BY <1>3, <1>10, <2>1
  <2> QED BY <2>2 DEF Space
<1> HIDE DEF i, j, u, v, l
<1>16. IsLine(t, i, j)
  BY <1>2, <1>7, <1>12, <1>13, <1>14, <1>15 DEF IsLine, Begins
<1> QED BY <1>7, <1>9, <1>16 DEF u

\* And a line of the form is what is left of a part.
LEMMA LineToPart ==
  ASSUME NEW X, NEW t \in Seq(X), NEW i \in 1..Len(t), NEW j \in 1..Len(t), i <= j,
         IsLine(t, i, j)
  PROVE  \E p \in Seq(X) : IsPart(t, "\n", p) /\ TrimSpace(p) = SubSeq(t, i, j)
<1>1. Len(t) \in Nat
  BY LenProperties
<1>2. /\ t[i] \notin {Blank, "\r"} /\ t[j] \notin {Blank, "\r"}
      /\ \A k \in i..j : t[k] # "\n"
  BY DEF IsLine
<1>3. PICK m \in 0..i - 1 : /\ m = 0 \/ t[m] = "\n"
                            /\ \A k \in m + 1..i - 1 : t[k] \in {Blank, "\r"}
  BY DEF IsLine
<1>4. PICK n \in j + 1..Len(t) + 1 : /\ n = Len(t) + 1 \/ t[n] = "\n"
                                     /\ \A k \in j + 1..n - 1 : t[k] \in {Blank, "\r"}
  BY DEF IsLine
<1>5. \A x \in {Blank, "\r"} : x # "\n"
  BY Marks
<1> DEFINE l == (n - m) - 1
           p == [k \in 1..l |-> t[m + k]]
           a == i - m
           b == j - m
<1>6. /\ l \in Nat /\ a \in 1..l /\ b \in 1..l /\ a <= b /\ m + a = i /\ m + b = j
      /\ m \in 0..Len(t) /\ n \in 1..Len(t) + 1 /\ m < n
      /\ \A k \in 1..l : m + k \in 1..Len(t)
  BY <1>1, <1>3, <1>4
<1>7. p \in Seq(X) /\ Len(p) = l /\ \A k \in 1..l : p[k] = t[m + k]
  <2>1. \A k \in 1..l : t[m + k] \in X
    BY <1>6, ElementOfSeq
  <2>2. p \in [1..l -> X]
    BY <2>1
  <2>3. p \in Seq(X)
    BY <1>6, <2>2, SeqDef
  <2>4. Len(p) = l
    BY <1>6
  <2> QED BY <2>3, <2>4
<1> HIDE DEF p
<1>8. \A k \in m + 1..n - 1 : t[k] # "\n"
  <2> TAKE k \in m + 1..n - 1
  <2>1. k \in m + 1..i - 1 \/ k \in i..j \/ k \in j + 1..n - 1
    BY <1>1, <1>3, <1>4
  <2> QED BY <1>2, <1>3, <1>4, <1>5, <2>1
<1>9. IsPart(t, "\n", p)
  <2>1. Stands(t, "\n", p, m, n)
    BY <1>7, <1>8 DEF Stands
  <2>2. Begins(t, "\n", m)
    BY <1>3 DEF Begins
  <2> HIDE DEF l
  <2> QED BY <1>4, <1>6, <2>1, <2>2 DEF IsPart
<1>10. Kept(p, Space, a, b)
  <2>1. p[a] = t[i] /\ p[b] = t[j] /\ t[i] # "\n" /\ t[j] # "\n"
    BY <1>2, <1>6, <1>7
  <2>2. p[a] \notin Space /\ p[b] \notin Space
    BY <1>2, <2>1 DEF Space
  <2>3. \A k \in 1..a - 1 : p[k] \in Space
    <3> TAKE k \in 1..a - 1
    <3>1. k \in 1..l /\ m + k \in m + 1..i - 1
      BY <1>1, <1>3, <1>4, <1>6
    <3>2. p[k] \in {Blank, "\r"}
      BY <1>3, <1>7, <3>1
    <3> QED BY <3>2 DEF Space
  <2>4. \A k \in b + 1..Len(p) : p[k] \in Space
    <3> TAKE k \in b + 1..Len(p)
    <3>1. k \in 1..l /\ m + k \in j + 1..n - 1
      BY <1>1, <1>3, <1>4, <1>6, <1>7
    <3>2. p[k] \in {Blank, "\r"}
      BY <1>4, <1>7, <3>1
    <3> QED BY <3>2 DEF Space
  <2> QED BY <2>2, <2>3, <2>4 DEF Kept
<1> DEFINE v == SubSeq(p, a, b)
           u == SubSeq(t, i, j)
           h == (b - a) + 1
<1>11. /\ Trim(p, Space) = v /\ v \in Seq(X) /\ Len(v) = h
       /\ \A k \in 1..h : v[k] = p[(a + k) - 1]
  <2>1. p \in Seq(X) /\ a \in 1..Len(p) /\ b \in 1..Len(p)
    BY <1>6, <1>7
  <2> HIDE DEF a, b, l, v, h
  <2>2. /\ Trim(p, Space) = SubSeq(p, a, b) /\ SubSeq(p, a, b) \in Seq(X)
        /\ Len(SubSeq(p, a, b)) = (b - a) + 1
        /\ \A k \in 1..(b - a) + 1 : SubSeq(p, a, b)[k] = p[(a + k) - 1]
    BY <1>10, <2>1, TrimIs, SMTT(20)
  <2> QED BY <2>2 DEF v, h
<1>12. u \in Seq(X) /\ Len(u) = (j - i) + 1 /\ \A k \in 1..(j - i) + 1 : u[k] = t[(i + k) - 1]
  BY StretchIs
<1>13. /\ (j - i) + 1 = h
       /\ \A k \in 1..h : (a + k) - 1 \in 1..l /\ m + ((a + k) - 1) = (i + k) - 1
  BY <1>1, <1>3, <1>4, <1>6
<1> HIDE DEF u, v, h, a, b, l
<1>14. \A k \in 1..h : v[k] = u[k]
  BY <1>7, <1>11, <1>12, <1>13, ZenonT(30)
<1>15. v = u
  BY <1>11, <1>12, <1>13, <1>14, SeqEqual
<1>16. TrimSpace(p) = u
  BY <1>11, <1>15 DEF TrimSpace
<1> QED BY <1>7, <1>9, <1>16 DEF u

\* The list of a form holds its lines.
LEMMA ListHolds ==
  ASSUME NEW X, NEW t \in Seq(X), NEW u, u # <<>>
  PROVE  Has(SplitRedirectURIs(t), u)
           <=> \E i, j \in 1..Len(t) : i <= j /\ SubSeq(t, i, j) = u /\ IsLine(t, i, j)
<1> DEFINE q == Split(t, "\n")
<1>1. q \in Seq(Seq(X)) /\ \A p : Has(q, p) <=> p \in Seq(X) /\ IsPart(t, "\n", p)
  BY SplitHas
<1> HIDE DEF q
<1>2. Has(Cleaned(q), u) <=> \E p : Has(q, p) /\ TrimSpace(p) = u
  BY <1>1, CleanedHas
<1>3. ASSUME NEW p, Has(q, p), TrimSpace(p) = u
      PROVE  \E i, j \in 1..Len(t) : i <= j /\ SubSeq(t, i, j) = u /\ IsLine(t, i, j)
  BY <1>1, <1>3, PartToLine
<1>4. ASSUME NEW i \in 1..Len(t), NEW j \in 1..Len(t), i <= j, SubSeq(t, i, j) = u,
             IsLine(t, i, j)
      PROVE  \E p : Has(q, p) /\ TrimSpace(p) = u
  BY <1>1, <1>4, LineToPart, ZenonT(30)
<1> QED BY <1>2, <1>3, <1>4 DEF SplitRedirectURIs, q

\* An application admits the lines of the form it was created with and nothing
\* else: the list it is stored as says the same as the form (createOAuthClient,
\* splitRedirectURIs, joinRedirectURIs, allowsRedirectURI).
THEOREM FormIsAlwaysTheAllowlist == Spec => []FormIsTheAllowlist
<1>1. Typed => FormIsTheAllowlist
  <2> SUFFICES ASSUME Typed PROVE FormIsTheAllowlist
    OBVIOUS
  <2>1. text \in Seq(Char) /\ "\n" \in Char
    BY Signs, SeqMonotonic, CodesAre DEF Typed, Char
  <2> DEFINE stored == JoinRedirectURIs(SplitRedirectURIs(text))
             pieces == {SubSeq(text, i, j) : i, j \in 1..Len(text)} \ {<<>>}
  <2>2. SplitRedirectURIs(stored) = SplitRedirectURIs(text)
    BY <2>1, StoredSame
  <2>3. ASSUME NEW uri \in pieces, TrimSpace(uri) = uri
        PROVE  AllowsRedirectURI(stored, uri)
                 <=> \E i, j \in 1..Len(text) : /\ i <= j /\ SubSeq(text, i, j) = uri
                                                /\ IsLine(text, i, j)
    <3>1. uri # <<>>
      OBVIOUS
    <3> HIDE DEF stored, pieces
    <3>2. AllowsRedirectURI(stored, uri) <=> Has(SplitRedirectURIs(text), uri)
      BY <2>2, <2>3 DEF AllowsRedirectURI, Contains, Has
    <3>3. Has(SplitRedirectURIs(text), uri)
            <=> \E i, j \in 1..Len(text) : /\ i <= j /\ SubSeq(text, i, j) = uri
                                           /\ IsLine(text, i, j)
      BY <2>1, <3>1, ListHolds
    <3> QED BY <3>2, <3>3
  <2> QED BY <2>3 DEF FormIsTheAllowlist
<1> QED BY <1>1, TextType, PTL

=============================================================================
