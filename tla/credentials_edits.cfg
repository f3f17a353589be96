\* One account whose edits cross, with passwords, questions and answers of the
\* kinds that protectAccount mistakes or refuses; two keys.
SPECIFICATION FairSpec
CONSTANTS
  Accounts = {a1}
  Passwords = {p1, hashlike, toolong}
  Questions = {q1, q2, cipherlike}
  Answers = {s1, s2, toolong}
  HashLike = {hashlike}
  CipherLike = {cipherlike}
  TooLong = {toolong}
  Keys = {k1, k2}
  Requests = {r1, r2}
  Blank = Blank
  Absent = Absent
INVARIANTS TypeOK ChosenPasswordOpens AnswerFitsQuestion ServedIsProtected QuestionOpens
PROPERTIES ComesUp
