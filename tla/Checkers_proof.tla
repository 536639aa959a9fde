--------------------------- MODULE Checkers_proof ---------------------------
(***************************************************************************)
(* The checkers that compare token with token judge files of any length    *)
(* and any tokens correctly.  The loop invariant is the usual one: what    *)
(* was read agrees, and the positions in the two files are equal until     *)
(* one of them has ended.                                                  *)
(***************************************************************************)
EXTENDS Checkers, SequenceTheorems, WellFoundedInduction, TLAPS

Pairwise == Single \union AnswerDriven \union Paired

LoopInv ==
  /\ phase \in {"register", "pairs"} => i = n /\ o = n
  /\ phase = "register" => n = 0
  /\ phase = "extras" =>
       /\ checker \in {"ncmp", "nyesno"}
       /\ n = Len(ans) \/ n = Len(ouf)
  /\ checker \in Single => n <= 1
  /\ verdict = "none" => \A x \in 1..n : Agree(x)

JType ==
  /\ Len(ans) \in Nat /\ Len(ouf) \in Nat
  /\ Len(ans) = 0 <=> ans = << >>
  /\ n \in Nat /\ i \in n..Len(ans) /\ o \in n..Len(ouf)
  /\ phase \in {"register", "pairs", "extras"}
  /\ verdict \in {"none", "ok", "wa", "pe", "fail"}

JInv == checker \in Pairwise => JType /\ LoopInv /\ SequencesJudged

\* The families are disjoint.
LEMMA Families ==
  /\ checker \in Paired => checker \notin AnswerDriven /\ checker \notin Single
  /\ checker \in AnswerDriven => checker \notin Single
  /\ checker \in {"ncmp", "wcmp", "nyesno"} <=> checker \in Paired
  /\ checker \in Pairwise => checker \notin Cases /\ checker \notin {"uncmp", "caseicmp"}
BY DEF Single, AnswerDriven, Tolerant, Lines, Paired, Cases, Pairwise

\* How much of the answer counts, and that the loops go on exactly so far.
LEMMA ComparedValues ==
  ASSUME Len(ans) \in Nat, Len(ans) = 0 <=> ans = << >>, i \in 0..Len(ans)
  PROVE  /\ Compared \in Nat
         /\ checker \in Single => Compared = 1
         /\ checker \in Paired => Compared = Len(ans)
         /\ checker \in AnswerDriven =>
              /\ Compared <= Len(ans)
              /\ AnswerEnds => Compared <= i
              /\ ~ AnswerEnds => i + 1 <= Compared
<1> DEFINE blankEnd == checker \in Lines /\ ans # << >> /\ ans[Len(ans)].text = ""
<1>1. /\ checker \in Single => Compared = 1
      /\ checker \notin Single /\ blankEnd => Compared = Len(ans) - 1
      /\ checker \notin Single /\ ~ blankEnd => Compared = Len(ans)
  BY Zenon DEF Compared
<1>2. ans # << >> => (AnswerEnds <=> i = Len(ans) \/ (i + 1 = Len(ans) /\ blankEnd))
  <2>1. CASE i + 1 = Len(ans)
    BY <2>1 DEF AnswerEnds, AnsEof
  <2>2. CASE i + 1 # Len(ans)
    BY <2>2 DEF AnswerEnds, AnsEof
  <2> QED
    BY <2>1, <2>2
<1>3. ans = << >> => AnswerEnds /\ i = 0 /\ ~ blankEnd
  <2>1. ans = << >> => Len(ans) = 0 /\ i = 0
    OBVIOUS
  <2> QED
    BY <2>1 DEF AnswerEnds, AnsEof
<1>4. blankEnd => checker \notin Single /\ checker \notin Paired /\ Len(ans) >= 1
  <2>1. ans # << >> => Len(ans) >= 1
    OBVIOUS
  <2>2. checker \in Lines => checker \notin Single /\ checker \notin Paired
    BY Zenon, Families DEF AnswerDriven
  <2> QED
    BY <2>1, <2>2
<1> HIDE DEF blankEnd
<1> QED
  BY <1>1, <1>2, <1>3, <1>4, Families

\* A disagreement at one position that counts is a mismatch.
LEMMA Mismatch ==
  ASSUME JInv, checker \in Pairwise, WantsPair, ~ AnsEof, ~ Agree(n + 1)
  PROVE  ~ SequencesMatch
<1>1. i = n /\ i \in 0..Len(ans) /\ n \in Nat
  BY DEF JInv, JType, LoopInv, WantsPair, Running
<1>2. n + 1 \in 1..Compared
  BY <1>1, Families, ComparedValues DEF JInv, JType, WantsPair, AnsEof, Pairwise
<1> QED
  BY <1>2 DEF SequencesMatch

\* What a step that ends the program has to show.
LEMMA Quitting ==
  ASSUME JInv, checker \in Pairwise, verdict = "none",
         NEW code \in {"ok", "wa", "pe", "fail"}, Quit(code),
         code = "ok" <=> SequencesMatch
  PROVE  JInv'
<1>1. UNCHANGED <<checker, ans, ouf, i, o, n, phase>> /\ verdict' = code
  BY DEF Quit, files
<1>2. SequencesMatch' <=> SequencesMatch
  BY <1>1 DEF SequencesMatch, Compared, Agree, Readable, AnswerFails, Valid, Same, Close
<1>3. JType' /\ LoopInv'
  BY <1>1 DEF JInv, JType, LoopInv
<1>4. SequencesJudged'
  BY <1>1, <1>2 DEF SequencesJudged
<1> QED
  BY <1>3, <1>4 DEF JInv

LEMMA InitJ == Init => JInv
<1> SUFFICES ASSUME Init PROVE JInv
  OBVIOUS
<1>1. Len(ans) \in Nat /\ Len(ouf) \in Nat
  BY InputsAssumption DEF Init
<1> QED
  BY <1>1 DEF Init, JInv, JType, LoopInv, SequencesJudged

LEMMA NextJ == JInv /\ [Next]_vars => JInv'
<1> SUFFICES ASSUME JInv, [Next]_vars, checker \in Pairwise PROVE JInv'
  <2>1. [Next]_vars => checker' = checker
    BY DEF Next, vars, files, Quit, Refuse, Register, PairUnreadable,
           PairCompared, PairsDone,
           WordsDone, CountExtras, ExtraAns, ExtraOuf, ExtrasCounted, Unordered,
           ReadAnsCase, ReadOufCase, CompareCases, CompareCase, CasesDone
  <2> QED
    BY <2>1 DEF JInv
<1> USE Families
<1>1. JType /\ LoopInv
  BY DEF JInv
<1>2. CASE PairUnreadable
  <2>1. WantsPair /\ Quit("pe") /\ verdict = "none" /\ i = n /\ o = n
    BY <1>1, <1>2 DEF PairUnreadable, WantsPair, Running, LoopInv
  <2>2. CASE AnsEof \/ OufEof
    <3>1. n + 1 \in 1..Compared \/ checker \notin AnswerDriven
      BY <1>1, <2>1, ComparedValues DEF WantsPair, AnsEof, JType
    <3>2. ~ SequencesMatch
      BY <1>1, <2>1, <2>2, <3>1, ComparedValues
         DEF SequencesMatch, WantsPair, AnsEof, OufEof, JType
    <3> QED
      BY <2>1, <3>2, Quitting
  <2>3. CASE ~ AnsEof /\ ~ OufEof
    <3>1. ~ Agree(n + 1)
      BY <1>2, <2>1, <2>3 DEF PairUnreadable, PairReadable, Agree
    <3> QED
      BY <2>1, <2>3, <3>1, Mismatch, Quitting
  <2> QED
    BY <2>2, <2>3
<1>3. CASE PairCompared
  <2>1. /\ WantsPair /\ verdict = "none" /\ phase = "pairs" /\ i = n /\ o = n
        /\ ~ AnsEof /\ ~ OufEof
        /\ Readable(ans[n + 1]) /\ Readable(ouf[n + 1])
        /\ verdict' = PairVerdict(ans[n + 1], ouf[n + 1])
        /\ i' = n + 1 /\ o' = n + 1 /\ n' = n + 1
        /\ UNCHANGED <<checker, ans, ouf, phase>>
    BY <1>1, <1>3 DEF PairCompared, PairReadable, WantsPair, Running, LoopInv, files
  <2>2. /\ verdict' \in {"none", "wa", "pe", "fail"}
        /\ verdict' = "none" <=> Agree(n + 1)
    BY <2>1 DEF PairVerdict, Agree
  <2>3. /\ \A x : Agree(x)' <=> Agree(x)
        /\ SequencesMatch' <=> SequencesMatch
    BY <2>1 DEF SequencesMatch, Compared, Agree, Readable, AnswerFails, Valid, Same, Close
  <2>4. JType'
    BY <1>1, <2>1, <2>2 DEF JType, AnsEof, OufEof
  <2>5. checker \in Single => n' <= 1
    BY <2>1 DEF WantsPair
  <2>6. verdict' = "none" => \A x \in 1..n' : Agree(x)'
    BY <1>1, <2>1, <2>2, <2>3 DEF LoopInv, JType
  <2>7. LoopInv'
    BY <2>1, <2>5, <2>6 DEF LoopInv
  <2>8. SequencesJudged'
    BY <2>1, <2>2, <2>3, Mismatch DEF SequencesJudged
  <2> QED
    BY <2>4, <2>7, <2>8 DEF JInv
<1>4. CASE PairsDone
  <2>1. /\ Quit("ok") /\ verdict = "none" /\ i = n /\ o = n
        /\ checker \in AnswerDriven \union Single
        /\ checker \in AnswerDriven => AnswerEnds
        /\ checker \in Single => n = 1
        /\ \A x \in 1..n : Agree(x)
    BY <1>1, <1>4 DEF PairsDone, WantsPair, Running, LoopInv, JType
  <2>2. Compared \in Nat /\ Compared <= n
    BY <1>1, <2>1, ComparedValues DEF JType
  <2>3. SequencesMatch
    BY <1>1, <2>1, <2>2 DEF SequencesMatch, JType
  <2> QED
    BY <2>1, <2>3, Quitting
<1>5. CASE WordsDone
  <2>1. /\ Quit(IF AnsEof /\ OufEof THEN "ok" ELSE "wa") /\ verdict = "none"
        /\ i = n /\ o = n /\ checker \in Paired
        /\ n = Len(ans) \/ n = Len(ouf)
        /\ \A x \in 1..n : Agree(x)
    BY <1>1, <1>5 DEF WordsDone, WantsPair, Running, LoopInv, JType, AnsEof, OufEof
  <2>2. AnsEof /\ OufEof <=> SequencesMatch
    BY <1>1, <2>1, ComparedValues DEF SequencesMatch, AnsEof, OufEof, JType
  <2> QED
    BY <2>1, <2>2, Quitting
<1>6. CASE CountExtras
  <2>1. /\ verdict = "none" /\ i = n /\ o = n /\ checker \in {"ncmp", "nyesno"}
        /\ n = Len(ans) \/ n = Len(ouf)
        /\ phase' = "extras"
        /\ UNCHANGED <<checker, ans, ouf, i, o, n, verdict>>
    BY <1>1, <1>6 DEF CountExtras, WantsPair, Running, LoopInv, JType, AnsEof, OufEof, files
  <2>2. \A x : Agree(x)' <=> Agree(x)
    BY <2>1 DEF Agree, Readable, AnswerFails, Valid, Same, Close
  <2>3. JType' /\ LoopInv'
    BY <1>1, <2>1, <2>2 DEF JType, LoopInv
  <2>4. SequencesJudged'
    BY <2>1 DEF SequencesJudged
  <2> QED
    BY <2>3, <2>4 DEF JInv
<1>7. CASE ExtraAns \/ ExtraOuf
  <2>1. /\ verdict = "none" /\ phase = "extras" /\ checker \in Paired
        /\ n = Len(ans) \/ n = Len(ouf)
    BY <1>1, <1>7 DEF ExtraAns, ExtraOuf, Running, LoopInv
  <2>2. CASE Quit("pe")
    <3>1. Len(ans) # Len(ouf)
      BY <1>1, <1>7, <2>1 DEF ExtraAns, ExtraOuf, AnsEof, OufEof, JType
    <3>2. ~ SequencesMatch
      BY <2>1, <3>1 DEF SequencesMatch
    <3> QED
      BY <2>1, <2>2, <3>2, Quitting
  <2>3. CASE ~ Quit("pe")
    <3>1. /\ UNCHANGED <<checker, ans, ouf, n, phase, verdict>>
          /\ i' \in n..Len(ans) /\ o' \in n..Len(ouf)
      BY <1>1, <1>7, <2>3 DEF ExtraAns, ExtraOuf, AnsEof, OufEof, JType, files
    <3>2. \A x : Agree(x)' <=> Agree(x)
      BY <3>1 DEF Agree, Readable, AnswerFails, Valid, Same, Close
    <3>3. JType' /\ LoopInv'
      BY <1>1, <2>1, <3>1, <3>2 DEF JType, LoopInv
    <3>4. SequencesJudged'
      BY <2>1, <3>1 DEF SequencesJudged
    <3> QED
      BY <3>3, <3>4 DEF JInv
  <2> QED
    BY <2>2, <2>3
<1>8. CASE ExtrasCounted
  <2>1. /\ Quit(IF i > n \/ o > n THEN "wa" ELSE "ok") /\ verdict = "none"
        /\ i = Len(ans) /\ o = Len(ouf) /\ checker \in Paired
        /\ n = Len(ans) \/ n = Len(ouf)
        /\ \A x \in 1..n : Agree(x)
    BY <1>1, <1>8 DEF ExtrasCounted, Running, LoopInv, AnsEof, OufEof
  <2>2. ~ (i > n \/ o > n) <=> SequencesMatch
    BY <1>1, <2>1, ComparedValues DEF SequencesMatch, JType
  <2> QED
    BY <2>1, <2>2, Quitting
<1>9. CASE \/ Unordered \/ ReadAnsCase \/ ReadOufCase \/ CompareCases
           \/ CompareCase \/ CasesDone
  BY <1>9 DEF Unordered, ReadAnsCase, ReadOufCase, CompareCases, CompareCase, CasesDone
<1>10. CASE UNCHANGED vars
  <2>1. UNCHANGED <<checker, ans, ouf, refused, i, o, phase, n, verdict>>
    BY <1>10 DEF vars, files
  <2>2. /\ \A x : Agree(x)' <=> Agree(x)
        /\ SequencesMatch' <=> SequencesMatch
    BY <2>1 DEF SequencesMatch, Compared, Agree, Readable, AnswerFails, Valid, Same, Close
  <2> QED
    BY <2>1, <2>2 DEF JInv, JType, LoopInv, SequencesJudged
<1>11. CASE Refuse
  <2>1. /\ UNCHANGED <<checker, ans, ouf, refused, i, o, phase, n>>
        /\ verdict' = "fail" /\ refused # "none"
    BY <1>11 DEF Refuse, Quit, files
  <2> QED
    BY <1>1, <2>1 DEF JInv, JType, LoopInv, SequencesJudged
<1>12. CASE Register
  <2>1. /\ UNCHANGED <<checker, ans, ouf, i, o, n, verdict>>
        /\ verdict = "none" /\ phase = "register" /\ phase' = "pairs"
    BY <1>12 DEF Register, Running, files
  <2>2. n' = 0 /\ JType'
    BY <1>1, <2>1 DEF JType, LoopInv
  <2> QED
    BY <1>1, <2>1, <2>2 DEF JInv, LoopInv, SequencesJudged
<1> QED
  BY <1>2, <1>3, <1>4, <1>5, <1>6, <1>7, <1>8, <1>9, <1>10, <1>11, <1>12 DEF Next

\* Fifteen checkers accept exactly the outputs that match the answer, for files
\* of every length that could be opened (ncmp.cpp, wcmp.cpp, nyesno.cpp, rncmp.cpp, rcmp4.cpp,
\* rcmp6.cpp, rcmp9.cpp, icmp.cpp, acmp.cpp, rcmp.cpp, dcmp.cpp, yesno.cpp,
\* hcmp.cpp, fcmp.cpp, lcmp.cpp).
THEOREM JudgedCorrectly == Spec => []SequencesJudged
<1>1. JInv => SequencesJudged
  BY DEF JInv, Pairwise, SequencesJudged
<1> QED
  BY InitJ, NextJ, <1>1, PTL DEF Spec

-----------------------------------------------------------------------------
(***************************************************************************)
(* Every checker stays within its files.  Only the case checkers look for  *)
(* a position, and need that the first "Case" exists.                      *)
(***************************************************************************)

LEMMA FirstExists ==
  ASSUME NEW C, C \subseteq Nat, C # {}
  PROVE  \E x \in C : \A y \in C : x <= y
<1> DEFINE R == OpToRel(<, Nat)
<1>1. IsWellFoundedOn(R, Nat)
  BY NatLessThanWellFounded, Zenon
<1>2. PICK x \in C : \A y \in C : ~ (<<y, x>> \in R)
  <2> HIDE DEF R
  <2> QED
    BY <1>1, WFMin, Zenon
<1>3. \A y \in Nat : y < x => <<y, x>> \in R
  BY DEF OpToRel
<1> HIDE DEF R
<1>4. \A y \in C : ~ (y < x)
  BY <1>2, <1>3, Zenon
<1>5. \A y \in Nat : ~ (y < x) => x <= y
  BY x \in Nat
<1> QED
  BY <1>4, <1>5, Zenon

\* The end of a case lies after its label, and its tokens in the file.
LEMMA AfterInside ==
  ASSUME NEW s, NEW p \in Nat, NEW pre \in BOOLEAN, Len(s) \in Nat,
         LabelAt(p, pre) <= Len(s)
  PROVE  AfterCase(s, p, pre) \in 0..Len(s)
<1> DEFINE l == LabelAt(p, pre)
           C == {x \in (l + 1)..Len(s) : s[x].text = "Case"}
<1>1. l \in Nat
  BY DEF LabelAt
<1>2. CASE C = {}
  <2>1. EndsAt(s, l) = Len(s) + 1
    BY <1>2, Zenon DEF EndsAt
  <2> QED
    BY <2>1 DEF AfterCase
<1>3. CASE C # {}
  <2>1. EndsAt(s, l) = CHOOSE x \in C : \A y \in C : x <= y
    BY <1>3, Zenon DEF EndsAt
  <2>2. \E x \in C : \A y \in C : x <= y
    <3>1. C \subseteq Nat
      BY <1>1
    <3> HIDE DEF C
    <3> QED
      BY <1>3, <3>1, FirstExists
  <2>3. EndsAt(s, l) \in C
    <3> HIDE DEF C
    <3> QED
      BY <2>1, <2>2, Zenon
  <2> QED
    BY <1>1, <2>3 DEF AfterCase
<1> HIDE DEF C
<1> QED
  BY <1>2, <1>3

LEMMA InitTyped == Init => TypeOK
<1> SUFFICES ASSUME Init PROVE TypeOK
  OBVIOUS
<1>1. PICK in \in Inputs : checker = in.checker /\ ans = in.ans /\ ouf = in.ouf
  BY Zenon DEF Init
<1>2. in \in [checker : Names, ans : Seq(Token), ouf : Seq(Token)]
  BY <1>1, InputsAssumption, Zenon
<1>3. in.checker \in Names /\ in.ans \in Seq(Token) /\ in.ouf \in Seq(Token)
  <2> HIDE DEF Names, Token
  <2> QED
    BY <1>2
<1>4. checker \in Names /\ ans \in Seq(Token) /\ ouf \in Seq(Token)
  BY <1>1, <1>3, Zenon
<1>5. Len(ans) \in Nat /\ Len(ouf) \in Nat
  BY <1>4, LenProperties, Zenon
<1>6. /\ i \in 0..Len(ans) /\ o \in 0..Len(ouf) /\ n \in Nat
      /\ phase \in {"register", "pairs", "extras"} /\ preAns \in BOOLEAN /\ preOuf \in BOOLEAN
      /\ verdict \in {"none", "ok", "wa", "pe", "fail"}
      /\ refused \in Refusals \union {"none"}
  <2>1. /\ i = 0 /\ o = 0 /\ n = 0 /\ phase = "register"
        /\ preAns = FALSE /\ preOuf = FALSE /\ verdict = "none"
        /\ refused \in Refusals \union {"none"}
    BY Zenon DEF Init
  <2>2. i \in 0..Len(ans) /\ o \in 0..Len(ouf) /\ n \in Nat
    BY <1>5, <2>1
  <2> QED
    BY <2>1, <2>2, Zenon
<1> QED
  BY <1>4, <1>6, Zenon DEF TypeOK

LEMMA StepTyped == TypeOK /\ [Next]_vars => TypeOK'
<1> SUFFICES ASSUME TypeOK, [Next]_vars PROVE TypeOK'
  OBVIOUS
<1>1. Len(ans) \in Nat /\ Len(ouf) \in Nat /\ i \in Nat /\ o \in Nat
  BY DEF TypeOK
<1>2. ASSUME NEW code \in {"ok", "wa", "pe", "fail"}, Quit(code) PROVE TypeOK'
  BY <1>2 DEF Quit, files, TypeOK
<1>3. CASE PairUnreadable \/ PairsDone
  BY <1>2, <1>3 DEF PairUnreadable, PairsDone
<1>4. CASE PairCompared
  <2>1. verdict' \in {"none", "wa", "pe", "fail"}
    BY <1>4 DEF PairCompared, PairVerdict
  <2> QED
    BY <1>1, <1>4, <2>1 DEF PairCompared, PairReadable, AnsEof, OufEof, files, TypeOK
<1>5. CASE WordsDone \/ ExtrasCounted
  BY <1>2, <1>5 DEF WordsDone, ExtrasCounted
<1>6. CASE CountExtras
  BY <1>6 DEF CountExtras, files, TypeOK
<1>7. CASE ExtraAns
  <2>1. CASE Quit("pe")
    BY <1>2, <2>1
  <2>2. CASE ~ Quit("pe")
    BY <1>1, <1>7, <2>2 DEF ExtraAns, AnsEof, files, TypeOK
  <2> QED
    BY <2>1, <2>2
<1>8. CASE ExtraOuf
  <2>1. CASE Quit("pe")
    BY <1>2, <2>1
  <2>2. CASE ~ Quit("pe")
    BY <1>1, <1>8, <2>2 DEF ExtraOuf, OufEof, files, TypeOK
  <2> QED
    BY <2>1, <2>2
<1>9. CASE Unordered
  <2>1. \E code \in {"ok", "wa", "pe"} : Quit(code)
    BY <1>9, Zenon DEF Unordered
  <2> QED
    BY <1>2, <2>1
<1>10. CASE ReadAnsCase
  <2>1. CASE Quit("pe")
    BY <1>2, <2>1
  <2>2. CASE ~ Quit("pe")
    BY <1>1, <1>10, <2>2 DEF ReadAnsCase, TripleAt, files, TypeOK
  <2> QED
    BY <2>1, <2>2
<1>11. CASE ReadOufCase
  <2>1. CASE Quit("pe")
    BY <1>2, <2>1
  <2>2. CASE ~ Quit("pe")
    BY <1>1, <1>11, <2>2 DEF ReadOufCase, TripleAt, files, TypeOK
  <2> QED
    BY <2>1, <2>2
<1>12. CASE CompareCases
  <2>1. \E code \in {"ok", "wa", "pe"} : Quit(code)
    BY <1>12, Zenon DEF CompareCases
  <2> QED
    BY <1>2, <2>1
<1>13. CASE CompareCase
  <2>1. /\ n' = n + 1 /\ UNCHANGED <<checker, ans, ouf, refused, phase>>
        /\ verdict' \in {"none", "wa", "pe"}
    BY <1>13 DEF CompareCase, files
  <2>2. CASE UNCHANGED <<i, o, preAns, preOuf>>
    BY <2>1, <2>2 DEF TypeOK
  <2>3. CASE ~ UNCHANGED <<i, o, preAns, preOuf>>
    <3>1. /\ CaseReadable(ans, i, preAns, n + 1) /\ CaseReadable(ouf, o, preOuf, n + 1)
          /\ i' = AfterCase(ans, i, preAns) /\ o' = AfterCase(ouf, o, preOuf)
          /\ preAns' \in BOOLEAN /\ preOuf' \in BOOLEAN
      BY <1>13, <2>3, Zenon DEF CompareCase, TypeOK
    <3>2. i' \in 0..Len(ans) /\ o' \in 0..Len(ouf)
      <4>1. LabelAt(i, preAns) <= Len(ans) /\ LabelAt(o, preOuf) <= Len(ouf)
        BY <3>1, Zenon DEF CaseReadable
      <4>2. preAns \in BOOLEAN /\ preOuf \in BOOLEAN
        BY DEF TypeOK
      <4> QED
        BY <1>1, <3>1, <4>1, <4>2, AfterInside
    <3> QED
      BY <2>1, <3>1, <3>2 DEF TypeOK
  <2> QED
    BY <2>2, <2>3
<1>14. CASE CasesDone
  BY <1>2, <1>14 DEF CasesDone
<1>15. CASE UNCHANGED vars
  BY <1>15 DEF vars, files, TypeOK
<1>16. CASE Refuse
  BY <1>2, <1>16 DEF Refuse
<1>17. CASE Register
  BY <1>17 DEF Register, files, TypeOK
<1> QED
  BY <1>3, <1>4, <1>5, <1>6, <1>7, <1>8, <1>9, <1>10, <1>11, <1>12, <1>13, <1>14,
     <1>15, <1>16, <1>17
     DEF Next

\* No checker reads past the end of a file, however long the files are.
THEOREM CheckersTyped == Spec => []TypeOK
  BY InitTyped, StepTyped, PTL DEF Spec

LEMMA StepBlames ==
  ASSUME TypeOK, FailBlamesAnswer, [Next]_vars
  PROVE  FailBlamesAnswer'
<1>1. UNCHANGED <<checker, ans, refused>>
  BY DEF Next, vars, files, Quit, Refuse, Register, PairUnreadable,
           PairCompared, PairsDone,
         WordsDone, CountExtras, ExtraAns, ExtraOuf, ExtrasCounted, Unordered,
         ReadAnsCase, ReadOufCase, CompareCases, CompareCase, CasesDone
<1>2. \A x : AnswerFails(ans[x])' <=> AnswerFails(ans[x])
  BY <1>1 DEF AnswerFails, Valid
<1>3. CASE PairCompared /\ verdict' = "fail"
  <2>1. AnswerFails(ans[i + 1])
    BY <1>3 DEF PairCompared, PairVerdict
  <2>2. i + 1 \in 1..Len(ans)
    BY <1>3 DEF PairCompared, PairReadable, AnsEof, TypeOK
  <2> QED
    BY <1>1, <1>2, <2>1, <2>2 DEF FailBlamesAnswer
<1>4. CASE ~ PairCompared /\ verdict' = "fail"
  <2>1. verdict = "fail" \/ refused # "none"
    BY <1>4, Zenon
    DEF Next, vars, files, Quit, Refuse, Register, PairUnreadable, PairsDone,
        WordsDone, CountExtras, ExtraAns, ExtraOuf, ExtrasCounted, Unordered,
        ReadAnsCase, ReadOufCase, CompareCases, CompareCase, CasesDone
  <2> QED
    BY <1>1, <1>2, <2>1 DEF FailBlamesAnswer
<1> QED
  BY <1>3, <1>4 DEF FailBlamesAnswer

\* "fail" is explained by a token of the answer, whatever the output holds, once
\* the three files are open (testlib.h:117-145; yesno.cpp, nyesno.cpp, hcmp.cpp).
THEOREM FailJustified == Spec => []FailBlamesAnswer
<1>1. Init => FailBlamesAnswer
  BY DEF Init, FailBlamesAnswer
<1>2. TypeOK /\ FailBlamesAnswer /\ [Next]_vars => FailBlamesAnswer'
  BY StepBlames
<1> QED
  BY CheckersTyped, <1>1, <1>2, PTL DEF Spec

=============================================================================
