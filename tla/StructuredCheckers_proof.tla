---------------------- MODULE StructuredCheckers_proof ----------------------
(***************************************************************************)
(* uncmp, caseicmp and the two case checkers judge files of any length and *)
(* any tokens correctly.  For uncmp that is a fact about sorting; the      *)
(* others have loop invariants that say which part of a file was read as   *)
(* which cases, although the case checkers have read a "Case" ahead.       *)
(***************************************************************************)
EXTENDS Checkers_proof, FiniteSetTheorems, FunctionTheorems

\* A file is read only.
LEMMA FilesKept == [Next]_vars => UNCHANGED files
BY DEF Next, vars, files, Quit, Refuse, Register, PairUnreadable, PairCompared,
       PairsDone, WordsDone, CountExtras, ExtraAns, ExtraOuf, ExtrasCounted, Unordered,
       ReadAnsCase, ReadOufCase, CompareCases, CompareCase, CasesDone

\* What it means to match depends on the files only.
LEMMA MatchKept ==
  ASSUME [Next]_vars
  PROVE  /\ SameMultiset' <=> SameMultiset
         /\ SameTriples' <=> SameTriples
         /\ SameCases' <=> SameCases
<1>1. UNCHANGED <<checker, ans, ouf>>
  BY FilesKept DEF files
<1>2. SameMultiset' <=> SameMultiset
  BY <1>1 DEF SameMultiset
<1>3. SameTriples' <=> SameTriples
  BY <1>1 DEF SameTriples, IsTriples
<1>4. SameCases' <=> SameCases
  BY <1>1 DEF SameCases, CaseCount, IsCase, SameBodies, Same, Close, Readable
<1>5. QED BY <1>2, <1>3, <1>4

-----------------------------------------------------------------------------
(***************************************************************************)
(* caseicmp.                                                               *)
(***************************************************************************)

\* The first t cases of s are as they should be.
TriplesTo(s, t) == \A k \in 1..t : TripleAt(s, 3 * (k - 1), k)

TriplesInv ==
  /\ phase \in {"register", "pairs"}
  /\ verdict = "none" =>
       /\ \E t \in Nat : i = 3 * t /\ TriplesTo(ans, t)
       /\ \E t \in Nat : o = 3 * t /\ TriplesTo(ouf, t)
  /\ verdict # "none" => (verdict = "ok" <=> SameTriples)

\* A file that is all triples, case by case.
LEMMA TriplesRead ==
  ASSUME NEW s, Len(s) \in Nat
  PROVE  IsTriples(s) <=> \E t \in Nat : Len(s) = 3 * t /\ TriplesTo(s, t)
<1>1. ASSUME IsTriples(s)
      PROVE  \E t \in Nat : Len(s) = 3 * t /\ TriplesTo(s, t)
  <2>1. PICK t \in Nat : Len(s) = 3 * t
    <3>1. Len(s) = 3 * (Len(s) \div 3) /\ Len(s) \div 3 \in Nat
      BY <1>1 DEF IsTriples
    <3>2. QED BY <3>1
  <2>2. ASSUME NEW k \in 1..t PROVE TripleAt(s, 3 * (k - 1), k)
    <3> DEFINE p == 3 * (k - 1)
    <3>1. p + 1 \in 1..Len(s) /\ p + 2 \in 1..Len(s) /\ p + 3 \in 1..Len(s)
      BY <2>1
    <3>2. (p + 1) % 3 = 1 /\ (p + 2) % 3 = 2 /\ (p + 3) % 3 = 0 /\ (p + 2) \div 3 + 1 = k
      OBVIOUS
    <3> HIDE DEF p
    <3>3. s[p + 1].text = "Case" /\ s[p + 2].label = k /\ s[p + 3].number
      BY <1>1, <3>1, <3>2 DEF IsTriples
    <3>4. QED BY <3>1, <3>3 DEF TripleAt, p
  <2>3. QED BY <2>1, <2>2 DEF TriplesTo
<1>2. ASSUME NEW t \in Nat, Len(s) = 3 * t, TriplesTo(s, t)
      PROVE  IsTriples(s)
  <2>1. ASSUME NEW x \in 1..Len(s)
        PROVE  CASE x % 3 = 1 -> s[x].text = "Case"
                 [] x % 3 = 2 -> s[x].label = x \div 3 + 1
                 [] OTHER     -> s[x].number
    <3> DEFINE k == (x - 1) \div 3 + 1
               p == 3 * (k - 1)
    <3>1. k \in 1..t /\ x \in {p + 1, p + 2, p + 3}
      BY <1>2
    <3>2. /\ x = p + 1 => x % 3 = 1
          /\ x = p + 2 => x % 3 = 2 /\ x \div 3 + 1 = k
          /\ x = p + 3 => x % 3 = 0
      OBVIOUS
    <3> HIDE DEF k
    <3>3. TripleAt(s, p, k)
      BY <1>2, <3>1 DEF TriplesTo
    <3> HIDE DEF p
    <3>4. QED BY <3>1, <3>2, <3>3 DEF TripleAt
  <2>2. QED BY <1>2, <2>1 DEF IsTriples
<1>3. QED BY <1>1, <1>2

\* One more case: the file goes on as it should, or is not all triples.
LEMMA NextTriple ==
  ASSUME NEW s, Len(s) \in Nat, NEW t \in Nat, 3 * t < Len(s), TriplesTo(s, t)
  PROVE  /\ TripleAt(s, 3 * t, t + 1) => TriplesTo(s, t + 1)
         /\ ~ TripleAt(s, 3 * t, t + 1) => ~ IsTriples(s)
<1>1. ASSUME TripleAt(s, 3 * t, t + 1) PROVE TriplesTo(s, t + 1)
  <2> SUFFICES ASSUME NEW k \in 1..(t + 1) PROVE TripleAt(s, 3 * (k - 1), k)
    BY DEF TriplesTo
  <2>1. CASE k = t + 1
    <3>1. 3 * (k - 1) = 3 * t
      BY <2>1
    <3>2. QED BY <1>1, <2>1, <3>1
  <2>2. CASE k \in 1..t
    BY <2>2 DEF TriplesTo
  <2>3. QED BY <2>1, <2>2
<1>2. ASSUME IsTriples(s) PROVE TripleAt(s, 3 * t, t + 1)
  <2>1. PICK u \in Nat : Len(s) = 3 * u /\ TriplesTo(s, u)
    BY <1>2, TriplesRead
  <2>2. t + 1 \in 1..u
    BY <2>1
  <2>3. TripleAt(s, 3 * ((t + 1) - 1), t + 1)
    BY <2>1, <2>2 DEF TriplesTo
  <2>4. (t + 1) - 1 = t
    OBVIOUS
  <2>5. QED BY <2>3, <2>4
<1>3. QED BY <1>1, <1>2

LEMMA TriplesStep ==
  TypeOK /\ checker = "caseicmp" /\ refused = "none" /\ TriplesInv /\ [Next]_vars => TriplesInv'
<1> SUFFICES ASSUME TypeOK, checker = "caseicmp", refused = "none", TriplesInv, [Next]_vars
             PROVE  TriplesInv'
  OBVIOUS
<1>1. Len(ans) \in Nat /\ Len(ouf) \in Nat /\ i \in 0..Len(ans) /\ o \in 0..Len(ouf)
  BY DEF TypeOK
<1>2. ans' = ans /\ ouf' = ouf /\ (SameTriples' <=> SameTriples)
  BY FilesKept, MatchKept DEF files
<1>3. ASSUME NEW code \in {"ok", "wa", "pe"}, Quit(code), code = "ok" <=> SameTriples
      PROVE  TriplesInv'
  BY <1>2, <1>3 DEF Quit, TriplesInv
<1>4. \A t \in Nat : (3 * t) \div 3 = t
  OBVIOUS
<1>5. CASE ReadAnsCase
  <2>1. PICK t \in Nat : i = 3 * t /\ TriplesTo(ans, t)
    BY <1>5 DEF ReadAnsCase, Running, TriplesInv
  <2>2. i \div 3 + 1 = t + 1 /\ 3 * t < Len(ans)
    BY <1>1, <1>4, <1>5, <2>1 DEF ReadAnsCase, AnsEof
  <2>3. CASE TripleAt(ans, i, i \div 3 + 1)
    <3>1. TriplesTo(ans, t + 1) /\ i' = 3 * (t + 1) /\ UNCHANGED <<o, phase, verdict>>
      BY <1>1, <1>5, <2>1, <2>2, <2>3, NextTriple DEF ReadAnsCase
    <3>2. TriplesTo(ans, t + 1)'
      BY <1>2, <3>1 DEF TriplesTo, TripleAt
    <3>3. \A u : TriplesTo(ouf, u)' <=> TriplesTo(ouf, u)
      BY <1>2 DEF TriplesTo, TripleAt
    <3>4. \E u \in Nat : i' = 3 * u /\ TriplesTo(ans, u)'
      <4>1. t + 1 \in Nat
        OBVIOUS
      <4>2. QED BY <3>1, <3>2, <4>1
    <3>5. QED BY <1>5, <3>1, <3>3, <3>4 DEF TriplesInv, ReadAnsCase, Running
  <2>4. CASE ~ TripleAt(ans, i, i \div 3 + 1)
    <3>1. Quit("pe") /\ ~ SameTriples
      BY <1>1, <1>5, <2>1, <2>2, <2>4, NextTriple DEF ReadAnsCase, SameTriples
    <3>2. QED BY <1>3, <3>1
  <2>5. QED BY <2>3, <2>4
<1>6. CASE ReadOufCase
  <2>1. PICK t \in Nat : o = 3 * t /\ TriplesTo(ouf, t)
    BY <1>6 DEF ReadOufCase, Running, TriplesInv
  <2>2. o \div 3 + 1 = t + 1 /\ 3 * t < Len(ouf)
    BY <1>1, <1>4, <1>6, <2>1 DEF ReadOufCase, OufEof
  <2>3. CASE TripleAt(ouf, o, o \div 3 + 1)
    <3>1. TriplesTo(ouf, t + 1) /\ o' = 3 * (t + 1) /\ UNCHANGED <<i, phase, verdict>>
      BY <1>1, <1>6, <2>1, <2>2, <2>3, NextTriple DEF ReadOufCase
    <3>2. TriplesTo(ouf, t + 1)'
      BY <1>2, <3>1 DEF TriplesTo, TripleAt
    <3>3. \A u : TriplesTo(ans, u)' <=> TriplesTo(ans, u)
      BY <1>2 DEF TriplesTo, TripleAt
    <3>4. \E u \in Nat : o' = 3 * u /\ TriplesTo(ouf, u)'
      <4>1. t + 1 \in Nat
        OBVIOUS
      <4>2. QED BY <3>1, <3>2, <4>1
    <3>5. QED BY <1>6, <3>1, <3>3, <3>4 DEF TriplesInv, ReadOufCase, Running
  <2>4. CASE ~ TripleAt(ouf, o, o \div 3 + 1)
    <3>1. Quit("pe") /\ ~ SameTriples
      BY <1>1, <1>6, <2>1, <2>2, <2>4, NextTriple DEF ReadOufCase, SameTriples
    <3>2. QED BY <1>3, <3>1
  <2>5. QED BY <2>3, <2>4
<1>7. CASE CompareCases
  <2>1. PICK t \in Nat, u \in Nat : /\ i = 3 * t /\ TriplesTo(ans, t)
                                    /\ o = 3 * u /\ TriplesTo(ouf, u)
    BY <1>7 DEF CompareCases, Running, TriplesInv
  <2>2. Len(ans) = 3 * t /\ Len(ouf) = 3 * u /\ i \div 3 = t /\ o \div 3 = u
    BY <1>4, <1>7, <2>1 DEF CompareCases, AnsEof, OufEof
  <2>3. IsTriples(ans) /\ IsTriples(ouf)
    BY <1>1, <2>1, <2>2, TriplesRead
  <2> DEFINE Differ == \E k \in 1..t : k <= u /\ ans[3 * k].value # ouf[3 * k].value
  <2>4. Quit(IF Differ THEN "wa" ELSE IF i # o THEN "pe" ELSE "ok")
    BY <1>7, <2>2, Zenon DEF CompareCases
  <2>5. SameTriples <=> ~ Differ /\ i = o
    <3>1. ASSUME SameTriples PROVE ~ Differ /\ i = o
      <4>1. t = u /\ i = o
        BY <2>1, <2>2, <3>1 DEF SameTriples
      <4>2. \A k \in 1..t : 3 * k \in 1..Len(ans) /\ (3 * k) % 3 = 0
        BY <2>2
      <4>3. ~ Differ
        BY <3>1, <4>2 DEF SameTriples
      <4>4. QED BY <4>1, <4>3
    <3>2. ASSUME ~ Differ, i = o PROVE SameTriples
      <4>1. t = u
        BY <2>1, <3>2
      <4>2. ASSUME NEW x \in 1..Len(ans), x % 3 = 0 PROVE ans[x].value = ouf[x].value
        <5>1. x = 3 * (x \div 3) /\ x \div 3 \in 1..t
          BY <2>2, <4>2
        <5>2. QED BY <3>2, <4>1, <5>1
      <4>3. QED BY <2>2, <2>3, <4>1, <4>2 DEF SameTriples
    <3>3. QED BY <3>1, <3>2
  <2> HIDE DEF Differ
  <2>6. QED BY <1>3, <2>4, <2>5
<1>8. CASE Register \/ UNCHANGED vars
  <2>1. UNCHANGED <<i, o, verdict>> /\ phase' \in {"register", "pairs"}
    BY <1>8 DEF Register, vars, TriplesInv
  <2>2. \A t : (TriplesTo(ans, t)' <=> TriplesTo(ans, t))
               /\ (TriplesTo(ouf, t)' <=> TriplesTo(ouf, t))
    BY <1>2 DEF TriplesTo, TripleAt
  <2>3. QED BY <1>2, <2>1, <2>2 DEF TriplesInv
<1>9. \/ ReadAnsCase \/ ReadOufCase \/ CompareCases
      \/ Register \/ UNCHANGED vars
  BY DEF Next, Refuse, PairUnreadable, PairCompared, PairsDone, WordsDone, CountExtras, ExtraAns,
         ExtraOuf, ExtrasCounted, Unordered, CompareCase, CasesDone, WantsPair, Running,
         TriplesInv, Single, AnswerDriven, Tolerant, Lines, Paired, Cases
<1>10. QED BY <1>5, <1>6, <1>7, <1>8, <1>9

-----------------------------------------------------------------------------
(***************************************************************************)
(* uncmp.  Where a value stands in the sorted sequence is a matter of how  *)
(* many values are below it and how many up to it.                         *)
(***************************************************************************)

ValuesOf(s) == {s[y].value : y \in 1..Len(s)}
Equal(s, v) == {y \in 1..Len(s) : s[y].value = v}
Below(s, v) == {y \in 1..Len(s) : s[y].value < v}
UpTo(s, v)  == {y \in 1..Len(s) : s[y].value <= v}

\* s is a finite sequence of values.
HasValues(s) == Len(s) \in Nat /\ \A y \in 1..Len(s) : s[y].value \in Int

LEMMA CountsFinite ==
  ASSUME NEW s, Len(s) \in Nat, NEW P, P \subseteq 1..Len(s)
  PROVE  /\ IsFiniteSet(P) /\ Cardinality(P) \in Nat /\ Cardinality(P) <= Len(s)
         /\ IsFiniteSet(1..Len(s)) /\ Cardinality(1..Len(s)) = Len(s)
<1>1. IsFiniteSet(1..Len(s)) /\ Cardinality(1..Len(s)) = Len(s)
  BY FS_Interval
<1>2. IsFiniteSet(P) /\ Cardinality(P) <= Cardinality(1..Len(s))
  BY <1>1, FS_Subset
<1>3. QED BY <1>1, <1>2, FS_CardinalityType

LEMMA CountsMonotone ==
  ASSUME NEW s, Len(s) \in Nat, NEW Q, Q \subseteq 1..Len(s), NEW P, P \subseteq Q
  PROVE  /\ Cardinality(P) <= Cardinality(Q)
         /\ P # Q => Cardinality(P) < Cardinality(Q)
<1>1. IsFiniteSet(Q) /\ Cardinality(Q) \in Nat
  BY CountsFinite
<1>2. Cardinality(P) \in Nat
  BY CountsFinite
<1>3. Cardinality(P) <= Cardinality(Q) /\ (Cardinality(Q) = Cardinality(P) => Q = P)
  BY <1>1, FS_Subset
<1>4. QED BY <1>1, <1>2, <1>3

\* A value accounts for the places between those below it and those up to it.
LEMMA CountsSplit ==
  ASSUME NEW s, HasValues(s), NEW v \in Int
  PROVE  /\ Cardinality(Below(s, v)) \in Nat /\ Cardinality(UpTo(s, v)) \in Nat
         /\ Cardinality(UpTo(s, v)) = Cardinality(Below(s, v)) + Cardinality(Equal(s, v))
<1>1. /\ Below(s, v) \subseteq 1..Len(s) /\ UpTo(s, v) \subseteq 1..Len(s)
      /\ Equal(s, v) \subseteq 1..Len(s)
  BY DEF Below, UpTo, Equal
<1>2. UpTo(s, v) = Below(s, v) \union Equal(s, v)
  BY DEF Below, UpTo, Equal, HasValues
<1>3. Below(s, v) \intersect Equal(s, v) = {}
  BY DEF Below, Equal, HasValues
<1>4. /\ IsFiniteSet(Below(s, v)) /\ Cardinality(Below(s, v)) \in Nat
      /\ IsFiniteSet(Equal(s, v)) /\ Cardinality(Equal(s, v)) \in Nat
      /\ Cardinality(UpTo(s, v)) \in Nat
  BY <1>1, CountsFinite DEF HasValues
<1>5. Cardinality(UpTo(s, v)) = Cardinality(Below(s, v)) + Cardinality(Equal(s, v))
                                - Cardinality(Below(s, v) \intersect Equal(s, v))
  BY <1>2, <1>4, FS_Union
<1>6. Cardinality(Below(s, v) \intersect Equal(s, v)) = 0
  BY <1>3, FS_EmptySet
<1>7. QED BY <1>4, <1>5, <1>6

\* What is up to a smaller value is below the larger one.
LEMMA CountsApart ==
  ASSUME NEW s, HasValues(s), NEW u \in Int, NEW v \in Int, u < v
  PROVE  Cardinality(UpTo(s, u)) <= Cardinality(Below(s, v))
<1>1. UpTo(s, u) \subseteq Below(s, v) /\ Below(s, v) \subseteq 1..Len(s)
  BY DEF UpTo, Below, HasValues
<1>2. QED BY <1>1, CountsMonotone DEF HasValues

\* Some position among P holds the largest value.
LEMMA LargestExists ==
  ASSUME NEW s, HasValues(s), NEW P, P \subseteq 1..Len(s), P # {}
  PROVE  \E y \in P : \A z \in P : s[z].value <= s[y].value
<1> DEFINE Above(y) == Len(s) - Cardinality(UpTo(s, s[y].value))
           C == {Above(y) : y \in P}
<1>1. \A y \in P : Above(y) \in Nat
  <2> TAKE y \in P
  <2>1. UpTo(s, s[y].value) \subseteq 1..Len(s)
    BY DEF UpTo
  <2>2. /\ Cardinality(UpTo(s, s[y].value)) \in Nat
        /\ Cardinality(UpTo(s, s[y].value)) <= Len(s)
    BY <2>1, CountsFinite DEF HasValues
  <2>3. QED BY <2>2 DEF HasValues
<1>2. C \subseteq Nat /\ C # {}
  <2> HIDE DEF Above
  <2>1. QED BY <1>1
<1>3. PICK m \in C : \A k \in C : m <= k
  <2> HIDE DEF C
  <2>1. QED BY <1>2, FirstExists, Zenon
<1>4. PICK y \in P : m = Above(y)
  BY <1>3
<1>5. ASSUME NEW z \in P, ~ (s[z].value <= s[y].value) PROVE FALSE
  <2>1. s[y].value \in Int /\ s[z].value \in Int /\ s[y].value < s[z].value
    BY <1>5 DEF HasValues
  <2>2. /\ UpTo(s, s[y].value) \subseteq UpTo(s, s[z].value)
        /\ z \in UpTo(s, s[z].value) /\ z \notin UpTo(s, s[y].value)
        /\ UpTo(s, s[z].value) \subseteq 1..Len(s)
    BY <2>1 DEF UpTo, HasValues
  <2>3. Cardinality(UpTo(s, s[y].value)) < Cardinality(UpTo(s, s[z].value))
    BY <2>2, CountsMonotone DEF HasValues
  <2>4. Above(y) <= Above(z)
    BY <1>3, <1>4
  <2>5. /\ Cardinality(UpTo(s, s[y].value)) \in Nat
        /\ Cardinality(UpTo(s, s[z].value)) \in Nat
    BY <2>1, CountsSplit
  <2>6. QED BY <2>3, <2>4, <2>5 DEF HasValues
<1>6. QED BY <1>5

\* The place x of a value, in the sorted sequence.
Place(s, v, x) == Cardinality(Below(s, v)) < x /\ x <= Cardinality(UpTo(s, v))

LEMMA PlaceExists ==
  ASSUME NEW s, HasValues(s), NEW x \in 1..Len(s)
  PROVE  \E v \in ValuesOf(s) : Place(s, v, x)
<1> DEFINE C == {Cardinality(UpTo(s, v)) : v \in {w \in ValuesOf(s) :
                                                    x <= Cardinality(UpTo(s, w))}}
<1>1. \A v \in ValuesOf(s) : v \in Int
  BY DEF ValuesOf, HasValues
<1>2. \A v \in ValuesOf(s) : Cardinality(UpTo(s, v)) \in Nat
  BY <1>1, CountsSplit
<1>3. C # {}
  <2>1. 1..Len(s) # {}
    OBVIOUS
  <2>2. PICK y \in 1..Len(s) : \A z \in 1..Len(s) : s[z].value <= s[y].value
    BY <2>1, LargestExists, Zenon
  <2>3. UpTo(s, s[y].value) = 1..Len(s)
    BY <2>2 DEF UpTo
  <2>4. x <= Cardinality(UpTo(s, s[y].value))
    BY <2>3, CountsFinite DEF HasValues
  <2>5. QED BY <2>4 DEF ValuesOf
<1>4. C \subseteq Nat
  BY <1>2
<1>5. PICK m \in C : \A k \in C : m <= k
  <2> HIDE DEF C
  <2>1. QED BY <1>3, <1>4, FirstExists, Zenon
<1>6. PICK v \in ValuesOf(s) : x <= Cardinality(UpTo(s, v)) /\ m = Cardinality(UpTo(s, v))
  BY <1>5
<1>7. ASSUME ~ (Cardinality(Below(s, v)) < x) PROVE FALSE
  <2>1. /\ v \in Int /\ Cardinality(Below(s, v)) \in Nat
        /\ Below(s, v) \subseteq 1..Len(s) /\ x <= Cardinality(Below(s, v))
    <3>1. v \in Int /\ Below(s, v) \subseteq 1..Len(s)
      BY <1>1 DEF Below
    <3>2. Cardinality(Below(s, v)) \in Nat
      BY <3>1, CountsSplit
    <3>3. QED BY <1>7, <3>1, <3>2
  <2>2. Below(s, v) # {}
    <3>1. Cardinality({}) = 0
      BY FS_EmptySet
    <3>2. Cardinality(Below(s, v)) # 0
      BY <2>1
    <3>3. QED BY <3>1, <3>2
  <2>3. PICK y \in Below(s, v) : \A z \in Below(s, v) : s[z].value <= s[y].value
    BY <2>1, <2>2, LargestExists, Zenon
  <2>4. /\ s[y].value \in ValuesOf(s) /\ s[y].value \in Int /\ s[y].value < v
        /\ UpTo(s, s[y].value) = Below(s, v)
    BY <2>1, <2>3 DEF Below, UpTo, ValuesOf, HasValues
  <2>5. m <= Cardinality(Below(s, v))
    BY <1>5, <2>1, <2>4
  <2>6. Cardinality(Equal(s, v)) # 0
    <3>1. Equal(s, v) # {} /\ Equal(s, v) \subseteq 1..Len(s)
      BY DEF ValuesOf, Equal
    <3>2. IsFiniteSet(Equal(s, v))
      BY <3>1, CountsFinite DEF HasValues
    <3>3. QED BY <3>1, <3>2, FS_EmptySet
  <2>7. Cardinality(Equal(s, v)) \in Nat
    BY CountsFinite DEF Equal, HasValues
  <2>8. QED BY <1>6, <2>1, <2>5, <2>6, <2>7, CountsSplit
<1>8. QED BY <1>6, <1>7 DEF Place

LEMMA PlaceUnique ==
  ASSUME NEW s, HasValues(s), NEW x \in Nat, NEW u \in Int, NEW v \in Int,
         Place(s, u, x), Place(s, v, x)
  PROVE  u = v
<1>1. /\ Cardinality(Below(s, u)) \in Nat /\ Cardinality(UpTo(s, u)) \in Nat
      /\ Cardinality(Below(s, v)) \in Nat /\ Cardinality(UpTo(s, v)) \in Nat
  BY CountsSplit
<1>2. u < v => FALSE
  BY <1>1, CountsApart DEF Place
<1>3. v < u => FALSE
  BY <1>1, CountsApart DEF Place
<1>4. QED BY <1>2, <1>3

\* The sorted sequence holds at each place the value whose place it is.
LEMMA SortedValues ==
  ASSUME NEW s, HasValues(s)
  PROVE  /\ Sorted(s) = [x \in 1..Len(s) |-> CHOOSE v \in ValuesOf(s) : Place(s, v, x)]
         /\ \A x \in 1..Len(s) : /\ Sorted(s)[x] \in ValuesOf(s)
                                 /\ Place(s, Sorted(s)[x], x)
<1>1. Sorted(s) = [x \in 1..Len(s) |-> CHOOSE v \in ValuesOf(s) : Place(s, v, x)]
  BY Zenon DEF Sorted, ValuesOf, Place, Below, UpTo
<1>2. ASSUME NEW x \in 1..Len(s)
      PROVE  Sorted(s)[x] \in ValuesOf(s) /\ Place(s, Sorted(s)[x], x)
  <2>1. Sorted(s)[x] = CHOOSE v \in ValuesOf(s) : Place(s, v, x)
    BY <1>1, Zenon
  <2>2. QED BY <2>1, PlaceExists, Zenon
<1>3. QED BY <1>1, <1>2

\* So a value occurs as often in the sorted sequence as in the file.
LEMMA SortedCounts ==
  ASSUME NEW s, HasValues(s), NEW v \in Int
  PROVE  Cardinality({x \in 1..Len(s) : Sorted(s)[x] = v}) = Cardinality(Equal(s, v))
<1> DEFINE X == {x \in 1..Len(s) : Sorted(s)[x] = v}
           b == Cardinality(Below(s, v))
           e == Cardinality(UpTo(s, v))
<1>1. b \in Nat /\ e \in Nat /\ Cardinality(Equal(s, v)) = e - b /\ e <= Len(s) /\ b <= e
  <2>1. Equal(s, v) \subseteq 1..Len(s) /\ UpTo(s, v) \subseteq 1..Len(s)
    BY DEF Equal, UpTo
  <2>2. Cardinality(Equal(s, v)) \in Nat /\ Cardinality(UpTo(s, v)) <= Len(s)
    BY <2>1, CountsFinite DEF HasValues
  <2>3. /\ Cardinality(Below(s, v)) \in Nat /\ Cardinality(UpTo(s, v)) \in Nat
        /\ Cardinality(UpTo(s, v)) = Cardinality(Below(s, v)) + Cardinality(Equal(s, v))
    BY CountsSplit
  <2>4. QED BY <2>2, <2>3
<1>2. X = (b + 1)..e
  <2>1. ASSUME NEW x \in X PROVE x \in (b + 1)..e
    BY <1>1, SortedValues DEF Place
  <2>2. ASSUME NEW x \in (b + 1)..e PROVE x \in X
    <3>1. x \in 1..Len(s) /\ Place(s, v, x)
      BY <1>1 DEF Place, HasValues
    <3>2. Sorted(s)[x] \in Int /\ Place(s, Sorted(s)[x], x)
      BY <3>1, SortedValues DEF ValuesOf, HasValues
    <3>3. QED BY <3>1, <3>2, PlaceUnique
  <2>3. QED BY <2>1, <2>2
<1> HIDE DEF X, b, e
<1>3. Cardinality((b + 1)..e) = IF b + 1 > e THEN 0 ELSE e - (b + 1) + 1
  <2>1. b + 1 \in Int /\ e \in Int
    BY <1>1
  <2> DEFINE a == b + 1
  <2> HIDE DEF a
  <2>2. Cardinality(a..e) = IF a > e THEN 0 ELSE e - a + 1
    BY <2>1, FS_Interval DEF a
  <2>3. QED BY <2>2 DEF a
<1>4. Cardinality(X) = Cardinality(Equal(s, v))
  BY <1>1, <1>2, <1>3
<1>5. QED BY <1>4 DEF X

\* When the values of W occur as often in both files, so do all of them
\* together: the matchings of the single values make up one of all.
Among(s, W) == {y \in 1..Len(s) : s[y].value \in W}

LEMMA CountsAdd ==
  ASSUME NEW s, HasValues(s), NEW t, HasValues(t), NEW W,
         \A v \in W : Cardinality(Equal(s, v)) = Cardinality(Equal(t, v))
  PROVE  Cardinality(Among(s, W)) = Cardinality(Among(t, W))
<1> DEFINE f(v) == CHOOSE g : g \in Bijection(Equal(s, v), Equal(t, v))
           F == [y \in Among(s, W) |-> f(s[y].value)[y]]
<1>1. ASSUME NEW v \in W PROVE f(v) \in Bijection(Equal(s, v), Equal(t, v))
  <2>1. Equal(s, v) \subseteq 1..Len(s) /\ Equal(t, v) \subseteq 1..Len(t)
    BY DEF Equal
  <2>2. IsFiniteSet(Equal(s, v)) /\ IsFiniteSet(Equal(t, v))
    BY <2>1, CountsFinite DEF HasValues
  <2>3. ExistsBijection(Equal(s, v), Equal(t, v))
    BY <2>2, FS_SameCardinalityBij
  <2>4. QED BY <2>3, Zenon DEF ExistsBijection
<1>2. ASSUME NEW v \in W
      PROVE  /\ \A y \in Equal(s, v) : f(v)[y] \in Equal(t, v)
             /\ \A y, z \in Equal(s, v) : f(v)[y] = f(v)[z] => y = z
             /\ \A x \in Equal(t, v) : \E y \in Equal(s, v) : f(v)[y] = x
  <2> DEFINE g == f(v)
  <2>1. g \in Bijection(Equal(s, v), Equal(t, v))
    BY <1>1
  <2> HIDE DEF g
  <2>2. QED BY <2>1 DEF Bijection, Injection, Surjection, IsInjective, g
<1> HIDE DEF f
<1>3. ASSUME NEW y \in Among(s, W)
      PROVE  F[y] \in Among(t, W) /\ t[F[y]].value = s[y].value
  <2>1. s[y].value \in W /\ y \in Equal(s, s[y].value) /\ F[y] = f(s[y].value)[y]
    BY DEF Among, Equal
  <2>2. F[y] \in Equal(t, s[y].value)
    BY <1>2, <2>1, Zenon
  <2>3. QED BY <2>1, <2>2 DEF Among, Equal
<1>4. ASSUME NEW y \in Among(s, W), NEW z \in Among(s, W), F[y] = F[z] PROVE y = z
  <2>1. s[y].value = s[z].value
    BY <1>3, <1>4, Zenon
  <2>2. s[y].value \in W /\ y \in Equal(s, s[y].value) /\ z \in Equal(s, s[y].value)
    BY <2>1 DEF Among, Equal
  <2>3. f(s[y].value)[y] = f(s[y].value)[z]
    BY <1>4, <2>1
  <2>4. QED BY <1>2, <2>2, <2>3, Zenon
<1>5. ASSUME NEW x \in Among(t, W) PROVE \E y \in Among(s, W) : F[y] = x
  <2>1. t[x].value \in W /\ x \in Equal(t, t[x].value)
    BY DEF Among, Equal
  <2>2. PICK y \in Equal(s, t[x].value) : f(t[x].value)[y] = x
    BY <1>2, <2>1, Zenon
  <2>3. y \in Among(s, W) /\ s[y].value = t[x].value
    BY <2>1, <2>2 DEF Among, Equal
  <2>4. QED BY <2>2, <2>3
<1>6. F \in [Among(s, W) -> Among(t, W)]
  BY <1>3
<1> HIDE DEF F
<1>7. F \in Bijection(Among(s, W), Among(t, W))
  BY <1>4, <1>5, <1>6, Fun_IsBij
<1>8. IsFiniteSet(Among(s, W))
  <2>1. Among(s, W) \subseteq 1..Len(s)
    BY DEF Among
  <2>2. QED BY <2>1, CountsFinite DEF HasValues
<1>9. QED BY <1>7, <1>8, FS_Bijection DEF ExistsBijection

\* Sorting finds out exactly whether the values are the same, as often.
LEMMA SortedSame ==
  ASSUME NEW s, HasValues(s), NEW t, HasValues(t)
  PROVE  Len(s) = Len(t) /\ Sorted(s) = Sorted(t)
           <=> \A v \in ValuesOf(s) \union ValuesOf(t) :
                 Cardinality(Equal(s, v)) = Cardinality(Equal(t, v))
<1>1. \A v \in ValuesOf(s) \union ValuesOf(t) : v \in Int
  BY DEF ValuesOf, HasValues
<1>2. ASSUME Len(s) = Len(t), Sorted(s) = Sorted(t), NEW v \in ValuesOf(s) \union ValuesOf(t)
      PROVE  Cardinality(Equal(s, v)) = Cardinality(Equal(t, v))
  <2>1. {x \in 1..Len(s) : Sorted(s)[x] = v} = {x \in 1..Len(t) : Sorted(t)[x] = v}
    BY <1>2
  <2>2. /\ Cardinality({x \in 1..Len(s) : Sorted(s)[x] = v}) = Cardinality(Equal(s, v))
        /\ Cardinality({x \in 1..Len(t) : Sorted(t)[x] = v}) = Cardinality(Equal(t, v))
    BY <1>1, SortedCounts
  <2>3. QED BY <2>1, <2>2
<1>3. ASSUME \A v \in ValuesOf(s) \union ValuesOf(t) :
               Cardinality(Equal(s, v)) = Cardinality(Equal(t, v))
      PROVE  Len(s) = Len(t) /\ Sorted(s) = Sorted(t)
  <2>1. ASSUME NEW v \in Int PROVE Cardinality(Equal(s, v)) = Cardinality(Equal(t, v))
    <3>1. CASE v \notin ValuesOf(s) \union ValuesOf(t)
      <4>1. Equal(s, v) = {} /\ Equal(t, v) = {}
        BY <3>1 DEF ValuesOf, Equal
      <4>2. QED BY <4>1
    <3>2. QED BY <1>3, <3>1
  <2>2. ASSUME NEW W, W \subseteq Int
        PROVE  Cardinality(Among(s, W)) = Cardinality(Among(t, W))
    BY <2>1, <2>2, CountsAdd
  <2>3. Len(s) = Len(t)
    <3>1. Among(s, Int) = 1..Len(s) /\ Among(t, Int) = 1..Len(t)
      BY DEF Among, HasValues
    <3>2. Cardinality(1..Len(s)) = Cardinality(1..Len(t))
      BY <2>2, <3>1
    <3>3. QED BY <3>2, CountsFinite DEF HasValues
  <2>4. ValuesOf(s) = ValuesOf(t)
    <3>1. \A v \in Int : Equal(s, v) = {} <=> Equal(t, v) = {}
      <4> TAKE v \in Int
      <4>1. Equal(s, v) \subseteq 1..Len(s) /\ Equal(t, v) \subseteq 1..Len(t)
        BY DEF Equal
      <4>2. IsFiniteSet(Equal(s, v)) /\ IsFiniteSet(Equal(t, v))
        BY <4>1, CountsFinite DEF HasValues
      <4>3. QED BY <2>1, <4>2, FS_EmptySet
    <3>2. \A v \in Int : /\ v \in ValuesOf(s) <=> Equal(s, v) # {}
                         /\ v \in ValuesOf(t) <=> Equal(t, v) # {}
      BY DEF ValuesOf, Equal
    <3>3. \A v : v \in ValuesOf(s) \/ v \in ValuesOf(t) => v \in Int
      BY <1>1
    <3>4. QED BY <3>1, <3>2, <3>3
  <2>5. ASSUME NEW v \in Int, NEW x PROVE Place(s, v, x) <=> Place(t, v, x)
    <3>1. {u \in Int : u < v} \subseteq Int /\ {u \in Int : u <= v} \subseteq Int
      OBVIOUS
    <3>2. /\ Below(s, v) = Among(s, {u \in Int : u < v})
          /\ Below(t, v) = Among(t, {u \in Int : u < v})
          /\ UpTo(s, v) = Among(s, {u \in Int : u <= v})
          /\ UpTo(t, v) = Among(t, {u \in Int : u <= v})
      BY DEF Below, UpTo, Among, HasValues
    <3>3. /\ Cardinality(Below(s, v)) = Cardinality(Below(t, v))
          /\ Cardinality(UpTo(s, v)) = Cardinality(UpTo(t, v))
      BY <2>2, <3>1, <3>2
    <3>4. QED BY <3>3 DEF Place
  <2>6. \A x \in 1..Len(s) : Sorted(s)[x] = Sorted(t)[x]
    <3> TAKE x \in 1..Len(s)
    <3>1. /\ Sorted(s)[x] \in ValuesOf(s) /\ Place(s, Sorted(s)[x], x)
          /\ Sorted(t)[x] \in ValuesOf(t) /\ Place(t, Sorted(t)[x], x)
      BY <2>3, SortedValues
    <3>2. Sorted(s)[x] \in Int /\ Sorted(t)[x] \in Int
      BY <1>1, <3>1
    <3>3. Place(s, Sorted(t)[x], x)
      BY <2>5, <3>1, <3>2
    <3>4. QED BY <3>1, <3>2, <3>3, PlaceUnique
  <2>7. Sorted(s) = Sorted(t)
    <3> DEFINE S(x) == CHOOSE v \in ValuesOf(s) : Place(s, v, x)
               T(x) == CHOOSE v \in ValuesOf(t) : Place(t, v, x)
    <3>1. Sorted(s) = [x \in 1..Len(s) |-> S(x)] /\ Sorted(t) = [x \in 1..Len(t) |-> T(x)]
      BY SortedValues
    <3> HIDE DEF S, T
    <3>2. \A x \in 1..Len(s) : S(x) = T(x)
      BY <2>3, <2>6, <3>1
    <3>3. QED BY <2>3, <3>1, <3>2
  <2>8. QED BY <2>3, <2>7
<1>4. QED BY <1>2, <1>3

UnorderedInv ==
  /\ phase \in {"register", "pairs"}
  /\ verdict # "none" => (verdict = "ok" <=> SameMultiset)

LEMMA UnorderedStep ==
  TypeOK /\ checker = "uncmp" /\ refused = "none" /\ UnorderedInv /\ [Next]_vars => UnorderedInv'
<1> SUFFICES ASSUME TypeOK, checker = "uncmp", refused = "none", UnorderedInv, [Next]_vars
             PROVE  UnorderedInv'
  OBVIOUS
<1>1. HasValues(ans) /\ HasValues(ouf)
  <2>1. ASSUME NEW s \in Seq(Token) PROVE HasValues(s)
    <3>1. Len(s) \in Nat /\ \A y \in 1..Len(s) : s[y] \in Token
      <4> HIDE DEF Token
      <4>1. QED OBVIOUS
    <3>2. \A t \in Token : t.value \in Int
      BY DEF Token
    <3>3. QED BY <3>1, <3>2 DEF HasValues
  <2>2. QED BY <2>1 DEF TypeOK
<1>2. SameMultiset' <=> SameMultiset
  BY MatchKept
<1>3. CASE Unordered
  <2> DEFINE tokens == {ans[x] : x \in 1..Len(ans)} \union {ouf[x] : x \in 1..Len(ouf)}
             bad == \E t \in tokens : ~ Readable(t)
  <2>1. Quit(IF bad THEN "pe"
             ELSE IF Len(ans) # Len(ouf) THEN "wa"
             ELSE IF Sorted(ans) # Sorted(ouf) THEN "wa" ELSE "ok")
    BY <1>3, Zenon DEF Unordered
  <2>2. \A t \in tokens : Readable(t) <=> t.number
    BY DEF Readable, Lines
  <2>3. SameMultiset <=>
          ~ bad /\ \A v \in ValuesOf(ans) \union ValuesOf(ouf) :
                     Cardinality(Equal(ans, v)) = Cardinality(Equal(ouf, v))
    BY <2>2, Zenon DEF SameMultiset, ValuesOf, Equal
  <2>4. SameMultiset <=> ~ bad /\ Len(ans) = Len(ouf) /\ Sorted(ans) = Sorted(ouf)
    BY <1>1, <2>3, SortedSame
  <2> HIDE DEF bad
  <2>5. /\ phase' = phase /\ verdict' # "none"
        /\ verdict' = "ok" <=> ~ bad /\ Len(ans) = Len(ouf) /\ Sorted(ans) = Sorted(ouf)
    BY <2>1 DEF Quit
  <2>6. QED BY <1>2, <2>4, <2>5, Zenon DEF UnorderedInv
<1>4. CASE Register \/ UNCHANGED vars
  BY <1>2, <1>4 DEF Register, vars, UnorderedInv
<1>5. Unordered \/ Register \/ UNCHANGED vars
  BY DEF Next, Refuse, PairUnreadable, PairCompared, PairsDone, WordsDone, CountExtras, ExtraAns,
         ExtraOuf, ExtrasCounted, ReadAnsCase, ReadOufCase, CompareCases, CompareCase,
         CasesDone, WantsPair, Running, UnorderedInv, Single, AnswerDriven, Tolerant,
         Lines, Paired, Cases
<1>6. QED BY <1>3, <1>4, <1>5

-----------------------------------------------------------------------------
(***************************************************************************)
(* casencmp and casewcmp.  The program knows positions, the property knows *)
(* the number of a case: the rank of its "Case" among those of the file.   *)
(***************************************************************************)

StartsTo(s, x) == {y \in Starts(s) : y <= x}
Rank(s, x)     == Cardinality(StartsTo(s, x))

LEMMA StartsFinite ==
  ASSUME NEW s, Len(s) \in Nat
  PROVE  /\ Starts(s) \subseteq 1..Len(s)
         /\ IsFiniteSet(Starts(s)) /\ Cardinality(Starts(s)) \in Nat
         /\ \A x : StartsTo(s, x) \subseteq Starts(s) /\ IsFiniteSet(StartsTo(s, x))
                   /\ Rank(s, x) \in Nat /\ Rank(s, x) <= Cardinality(Starts(s))
<1>1. Starts(s) \subseteq 1..Len(s) /\ \A x : StartsTo(s, x) \subseteq Starts(s)
  BY DEF Starts, StartsTo
<1>2. \A x : StartsTo(s, x) \subseteq 1..Len(s)
  BY <1>1
<1>3. QED BY <1>1, <1>2, CountsFinite, CountsMonotone DEF Rank

\* A later "Case" has a larger rank, so a rank belongs to one of them.
LEMMA RankOrder ==
  ASSUME NEW s, Len(s) \in Nat, NEW x \in Starts(s), NEW y \in Starts(s), x < y
  PROVE  Rank(s, x) < Rank(s, y)
<1>1. x \in Int /\ y \in Int /\ \A z \in Starts(s) : z \in Int
  BY StartsFinite
<1>2. /\ StartsTo(s, x) \subseteq StartsTo(s, y)
      /\ y \in StartsTo(s, y) /\ y \notin StartsTo(s, x)
  <2>1. \A z : z \in StartsTo(s, x) => z \in StartsTo(s, y)
    BY <1>1 DEF StartsTo
  <2>2. y \in StartsTo(s, y) /\ y \notin StartsTo(s, x)
    BY <1>1 DEF StartsTo
  <2>3. QED BY <2>1, <2>2
<1>3. StartsTo(s, y) \subseteq 1..Len(s)
  BY StartsFinite
<1>4. QED BY <1>2, <1>3, CountsMonotone DEF Rank

LEMMA StartAt ==
  ASSUME NEW s, Len(s) \in Nat, NEW x \in Starts(s)
  PROVE  StartOf(s, Rank(s, x)) = x
<1>1. \A y \in Starts(s) : Rank(s, y) = Rank(s, x) => y = x
  <2> SUFFICES ASSUME NEW y \in Starts(s), Rank(s, y) = Rank(s, x), y # x PROVE FALSE
    OBVIOUS
  <2>1. x < y \/ y < x
    BY StartsFinite
  <2>2. Rank(s, x) \in Nat /\ Rank(s, y) \in Nat
    BY StartsFinite
  <2>3. QED BY <2>1, <2>2, RankOrder
<1>2. StartOf(s, Rank(s, x)) = CHOOSE y \in Starts(s) : Rank(s, y) = Rank(s, x)
  BY Zenon DEF StartOf, Rank, StartsTo
<1>3. QED BY <1>1, <1>2, Zenon

\* The "Case" after the one at q, if there is one, has the next rank.
LEMMA NextStart ==
  ASSUME NEW s, Len(s) \in Nat, NEW q \in Starts(s)
  PROVE  LET later == {x \in Starts(s) : q < x}
         IN  /\ later = {} => Cardinality(Starts(s)) = Rank(s, q)
             /\ \A e \in later : (\A x \in later : e <= x) => Rank(s, e) = Rank(s, q) + 1
<1> DEFINE later == {x \in Starts(s) : q < x}
<1>1. q \in Int /\ \A x \in Starts(s) : x \in Int
  BY StartsFinite
<1>2. ASSUME later = {} PROVE Cardinality(Starts(s)) = Rank(s, q)
  <2>1. StartsTo(s, q) = Starts(s)
    <3>1. \A x \in Starts(s) : x \in StartsTo(s, q)
      BY <1>1, <1>2 DEF StartsTo
    <3>2. QED BY <3>1 DEF StartsTo
  <2>2. QED BY <2>1 DEF Rank
<1>3. ASSUME NEW e \in later, \A x \in later : e <= x PROVE Rank(s, e) = Rank(s, q) + 1
  <2>1. StartsTo(s, e) = StartsTo(s, q) \union {e} /\ e \notin StartsTo(s, q)
    <3>1. e \in Starts(s) /\ e \in Int /\ q < e
      BY <1>1
    <3>2. \A x \in Starts(s) : x <= e <=> x <= q \/ x = e
      <4> TAKE x \in Starts(s)
      <4>1. q < x => e <= x
        BY <1>3
      <4>2. QED BY <1>1, <3>1, <4>1
    <3>3. \A x : x \in StartsTo(s, e) <=> x \in StartsTo(s, q) \union {e}
      BY <3>1, <3>2 DEF StartsTo
    <3>4. e \notin StartsTo(s, q)
      BY <1>1, <3>1 DEF StartsTo
    <3>5. QED BY <3>3, <3>4
  <2>2. IsFiniteSet(StartsTo(s, q))
    BY StartsFinite
  <2>3. QED BY <2>1, <2>2, FS_AddElement DEF Rank
<1>4. QED BY <1>2, <1>3

\* The first token of a file that begins with "Case" has rank 1.
LEMMA FirstRank ==
  ASSUME NEW s, Len(s) \in Nat, 1 \in Starts(s)
  PROVE  Rank(s, 1) = 1 /\ Cardinality(Starts(s)) >= 1
<1>1. StartsTo(s, 1) = {1}
  <2>1. \A y \in Starts(s) : y \in Int /\ y >= 1
    BY StartsFinite
  <2>2. QED BY <2>1 DEF StartsTo
<1>2. Rank(s, 1) = 1
  BY <1>1, FS_Singleton DEF Rank
<1>3. QED BY <1>2, StartsFinite

\* Where the case at q ends, when its label is one.
LEMMA EndOfCase ==
  ASSUME NEW s \in Seq(Token), NEW q \in Starts(s), q < Len(s), s[q + 1].label # 0
  PROVE  LET e == EndsAt(s, q + 1)
         IN  \/ e = Len(s) + 1 /\ Cardinality(Starts(s)) = Rank(s, q)
             \/ /\ e \in (q + 2)..Len(s) /\ e \in Starts(s)
                /\ Rank(s, e) = Rank(s, q) + 1
                /\ Rank(s, q) < Cardinality(Starts(s))
<1> DEFINE C == {x \in (q + 2)..Len(s) : s[x].text = "Case"}
           e == EndsAt(s, q + 1)
<1>1. Len(s) \in Nat /\ q \in 1..Len(s)
  BY DEF Starts
<1>2. s[q + 1].text # "Case"
  <2>1. s[q + 1] \in Token
    <3> HIDE DEF Token
    <3>1. QED BY <1>1
  <2>2. QED BY <2>1 DEF Token
<1>3. C = {x \in Starts(s) : q < x}
  BY <1>1, <1>2 DEF Starts
<1>4. e = IF C = {} THEN Len(s) + 1 ELSE CHOOSE x \in C : \A y \in C : x <= y
  <2> DEFINE D == {x \in ((q + 1) + 1)..Len(s) : s[x].text = "Case"}
  <2>1. e = IF D = {} THEN Len(s) + 1 ELSE CHOOSE x \in D : \A y \in D : x <= y
    BY Zenon DEF EndsAt
  <2>2. (q + 1) + 1 = q + 2
    BY <1>1
  <2>3. D = C
    BY <2>2
  <2> HIDE DEF C, D, e
  <2>4. QED BY <2>1, <2>3
<1>5. CASE C = {}
  BY <1>1, <1>3, <1>4, <1>5, NextStart
<1>6. CASE C # {}
  <2>1. C \subseteq Nat
    BY <1>1
  <2>2. e \in C /\ \A y \in C : e <= y
    <3>1. \E x \in C : \A y \in C : x <= y
      <4> HIDE DEF C
      <4>1. QED BY <1>6, <2>1, FirstExists, Zenon
    <3>2. e = CHOOSE x \in C : \A y \in C : x <= y
      BY <1>4, <1>6
    <3> HIDE DEF C, e
    <3>3. QED BY <3>1, <3>2, Zenon
  <2>3. e \in (q + 2)..Len(s) /\ e \in Starts(s)
    BY <1>3, <2>2, Zenon
  <2>4. Rank(s, e) = Rank(s, q) + 1
    <3> HIDE DEF C, e
    <3>1. QED BY <1>1, <1>3, <2>2, NextStart
  <2>5. Rank(s, q) < Cardinality(Starts(s))
    <3> HIDE DEF e
    <3>1. QED BY <1>1, <2>4, StartsFinite
  <2>6. QED BY <2>3, <2>4, <2>5
<1>7. QED BY <1>5, <1>6

\* What the case at q is, by position.
LEMMA CaseByPosition ==
  ASSUME NEW s \in Seq(Token), NEW q \in Starts(s), NEW t \in Nat, t = Rank(s, q), t # 0
  PROVE  LET e == EndsAt(s, q + 1)
             good == /\ q < Len(s) /\ s[q + 1].label = t
                     /\ \A x \in (q + 2)..(e - 1) : Readable(s[x])
         IN  /\ IsCase(s, t) <=> good
             /\ good => Body(s, t) = SubSeq(s, q + 2, e - 1)
<1> DEFINE e == EndsAt(s, q + 1)
<1>1. Len(s) \in Nat /\ q \in 1..Len(s)
  BY DEF Starts
<1>2. StartOf(s, t) = q /\ t <= Cardinality(Starts(s))
  BY <1>1, StartAt, StartsFinite
<1>3. ASSUME q < Len(s), s[q + 1].label = t
      PROVE  /\ Body(s, t) = SubSeq(s, q + 2, e - 1)
             /\ (\A x \in 1..Len(Body(s, t)) : Readable(Body(s, t)[x]))
                  <=> \A x \in (q + 2)..(e - 1) : Readable(s[x])
  <2>1. \/ e = Len(s) + 1 /\ Cardinality(Starts(s)) = t
        \/ /\ e \in (q + 2)..Len(s) /\ e \in Starts(s)
           /\ Rank(s, e) = t + 1 /\ t < Cardinality(Starts(s))
    BY <1>3, EndOfCase
  <2> HIDE DEF e
  <2>2. Cardinality(Starts(s)) \in Nat
    BY <1>1, StartsFinite
  <2>3. (IF t = Cardinality(Starts(s)) THEN Len(s) ELSE StartOf(s, t + 1) - 1) = e - 1
    <3>1. CASE t = Cardinality(Starts(s))
      BY <1>1, <2>1, <2>2, <3>1
    <3>2. CASE t # Cardinality(Starts(s))
      <4>1. StartOf(s, t + 1) = e
        BY <1>1, <2>1, <3>2, StartAt
      <4>2. QED BY <3>2, <4>1
    <3>3. QED BY <3>1, <3>2
  <2>4. Body(s, t) = SubSeq(s, q + 2, e - 1)
    BY <1>2, <2>3 DEF Body
  <2>5. e \in Nat /\ e <= Len(s) + 1 /\ q + 2 <= e
    BY <1>1, <1>3, <2>1
  <2> DEFINE b == Body(s, t)
  <2>6. /\ Len(b) = IF q + 2 <= e - 1 THEN e - 1 - (q + 2) + 1 ELSE 0
        /\ \A x \in 1..(e - 1 - (q + 2) + 1) : b[x] = s[q + 2 + x - 1]
    <3>1. \A x \in (q + 2)..(e - 1) : s[x] \in Token
      <4> HIDE DEF Token
      <4>1. QED BY <1>1, <2>5
    <3>2. q + 2 \in Int /\ e - 1 \in Int
      BY <1>1, <2>5
    <3> DEFINE first == q + 2
               last == e - 1
    <3> HIDE DEF first, last
    <3>3. /\ Len(SubSeq(s, first, last)) = IF first <= last THEN last - first + 1 ELSE 0
          /\ \A x \in 1..(last - first + 1) : SubSeq(s, first, last)[x] = s[first + x - 1]
      BY <3>1, <3>2, SubSeqProperties DEF first, last
    <3>4. QED BY <2>4, <3>3, Zenon DEF first, last
  <2> HIDE DEF b
  <2>7. ASSUME \A x \in 1..Len(b) : Readable(b[x]), NEW x \in (q + 2)..(e - 1)
        PROVE  Readable(s[x])
    <3>1. x - q - 1 \in 1..Len(b) /\ x - q - 1 \in 1..(e - 1 - (q + 2) + 1)
          /\ q + 2 + (x - q - 1) - 1 = x
      BY <1>1, <2>5, <2>6
    <3>2. b[x - q - 1] = s[x]
      BY <2>6, <3>1
    <3>3. QED BY <2>7, <3>1, <3>2
  <2>8. ASSUME \A x \in (q + 2)..(e - 1) : Readable(s[x]), NEW x \in 1..Len(b)
        PROVE  Readable(b[x])
    <3>1. /\ x \in 1..(e - 1 - (q + 2) + 1)
          /\ q + 2 + x - 1 \in (q + 2)..(e - 1)
      BY <1>1, <2>5, <2>6
    <3>2. b[x] = s[q + 2 + x - 1]
      BY <2>6, <3>1
    <3>3. QED BY <2>8, <3>1, <3>2
  <2>9. QED BY <2>4, <2>7, <2>8 DEF b
<1> HIDE DEF e
<1>4. IsCase(s, t) <=> /\ q < Len(s) /\ s[q + 1].label = t
                       /\ \A x \in (q + 2)..(e - 1) : Readable(s[x])
  BY <1>2, <1>3, Zenon DEF IsCase
<1>5. QED BY <1>3, <1>4, Zenon DEF e

\* The position p of a file of which t cases were read: at its beginning,
\* behind the "Case" of the next one, or at its end.
StreamAt(s, p, pre, t) ==
  \/ t = 0 /\ p = 0 /\ ~ pre
  \/ /\ t # 0 /\ 1 \in Starts(s)
     /\ \/ pre /\ p \in Starts(s) /\ Rank(s, p) = t + 1
        \/ p = Len(s) /\ Cardinality(Starts(s)) = t

\* The program reads the next case where it is, and says so if it is none.
LEMMA StreamCase ==
  ASSUME NEW s \in Seq(Token), NEW p \in 0..Len(s), NEW pre \in BOOLEAN, NEW t \in Nat,
         StreamAt(s, p, pre, t)
  PROVE  LET l == LabelAt(p, pre)
         IN  /\ CaseReadable(s, p, pre, t + 1) <=> 1 \in Starts(s) /\ IsCase(s, t + 1)
             /\ CaseReadable(s, p, pre, t + 1) =>
                  /\ CaseBody(s, p, pre) = Body(s, t + 1)
                  /\ StreamAt(s, AfterCase(s, p, pre), pre \/ EndsAt(s, l) <= Len(s), t + 1)
<1> DEFINE l == LabelAt(p, pre)
           e == EndsAt(s, l)
           next == pre \/ e <= Len(s)
<1>1. Len(s) \in Nat /\ p \in Nat /\ l \in Nat
  BY DEF LabelAt
<1>2. CASE t # 0 /\ p = Len(s) /\ Cardinality(Starts(s)) = t
  <2>1. ~ (l <= Len(s))
    BY <1>1, <1>2 DEF LabelAt
  <2>2. ~ CaseReadable(s, p, pre, t + 1)
    BY <2>1, Zenon DEF CaseReadable
  <2>3. ~ IsCase(s, t + 1)
    BY <1>2 DEF IsCase
  <2>4. QED BY <2>2, <2>3
<1>3. CASE t = 0 /\ 1 \notin Starts(s)
  <2>1. ~ pre /\ p = 0
    BY <1>3 DEF StreamAt
  <2>2. ASSUME CaseReadable(s, p, pre, t + 1) PROVE FALSE
    <3>1. l = 2 /\ l <= Len(s) /\ s[0 + 1].text = "Case"
      BY <2>1, <2>2 DEF CaseReadable, LabelAt
    <3>2. QED BY <1>1, <1>3, <3>1 DEF Starts
  <2>3. QED BY <1>3, <2>2
<1>4. CASE ~ (t # 0 /\ p = Len(s) /\ Cardinality(Starts(s)) = t)
           /\ ~ (t = 0 /\ 1 \notin Starts(s))
  <2> DEFINE q == IF t = 0 THEN 1 ELSE p
  <2>1. /\ 1 \in Starts(s) /\ q \in Starts(s) /\ Rank(s, q) = t + 1 /\ l = q + 1
        /\ pre \/ s[p + 1].text = "Case"
    <3>1. CASE t = 0
      <4>1. p = 0 /\ ~ pre /\ 1 \in Starts(s)
        BY <1>4, <3>1 DEF StreamAt
      <4>2. Rank(s, 1) = 1
        BY <1>1, <4>1, FirstRank
      <4>3. s[0 + 1].text = "Case"
        BY <4>1 DEF Starts
      <4>4. QED BY <3>1, <4>1, <4>2, <4>3 DEF LabelAt
    <3>2. CASE t # 0
      BY <1>4, <3>2 DEF StreamAt, LabelAt
    <3>3. QED BY <3>1, <3>2
  <2> HIDE DEF q
  <2>2. q \in Nat /\ t + 1 \in Nat /\ t + 1 # 0
    BY <1>1, <2>1, StartsFinite
  <2> DEFINE good == /\ q < Len(s) /\ s[q + 1].label = t + 1
                     /\ \A x \in (q + 2)..(e - 1) : Readable(s[x])
  <2>3. /\ IsCase(s, t + 1) <=> good
        /\ good => Body(s, t + 1) = SubSeq(s, q + 2, e - 1)
    <3> DEFINE u == t + 1
    <3>1. u \in Nat /\ u = Rank(s, q) /\ u # 0
      BY <2>1, <2>2
    <3> HIDE DEF u
    <3>2. /\ IsCase(s, u) <=> /\ q < Len(s) /\ s[q + 1].label = u
                              /\ \A x \in (q + 2)..(EndsAt(s, q + 1) - 1) : Readable(s[x])
          /\ (/\ q < Len(s) /\ s[q + 1].label = u
              /\ \A x \in (q + 2)..(EndsAt(s, q + 1) - 1) : Readable(s[x]))
             => Body(s, u) = SubSeq(s, q + 2, EndsAt(s, q + 1) - 1)
      BY <2>1, <3>1, CaseByPosition
    <3>3. QED BY <2>1, <3>2, Zenon DEF u
  <2>4. CaseReadable(s, p, pre, t + 1) <=> good
    <3>1. CaseReadable(s, p, pre, t + 1) <=>
            /\ l <= Len(s) /\ (pre \/ s[p + 1].text = "Case") /\ s[l].label = t + 1
            /\ \A x \in (l + 1)..(e - 1) : Readable(s[x])
      BY Zenon DEF CaseReadable
    <3>2. l <= Len(s) <=> q < Len(s)
      BY <1>1, <2>1, <2>2
    <3>3. l + 1 = q + 2
      BY <2>1, <2>2
    <3> HIDE DEF l, e
    <3>4. QED BY <2>1, <3>1, <3>2, <3>3, Zenon
  <2>5. ASSUME good
        PROVE  /\ CaseBody(s, p, pre) = Body(s, t + 1)
               /\ StreamAt(s, AfterCase(s, p, pre), next, t + 1)
    <3>1. CaseBody(s, p, pre) = SubSeq(s, l + 1, e - 1)
      BY Zenon DEF CaseBody
    <3>2. l + 1 = q + 2
      BY <2>1, <2>2
    <3>3. CaseBody(s, p, pre) = Body(s, t + 1)
      BY <2>3, <2>5, <3>1, <3>2
    <3>4. AfterCase(s, p, pre) = IF e > Len(s) THEN Len(s) ELSE e
      BY Zenon DEF AfterCase
    <3>5. \/ e = Len(s) + 1 /\ Cardinality(Starts(s)) = t + 1
          \/ e \in (q + 2)..Len(s) /\ e \in Starts(s) /\ Rank(s, e) = t + 1 + 1
      <4>1. q < Len(s) /\ s[q + 1].label # 0
        BY <2>2, <2>5
      <4>2. e = EndsAt(s, q + 1)
        BY <2>1, Zenon
      <4> HIDE DEF e
      <4>3. QED BY <2>1, <4>1, <4>2, EndOfCase
    <3> HIDE DEF e
    <3>6. CASE e = Len(s) + 1 /\ Cardinality(Starts(s)) = t + 1
      <4>1. AfterCase(s, p, pre) = Len(s)
        BY <1>1, <3>4, <3>6
      <4>2. QED BY <2>1, <2>2, <3>3, <3>6, <4>1 DEF StreamAt
    <3>7. CASE e \in (q + 2)..Len(s) /\ e \in Starts(s) /\ Rank(s, e) = t + 1 + 1
      <4>1. AfterCase(s, p, pre) = e /\ next
        BY <1>1, <2>2, <3>4, <3>7
      <4>2. QED BY <2>1, <2>2, <3>3, <3>7, <4>1 DEF StreamAt
    <3>8. QED BY <3>5, <3>6, <3>7
  <2>6. QED BY <2>1, <2>3, <2>4, <2>5
<1>5. QED BY <1>2, <1>3, <1>4

\* Where the answer is, counted in its cases.
LEMMA CasesLeft ==
  ASSUME ans \in Seq(Token), i \in 0..Len(ans), n \in Nat, StreamAt(ans, i, preAns, n)
  PROVE  /\ i # Len(ans) /\ 1 \in Starts(ans) => n + 1 \in 1..CaseCount
         /\ i = Len(ans) /\ n # 0 => CaseCount <= n
<1> DEFINE c == Cardinality(Starts(ans))
           last == Len(ans) \in Starts(ans)
<1>1. Len(ans) \in Nat /\ c \in Nat
  BY StartsFinite
<1>2. 1 \in Starts(ans) => Len(ans) # 0 /\ (ans[Len(ans)].text = "Case" <=> last)
  BY <1>1 DEF Starts
<1>3. 1 \in Starts(ans) => CaseCount = IF c > 1 /\ last THEN c - 1 ELSE c
  BY <1>2, Zenon DEF CaseCount
<1>4. ASSUME i # Len(ans), 1 \in Starts(ans) PROVE n + 1 \in 1..CaseCount
  <2>1. CASE n = 0
    <3>1. c >= 1
      BY <1>1, <1>4, FirstRank
    <3> HIDE DEF c, last
    <3>2. QED BY <1>1, <1>3, <1>4, <2>1, <3>1
  <2>2. CASE n # 0
    <3>1. i \in Starts(ans) /\ Rank(ans, i) = n + 1
      BY <1>4, <2>2 DEF StreamAt
    <3>2. n + 1 <= c
      BY <1>1, <3>1, StartsFinite
    <3>3. last => n + 1 < c
      <4>1. last => Rank(ans, i) < Rank(ans, Len(ans))
        BY <1>1, <1>4, <3>1, RankOrder
      <4>2. Rank(ans, Len(ans)) <= c /\ Rank(ans, Len(ans)) \in Nat
        BY <1>1, StartsFinite
      <4> HIDE DEF c, last
      <4>3. QED BY <1>1, <3>1, <4>1, <4>2
    <3> HIDE DEF c, last
    <3>4. QED BY <1>1, <1>3, <1>4, <3>2, <3>3
  <2>3. QED BY <2>1, <2>2
<1>5. ASSUME i = Len(ans), n # 0 PROVE CaseCount <= n
  <2>1. 1 \in Starts(ans)
    BY <1>5 DEF StreamAt
  <2>2. CASE c = n
    <3> HIDE DEF c, last
    <3>1. QED BY <1>1, <1>3, <2>1, <2>2
  <2>3. CASE c # n
    <3>1. last /\ Rank(ans, Len(ans)) = n + 1
      BY <1>5, <2>3 DEF StreamAt
    <3>2. StartsTo(ans, Len(ans)) = Starts(ans)
      BY <1>1 DEF StartsTo, Starts
    <3>3. c = n + 1
      BY <3>1, <3>2 DEF Rank
    <3> HIDE DEF c, last
    <3>4. QED BY <1>1, <1>3, <1>5, <2>1, <3>1, <3>3
  <2>4. QED BY <2>2, <2>3
<1>6. QED BY <1>4, <1>5

\* Case t is one in both files, with the same tokens.
CaseAgrees(t) == IsCase(ans, t) /\ IsCase(ouf, t) /\ SameBodies(Body(ans, t), Body(ouf, t))

CasesInv ==
  /\ phase \in {"register", "pairs"}
  /\ verdict = "none" =>
       /\ StreamAt(ans, i, preAns, n) /\ StreamAt(ouf, o, preOuf, n)
       /\ \A t \in 1..n : CaseAgrees(t)
  /\ verdict # "none" => (verdict = "ok" <=> SameCases)

LEMMA CasesStep ==
  TypeOK /\ checker \in Cases /\ refused = "none" /\ CasesInv /\ [Next]_vars => CasesInv'
<1> SUFFICES ASSUME TypeOK, checker \in Cases, refused = "none", CasesInv, [Next]_vars
             PROVE  CasesInv'
  OBVIOUS
<1>1. /\ ans \in Seq(Token) /\ ouf \in Seq(Token) /\ Len(ans) \in Nat
      /\ i \in 0..Len(ans) /\ o \in 0..Len(ouf) /\ n \in Nat
      /\ preAns \in BOOLEAN /\ preOuf \in BOOLEAN
  <2> HIDE DEF Token
  <2>1. QED BY DEF TypeOK
<1>2. checker' = checker /\ ans' = ans /\ ouf' = ouf /\ (SameCases' <=> SameCases)
  BY FilesKept, MatchKept DEF files
<1>3. \A t : CaseAgrees(t)' <=> CaseAgrees(t)
  BY <1>2 DEF CaseAgrees, IsCase, SameBodies, Same, Close, Readable
<1>4. CASE CompareCase
  <2> DEFINE nextAns == preAns \/ EndsAt(ans, LabelAt(i, preAns)) <= Len(ans)
             nextOuf == preOuf \/ EndsAt(ouf, LabelAt(o, preOuf)) <= Len(ouf)
             good == CaseReadable(ans, i, preAns, n + 1) /\ CaseReadable(ouf, o, preOuf, n + 1)
             equal == SameBodies(CaseBody(ans, i, preAns), CaseBody(ouf, o, preOuf))
  <2>1. /\ StreamAt(ans, i, preAns, n) /\ StreamAt(ouf, o, preOuf, n)
        /\ \A t \in 1..n : CaseAgrees(t)
        /\ i # Len(ans) /\ n' = n + 1 /\ phase' = "pairs"
    BY <1>4, Zenon DEF CompareCase, Running, CasesInv, AnsEof
  <2>2. /\ CaseReadable(ans, i, preAns, n + 1) <=> 1 \in Starts(ans) /\ IsCase(ans, n + 1)
        /\ CaseReadable(ans, i, preAns, n + 1) =>
             /\ CaseBody(ans, i, preAns) = Body(ans, n + 1)
             /\ StreamAt(ans, AfterCase(ans, i, preAns), nextAns, n + 1)
    BY <1>1, <2>1, StreamCase, Zenon
  <2>3. /\ CaseReadable(ouf, o, preOuf, n + 1) <=> 1 \in Starts(ouf) /\ IsCase(ouf, n + 1)
        /\ CaseReadable(ouf, o, preOuf, n + 1) =>
             /\ CaseBody(ouf, o, preOuf) = Body(ouf, n + 1)
             /\ StreamAt(ouf, AfterCase(ouf, o, preOuf), nextOuf, n + 1)
    BY <1>1, <2>1, StreamCase, Zenon
  <2>4. good /\ equal <=> 1 \in Starts(ans) /\ 1 \in Starts(ouf) /\ CaseAgrees(n + 1)
    BY <2>2, <2>3, Zenon DEF CaseAgrees
  <2>5. /\ ~ (good /\ equal) => verdict' \in {"pe", "wa"}
        /\ good /\ equal => /\ verdict' = "none"
                            /\ i' = AfterCase(ans, i, preAns) /\ preAns' = nextAns
                            /\ o' = AfterCase(ouf, o, preOuf) /\ preOuf' = nextOuf
    BY <1>4, Zenon DEF CompareCase
  <2>6. CASE good /\ equal
    <3>1. StreamAt(ans, i, preAns, n)' /\ StreamAt(ouf, o, preOuf, n)'
      <4>1. /\ StreamAt(ans, AfterCase(ans, i, preAns), nextAns, n + 1)
            /\ StreamAt(ouf, AfterCase(ouf, o, preOuf), nextOuf, n + 1)
        BY <2>2, <2>3, <2>6, Zenon
      <4> HIDE DEF nextAns, nextOuf
      <4>2. StreamAt(ans', i', preAns', n') /\ StreamAt(ouf', o', preOuf', n')
        BY <1>2, <2>1, <2>5, <2>6, <4>1, Zenon
      <4>3. QED BY <4>2, Zenon
    <3>2. \A t \in 1..n' : CaseAgrees(t)'
      <4>1. CaseAgrees(n + 1)
        BY <2>4, <2>6
      <4>2. \A t \in 1..(n + 1) : t \in 1..n \/ t = n + 1
        BY <1>1
      <4>3. QED BY <1>3, <2>1, <4>1, <4>2, Zenon
    <3>3. verdict' = "none" /\ phase' = "pairs"
      BY <2>1, <2>5, <2>6 DEF CasesInv
    <3>4. QED BY <3>1, <3>2, <3>3, Zenon DEF CasesInv
  <2>7. CASE ~ (good /\ equal)
    <3>1. ~ SameCases
      <4> SUFFICES ASSUME SameCases PROVE FALSE
        OBVIOUS
      <4>1. ans # << >>
        BY <1>1, <2>1
      <4>2. /\ 1 \in Starts(ans) /\ 1 \in Starts(ouf)
            /\ \A t \in 1..CaseCount : CaseAgrees(t)
        BY <4>1, Zenon DEF SameCases, CaseAgrees
      <4>3. n + 1 \in 1..CaseCount
        BY <1>1, <2>1, <4>2, CasesLeft, Zenon
      <4>4. QED BY <2>4, <2>7, <4>2, <4>3, Zenon
    <3>2. verdict' # "none" /\ verdict' # "ok" /\ phase' = "pairs"
      BY <2>1, <2>5, <2>7 DEF CasesInv
    <3>3. QED BY <1>2, <3>1, <3>2, Zenon DEF CasesInv
  <2>8. QED BY <2>6, <2>7
<1>5. CASE CasesDone
  <2>1. /\ StreamAt(ans, i, preAns, n) /\ StreamAt(ouf, o, preOuf, n)
        /\ \A t \in 1..n : CaseAgrees(t)
        /\ i = Len(ans) /\ verdict' = "ok" /\ phase' = "pairs"
    BY <1>5, Zenon DEF CasesDone, Running, Quit, CasesInv, AnsEof
  <2>2. SameCases
    <3>1. CASE n = 0
      <4>1. Len(ans) = 0
        BY <1>1, <2>1, <3>1 DEF StreamAt
      <4>2. ans = << >>
        BY <1>1, <4>1, EmptySeq
      <4>3. QED BY <4>2 DEF SameCases
    <3>2. CASE n # 0
      <4>1. 1 \in Starts(ans) /\ 1 \in Starts(ouf) /\ CaseCount <= n
        BY <1>1, <2>1, <3>2, CasesLeft DEF StreamAt
      <4>2. CaseCount \in Int
        <5>1. Cardinality(Starts(ans)) \in Nat
          BY <1>1, StartsFinite
        <5>2. QED BY <5>1 DEF CaseCount
      <4>3. \A t \in 1..CaseCount : t \in 1..n
        BY <1>1, <4>1, <4>2
      <4>4. QED BY <2>1, <4>1, <4>3, Zenon DEF SameCases, CaseAgrees
    <3>3. QED BY <3>1, <3>2
  <2>3. QED BY <1>2, <2>1, <2>2, Zenon DEF CasesInv
<1>6. CASE Register \/ UNCHANGED vars
  <2>1. /\ UNCHANGED <<i, o, n, preAns, preOuf, verdict>>
        /\ phase' \in {"register", "pairs"}
    BY <1>6 DEF Register, vars, CasesInv
  <2>2. /\ StreamAt(ans, i, preAns, n)' <=> StreamAt(ans, i, preAns, n)
        /\ StreamAt(ouf, o, preOuf, n)' <=> StreamAt(ouf, o, preOuf, n)
    BY <1>2, <2>1 DEF StreamAt, Rank, StartsTo, Starts
  <2>3. QED BY <1>2, <1>3, <2>1, <2>2 DEF CasesInv
<1>7. CompareCase \/ CasesDone \/ Register \/ UNCHANGED vars
  BY Families DEF Next, Refuse, PairUnreadable, PairCompared, PairsDone, WordsDone, CountExtras,
         ExtraAns, ExtraOuf, ExtrasCounted, Unordered, ReadAnsCase, ReadOufCase,
         CompareCases, WantsPair, Running, CasesInv, Single, AnswerDriven, Tolerant,
         Lines, Paired, Cases
<1>8. QED BY <1>4, <1>5, <1>6, <1>7

-----------------------------------------------------------------------------
StructuredInv == refused = "none" =>
  /\ checker = "caseicmp" => TriplesInv
  /\ checker = "uncmp"    => UnorderedInv
  /\ checker \in Cases    => CasesInv

LEMMA InitStructured == Init => StructuredInv
<1> SUFFICES ASSUME Init PROVE StructuredInv
  OBVIOUS
<1>1. i = 0 /\ o = 0 /\ n = 0 /\ phase = "register" /\ ~ preAns /\ ~ preOuf /\ verdict = "none"
  BY DEF Init
<1>2. \E t \in Nat : 0 = 3 * t /\ \A s : TriplesTo(s, t)
  <2>1. 0 = 3 * 0 /\ \A s : TriplesTo(s, 0)
    BY DEF TriplesTo
  <2>2. QED BY <2>1
<1>3. TriplesInv
  BY <1>1, <1>2 DEF TriplesInv
<1>4. UnorderedInv
  BY <1>1 DEF UnorderedInv
<1>5. CasesInv
  BY <1>1 DEF CasesInv, StreamAt
<1>6. QED BY <1>3, <1>4, <1>5 DEF StructuredInv

LEMMA StepStructured == TypeOK /\ StructuredInv /\ [Next]_vars => StructuredInv'
<1> SUFFICES ASSUME TypeOK, StructuredInv, [Next]_vars PROVE StructuredInv'
  OBVIOUS
<1>1. checker' = checker /\ refused' = refused
  BY FilesKept DEF files
<1>2. QED
  BY <1>1, TriplesStep, UnorderedStep, CasesStep DEF StructuredInv

\* uncmp accepts a permutation and nothing else, caseicmp and the two case
\* checkers the same cases under the same labels and nothing else, for files
\* of every length that could be opened (uncmp.cpp:13-27, caseicmp.cpp:17-63, casencmp.cpp:17-86,
\* casewcmp.cpp:18-79).
THEOREM StructuredCorrect == Spec => []StructuredJudged
<1>1. StructuredInv => StructuredJudged
  BY DEF StructuredInv, TriplesInv, UnorderedInv, CasesInv, StructuredJudged, Cases
<1>2. TypeOK /\ StructuredInv /\ [Next]_vars => (TypeOK /\ StructuredInv)'
  BY StepTyped, StepStructured
<1>3. QED
  BY InitTyped, InitStructured, <1>1, <1>2, PTL DEF Spec

=============================================================================
