------------------------------ MODULE Checkers ------------------------------
(***************************************************************************)
(* The checkers of judger/checkers: each reads the jury's answer and the   *)
(* contestant's output, token by token or line by line, and ends with an   *)
(* exit code.                                                              *)
(*                                                                         *)
(* A token is a record of what the readers and tests of the checkers see   *)
(* of it; a line is one token of fcmp and lcmp. The repository's testlib.h *)
(* declares ans and ouf as plain ifstreams, which have none of the readers *)
(* the checkers call. Numbers and words are taken to be read as by the     *)
(* readInt of its InStream: at the end of the file, or on a token that is  *)
(* no number where one is wanted, the checker exits with a presentation    *)
(* error. The readString of fcmp and lcmp is taken to read a line, as      *)
(* these two say they do, and not a token as that of InStream does. A      *)
(* checker that says "ok" exits at once: quitf does not look for tokens    *)
(* that were not read.  Before all this registerTestlibCmd wants three     *)
(* arguments and opens the three files they name.                          *)
(*                                                                         *)
(* pointscmp and pointsinfo give points instead of a verdict and are left  *)
(* out.                                                                    *)
(***************************************************************************)
EXTENDS Integers, Sequences, FiniteSets

Token == { t \in
  [ text : STRING, upper : STRING,   \* as written, and in upper case
    words : STRING,                  \* its words, one blank apart
    number : BOOLEAN,                \* can be read as a number
    value : Int,                     \* that number; 1 is the tolerance
    canonical : BOOLEAN,             \* matches 0|-?[1-9][0-9]*
    label : Nat ]                    \* i if the text is "i:", else 0
  : t.label # 0 => t.text # "Case" }

Single       == {"icmp", "acmp", "rcmp", "dcmp", "yesno", "hcmp"}
Tolerant     == {"rncmp", "rcmp4", "rcmp6", "rcmp9"}
Lines        == {"fcmp", "lcmp"}
AnswerDriven == Tolerant \union Lines
Paired       == {"ncmp", "wcmp", "nyesno"}
Cases        == {"casencmp", "casewcmp"}
Names        == Single \union AnswerDriven \union Paired \union Cases
                \union {"uncmp", "caseicmp"}

CONSTANT Inputs   \* the programs to run and the files to run them on

ASSUME InputsAssumption ==
  Inputs \subseteq [checker : Names, ans : Seq(Token), ouf : Seq(Token)]

\* What registerTestlibCmd may object to first.
Refusals == {"arguments", "inf", "ouf", "ans"}

VARIABLES
  checker,   \* which program runs
  ans, ouf,  \* the contents of the two files
  refused,   \* the first of Refusals that is the case, or "none"
  i, o,      \* tokens read from each
  phase,     \* loop of the program
  n,         \* tokens compared, or test case
  preAns, preOuf,  \* prereadCase: "Case" of the next case was read already
  verdict    \* exit code

files == <<checker, ans, ouf, refused>>
vars  == <<files, i, o, phase, n, preAns, preOuf, verdict>>

AnsEof == i = Len(ans)
OufEof == o = Len(ouf)

Running(loop) == verdict = "none" /\ phase = loop

-----------------------------------------------------------------------------
(***************************************************************************)
(* Reading and comparing tokens.                                           *)
(***************************************************************************)

\* The readers that take words accept every token.
Readable(t) == t.number \/ checker \in Lines \union {"wcmp", "hcmp", "yesno", "nyesno", "casewcmp"}

\* The tests of the format that follow the reading.
Valid(t) ==
  CASE checker \in {"yesno", "nyesno"} -> t.upper \in {"YES", "NO"}
    [] checker = "hcmp"                -> t.canonical
    [] OTHER                           -> TRUE

Close(a, b) == a.value - b.value \in -1..1

CompareWords(a, b) == a.words = b.words

Same(a, b) ==
  CASE checker \in {"yesno", "nyesno"}            -> a.upper = b.upper
    [] checker \in {"fcmp", "wcmp", "hcmp", "casewcmp"} -> a.text = b.text
    [] checker = "lcmp"                           -> CompareWords(a, b)
    [] checker \in Tolerant \union {"acmp", "rcmp", "dcmp"} -> Close(a, b)
    [] OTHER                                      -> a.value = b.value

\* hcmp insists on a single token in the answer.
AnswerFails(a) == ~ Valid(a) \/ (checker = "hcmp" /\ Len(ans) > 1)

\* Mutant: the jury is blamed for a bad token of the output.
PairVerdictFails(a, b) ==
  IF AnswerFails(a) \/ ~ Valid(b) THEN "fail"
  ELSE IF ~ Same(a, b) THEN "wa"
  ELSE "none"

\* The exit code after two tokens were read; "none" to go on.
PairVerdict(a, b) ==
  IF AnswerFails(a) THEN "fail"
  ELSE IF ~ Valid(b) THEN "pe"
  ELSE IF ~ Same(a, b) THEN "wa"
  ELSE "none"

-----------------------------------------------------------------------------
Init ==
  /\ \E in \in Inputs : checker = in.checker /\ ans = in.ans /\ ouf = in.ouf
  /\ refused \in Refusals \union {"none"}
  /\ i = 0 /\ o = 0 /\ n = 0
  /\ phase = "register"
  /\ preAns = FALSE /\ preOuf = FALSE
  /\ verdict = "none"

Quit(code) ==
  /\ verdict' = code
  /\ UNCHANGED <<files, i, o, phase, n, preAns, preOuf>>

\* A wrong number of arguments, or a file that cannot be opened: the caller is
\* told "fail", whichever of the three files it is.
Refuse ==
  /\ Running("register")
  /\ refused # "none"
  /\ Quit("fail")

Register ==
  /\ Running("register")
  /\ refused = "none"
  /\ phase' = "pairs"
  /\ UNCHANGED <<files, i, o, n, preAns, preOuf, verdict>>

(***************************************************************************)
(* Checkers that compare one pair of tokens, or one pair after another.    *)
(***************************************************************************)

\* fcmp and lcmp also stop when the line read is empty and the last one.
AnswerEnds ==
  AnsEof \/ (checker \in Lines /\ ans[i + 1].text = "" /\ i + 1 = Len(ans))

\* Mutant: rncmp and its like stop at the end of the output.
WantsPairOuf ==
  /\ Running("pairs")
  /\ \/ checker \in Paired /\ ~ AnsEof /\ ~ OufEof
     \/ checker \in AnswerDriven /\ ~ AnsEof /\ ~ OufEof
     \/ checker \in Single /\ n = 0

\* The condition of each loop.
WantsPair ==
  /\ Running("pairs")
  /\ \/ checker \in Paired /\ ~ AnsEof /\ ~ OufEof
     \/ checker \in AnswerDriven /\ ~ AnswerEnds
     \/ checker \in Single /\ n = 0

PairReadable == /\ ~ AnsEof /\ ~ OufEof
                /\ Readable(ans[i + 1]) /\ Readable(ouf[o + 1])

PairUnreadable ==
  /\ WantsPair
  /\ ~ PairReadable
  /\ Quit("pe")

PairCompared ==
  /\ WantsPair
  /\ PairReadable
  /\ verdict' = PairVerdict(ans[i + 1], ouf[o + 1])
  /\ i' = i + 1 /\ o' = o + 1 /\ n' = n + 1
  /\ UNCHANGED <<files, phase, preAns, preOuf>>

\* Loops driven by the answer, and single pairs, end in quitf(_ok).
PairsDone ==
  /\ Running("pairs")
  /\ ~ WantsPair
  /\ checker \in AnswerDriven \union Single
  /\ Quit("ok")

\* wcmp looks for the end of both files, without reading on.
WordsDone ==
  /\ Running("pairs")
  /\ ~ WantsPair
  /\ checker = "wcmp"
  /\ Quit(IF AnsEof /\ OufEof THEN "ok" ELSE "wa")

\* ncmp and nyesno count what is left, in the answer first.
CountExtras ==
  /\ Running("pairs")
  /\ ~ WantsPair
  /\ checker \in {"ncmp", "nyesno"}
  /\ phase' = "extras"
  /\ UNCHANGED <<files, i, o, n, preAns, preOuf, verdict>>

ExtraAns ==
  /\ Running("extras")
  /\ ~ AnsEof
  /\ IF Readable(ans[i + 1])
     THEN /\ i' = i + 1
          /\ UNCHANGED <<files, o, phase, n, preAns, preOuf, verdict>>
     ELSE Quit("pe")

ExtraOuf ==
  /\ Running("extras")
  /\ AnsEof /\ ~ OufEof
  /\ IF Readable(ouf[o + 1])
     THEN /\ o' = o + 1
          /\ UNCHANGED <<files, i, phase, n, preAns, preOuf, verdict>>
     ELSE Quit("pe")

ExtrasCounted ==
  /\ Running("extras")
  /\ AnsEof /\ OufEof
  /\ Quit(IF i > n \/ o > n THEN "wa" ELSE "ok")

(***************************************************************************)
(* uncmp: both files are read, sorted and compared.                        *)
(***************************************************************************)

\* The values of s in increasing order.
Sorted(s) ==
  [ x \in 1..Len(s) |->
      CHOOSE v \in { s[y].value : y \in 1..Len(s) } :
        /\ Cardinality({ y \in 1..Len(s) : s[y].value < v }) < x
        /\ x <= Cardinality({ y \in 1..Len(s) : s[y].value <= v }) ]

Unordered ==
  /\ Running("pairs")
  /\ checker = "uncmp"
  /\ Quit(IF \E t \in {ans[x] : x \in 1..Len(ans)} \union {ouf[x] : x \in 1..Len(ouf)} :
                ~ Readable(t)
          THEN "pe"
          ELSE IF Len(ans) # Len(ouf) THEN "wa"
          ELSE IF Sorted(ans) # Sorted(ouf) THEN "wa"
          ELSE "ok")

(***************************************************************************)
(* caseicmp: "Case i: number", the answer first, then the output.          *)
(***************************************************************************)

\* The three tokens of case t that follow position p.
TripleAt(s, p, t) ==
  /\ p + 3 <= Len(s)
  /\ s[p + 1].text = "Case"
  /\ s[p + 2].label = t
  /\ s[p + 3].number

ReadAnsCase ==
  /\ Running("pairs")
  /\ checker = "caseicmp"
  /\ ~ AnsEof
  /\ IF TripleAt(ans, i, i \div 3 + 1)
     THEN /\ i' = i + 3
          /\ UNCHANGED <<files, o, phase, n, preAns, preOuf, verdict>>
     ELSE Quit("pe")

ReadOufCase ==
  /\ Running("pairs")
  /\ checker = "caseicmp"
  /\ AnsEof /\ ~ OufEof
  /\ IF TripleAt(ouf, o, o \div 3 + 1)
     THEN /\ o' = o + 3
          /\ UNCHANGED <<files, i, phase, n, preAns, preOuf, verdict>>
     ELSE Quit("pe")

\* The common cases are compared before the numbers of cases.
CompareCases ==
  /\ Running("pairs")
  /\ checker = "caseicmp"
  /\ AnsEof /\ OufEof
  /\ Quit(IF \E t \in 1..(i \div 3) :
               t <= o \div 3 /\ ans[3 * t].value # ouf[3 * t].value
          THEN "wa"
          ELSE IF i # o THEN "pe" ELSE "ok")

(***************************************************************************)
(* casencmp and casewcmp: "Case i: token token ...", case by case.  The    *)
(* "Case" that ends a case is read with it; the flag remembers that.       *)
(***************************************************************************)

\* Mutant: the flag is not looked at.
LabelAtForgets(p, pre) == p + 2

\* Where the label of the case that follows position p stands.
LabelAt(p, pre) == IF pre THEN p + 1 ELSE p + 2

\* The "Case" that ends the case whose label stands at l.
EndsAt(s, l) ==
  LET C == { x \in (l + 1)..Len(s) : s[x].text = "Case" }
  IN  IF C = {} THEN Len(s) + 1 ELSE CHOOSE x \in C : \A y \in C : x <= y

\* readStreamCase reports no presentation error.
CaseReadable(s, p, pre, t) ==
  LET l == LabelAt(p, pre)
  IN  /\ l <= Len(s)
      /\ pre \/ s[p + 1].text = "Case"
      /\ s[l].label = t
      /\ \A x \in (l + 1)..(EndsAt(s, l) - 1) : Readable(s[x])

CaseBody(s, p, pre) ==
  LET l == LabelAt(p, pre) IN SubSeq(s, l + 1, EndsAt(s, l) - 1)

\* Mutant: the end of the file counts as one more token.
AfterCaseBeyond(s, p, pre) == EndsAt(s, LabelAt(p, pre))

AfterCase(s, p, pre) ==
  LET e == EndsAt(s, LabelAt(p, pre)) IN IF e > Len(s) THEN Len(s) ELSE e

SameBodies(a, b) == Len(a) = Len(b) /\ \A x \in 1..Len(a) : Same(a[x], b[x])

CompareCase ==
  /\ Running("pairs")
  /\ checker \in Cases
  /\ ~ AnsEof
  /\ n' = n + 1
  /\ IF ~ (CaseReadable(ans, i, preAns, n + 1) /\ CaseReadable(ouf, o, preOuf, n + 1))
     THEN /\ verdict' = "pe"
          /\ UNCHANGED <<files, i, o, phase, preAns, preOuf>>
     ELSE /\ verdict' = IF SameBodies(CaseBody(ans, i, preAns), CaseBody(ouf, o, preOuf))
                        THEN "none" ELSE "wa"
          /\ i' = AfterCase(ans, i, preAns)
          /\ o' = AfterCase(ouf, o, preOuf)
          /\ preAns' = (preAns \/ EndsAt(ans, LabelAt(i, preAns)) <= Len(ans))
          /\ preOuf' = (preOuf \/ EndsAt(ouf, LabelAt(o, preOuf)) <= Len(ouf))
          /\ UNCHANGED <<files, phase>>

CasesDone ==
  /\ Running("pairs")
  /\ checker \in Cases
  /\ AnsEof
  /\ Quit("ok")

-----------------------------------------------------------------------------
Next ==
  \/ Refuse \/ Register
  \/ PairUnreadable \/ PairCompared \/ PairsDone \/ WordsDone
  \/ CountExtras \/ ExtraAns \/ ExtraOuf \/ ExtrasCounted
  \/ Unordered
  \/ ReadAnsCase \/ ReadOufCase \/ CompareCases
  \/ CompareCase \/ CasesDone

Spec == Init /\ [][Next]_vars

-----------------------------------------------------------------------------
(***************************************************************************)
(* Properties.                                                             *)
(***************************************************************************)

\* The variables stay in their ranges: no checker reads past the end of a
\* file, or has "Case" behind it before it read one.
TypeOK ==
  /\ checker \in Names
  /\ ans \in Seq(Token) /\ ouf \in Seq(Token)
  /\ refused \in Refusals \union {"none"}
  /\ i \in 0..Len(ans) /\ o \in 0..Len(ouf)
  /\ phase \in {"register", "pairs", "extras"}
  /\ n \in Nat
  /\ preAns \in BOOLEAN /\ preOuf \in BOOLEAN
  /\ verdict \in {"none", "ok", "wa", "pe", "fail"}

\* Position x of both files holds acceptable, matching tokens.
Agree(x) ==
  /\ Readable(ans[x]) /\ Readable(ouf[x])
  /\ ~ AnswerFails(ans[x]) /\ Valid(ouf[x]) /\ Same(ans[x], ouf[x])

\* How much of the answer counts: an empty last line does not.
Compared ==
  IF checker \in Single THEN 1
  ELSE IF checker \in Lines /\ ans # << >> /\ ans[Len(ans)].text = ""
  THEN Len(ans) - 1
  ELSE Len(ans)

\* What it means to match, of the files alone.
SequencesMatch ==
  /\ checker \in Paired       => Len(ouf) = Len(ans)
  /\ checker \in AnswerDriven => Len(ouf) >= Compared
  /\ checker \in Single       => Len(ans) >= 1 /\ Len(ouf) >= 1
  /\ \A x \in 1..Compared : Agree(x)

\* The loops that compare token with token accept exactly the outputs that
\* match: with equal lengths for ncmp, wcmp and nyesno, and whatever follows
\* the last compared token for the others (ncmp.cpp:13-52, wcmp.cpp:12-33,
\* nyesno.cpp:15-62, rncmp.cpp:13-21, icmp.cpp:7-13); fcmp and lcmp compare an
\* empty line anywhere but at the end of the answer (fcmp.cpp:16-26).
SequencesJudged ==
  checker \in Single \union AnswerDriven \union Paired /\ refused = "none" =>
    /\ verdict = "ok" => SequencesMatch
    /\ verdict \in {"wa", "pe", "fail"} => ~ SequencesMatch

\* Every value occurs as often in both files.
SameMultiset ==
  /\ \A t \in {ans[x] : x \in 1..Len(ans)} \union {ouf[x] : x \in 1..Len(ouf)} : t.number
  /\ \A v \in {ans[x].value : x \in 1..Len(ans)} \union {ouf[x].value : x \in 1..Len(ouf)} :
       Cardinality({x \in 1..Len(ans) : ans[x].value = v})
         = Cardinality({x \in 1..Len(ouf) : ouf[x].value = v})

\* s is "Case 1: number Case 2: number ...".
IsTriples(s) ==
  /\ Len(s) % 3 = 0
  /\ \A x \in 1..Len(s) :
       CASE x % 3 = 1 -> s[x].text = "Case"
         [] x % 3 = 2 -> s[x].label = x \div 3 + 1
         [] OTHER     -> s[x].number

SameTriples ==
  /\ IsTriples(ans) /\ IsTriples(ouf) /\ Len(ans) = Len(ouf)
  /\ \A x \in 1..Len(ans) : x % 3 = 0 => ans[x].value = ouf[x].value

\* Case t of s, from its "Case" up to the next one.
Starts(s)   == { x \in 1..Len(s) : s[x].text = "Case" }
StartOf(s, t) == CHOOSE x \in Starts(s) : Cardinality({y \in Starts(s) : y <= x}) = t
Body(s, t)  ==
  LET last == IF t = Cardinality(Starts(s)) THEN Len(s) ELSE StartOf(s, t + 1) - 1
  IN  SubSeq(s, StartOf(s, t) + 2, last)
IsCase(s, t) ==
  /\ t <= Cardinality(Starts(s))
  /\ StartOf(s, t) < Len(s)
  /\ s[StartOf(s, t) + 1].label = t
  /\ \A x \in 1..Len(Body(s, t)) : Readable(Body(s, t)[x])

\* The cases of the answer; a last word "Case" does not start one.
CaseCount ==
  LET c == Cardinality(Starts(ans))
  IN  IF c > 1 /\ ans[Len(ans)].text = "Case" THEN c - 1 ELSE c

SameCases ==
  ans # << >> =>
    /\ 1 \in Starts(ans) /\ 1 \in Starts(ouf)
    /\ \A t \in 1..CaseCount :
         IsCase(ans, t) /\ IsCase(ouf, t) /\ SameBodies(Body(ans, t), Body(ouf, t))

\* uncmp accepts a permutation and nothing else; the case checkers accept the
\* same numbers or tokens under the same labels, although the "Case" that ends
\* one case is consumed before the next is begun (uncmp.cpp:13-27,
\* caseicmp.cpp:17-63, casencmp.cpp:17-86, casewcmp.cpp:18-79).
StructuredJudged ==
  LET match == CASE checker = "uncmp"    -> SameMultiset
                 [] checker = "caseicmp" -> SameTriples
                 [] OTHER                -> SameCases
      judged == verdict # "none" /\ refused = "none"
  IN  checker \in Cases \union {"uncmp", "caseicmp"} /\ judged
        => (verdict = "ok" <=> match)

\* "fail" is never provoked by what an output contains: a token of the answer
\* is to blame (yesno.cpp:16-20, nyesno.cpp:20-30, hcmp.cpp:19-26), or the checker
\* was not given three files that open.  An output that is missing is of the
\* latter kind, and so is reported like a mistake of the jury
\* (testlib.h:117-145).
FailBlamesAnswer ==
  verdict = "fail" /\ refused = "none" => \E x \in 1..Len(ans) : AnswerFails(ans[x])

=============================================================================
