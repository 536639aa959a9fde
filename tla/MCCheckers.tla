----------------------------- MODULE MCCheckers -----------------------------
(***************************************************************************)
(* Short files for Checkers, with the tokens each family of programs can   *)
(* tell apart.                                                             *)
(***************************************************************************)
EXTENDS Checkers

CONSTANTS MaxTokens,      \* tokens in a file of numbers or words
          MaxCaseTokens   \* tokens in a file of cases that begins well

NumberToken(t, v, c) == [text |-> t, upper |-> t, words |-> t, number |-> TRUE, value |-> v,
                         canonical |-> c, label |-> 0]
WordToken(t, u, l)   == [text |-> t, upper |-> u, words |-> t, number |-> FALSE, value |-> 0,
                         canonical |-> FALSE, label |-> l]

\* "01" is the number 1 in a form hcmp does not accept.
Numbers == {NumberToken("1", 1, TRUE), NumberToken("01", 1, FALSE),
            NumberToken("2", 2, TRUE), NumberToken("3", 3, TRUE)}
Words   == {WordToken("x", "X", 0), WordToken("yes", "YES", 0),
            WordToken("YES", "YES", 0), WordToken("no", "NO", 0)}
CaseTokens == {WordToken("Case", "CASE", 0), WordToken("1:", "1:", 1),
               WordToken("2:", "2:", 2), NumberToken("1", 1, TRUE),
               NumberToken("2", 2, TRUE)}

\* An empty line, two lines with the same word, and another one.
TextLines == {WordToken("", "", 0), WordToken("x", "X", 0), WordToken("y", "Y", 0),
              [WordToken(" x ", " X ", 0) EXCEPT !.words = "x"]}

UpTo(m, T) == UNION { [1..l -> T] : l \in 0..m }

Runs(names, m, T) == [checker : names, ans : UpTo(m, T), ouf : UpTo(m, T)]

\* Longer files that begin with a prefix.
Begun(prefix, m) == { prefix \o s : s \in UpTo(m, CaseTokens) }
Label == <<WordToken("Case", "CASE", 0), WordToken("1:", "1:", 1)>>
First == Label \o <<NumberToken("1", 1, TRUE)>>

MCInputs ==
  Runs({"icmp", "acmp", "ncmp", "rncmp", "hcmp", "uncmp"}, MaxTokens, Numbers)
  \union Runs({"wcmp", "yesno", "nyesno", "icmp", "ncmp"}, MaxTokens - 1, Words)
  \union Runs(Lines, MaxTokens, TextLines)
  \union Runs({"rcmp", "dcmp", "rcmp4", "rcmp6", "rcmp9"}, 1, Numbers)
  \union Runs({"caseicmp"} \union Cases, 1, CaseTokens)
  \union [checker : {"caseicmp"} \union Cases,
          ans : Begun(Label, MaxCaseTokens - 3), ouf : Begun(Label, MaxCaseTokens - 3)]
  \union [checker : {"caseicmp"} \union Cases,
          ans : Begun(First, MaxCaseTokens - 3), ouf : Begun(First, MaxCaseTokens - 3)]

=============================================================================
