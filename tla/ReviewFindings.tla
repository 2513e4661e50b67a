--------------------------- MODULE ReviewFindings ---------------------------
(***************************************************************************)
(* From a reviewer's prose to a finalized summary and back: how the blocks *)
(* of an answer become findings (review/service.py, _parse_findings), what *)
(* a summary must carry of them (review/contract.py, missing_serious), and *)
(* what a recheck may say of the findings of the review before it          *)
(* (finding_status).                                                       *)
(*                                                                         *)
(* An answer is the sequence of its JSON candidates in the order they are  *)
(* written, each as far as its reader can tell them apart.                 *)
(***************************************************************************)
EXTENDS Integers, FiniteSets, Sequences

MAX_FINDINGS_HERE == 2    \* bound: 200 in the code

Severities == {"critical", "minor"}
SERIOUS == {"critical"}
SEVERITY_ORDER == [critical |-> 0, minor |-> 2]

(* What each finding of a block says of its severity; "odd" is a word that is
   none, which is read as `uncertain` and counts with the lesser ones here. *)
Lists == UNION {[1 .. n -> {"critical", "odd"}] : n \in 0 .. 3}

(* A block with findings; a broken one: no JSON, or a fenced or malformed one
   where findings were meant; a passing object of the prose. *)
Blocks ==
  [kind : {"findings"}, list : Lists]
    \cup {[kind |-> k, list |-> << >>] : k \in {"broken", "passing"}}

Answers == UNION {[1 .. n -> Blocks] : n \in 0 .. 2}

SeverityRead(word) == IF word \in Severities THEN word ELSE "minor"

(* More findings than are kept are cut after the serious ones came first. *)
BySeverity(list) == SelectSeq(list, LAMBDA s : s \in SERIOUS)
                      \o SelectSeq(list, LAMBDA s : s \notin SERIOUS)

Kept(list) ==
  IF Len(list) <= MAX_FINDINGS_HERE THEN list
  ELSE SubSeq(BySeverity(list), 1, MAX_FINDINGS_HERE)

Unparsed == [list |-> << >>, parsed |-> FALSE, truncated |-> 0]

(* An earlier block stands only if no later one was meant to replace it. *)
LastEvenIfBroken(answer, last) == TRUE (* (mutant) *)

LastUnbroken(answer, last) == \A i \in DOMAIN answer : i > last => answer[i].kind # "broken"

(* The last block that has findings, unless a later one is broken. *)
ParseFindings(answer) ==
  LET told == {i \in DOMAIN answer : answer[i].kind = "findings"}
      last == CHOOSE i \in told : \A j \in told : j <= i
      read == [i \in DOMAIN answer[last].list |-> SeverityRead(answer[last].list[i])]
  IN IF told = {} \/ ~LastUnbroken(answer, last)
     THEN Unparsed
     ELSE [list |-> Kept(read), parsed |-> TRUE,
           truncated |-> IF Len(read) > MAX_FINDINGS_HERE
                         THEN Len(read) - MAX_FINDINGS_HERE ELSE 0]

(* A reviewer whose block could not be read is asked for it once more. *)
Reask(result, second) ==
  IF ~result.parsed /\ second.parsed THEN second ELSE result

(* Of a reviewer's row: what it found, under ids `{agent}-{n}`. *)
FindingsOf(agent, result) ==
  {[id |-> <<agent, n>>, severity |-> result.list[n]] : n \in DOMAIN result.list}

-----------------------------------------------------------------------------
(* A summary is a set of combined findings, each with the ids it stands for. *)
Ids == {<<"a", 1>>, <<"a", 2>>, <<"b", 1>>, <<"b", 9>>}
Combined == [sources : SUBSET Ids, severity : Severities]
Summaries == {{}} \cup {{f, g} : f, g \in Combined}

AtLeast(f, severity) == SEVERITY_ORDER[f.severity] <= SEVERITY_ORDER[severity]

MissingSerious(findings, summary) ==
  {f \in findings :
     /\ f.severity \in SERIOUS
     /\ ~\E c \in summary : f.id \in c.sources /\ AtLeast(c, f.severity)}

UnknownIds(findings, summary) ==
  UNION {c.sources : c \in summary} \ {f.id : f \in findings}

Finalizes(results, findings, summary) ==
  /\ \A r \in results : r.parsed /\ r.truncated = 0
  /\ MissingSerious(findings, summary) = {}
  /\ UnknownIds(findings, summary) = {}

(* What the reviewer left at the end of the answer, or of the one it was asked
   for again, as the reviewer means it. *)
Meant(answer) ==
  LET told == {i \in DOMAIN answer : answer[i].kind # "passing"}
      final == CHOOSE i \in told : \A j \in told : j <= i
  IN IF told = {} THEN [list |-> << >>, known |-> FALSE]
     ELSE [list |-> answer[final].list, known |-> answer[final].kind = "findings"]

Serious(list) == Cardinality({i \in DOMAIN list : list[i] \in SERIOUS})

SecondAnswers == {<< >>, <<[kind |-> "findings", list |-> <<"critical">>]>>}
OtherAnswers == {<<[kind |-> "findings", list |-> <<"critical">>]>>,
                 <<[kind |-> "broken", list |-> << >>]>>}

-----------------------------------------------------------------------------
(* A recheck tells each reviewer the open findings of the review before, under
   names P1, P2; the reviewer names the one a finding repeats, or `new`. *)
Refs == {"P1", "P2"}
NEW_FINDING == "new"

(* How the answer of a reviewer who still sees `open` is stored. *)
Losses == {"none", "failed", "unparsed", "truncated", "mistyped", "stripped", "missing"}

RecheckRows(open, loss) ==
  LET row == [there |-> TRUE, ok |-> TRUE, parsed |-> TRUE, truncated |-> FALSE,
              answer |-> TRUE, said |-> open]
  IN CASE loss = "none" -> {row, [row EXCEPT !.said = @ \cup {NEW_FINDING}]}
       [] loss = "failed" -> {[row EXCEPT !.ok = FALSE, !.said = {}]}
       [] loss = "unparsed" -> {[row EXCEPT !.parsed = FALSE, !.said = {}]}
       [] loss = "truncated" -> {[row EXCEPT !.truncated = TRUE, !.said = s] : s \in SUBSET open}
       [] loss = "mistyped" -> {[row EXCEPT !.said = s \cup {"P9"}] : s \in SUBSET open}
       [] loss = "stripped" -> {[row EXCEPT !.answer = FALSE, !.said = {}]}
       [] OTHER -> {[row EXCEPT !.there = FALSE, !.answer = FALSE, !.said = {}]}

WholeButTruncated(row) == (* (mutant) *)
  row.there /\ row.answer /\ row.ok /\ row.parsed /\ row.said \subseteq Refs \cup {NEW_FINDING}

Whole(row) ==
  /\ row.there /\ row.answer
  /\ row.ok /\ row.parsed /\ ~row.truncated
  /\ row.said \subseteq Refs \cup {NEW_FINDING}

FindingStatus(ref, stored) ==
  IF \E i \in DOMAIN stored : ref \in stored[i].said THEN "still_open"
  ELSE IF \A i \in DOMAIN stored : Whole(stored[i]) THEN "resolved" ELSE "unknown"

-----------------------------------------------------------------------------
(* Every serious finding of the block a reviewer ends with is in a summary that
   can be finalized, at no lesser severity: none is lost to a broken block, to
   the cut at MAX_FINDINGS, or to a combined finding that plays it down. *)
SeriousFindingsSurvive ==
  \A answer \in Answers, second \in SecondAnswers, other \in OtherAnswers :
    LET mine == Reask(ParseFindings(answer), ParseFindings(second))
        theirs == ParseFindings(other)
        meant == IF ParseFindings(answer).parsed THEN Meant(answer) ELSE Meant(second)
        findings == FindingsOf("a", mine) \cup FindingsOf("b", theirs)
    IN (mine.parsed /\ theirs.parsed /\ mine.truncated = 0) =>
         /\ meant.known
         /\ \A summary \in Summaries :
              Finalizes({mine, theirs}, findings, summary) =>
                LET carried == {id \in UNION {c.sources : c \in summary} :
                                  \E c \in summary : id \in c.sources /\ c.severity \in SERIOUS}
                IN Cardinality({id \in carried : id[1] = "a"}) >= Serious(meant.list)

(* `resolved` is what every reviewer of the recheck said: a finding one of them
   still sees is never called so, however much of the answer was lost. *)
ResolvedIsEarned ==
  \A open1, open2 \in SUBSET Refs, loss1, loss2 \in Losses :
    \A row1 \in RecheckRows(open1, loss1), row2 \in RecheckRows(open2, loss2), ref \in Refs :
      /\ FindingStatus(ref, <<row1, row2>>) = "resolved" => ref \notin open1 \cup open2
      /\ FindingStatus(ref, <<row1, row2>>) = "still_open" => ref \in open1 \cup open2
=============================================================================
