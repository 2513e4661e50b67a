----------------------------- MODULE AgentTurn -----------------------------
(***************************************************************************)
(* How one turn of a vendor's CLI becomes an answer: the readers of the    *)
(* event streams (consult/adapters/*.py, code/adapters/*.py), the check    *)
(* that the configured model answered, the parts of a long prompt, and     *)
(* the token counts of the turn (consult/adapters/base.py).                *)
(*                                                                         *)
(* A CLI is a child process that may be killed after any event.  What it   *)
(* would have printed is its script, which ends with the event by which    *)
(* its runtime says that the turn is over; the server sees a prefix of it  *)
(* and an exit code.  Events are kinds, and texts are their positions.     *)
(***************************************************************************)
EXTENDS Integers, FiniteSets, SequencesExt

StreamRuntimes ==
  {"codex", "codex_write", "claude", "claude_web", "opencode", "opencode_write", "copilot"}

(* The events that end a turn, per runtime: a step's end in opencode's stream,
   a result with the answer in it or one that reports an error for claude,
   whose envelope it is, and for copilot. *)
TerminalKinds(r) ==
  CASE r \in {"codex", "codex_write"} -> {"turn_completed"}
    [] r \in {"opencode", "opencode_write"} -> {"step_finish"}
    [] OTHER -> {"result", "error_result"}

Sessions == {"s", "t"}
NoSession == "-"

(* thread: names the session; say: text of an answer; blank: an empty one;
   act: a command, a patch, a tool; net: the network; fail: a failed turn;
   broken: a `{` line that is no JSON; think: anything harmless. *)
Kinds == {"thread", "say", "blank", "act", "net", "fail", "broken", "think"}

StreamEvents == [kind : Kinds, session : Sessions]

Ended(r, length) ==
  {Append(body, end) :
     body \in SeqOf(StreamEvents, length), end \in [kind : TerminalKinds(r), session : {"s"}]}

(* The turns of opencode are of steps, each with its end: of one or two here. *)
Stepwise == {"opencode", "opencode_write"}

Scripts(r) ==
  Ended(r, 2) \cup
    (IF r \in Stepwise THEN {first \o second : first, second \in Ended(r, 1)} ELSE {})

(* A child that is killed exits with something else than 0; whether one that
   finishes does is its own affair. *)
Printed(script) ==
  {[events |-> SubSeq(script, 1, k), rc |-> rc] : k \in 0 .. Len(script), rc \in {0, 1}}
    \ {[events |-> SubSeq(script, 1, k), rc |-> 0] : k \in 0 .. Len(script) - 1}

Has(out, kinds) == \E i \in DOMAIN out.events : out.events[i].kind \in kinds

FirstSession(out, kinds, fallback) ==
  LET at == {i \in DOMAIN out.events : out.events[i].kind \in kinds}
  IN IF at = {} THEN fallback
     ELSE out.events[CHOOSE i \in at : \A j \in at : i <= j].session

LastText(out) ==
  LET at == {i \in DOMAIN out.events : out.events[i].kind = "say"}
  IN IF at = {} THEN 0 ELSE CHOOSE i \in at : \A j \in at : i >= j

Refused == [ok |-> FALSE, session |-> NoSession]
Answered(session) == [ok |-> TRUE, session |-> session]
Verdict(accepted, session) == IF accepted THEN Answered(session) ELSE Refused

-----------------------------------------------------------------------------
(* The readers.  Each names what it refuses; what it does not consult is as
   much a part of it. *)

(* A diagnostic that is no JSON is skipped; the last message is the answer. *)
ReadCodex(out, web, resume) ==
  LET thread == FirstSession(out, {"thread"}, resume)
  IN Verdict(/\ out.events # << >>
             /\ ~Has(out, IF web THEN {"act"} ELSE {"act", "net"})
             /\ ~Has(out, {"fail"}) /\ out.rc = 0
             /\ thread # NoSession
             /\ LastText(out) # 0, thread)

(* A worker acts, and need not say anything; the network stays closed. *)
ReadCodexWrite(out) ==
  Verdict(/\ out.events # << >>
          /\ ~Has(out, {"net", "fail"})
          /\ out.rc = 0, FirstSession(out, {"thread"}, NoSession))

(* One envelope with the answer in it, printed at the end or not at all. *)
ReadClaude(out, resume) ==
  LET session == FirstSession(out, {"result"}, resume)
  IN Verdict(/\ out.rc = 0
             /\ Has(out, {"result"})
             /\ session # NoSession, session)

(* Each line is checked as it arrives; a turn over the budget stops the child,
   and what it has printed so far is all that is read.  Its exit code is not. *)
WithinTurns(out, limit) ==
  LET turns(k) == Cardinality({i \in 1 .. k : out.events[i].kind \in {"say", "blank"}})
      over == {k \in DOMAIN out.events : turns(k) > limit}
  IN IF over = {} THEN out
     ELSE [out EXCEPT !.events = SubSeq(@, 1, CHOOSE k \in over : \A j \in over : k <= j)]

ReadClaudeWeb(out, resume, limit) ==
  LET read == WithinTurns(out, limit)
      session == FirstSession(read, {"result"}, resume)
  IN Verdict(/\ ~Has(read, {"act"})
             /\ Has(read, {"result"})
             /\ session # NoSession, session)

(* Every event carries a session, and they must agree, with the one resumed too. *)
OneSessionIn(out, resume) ==
  \A i \in DOMAIN out.events :
    out.events[i].session =
      IF resume # NoSession THEN resume ELSE FirstSession(out, Kinds \cup {"step_finish"}, NoSession)

(* Without the end of any step what was read is a fragment; whether it is the
   end of the last one is not asked. *)
StepFinishedAnyhow(out) == TRUE (* (mutant) *)

StepFinished(out) == Has(out, {"step_finish"})

ReadOpencode(out, resume) ==
  LET session == FirstSession(out, Kinds \cup {"step_finish"}, resume)
  IN Verdict(/\ ~Has(out, {"broken", "fail", "act", "net"})
             /\ OneSessionIn(out, resume)
             /\ session # NoSession
             /\ StepFinished(out)
             /\ LastText(out) # 0, session)

ReadOpencodeWrite(out) ==
  LET session == FirstSession(out, Kinds \cup {"step_finish"}, NoSession)
  IN Verdict(/\ ~Has(out, {"broken", "fail"})
             /\ OneSessionIn(out, NoSession)
             /\ session # NoSession
             /\ StepFinished(out), session)

(* The session is the server's own choice, and the last event must name it. *)
ReadCopilot(out, session) ==
  Verdict(/\ out.rc = 0
          /\ ~Has(out, {"broken", "act", "net"})
          /\ Has(out, {"result"})
          /\ FirstSession(out, {"result"}, NoSession) = session
          /\ LastText(out) # 0, session)

ReadTurn(r, out, web, resume) ==
  CASE r = "codex" -> ReadCodex(out, web, resume)
    [] r = "codex_write" -> ReadCodexWrite(out)
    [] r = "claude" -> ReadClaude(out, resume)
    [] r = "claude_web" -> ReadClaudeWeb(out, resume, 1)
    [] r = "opencode" -> ReadOpencode(out, resume)
    [] r = "opencode_write" -> ReadOpencodeWrite(out)
    [] OTHER -> ReadCopilot(out, IF resume = NoSession THEN "s" ELSE resume)

-----------------------------------------------------------------------------
(* A name is a sequence of tokens, of which some are numbers and some of those
   long enough to be the date of a snapshot; VARIANT_TOKENS is {"mini"} here. *)
Tokens == {"gpt", "mini", "4", "5", "20250101"}
IsNumber(token) == token \in {"4", "5", "20250101"}
IsSnapshot(token) == token = "20250101"
VARIANT_TOKENS == {"mini"}

ModelNames == SeqOf(Tokens, 3) \ {<< >>}

(* What may surround the shorter name in the longer one. *)
AroundMatch(before, shorter, after) ==
  /\ \A t \in ToSet(before) : ~IsNumber(t)
  /\ (\A t \in ToSet(shorter) : ~IsNumber(t)) \/ \A t \in ToSet(after) : IsSnapshot(t)

SameModel(configured, actual) ==
  LET actualLonger == Len(actual) >= Len(configured)
      longer == IF actualLonger THEN actual ELSE configured
      shorter == IF actualLonger THEN configured ELSE actual
      width == Len(shorter)
  IN \/ configured = actual
     \/ \E start \in 0 .. Len(longer) - width :
          /\ SubSeq(longer, start + 1, start + width) = shorter
          /\ AroundMatch(SubSeq(longer, 1, start), shorter,
                         SubSeq(longer, start + width + 1, Len(longer)))

CheckModel(configured, actual) ==
  /\ actual # << >>
  /\ SameModel(configured, actual)
  /\ VARIANT_TOKENS \cap ToSet(configured) = VARIANT_TOKENS \cap ToSet(actual)

Versions(name) == {t \in ToSet(name) : IsNumber(t) /\ ~IsSnapshot(t)}
Variants(name) == {t \in ToSet(name) : t = "mini"}

-----------------------------------------------------------------------------
(* A prompt too long for one argument goes to antigravity in parts, one CLI run
   each, then a run that asks for the answer: what comes back of a run. *)
Runs ==
  [whole : BOOLEAN, model : {"", "right", "wrong"}, conversation : Sessions \cup {NoSession},
   said : {"ACK 1", "ACK 2", "answer"}]

ACK == <<"ACK 1", "ACK 2">>

(* whole: a result event, SUCCESS, exit 0 and no tool but `finish`. *)
Delivered(state, run, index, answering) ==
  LET conversation == IF run.conversation # NoSession THEN run.conversation
                      ELSE state.conversation
  IN [ok |-> /\ state.ok /\ run.whole
             /\ run.model # "wrong"
             /\ (state.conversation # NoSession => conversation = state.conversation)
             /\ conversation # NoSession
             /\ run.said = IF answering THEN "answer" ELSE ACK[index],
      conversation |-> conversation]

Deliver(runs, resume) ==
  LET state[i \in 0 .. Len(runs)] ==
        IF i = 0 THEN [ok |-> TRUE, conversation |-> resume]
        ELSE Delivered(state[i - 1], runs[i], i, i = Len(runs))
  IN state[Len(runs)]

-----------------------------------------------------------------------------
(***************************************************************************)
(* What a vendor reports of a count: nothing, a number in one of the forms *)
(* the parser reads (an integer, an integral float, digits), or something  *)
(* it does not.  A usage is the total and the number of its caveats, which *)
(* is what makes a turn's counts_incomplete.                               *)
(***************************************************************************)
Absent == [is |-> "absent", n |-> 0]
Unreadable == [is |-> "unreadable", n |-> 0]
Counted(n) == [is |-> "count", n |-> n]
Reported == {Absent, Unreadable} \cup {Counted(n) : n \in {-1, 0, 2}}

ParseCount(v) == v.is = "count"

Usage == [tokens : Nat, caveats : Nat]
Quiet(n) == [tokens |-> n, caveats |-> 0]
Caveat(n) == [tokens |-> n, caveats |-> 1]
UsageAdd(a, b) == [tokens |-> a.tokens + b.tokens, caveats |-> a.caveats + b.caveats]

UsageCountQuietly(v) == Quiet(IF ParseCount(v) /\ v.n >= 0 THEN v.n ELSE 0) (* (mutant) *)

UsageCount(v) ==
  CASE v = Absent -> Quiet(0)
    [] ParseCount(v) /\ v.n >= 0 -> Quiet(v.n)
    [] OTHER -> Caveat(0)

UsageTotal(usages) ==
  LET sum[i \in 0 .. Len(usages)] ==
        IF i = 0 THEN Quiet(0) ELSE UsageAdd(sum[i - 1], usages[i])
  IN sum[Len(usages)]

UsageSum(counts) == UsageTotal([i \in DOMAIN counts |-> UsageCount(counts[i])])

(* The first spelling that can be read; those in front of it that are there
   and cannot are noted. *)
UsageAny(first, second) ==
  IF ParseCount(first) /\ first.n >= 0 THEN Quiet(first.n)
  ELSE UsageAdd(UsageCount(first), UsageCount(second))

(* A total that contradicts its parts, and a cache larger than the prompt it is
   part of, change no count and leave a note. *)
CheckReportedTotal(total, expected) ==
  IF ParseCount(total) /\ total.n # expected THEN Caveat(0) ELSE Quiet(0)

CheckCacheIsABreakdown(cached, first, second) ==
  LET read == {v \in {first, second} : ParseCount(v) /\ v.n >= 0}
      prompt == IF first \in read THEN first.n ELSE second.n
  IN IF ParseCount(cached) /\ cached.n > 0 /\ read # {} /\ cached.n > prompt
     THEN Caveat(0) ELSE Quiet(0)

CodexUsage(input, prompt, output, total, cached) ==
  LET counts == UsageAdd(UsageAny(input, prompt), UsageAny(output, Absent))
  IN UsageAdd(counts, UsageAdd(CheckReportedTotal(total, counts.tokens),
                               CheckCacheIsABreakdown(cached, input, prompt)))

ClaudeUsage(input, cacheRead, cacheCreation, output) ==
  UsageSum(<<input, cacheRead, cacheCreation, output>>)

(* A step reports five disjoint counts and their total, and a turn is its steps. *)
OpencodeStep(input, cacheRead, cacheWrite, output, reasoning, total) ==
  LET counts == UsageSum(<<input, cacheRead, cacheWrite, output, reasoning>>)
  IN UsageAdd(counts, CheckReportedTotal(total, counts.tokens))

OpencodeUsage(steps) == UsageTotal(steps)

AntigravityUsage(input, cacheRead, output, thinking, total) ==
  UsageAdd(UsageSum(<<input, cacheRead, output, thinking>>),
           CheckReportedTotal(total, UsageSum(<<input, output>>).tokens))

(* Copilot's file has the last model call only. *)
CopilotUsage(input, output, calls) ==
  UsageAdd(UsageSum(<<input, output>>),
           UsageAdd(IF calls # 1 THEN Caveat(0) ELSE Quiet(0),
                    IF input = Absent /\ output = Absent THEN Caveat(0) ELSE Quiet(0)))

(* A reply that does not match the schema is asked for once more in its session,
   and both requests were paid for. *)
RepairedUsage(parses, first, again) == IF parses THEN first ELSE UsageAdd(first, again)

(* What a count may stand for: one that cannot be read hides any number. *)
Hidden(v) == v.is = "unreadable" \/ v.n < 0
Known(v) == IF Hidden(v) THEN 0 ELSE v.n

-----------------------------------------------------------------------------
StreamsAreWhole ==
  \A r \in StreamRuntimes : \A script \in Scripts(r) : \A out \in Printed(script) :
    \A web \in BOOLEAN, resume \in {NoSession, "s", "t"} :
      LET turn == ReadTurn(r, out, web, resume)
      IN turn.ok =>
           /\ r \notin Stepwise => out.events = script
           /\ r \in Stepwise => \E step \in Ended(r, 2) : IsPrefix(step, out.events)
           /\ r \in {"opencode", "copilot"} /\ resume # NoSession => turn.session = resume
           /\ r \in Stepwise =>
                \A i \in DOMAIN out.events : out.events[i].session = turn.session

ModelsAgree ==
  \A configured, actual \in ModelNames :
    CheckModel(configured, actual) =>
      /\ Variants(configured) = Variants(actual)
      /\ Versions(configured) # {} /\ Versions(actual) # {} =>
           Versions(configured) = Versions(actual)

PromptsAreWhole ==
  \A runs \in [1 .. 1 -> Runs] \cup [1 .. 3 -> Runs], resume \in {NoSession, "s"} :
    LET end == Deliver(runs, resume)
    IN end.ok =>
         /\ \A i \in DOMAIN runs :
              /\ runs[i].conversation \in {NoSession, end.conversation}
              /\ runs[i].model # "wrong" /\ runs[i].whole
         /\ Len(runs) > 1 => runs[1].said = "ACK 1" /\ runs[2].said = "ACK 2"

(* A reader never answers from a stream that was cut before its end, except that
   opencode's answer from any that has one whole step, and so from one cut in a
   later step; nor, where the CLI is told its session, from another one, nor,
   where each event names one, from two (consult/adapters/*.py); a version or a
   variant other than the configured one is never taken for it (base.py,
   _same_model and check_model); and an answer to a prompt sent in parts is an
   answer to all of them, in one conversation (antigravity_cli.py). *)
AnswerIsEarned == StreamsAreWhole /\ ModelsAgree /\ PromptsAreWhole

ReadCountsAreKept ==
  \A a, b, c, d, total \in Reported :
    /\ \A usage \in {ClaudeUsage(a, b, c, d), AntigravityUsage(a, b, c, d, total)} :
         /\ usage.tokens = Known(a) + Known(b) + Known(c) + Known(d)
         /\ (\E v \in {a, b, c, d} : Hidden(v)) => usage.caveats > 0
    /\ \A e, again \in Reported :
         LET step == OpencodeStep(a, b, c, d, e, total)
             usage == OpencodeUsage(<<step, OpencodeStep(again, a, b, c, d, total)>>)
         IN /\ usage.tokens = Known(e) + Known(again)
                                + 2 * (Known(a) + Known(b) + Known(c) + Known(d))
            /\ (\E v \in {a, b, c, d, e, again} : Hidden(v)) => usage.caveats > 0

DoubtsAreNoted ==
  /\ \A a, b, c, cached \in Reported :
       LET usage == CodexUsage(a, b, c, Absent, cached)
       IN /\ (Hidden(a) \/ Hidden(c)) => usage.caveats > 0
          /\ (~Hidden(a) /\ a # Absent /\ ~Hidden(cached) /\ cached.n > a.n) => usage.caveats > 0
  /\ \A a, b \in Reported, calls \in 0 .. 2, parses \in BOOLEAN :
       LET first == CopilotUsage(a, b, calls)
           usage == RepairedUsage(parses, first, CopilotUsage(b, a, 1))
       IN /\ (Hidden(a) \/ Hidden(b) \/ calls > 1) => usage.caveats > 0
          /\ ~parses => usage.tokens = 2 * (Known(a) + Known(b))

(* A count the vendor reported in a form the server cannot read is never a
   silent nought: the turn's usage says that it is incomplete, through the sums
   over steps and over the second request of a repair (base.py, accounted). *)
ShortUsageIsFlagged == ReadCountsAreKept /\ DoubtsAreNoted
=============================================================================
