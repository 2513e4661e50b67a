---------------------------- MODULE Conversation -----------------------------
(***************************************************************************)
(* What the record of consultations promises of each of them: a log of     *)
(* turns numbered from one, written by one speaker at a time, that nobody  *)
(* erases under a speaker.                                                 *)
(***************************************************************************)
EXTENDS Integers, FiniteSets

CONSTANTS Talks, Speakers

VARIABLES log,       \* the numbers of the recorded turns
          speaking   \* who holds the floor: nobody, or one speaker

talk == <<log, speaking>>

TalkInit == /\ log = [i \in Talks |-> {}]
            /\ speaking = [i \in Talks |-> {}]

\* A speaker takes a free floor ...
Take(i, c) ==
    /\ speaking[i] = {}
    /\ speaking' = [speaking EXCEPT ![i] = {c}]
    /\ UNCHANGED log

\* ... adds the next turn ...
Say(i) ==
    /\ speaking[i] # {}
    /\ log' = [log EXCEPT ![i] = @ \cup {Cardinality(@) + 1}]
    /\ UNCHANGED speaking

\* ... and leaves, or is made to.
Leave(i) ==
    /\ speaking[i] # {}
    /\ speaking' = [speaking EXCEPT ![i] = {}]
    /\ UNCHANGED log

\* Talks are erased when nobody speaks in them.
EraseTalks(T) ==
    /\ \A i \in T : speaking[i] = {}
    /\ log' = [i \in Talks |-> IF i \in T THEN {} ELSE log[i]]
    /\ UNCHANGED speaking

TalkNext == \/ \E i \in Talks : (\E c \in Speakers : Take(i, c)) \/ Say(i) \/ Leave(i)
            \/ \E T \in SUBSET Talks : EraseTalks(T)

TalkSpec == TalkInit /\ [][TalkNext]_talk
==============================================================================
