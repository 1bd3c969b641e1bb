------------------------------ MODULE Conformance -----------------------------
(***************************************************************************)
(* The exported artifact of a debate, and the rules by which the           *)
(* conformance suite judges it (internal/conformance): C1 to C11 and C14.  *)
(* C0, C12 and C13 are about data that the models of the service leave out *)
(* (the encoding, the citations, the description).                         *)
(*                                                                         *)
(* The stream is abstracted to its four groups: the debate record, the     *)
(* participants, the transcript and the votes.  Records whose position is  *)
(* fixed by a key are sets, the transcript is a sequence in seq order.     *)
(*                                                                         *)
(*   debate       : status, mode, rounds, current, consensus               *)
(*   participants : agent, joined                                          *)
(*   transcript   : type, kind, round, speaker, support, consensus         *)
(*   votes        : agent, supports                                        *)
(***************************************************************************)
EXTENDS Integers, Sequences, FiniteSets

CONSTANTS
    NoOne,          \* the absent id
    RosterLimit     \* MaxParticipants

NotYet == {"open", "preparing"}

Started(t) == t.debate.status \notin NotYet

Roster(t) == {p.agent : p \in t.participants}

Records(t, type) == {i \in DOMAIN t.transcript : t.transcript[i].type = type}

Said(t) == {i \in Records(t, "message") : t.transcript[i].kind = "argument"}

\* The turn order is not read off the artifact but recovered from the join times.
JoinedBefore(t, a, b) ==
    \E p, q \in t.participants : p.agent = a /\ q.agent = b /\ p.joined < q.joined

ParticipantCount(t) ==
    /\ Cardinality(t.participants) <= RosterLimit
    /\ Started(t) => Cardinality(t.participants) >= 2

SpeakerIdentity(t) ==
    \A i \in Records(t, "message") :
        LET m == t.transcript[i]
        IN  /\ m.kind = "argument" => m.speaker \in Roster(t)
            /\ m.kind = "system" => m.speaker = NoOne /\ m.support = NoOne

SupportTarget(t) ==
    \A i \in Records(t, "message") : t.transcript[i].support \in Roster(t) \cup {NoOne}

InTurnOrder(t) ==
    \A i, j \in Said(t) :
        (i < j /\ t.transcript[i].round = t.transcript[j].round)
            => JoinedBefore(t, t.transcript[i].speaker, t.transcript[j].speaker)

Rounds(t) ==
    /\ t.debate.current <= t.debate.rounds
    /\ Started(t) <=> t.debate.current >= 1
    /\ \A i \in DOMAIN t.transcript :
          /\ t.transcript[i].round \in 1..t.debate.rounds
          /\ t.transcript[i].round <= t.debate.current
          /\ i > 1 => t.transcript[i - 1].round <= t.transcript[i].round

RoundSummaries(t) ==
    \A i, j \in Records(t, "round_summary") :
        i # j => t.transcript[i].round # t.transcript[j].round

VerdictCloses(t) ==
    \A i \in Records(t, "verdict") :
        /\ i = Len(t.transcript)
        /\ t.debate.status \in {"moderating", "concluded"}

VerdictsAgree(t) ==
    \A i \in Records(t, "verdict") : t.transcript[i].consensus = t.debate.consensus

\* The hybrid rule: at least two voted, and all for one position.
Unanimous(votes) ==
    /\ Cardinality(votes) >= 2
    /\ \A v, w \in votes : v.supports = w.supports

ModeratorConsensus(t) ==
    (t.debate.mode = "moderator" /\ t.debate.status = "concluded") => VerdictsAgree(t)

HybridConsensus(t) ==
    (t.debate.mode = "hybrid" /\ t.debate.status = "concluded") =>
        /\ Unanimous(t.votes) = t.debate.consensus
        /\ VerdictsAgree(t)

\* Whoever spoke votes for whom the last argument supported; silence is a vote for
\* oneself.
ExpectedVotes(t) ==
    {[agent |-> t.transcript[i].speaker,
      supports |-> IF t.transcript[i].support = NoOne THEN t.transcript[i].speaker
                                                      ELSE t.transcript[i].support] :
        i \in {j \in Said(t) : \A k \in Said(t) :
                  t.transcript[k].speaker = t.transcript[j].speaker => k <= j}}

VotesAreDerived(t) ==
    (t.debate.mode = "hybrid" /\ Started(t)) =>
        /\ t.votes = ExpectedVotes(t)
        /\ \A v \in t.votes : v.supports \in Roster(t)

VotesAreAbsent(t) == t.votes # {} => t.debate.mode = "hybrid" /\ Started(t)

EmptyBeforeStart(t) == ~Started(t) => t.transcript = <<>>

\* CheckRecords: an artifact conforms when it breaks no rule.
Conforms(t) ==
    /\ ParticipantCount(t)          \* C1
    /\ SpeakerIdentity(t)           \* C2
    /\ SupportTarget(t)             \* C3
    /\ InTurnOrder(t)               \* C4
    /\ Rounds(t)                    \* C5
    /\ RoundSummaries(t)            \* C6
    /\ VerdictCloses(t)             \* C7
    /\ ModeratorConsensus(t)        \* C8
    /\ HybridConsensus(t)           \* C9
    /\ VotesAreDerived(t)           \* C10
    /\ VotesAreAbsent(t)            \* C11
    /\ EmptyBeforeStart(t)          \* C14
===============================================================================
