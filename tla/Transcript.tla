------------------------------ MODULE Transcript ------------------------------
(***************************************************************************)
(* The transcript of one debate: the records the service appends, and what *)
(* it reads back out of them (internal/core/service.go, models.go).        *)
(*                                                                         *)
(* A transcript is a sequence of messages in seq order.  Wording is        *)
(* abstracted to what the service itself tells apart: which of the six     *)
(* degradation notices a system message is, and whether the moderator's    *)
(* result reports consensus.                                               *)
(***************************************************************************)
EXTENDS Integers, Sequences, FiniteSetsExt

CONSTANTS
    Agents,     \* the registered agents
    NoAgent     \* the empty agent id

ASSUME NoAgentAssumption == NoAgent \notin Agents

Modes == {"moderator", "hybrid"}

NoticeBudgetSummary               == "budget_summary"
NoticeUnavailableSummary          == "unavailable_summary"
NoticeBudgetVerdictModerator      == "budget_verdict_moderator"
NoticeUnavailableVerdictModerator == "unavailable_verdict_moderator"
NoticeBudgetVerdictHybrid         == "budget_verdict_hybrid"
NoticeUnavailableVerdictHybrid    == "unavailable_verdict_hybrid"

Notices == {NoticeBudgetSummary, NoticeUnavailableSummary,
            NoticeBudgetVerdictModerator, NoticeUnavailableVerdictModerator,
            NoticeBudgetVerdictHybrid, NoticeUnavailableVerdictHybrid}

\* What a verdict notice says in each mode, for the two published causes.
BudgetVerdict(mode) ==
    IF mode = "hybrid" THEN NoticeBudgetVerdictHybrid
                       ELSE NoticeBudgetVerdictModerator
UnavailableVerdict(mode) ==
    IF mode = "hybrid" THEN NoticeUnavailableVerdictHybrid
                       ELSE NoticeUnavailableVerdictModerator

TurnSkipped == "turn_skipped"       \* the message expireTurns writes

\* `by` is what SpeakerName tells a reader: an agent, the moderator model, or
\* the service itself (SystemSpeakerName).
Message == [kind      : {"argument", "system", "summary", "verdict"},
            round     : Nat,
            by        : {"agent", "system", "moderator"},
            speaker   : Agents \cup {NoAgent},
            support   : Agents \cup {NoAgent},
            text      : Notices \cup {TurnSkipped, ""},
            consensus : BOOLEAN]

Argument(round, agent, support) ==
    [kind |-> "argument", round |-> round, by |-> "agent", speaker |-> agent,
     support |-> support, text |-> "", consensus |-> FALSE]

SystemMessage(round, text) ==
    [kind |-> "system", round |-> round, by |-> "system", speaker |-> NoAgent,
     support |-> NoAgent, text |-> text, consensus |-> FALSE]

RoundSummary(round, consensus) ==
    [kind |-> "summary", round |-> round, by |-> "moderator",
     speaker |-> NoAgent, support |-> NoAgent, text |-> "",
     consensus |-> consensus]

Verdict(round, by, consensus) ==
    [kind |-> "verdict", round |-> round, by |-> by, speaker |-> NoAgent,
     support |-> NoAgent, text |-> "", consensus |-> consensus]

-------------------------------------------------------------------------------
(* What a moderation pass reads back. *)

\* The positions of the structured results of one round.
Results(msgs, round, kind) ==
    {i \in DOMAIN msgs : msgs[i].round = round /\ msgs[i].kind = kind}

\* moderationMessagesForRound refuses a round with two results of one kind.
Ambiguous(msgs, round) ==
    \E kind \in {"summary", "verdict"} :
        \E i, j \in Results(msgs, round, kind) : i # j

Stored(msgs, round, kind) == Results(msgs, round, kind) # {}

StoredConsensus(msgs, round, kind) ==
    \E i \in Results(msgs, round, kind) : msgs[i].consensus

\* A notice binds the round it was written in and no other.
NoticeRecorded(msgs, round, notice) ==
    \E i \in DOMAIN msgs :
        /\ msgs[i].kind = "system"
        /\ msgs[i].round = round
        /\ msgs[i].text = notice

CommittedDegradation(msgs, round, budgetNotice, unavailableNotice) ==
    CASE NoticeRecorded(msgs, round, budgetNotice)      -> budgetNotice
      [] NoticeRecorded(msgs, round, unavailableNotice)
           /\ ~NoticeRecorded(msgs, round, budgetNotice) -> unavailableNotice
      [] OTHER                                           -> ""

-------------------------------------------------------------------------------
(* Votes: each speaker backs whoever the last argument named, or itself. *)

Arguments(msgs) == {i \in DOMAIN msgs : msgs[i].kind = "argument"}

Speakers(msgs) == {msgs[i].speaker : i \in Arguments(msgs)}

CurrentVotes(msgs) ==
    [a \in Speakers(msgs) |->
        LET last == msgs[Max({i \in Arguments(msgs) : msgs[i].speaker = a})]
        IN  IF last.support = NoAgent THEN a ELSE last.support]

Unanimity(votes) ==
    /\ \E a, b \in DOMAIN votes : a # b
    /\ \A a, b \in DOMAIN votes : votes[a] = votes[b]
===============================================================================
