-------------------------------- MODULE Court ---------------------------------
(***************************************************************************)
(* The debate service (internal/core/service.go) around one debate: the    *)
(* lifecycle handlers, the background ticker and the moderation passes.    *)
(*                                                                         *)
(* One debate is enough: debates share the transition lock and the attempt *)
(* map, but every entry and every row belongs to one of them.              *)
(*                                                                         *)
(* A handler that holds the transition lock `mu` from its first read to    *)
(* its last write is one action, with one outcome per write the store can  *)
(* refuse.  What runs outside the lock is a process with a program         *)
(* counter: the ticker goroutine (Run) and the moderation goroutines       *)
(* (moderateAsync), each with the values it has read and may find stale.   *)
(***************************************************************************)
EXTENDS Transcript, Attempts, FiniteSets

CONSTANTS
    Creator,            \* the agent that creates the debate
    Supports,           \* the support ids clients send, NoAgent for none
    AllowedModes,       \* the modes clients ask for
    RoundCounts,        \* the numbers of rounds clients ask for
    PrepTimes,          \* whether clients ask for preparation time
    MaxParticipants,
    Budget,             \* DebateTokens; 0 removes the ceiling
    Overhead,           \* prompt overhead and reply reserve of one call
    Costs,              \* what a billed model call may cost
    Billing,            \* how the provider bills and reports, see Call
    Faulty,             \* the store operations that may fail
    PromptLaunch,       \* timing assumption, see LaunchIsPrompt
    PromptSweep,        \* timing assumption, see SweepIsPrompt
    MaxPasses,          \* bound: moderation goroutines alive at once
    MaxFaults,          \* bound: store operations that fail
    MaxCrashes          \* bound: process deaths

Slots == 1..MaxPasses
Operations == {"turn", "read", "write", "charge"}

\* The rounds a debate can be declared to have.
DeclaredRounds == UNION {1..n : n \in RoundCounts}

ASSUME CourtAssumption ==
    /\ Creator \in Agents
    /\ Supports \subseteq Agents \cup {NoAgent}
    /\ AllowedModes \subseteq Modes
    /\ RoundCounts \subseteq Nat \ {0}
    /\ PrepTimes \subseteq BOOLEAN
    /\ MaxParticipants \in Nat \ {0} /\ Budget \in Nat /\ Overhead \in Nat
    /\ Costs \subseteq Nat \ {0}
    /\ Billing \subseteq {"unbilled", "lost", "reported", "unreported"}
    /\ Faulty \subseteq Operations
    /\ PromptLaunch \in BOOLEAN /\ PromptSweep \in BOOLEAN
    /\ MaxPasses \in Nat /\ MaxFaults \in Nat /\ MaxCrashes \in Nat

VARIABLES
    \* stored: the row of table debates, its participants and its messages
    status, round, turn, late, consensus, tokens,
    params, roster, transcript,
    \* in memory: moderations[id], and whether its retry pause is running
    attempts, paused,
    \* the goroutine of Run, and the debate list it read without the lock
    ticker, snapshot,
    \* the goroutines of moderateAsync and their local variables
    pc, pass,
    \* history: failed operations, process deaths by crash and by panic, calls the
    \* store has not counted, debate_concluded events
    faults, crashes, panics, unbooked, conclusions

row     == <<status, round, turn, late, consensus>>
stored  == <<row, tokens, params, roster, transcript>>
memory  == <<attempts, paused>>
sweep   == <<ticker, snapshot>>
passes  == <<pc, pass>>
history == <<faults, crashes, panics, unbooked, conclusions>>
vars    == <<stored, memory, sweep, passes, history>>

\* The calls that the provider billed, or may have, and the store never counted:
\* those whose charge was lost with its process or refused by the store, since the
\* first process, and those this process took for unbilled, for each round.
NoReplyLost == [r \in DeclaredRounds |-> 0]
NoneLost    == [charges |-> 0, replies |-> NoReplyLost]

NoSnapshot == [active |-> FALSE, moderating |-> FALSE, round |-> 0]

\* The local variables of a pass: its token, what it has read, the call it is
\* in and the reply, and on what the outcome of the round is based.
Idle == [token |-> 0, round |-> 0, tokens |-> 0, msgs |-> <<>>, parts |-> <<>>,
         consensus |-> FALSE, call |-> "none", reply |-> "none", charge |-> 0,
         basis |-> "none"]

Exists == status \notin {"none", "deleted"}
Active == status \in {"preparing", "running", "moderating"}

Init ==
    /\ status = "none" /\ round = 0 /\ turn = NoAgent
    /\ late = FALSE /\ consensus = FALSE /\ tokens = 0
    /\ params = [mode |-> "moderator", rounds |-> 1, prep |-> FALSE]
    /\ roster = <<>> /\ transcript = <<>>
    /\ attempts = NoAttempts /\ paused = FALSE
    /\ ticker = "read" /\ snapshot = NoSnapshot
    /\ pc = [p \in Slots |-> "idle"] /\ pass = [p \in Slots |-> Idle]
    /\ faults = 0 /\ crashes = 0 /\ panics = 0 /\ unbooked = NoneLost
    /\ conclusions = 0

-------------------------------------------------------------------------------
(* The store. *)

\* The next store operation of this kind fails.
Fails(operation) ==
    /\ operation \in Faulty /\ faults < MaxFaults
    /\ faults' = faults + 1

Works == faults' = faults

\* UpdateDebate writes five columns from the caller's copy of the debate, never
\* the tokens, and reports no error for a row that is gone.
UpdateDebate(newStatus, newRound, newTurn, newConsensus) ==
    IF Exists
    THEN /\ status' = newStatus /\ round' = newRound /\ turn' = newTurn
         /\ consensus' = newConsensus /\ late' = FALSE
    ELSE UNCHANGED row

-------------------------------------------------------------------------------
(* Launching a pass: moderateAsync with beginModerationAttempt. *)

\* Timing assumption.  A launched goroutine does its first read before the next
\* round closes.  Nothing in the code waits for it; it takes microseconds where
\* a round takes at least a turn.
LaunchIsPrompt == PromptLaunch => \A p \in Slots : pc[p] # "fetch"

\* Timing assumption.  A sweep that did not see the debate among the active ones
\* is over before the debate starts; the sweep does no I/O after its read.
SweepIsPrompt ==
    PromptSweep => snapshot.active \/ ticker \notin {"resume", "forget"}

\* One goroutine is like another, so a pass takes the first free slot.
FreeSlot(p) == pc[p] = "idle" /\ \A q \in Slots : q < p => pc[q] # "idle"

Launch(debateRound, trigger) ==
    IF CanBegin(attempts, debateRound, trigger, paused)
    THEN \E p \in Slots :
            /\ FreeSlot(p)
            /\ attempts' = Begun(attempts, debateRound)
            /\ paused' = TRUE
            /\ pc' = [pc EXCEPT ![p] = "fetch"]
            /\ pass' = [pass EXCEPT ![p] = [Idle EXCEPT !.token = attempts'.pass]]
    ELSE UNCHANGED <<memory, passes>>

-------------------------------------------------------------------------------
(* The lifecycle before the first round. *)

\* An observer organises the debate without taking part in it.  The second
\* write failing leaves the same row, although the client is told of an error.
CreateDebate(mode, rounds, prep, observer) ==
    /\ status = "none"
    /\ status' = "open"
    /\ params' = [mode |-> mode, rounds |-> rounds, prep |-> prep]
    /\ \/ roster' = (IF observer THEN <<>> ELSE <<Creator>>) /\ Works
       \/ ~observer /\ roster' = <<>> /\ Fails("write")
    /\ UNCHANGED <<round, turn, late, consensus, tokens, transcript, memory,
                   sweep, passes, crashes, panics,
                   unbooked, conclusions>>

Participating(agent) == \E i \in DOMAIN roster : roster[i] = agent

JoinDebate(agent) ==
    /\ status = "open"
    /\ Len(roster) < MaxParticipants
    /\ ~Participating(agent)
    /\ roster' = Append(roster, agent)
    /\ UNCHANGED <<row, tokens, params, transcript, memory, sweep, passes, history>>

BeginFirstRound == UpdateDebate("running", 1, roster[1], FALSE)

MinimumToStart == 2

StartDebate ==
    /\ status = "open"
    /\ Len(roster) >= MinimumToStart
    /\ SweepIsPrompt
    /\ IF params.prep THEN UpdateDebate("preparing", round, NoAgent, FALSE)
                      ELSE BeginFirstRound
    /\ UNCHANGED <<tokens, params, roster, transcript, memory, sweep, passes, history>>

\* One transaction removes the messages, the participants and the row.
DeleteDebate ==
    /\ Exists
    /\ status' = "deleted" /\ round' = 0 /\ turn' = NoAgent
    /\ late' = FALSE /\ consensus' = FALSE /\ tokens' = 0
    /\ roster' = <<>> /\ transcript' = <<>>
    /\ UNCHANGED <<params, memory, sweep, passes, history>>

-------------------------------------------------------------------------------
(* Turns. *)

\* The positions from which advanceTurn has a next participant to go to.
HasNext(parts, agent) == {i \in 1..(Len(parts) - 1) : parts[i] = agent}

\* advanceTurn; a round that closes starts its moderation under the same lock.
AdvanceTurn ==
    IF HasNext(roster, turn) # {}
    THEN /\ UpdateDebate("running", round,
                         roster[(CHOOSE i \in HasNext(roster, turn) : TRUE) + 1], FALSE)
         /\ UNCHANGED <<memory, passes>>
    ELSE /\ LaunchIsPrompt
         /\ UpdateDebate("moderating", round, NoAgent, FALSE)
         /\ Launch(round, "round_closed")

\* The reply or the skip is stored before the turn is: when the turn cannot be
\* read or written the first write stays and the turn with it.
AdvanceTurnOrFail ==
    \/ Works /\ AdvanceTurn
    \/ Fails("turn") /\ UNCHANGED <<row, memory, passes>>

\* Mutant of HasTurn: any participant may speak.
HasTurn_Anyone(agent) == status = "running" /\ Participating(agent)

HasTurn(agent) == status = "running" /\ turn = agent

PostArgument(agent, support) ==
    /\ HasTurn(agent)
    /\ support = NoAgent \/ Participating(support)
    /\ transcript' = Append(transcript, Argument(round, agent, support))
    /\ AdvanceTurnOrFail
    /\ UNCHANGED <<tokens, params, roster, sweep, crashes, panics,
                   unbooked, conclusions>>

DeadlinePasses ==
    /\ status \in {"preparing", "running"} /\ ~late
    /\ late' = TRUE
    /\ UNCHANGED <<status, round, turn, consensus, tokens, params, roster,
                   transcript, memory, sweep, passes, history>>

-------------------------------------------------------------------------------
(* The background goroutine: Run, one step per thing it does in a tick. *)

\* resumeStuckModeration reads the debates without the transition lock.
SweepReads ==
    /\ ticker = "read"
    /\ \/ /\ Works
          /\ ticker' = "resume"
          /\ snapshot' = [active     |-> Active,
                          moderating |-> status = "moderating",
                          round      |-> IF status = "moderating" THEN round ELSE 0]
       \/ /\ Fails("read")
          /\ ticker' = "expire"
          /\ UNCHANGED snapshot
    /\ UNCHANGED <<stored, memory, passes, crashes, panics,
                   unbooked, conclusions>>

SweepResumes ==
    /\ ticker = "resume"
    /\ ticker' = "forget"
    /\ IF snapshot.moderating THEN Launch(snapshot.round, "resumed")
                              ELSE UNCHANGED <<memory, passes>>
    /\ UNCHANGED <<stored, snapshot, history>>

SweepForgets ==
    /\ ticker = "forget"
    /\ ticker' = "expire"
    /\ snapshot' = NoSnapshot
    /\ attempts' = Forgotten(attempts, snapshot.active)
    /\ paused' = (paused /\ attempts' # NoAttempts)
    /\ UNCHANGED <<stored, passes, history>>

PreparationIsOver == status = "preparing" /\ late /\ roster # <<>>
TurnIsOver        == status = "running" /\ turn # NoAgent /\ late

\* expireTurns, under the transition lock from its read to its last write.
ExpireTurns ==
    /\ ticker = "expire"
    /\ ticker' = "read"
    /\ \/ /\ PreparationIsOver
          /\ Works
          /\ BeginFirstRound
          /\ UNCHANGED <<transcript, memory, passes>>
       \/ /\ TurnIsOver
          /\ transcript' = Append(transcript, SystemMessage(round, TurnSkipped))
          /\ AdvanceTurnOrFail
       \/ /\ Works /\ ~PreparationIsOver /\ ~TurnIsOver
          /\ UNCHANGED <<row, transcript, memory, passes>>
       \/ /\ Fails("read")
          /\ UNCHANGED <<row, transcript, memory, passes>>
    /\ UNCHANGED <<tokens, params, roster, snapshot, crashes, panics,
                   unbooked, conclusions>>

RetryPauseElapses ==
    /\ paused
    /\ paused' = FALSE
    /\ UNCHANGED <<stored, attempts, sweep, passes, history>>

-------------------------------------------------------------------------------
(* A moderation pass: moderate and moderateHybrid, one goroutine per slot. *)

Goto(p, label) == pc' = [pc EXCEPT ![p] = label]

\* The local variables of the pass change to these.
Keep(p, locals) == pass' = [pass EXCEPT ![p] = locals]

\* The pass returns: only its token is still of use, to endModerationAttempt.
Return(p) ==
    /\ Goto(p, "end")
    /\ Keep(p, [Idle EXCEPT !.token = pass[p].token])

\* The pass goes for the next round with what it needs to open it.
TowardsNextRound(p, parts) ==
    /\ Goto(p, "advance")
    /\ Keep(p, [Idle EXCEPT !.token = pass[p].token, !.round = pass[p].round,
                            !.parts = parts])

\* Mutant of LastRound: off by one.
LastRound_OneMore(p) == pass[p].round > params.rounds

LastRound(p) == pass[p].round >= params.rounds

CommittedSummary(msgs, debateRound) ==
    CommittedDegradation(msgs, debateRound,
                         NoticeBudgetSummary, NoticeUnavailableSummary)

CommittedVerdict(msgs, debateRound) ==
    CommittedDegradation(msgs, debateRound,
                         BudgetVerdict(params.mode), UnavailableVerdict(params.mode))

\* Mutant of IsModerating: a pass takes the debate as it finds it.
IsModerating_AnyState == Exists

IsModerating == status = "moderating"

\* A pass that finds the debate elsewhere ends without touching it.
Fetch(p) ==
    /\ pc[p] = "fetch"
    /\ \/ /\ Works
          /\ IF IsModerating
             THEN /\ Goto(p, "read")
                  /\ Keep(p, [pass[p] EXCEPT !.round = round, !.tokens = tokens])
             ELSE Return(p)
       \/ Fails("read") /\ Return(p)
    /\ UNCHANGED <<stored, memory, sweep, crashes, panics,
                   unbooked, conclusions>>

\* Which records of the round bind its outcome: a stored verdict, then a recorded
\* verdict notice.  With neither, the model is asked.
NoticeBasis(msgs, debateRound) ==
    LET committed == CommittedVerdict(msgs, debateRound)
    IN  CASE committed = BudgetVerdict(params.mode)      -> "budget"
          [] committed = UnavailableVerdict(params.mode) -> "unavailable"
          [] OTHER                                       -> "model"

\* Mutant of VerdictBasis: a retry asks again for the verdict it has stored.
VerdictBasis_Forgetful(msgs, debateRound) == NoticeBasis(msgs, debateRound)

VerdictBasis(msgs, debateRound) ==
    IF Stored(msgs, debateRound, "verdict") THEN "stored"
                                            ELSE NoticeBasis(msgs, debateRound)

\* Mutant of RoundConsensus: a retry does not take up the verdict it has stored.
RoundConsensus_SummaryOnly(msgs, debateRound) ==
    IF params.mode = "hybrid" THEN Unanimity(CurrentVotes(msgs))
                              ELSE StoredConsensus(msgs, debateRound, "summary")

\* In hybrid mode the votes decide; in moderator mode a stored result does.
RoundConsensus(msgs, debateRound) ==
    CASE params.mode = "hybrid" -> Unanimity(CurrentVotes(msgs))
      [] params.mode # "hybrid" /\ Stored(msgs, debateRound, "verdict") ->
            StoredConsensus(msgs, debateRound, "verdict")
      [] OTHER -> debateRound < params.rounds
                     /\ StoredConsensus(msgs, debateRound, "summary")

\* Mutant of NeedsNoSummary: a retry does not look for the notice of a missing
\* summary.
NeedsNoSummary_NoticeIgnored(msgs, debateRound) == Stored(msgs, debateRound, "summary")

\* Mutant of NeedsNoSummary: a retry summarises its round again.
NeedsNoSummary_Again(msgs, debateRound) == CommittedSummary(msgs, debateRound) # ""

NeedsNoSummary(msgs, debateRound) ==
    \/ Stored(msgs, debateRound, "summary")
    \/ CommittedSummary(msgs, debateRound) # ""

\* The local variables and the next step of a pass that goes for the verdict.
ForVerdict(p, msgs, reached, basis) ==
    [pass[p] EXCEPT !.msgs = msgs, !.consensus = reached, !.call = "verdict",
                    !.basis = basis]

TowardsVerdict(basis) == IF basis = "model" THEN "admit" ELSE "conclude"

ReadTranscript(p) ==
    /\ pc[p] = "read"
    /\ LET r       == pass[p].round
           reached == RoundConsensus(transcript, r)
           parts   == IF params.mode = "hybrid" THEN roster ELSE <<>>
       IN  \/ /\ Works /\ Ambiguous(transcript, r)
              /\ attempts' = GivenUp(attempts)
              /\ Return(p)
           \/ /\ Works /\ ~Ambiguous(transcript, r)
              /\ UNCHANGED attempts
              /\ IF Stored(transcript, r, "verdict") \/ LastRound(p) \/ reached
                 THEN LET basis == VerdictBasis(transcript, r)
                      IN  /\ Keep(p, ForVerdict(p, transcript, reached, basis))
                          /\ Goto(p, TowardsVerdict(basis))
                 ELSE IF NeedsNoSummary(transcript, r)
                 THEN TowardsNextRound(p, parts)
                 ELSE /\ Keep(p, [pass[p] EXCEPT !.msgs = transcript, !.parts = parts,
                                                 !.call = "summary"])
                      /\ Goto(p, "admit")
           \/ Fails("read") /\ Return(p) /\ UNCHANGED attempts
    /\ UNCHANGED <<stored, paused, sweep, crashes, panics,
                   unbooked, conclusions>>

\* The upper bound of what one call may cost: a token per byte it carries.
Estimate(msgs) == Overhead + Len(msgs)

\* Mutant of BudgetExhausted: what is spent is compared, not what will be.
BudgetExhausted_Afterwards(p) == Budget > 0 /\ pass[p].tokens > Budget

BudgetExhausted(p) ==
    Budget > 0 /\ pass[p].tokens + Estimate(pass[p].msgs) > Budget

\* admitModeration: the call, or the cause for which there will be none.
Admit(p) ==
    /\ pc[p] = "admit"
    /\ LET refused == IF pass[p].call = "summary" THEN "skip" ELSE "conclude"
       IN  \/ /\ ~AffordsModelCall(attempts)
              /\ Keep(p, [pass[p] EXCEPT !.basis = "unavailable"])
              /\ Goto(p, refused) /\ UNCHANGED attempts
           \/ /\ AffordsModelCall(attempts) /\ BudgetExhausted(p)
              /\ Keep(p, [pass[p] EXCEPT !.basis = "budget"])
              /\ Goto(p, refused) /\ UNCHANGED attempts
           \/ /\ AffordsModelCall(attempts) /\ ~BudgetExhausted(p)
              /\ attempts' = Admitted(attempts)
              /\ Goto(p, "call") /\ UNCHANGED pass
    /\ UNCHANGED <<stored, paused, sweep, history>>

AfterCall(p) == IF pass[p].call = "summary" THEN "save" ELSE "conclude"

\* A call is taken for billed when its answer is here or the wait for it was given up.
\* Any other failure is taken for a call that never arrived, also when the answer was
\* lost on its way back.
TakenForUnbilled(bill) == bill \in {"unbilled", "lost"}

\* A billed call is charged what it reports to have cost, or its upper bound.
ChargeOf(bill, cost, bound) ==
    CASE TakenForUnbilled(bill) -> 0
      [] bill = "reported"      -> cost
      [] OTHER                  -> bound

\* The model answers, or its deadline of three minutes passes.
Call(p) ==
    /\ pc[p] = "call"
    /\ \E reply \in {"failed", "open", "agreed"}, bill \in Billing, cost \in Costs :
            LET charge == ChargeOf(bill, cost, Estimate(pass[p].msgs))
            IN  /\ cost <= Estimate(pass[p].msgs)
                /\ TakenForUnbilled(bill) => reply = "failed"
                /\ unbooked' = IF bill = "lost"
                               THEN [unbooked EXCEPT !.replies[pass[p].round] = @ + 1]
                               ELSE unbooked
                /\ Keep(p, [pass[p] EXCEPT
                              !.reply = reply, !.charge = charge,
                              !.basis = IF reply = "failed" THEN "unavailable" ELSE "model"])
                /\ Goto(p, IF charge > 0 THEN "charge" ELSE AfterCall(p))
    /\ UNCHANGED <<stored, memory, sweep, faults, crashes, panics, conclusions>>

\* chargeModeration: an increment in the store, or the mark that it was lost.
\* The row being gone counts as a failed write.
Charge(p) ==
    /\ pc[p] = "charge"
    /\ \/ /\ Works /\ Exists
          /\ tokens' = tokens + pass[p].charge
          /\ Keep(p, [pass[p] EXCEPT !.tokens = @ + pass[p].charge, !.charge = 0])
          /\ UNCHANGED <<attempts, unbooked>>
       \/ /\ Fails("charge") \/ (Works /\ ~Exists)
          /\ attempts' = ChargeNoted(attempts)
          /\ unbooked' = [unbooked EXCEPT !.charges = @ + 1]
          /\ Keep(p, [pass[p] EXCEPT !.charge = 0])
          /\ UNCHANGED tokens
    /\ Goto(p, AfterCall(p))
    /\ UNCHANGED <<row, params, roster, transcript, paused, sweep, crashes, panics,
                   conclusions>>

SummaryNotice(p) == IF pass[p].basis = "budget" THEN NoticeBudgetSummary
                                                ELSE NoticeUnavailableSummary

\* A summary notice is best effort: the pass goes on when it cannot be stored.
NoteMissingSummary(p) ==
    IF Exists /\ ~NoticeRecorded(pass[p].msgs, pass[p].round, SummaryNotice(p))
    THEN \/ /\ Works
            /\ transcript' = Append(transcript, SystemMessage(pass[p].round, SummaryNotice(p)))
         \/ Fails("write") /\ UNCHANGED transcript
    ELSE Works /\ UNCHANGED transcript

\* No call was allowed: a notice instead of the summary, then the next round.
SkipSummary(p) ==
    /\ pc[p] = "skip"
    /\ NoteMissingSummary(p)
    /\ TowardsNextRound(p, pass[p].parts)
    /\ UNCHANGED <<row, tokens, params, roster, memory, sweep, crashes, panics,
                   unbooked, conclusions>>

\* Only moderate reads the transcript again after its call.
AfterSummary(p, reached) ==
    IF params.mode = "hybrid"
    THEN TowardsNextRound(p, pass[p].parts)
    ELSE /\ Goto(p, "reread")
         /\ Keep(p, [pass[p] EXCEPT !.consensus = reached])

\* Hybrid mode drops whatever the model says of consensus.
SummaryConsensus(p) == params.mode # "hybrid" /\ pass[p].reply = "agreed"

SaveSummary(p) ==
    /\ pc[p] = "save"
    /\ \/ /\ pass[p].reply = "failed"
          /\ NoteMissingSummary(p)
          /\ AfterSummary(p, FALSE)
       \/ /\ pass[p].reply # "failed" /\ Works /\ Exists
          /\ transcript' = Append(transcript, RoundSummary(pass[p].round, SummaryConsensus(p)))
          /\ AfterSummary(p, SummaryConsensus(p))
       \/ /\ pass[p].reply # "failed"
          /\ Fails("write") \/ (Works /\ ~Exists)
          /\ Return(p) /\ UNCHANGED transcript
    /\ UNCHANGED <<row, tokens, params, roster, memory, sweep, crashes, panics,
                   unbooked, conclusions>>

RereadTranscript(p) ==
    /\ pc[p] = "reread"
    /\ \/ /\ Works
          /\ IF pass[p].consensus
             THEN LET basis == NoticeBasis(transcript, pass[p].round)
                  IN  /\ Keep(p, ForVerdict(p, transcript, TRUE, basis))
                      /\ Goto(p, TowardsVerdict(basis))
             ELSE TowardsNextRound(p, <<>>)
       \/ Fails("read") /\ Return(p)
    /\ UNCHANGED <<stored, memory, sweep, crashes, panics,
                   unbooked, conclusions>>

\* Mutant of Explanation: only the spend ceiling is announced.
Explanation_BudgetOnly(p) ==
    IF \/ pass[p].basis # "budget"
       \/ NoticeRecorded(pass[p].msgs, pass[p].round, BudgetVerdict(params.mode))
    THEN <<>>
    ELSE <<SystemMessage(pass[p].round, BudgetVerdict(params.mode))>>

\* The notice that explains an outcome the model did not give, once per round.
Explanation(p) ==
    LET notice == IF pass[p].basis = "budget" THEN BudgetVerdict(params.mode)
                                              ELSE UnavailableVerdict(params.mode)
    IN  IF \/ pass[p].basis \notin {"budget", "unavailable"}
           \/ NoticeRecorded(pass[p].msgs, pass[p].round, notice)
        THEN <<>>
        ELSE <<SystemMessage(pass[p].round, notice)>>

\* Mutant of OutcomeConsensus: the model decides in hybrid mode too.
OutcomeConsensus_Model(p) ==
    IF pass[p].basis = "model" THEN pass[p].reply = "agreed" ELSE pass[p].consensus

\* In moderator mode the model's verdict decides; otherwise the outcome stays
\* what summaries, votes or a stored verdict determined.
OutcomeConsensus(p) ==
    IF params.mode = "moderator" /\ pass[p].basis = "model"
    THEN pass[p].reply = "agreed"
    ELSE pass[p].consensus

\* In moderator mode an unavailable model leaves the debate without a verdict;
\* in hybrid mode the votes always give one.
NewVerdict(p) ==
    CASE pass[p].basis = "model" ->
            <<Verdict(pass[p].round, "moderator", OutcomeConsensus(p))>>
      [] pass[p].basis = "budget"
           \/ (pass[p].basis = "unavailable" /\ params.mode = "hybrid") ->
            <<Verdict(pass[p].round, "system", OutcomeConsensus(p))>>
      [] OTHER -> <<>>

\* Mutant of ClosingRecords: the verdict is written before its explanation.
ClosingRecords_VerdictFirst(p) == NewVerdict(p) \o Explanation(p)

ClosingRecords(p) == Explanation(p) \o NewVerdict(p)

\* The locked end of a pass that closes the debate: the notice, the verdict and
\* the row, in this order; the first write that fails ends the pass.
Conclude(p) ==
    /\ pc[p] = "conclude"
    /\ \/ /\ Works
          /\ Exists \/ ClosingRecords(p) = <<>>
          /\ transcript' = transcript \o ClosingRecords(p)
          /\ UpdateDebate("concluded", pass[p].round, NoAgent, OutcomeConsensus(p))
          /\ conclusions' = conclusions + 1
       \/ /\ Works
          /\ ~Exists /\ ClosingRecords(p) # <<>>
          /\ UNCHANGED <<row, transcript, conclusions>>
       \/ /\ Fails("write")
          /\ Exists
          /\ \E n \in 0..Len(ClosingRecords(p)) :
                transcript' = transcript \o SubSeq(ClosingRecords(p), 1, n)
          /\ UNCHANGED <<row, conclusions>>
    /\ Return(p)
    /\ UNCHANGED <<tokens, params, roster, memory, sweep, crashes, panics, unbooked>>

\* The locked end of a pass that opens the next round.  moderate reads the
\* participants here; moderateHybrid uses those it read at its start.
NextParticipants(p) == IF params.mode = "hybrid" THEN pass[p].parts ELSE roster

Advance(p) ==
    /\ pc[p] = "advance"
    /\ \/ /\ Works
          /\ NextParticipants(p) # <<>>
          /\ UpdateDebate("running", pass[p].round + 1, NextParticipants(p)[1], FALSE)
       \/ /\ Works
          /\ NextParticipants(p) = <<>> /\ params.mode # "hybrid"
          /\ UNCHANGED row
       \/ Fails("write") /\ UNCHANGED row
    /\ Return(p)
    /\ UNCHANGED <<tokens, params, roster, transcript, memory, sweep, crashes, panics,
                   unbooked, conclusions>>

\* The deferred endModerationAttempt.
End(p) ==
    /\ pc[p] = "end"
    /\ Goto(p, "idle")
    /\ attempts' = Ended(attempts, pass[p].token)
    /\ Keep(p, Idle)
    /\ UNCHANGED <<stored, paused, sweep, history>>

-------------------------------------------------------------------------------
(* Process death: what is stored survives, what is in memory does not. *)

\* The call is with the provider, or its charge not yet in the store.
Paying(p) == pc[p] \in {"call", "charge"}

Restart ==
    /\ attempts' = NoAttempts /\ paused' = FALSE
    /\ ticker' = "read" /\ snapshot' = NoSnapshot
    /\ pc' = [p \in Slots |-> "idle"] /\ pass' = [p \in Slots |-> Idle]
    /\ unbooked' = [charges |-> unbooked.charges + Cardinality({p \in Slots : Paying(p)}),
                    replies |-> NoReplyLost]
    /\ UNCHANGED <<stored, faults, conclusions>>

Crash ==
    /\ crashes < MaxCrashes
    /\ crashes' = crashes + 1
    /\ Restart
    /\ UNCHANGED panics

\* moderateHybrid takes the first participant without asking whether there is
\* one; a debate deleted before it read them has none, and the panic of a
\* goroutine ends the process.
Panic(p) ==
    /\ pc[p] = "advance"
    /\ params.mode = "hybrid" /\ pass[p].parts = <<>>
    /\ panics' = panics + 1
    /\ Restart
    /\ UNCHANGED crashes

-------------------------------------------------------------------------------

Clients ==
    \/ \E mode \in AllowedModes, rounds \in RoundCounts, prep \in PrepTimes,
          observer \in BOOLEAN : CreateDebate(mode, rounds, prep, observer)
    \/ \E agent \in Agents : JoinDebate(agent)
    \/ StartDebate
    \/ \E agent \in Agents, support \in Supports : PostArgument(agent, support)
    \/ DeleteDebate

Ticker == SweepReads \/ SweepResumes \/ SweepForgets \/ ExpireTurns

PassStep(p) ==
    \/ Fetch(p) \/ ReadTranscript(p) \/ Admit(p) \/ Call(p) \/ Charge(p)
    \/ SkipSummary(p) \/ SaveSummary(p) \/ RereadTranscript(p)
    \/ Conclude(p) \/ Advance(p) \/ Panic(p) \/ End(p)

Time == DeadlinePasses \/ RetryPauseElapses

Next == Clients \/ Ticker \/ (\E p \in Slots : PassStep(p)) \/ Time \/ Crash

\* Time passes, the ticker goroutine and every moderation goroutine are
\* scheduled, and a model call ends by its own deadline.  Nothing obliges a
\* client or a crash.
Fairness ==
    /\ WF_vars(Ticker)
    /\ \A p \in Slots : WF_vars(PassStep(p))
    /\ WF_vars(DeadlinePasses) /\ WF_vars(RetryPauseElapses)

Spec == Init /\ [][Next]_vars
FairSpec == Spec /\ Fairness
===============================================================================
