----------------------------- MODULE CourtProofs ------------------------------
(***************************************************************************)
(* Machine-checked facts about module Court, for every number of agents,   *)
(* rounds, moderation goroutines, failures and restarts.                   *)
(***************************************************************************)
EXTENDS CourtProperties, FiniteSetTheorems, TLAPS

(* What the record functions of module Attempts return. *)

\* Every function on the attempt record returns an attempt record.
LEMMA AttemptTypes ==
    ASSUME NEW a \in Attempt, NEW r \in Nat, NEW token \in Nat, NEW active \in BOOLEAN
    PROVE  /\ NoAttempts \in Attempt
           /\ Begun(a, r) \in Attempt
           /\ Ended(a, token) \in Attempt
           /\ GivenUp(a) \in Attempt
           /\ Admitted(a) \in Attempt
           /\ ChargeNoted(a) \in Attempt
           /\ Forgotten(a, active) \in Attempt
<1>1. NoAttempts \in Attempt
  BY DEF NoAttempts, Attempt
<1>2. Begun(a, r) \in Attempt
  <2>1. ForRound(a, r) \in Attempt
    BY DEF ForRound, Attempt
  <2>2. ASSUME NEW b \in Attempt, NEW tries \in Nat, NEW number \in Nat
        PROVE  [b EXCEPT !.running = TRUE, !.tries = tries, !.pass = number] \in Attempt
    BY DEF Attempt
  <2> DEFINE b == ForRound(a, r)
  <2>3. b.tries + 1 \in Nat /\ b.pass + 1 \in Nat
    BY <2>1 DEF Attempt
  <2>4. [b EXCEPT !.running = TRUE, !.tries = b.tries + 1, !.pass = b.pass + 1] \in Attempt
    BY <2>1, <2>2, <2>3
  <2>5. QED
    BY <2>4 DEF Begun
<1>3. Ended(a, token) \in Attempt
  BY DEF Ended, Attempt
<1>4. GivenUp(a) \in Attempt
  BY DEF GivenUp, Attempt
<1>5. Admitted(a) \in Attempt
  BY DEF Admitted, Attempt
<1>6. ChargeNoted(a) \in Attempt
  BY DEF ChargeNoted, Attempt
<1>7. Forgotten(a, active) \in Attempt
  BY <1>1 DEF Forgotten
<1>8. QED
  BY <1>1, <1>2, <1>3, <1>4, <1>5, <1>6, <1>7

(* The records of module Transcript. *)

\* Every record the service writes is a message.
LEMMA MessageTypes ==
    ASSUME NEW r \in Nat, NEW agent \in Agents, NEW support \in Agents \cup {NoAgent},
           NEW text \in Notices \cup {TurnSkipped}, NEW agreed \in BOOLEAN,
           NEW by \in {"system", "moderator"}
    PROVE  /\ Argument(r, agent, support) \in Message
           /\ SystemMessage(r, text) \in Message
           /\ RoundSummary(r, agreed) \in Message
           /\ Verdict(r, by, agreed) \in Message
BY DEF Argument, SystemMessage, RoundSummary, Verdict, Message

\* What is read back of the transcript is a truth value.
LEMMA ReaderTypes ==
    ASSUME NEW msgs \in Seq(Message), NEW r \in Nat, NEW kind, NEW notice
    PROVE  /\ Stored(msgs, r, kind) \in BOOLEAN
           /\ StoredConsensus(msgs, r, kind) \in BOOLEAN
           /\ NoticeRecorded(msgs, r, notice) \in BOOLEAN
BY DEF Stored, StoredConsensus, NoticeRecorded

(* Types. *)

\* A write of the debate row leaves it well typed.
LEMMA UpdateTypes ==
    ASSUME RowTypes, NEW newStatus \in Statuses, NEW newRound \in Nat,
           NEW newTurn \in Agents \cup {NoAgent}, NEW agreed \in BOOLEAN,
           UpdateDebate(newStatus, newRound, newTurn, agreed)
    PROVE  RowTypes'
BY DEF UpdateDebate, RowTypes, row, Exists

\* A pass that moves on with well-typed local variables leaves all of them so.
LEMMA KeepTypes ==
    ASSUME PassTypes, NEW p \in Slots, NEW label \in Labels, NEW locals \in Pass,
           Goto(p, label), Keep(p, locals)
    PROVE  PassTypes'
BY DEF Goto, Keep, PassTypes

\* What a fresh pass, a returning pass and a pass on its way to the next round
\* remember.
LEMMA LocalTypes ==
    ASSUME NEW token \in Nat, NEW r \in Nat, NEW parts \in Seq(Agents)
    PROVE  /\ Idle \in Pass
           /\ [Idle EXCEPT !.token = token] \in Pass
           /\ [Idle EXCEPT !.token = token, !.round = r, !.parts = parts] \in Pass
<1>1. <<>> \in Seq(Message) /\ <<>> \in Seq(Agents)
  OBVIOUS
<1>2. Idle \in Pass
  BY <1>1 DEF Idle, Pass
<1>3. QED
  BY <1>2 DEF Pass

\* A launch leaves the attempt record and the goroutines well typed.
LEMMA LaunchTypes ==
    ASSUME MemoryTypes, PassTypes, NEW r \in Nat, NEW trigger, Launch(r, trigger)
    PROVE  MemoryTypes' /\ PassTypes'
<1>1. CASE CanBegin(attempts, r, trigger, paused)
  <2>1. PICK p \in Slots :
            /\ attempts' = Begun(attempts, r)
            /\ paused' = TRUE
            /\ pc' = [pc EXCEPT ![p] = "fetch"]
            /\ pass' = [pass EXCEPT ![p] = [Idle EXCEPT !.token = attempts'.pass]]
    BY <1>1 DEF Launch
  <2>2. attempts' \in Attempt
    BY <2>1, AttemptTypes DEF MemoryTypes
  <2>3. [Idle EXCEPT !.token = attempts'.pass] \in Pass
    <3>1. attempts'.pass \in Nat
      BY <2>2 DEF Attempt
    <3>2. <<>> \in Seq(Agents)
      OBVIOUS
    <3>3. QED
      BY <3>1, <3>2, LocalTypes
  <2>4. QED
    BY <2>1, <2>2, <2>3 DEF MemoryTypes, PassTypes, Labels
<1>2. CASE ~CanBegin(attempts, r, trigger, paused)
  BY <1>2 DEF Launch, memory, passes, MemoryTypes, PassTypes
<1>3. QED
  BY <1>1, <1>2

\* The turn goes to a participant, or to nobody while the round is moderated.
LEMMA AdvanceTurnTypes ==
    ASSUME StoredTypes, MemoryTypes, PassTypes, AdvanceTurn
    PROVE  RowTypes' /\ MemoryTypes' /\ PassTypes'
<1>1. CASE HasNext(roster, turn) # {}
  <2> DEFINE i == CHOOSE i \in HasNext(roster, turn) : TRUE
  <2>1. i \in HasNext(roster, turn)
    BY <1>1
  <2>2. roster[i + 1] \in Agents
    BY <2>1 DEF HasNext, StoredTypes
  <2>3. UpdateDebate("running", round, roster[i + 1], FALSE)
    BY <1>1 DEF AdvanceTurn
  <2>4. RowTypes'
    BY <2>2, <2>3, UpdateTypes DEF StoredTypes, RowTypes, Statuses
  <2>5. QED
    BY <1>1, <2>4 DEF AdvanceTurn, memory, passes, MemoryTypes, PassTypes
<1>2. CASE HasNext(roster, turn) = {}
  <2>1. UpdateDebate("moderating", round, NoAgent, FALSE) /\ Launch(round, "round_closed")
    BY <1>2 DEF AdvanceTurn
  <2>2. RowTypes'
    BY <2>1, UpdateTypes DEF StoredTypes, RowTypes, Statuses
  <2>3. QED
    BY <2>1, <2>2, LaunchTypes DEF StoredTypes, RowTypes
<1>3. QED
  BY <1>1, <1>2

\* So does its variant in which the store loses the turn.
LEMMA AdvanceTurnOrFailTypes ==
    ASSUME TypeOK, AdvanceTurnOrFail
    PROVE  RowTypes' /\ MemoryTypes' /\ PassTypes' /\ faults' \in Nat
<1>1. CASE Works /\ AdvanceTurn
  BY <1>1, AdvanceTurnTypes DEF TypeOK, Works, HistoryTypes
<1>2. CASE Fails("turn") /\ UNCHANGED <<row, memory, passes>>
  BY <1>2 DEF TypeOK, Fails, HistoryTypes, StoredTypes, RowTypes, MemoryTypes, PassTypes,
              row, memory, passes
<1>3. QED
  BY <1>1, <1>2 DEF AdvanceTurnOrFail

\* The initial state is well typed.
LEMMA TypeInit == Init => TypeOK
<1> SUFFICES ASSUME Init PROVE TypeOK
  OBVIOUS
<1>1. StoredTypes
  <2>1. RowTypes
    BY DEF Init, RowTypes, Statuses
  <2>2. params \in [mode : Modes, rounds : Nat, prep : BOOLEAN]
    BY DEF Init, Modes
  <2>3. roster \in Seq(Agents) /\ transcript \in Seq(Message) /\ tokens \in Nat
    BY DEF Init
  <2>4. QED
    BY <2>1, <2>2, <2>3 DEF StoredTypes
<1>2. MemoryTypes
  BY DEF Init, MemoryTypes, NoAttempts, Attempt
<1>3. SweepTypes
  BY DEF Init, SweepTypes, NoSnapshot
<1>4. PassTypes
  <2>1. <<>> \in Seq(Agents)
    OBVIOUS
  <2>2. Idle \in Pass
    BY <2>1, LocalTypes
  <2>3. QED
    BY <2>2 DEF Init, PassTypes, Labels
<1>5. HistoryTypes
  BY DEF Init, HistoryTypes, NoneLost, NoReplyLost
<1>6. QED
  BY <1>1, <1>2, <1>3, <1>4, <1>5 DEF TypeOK

\* The steps of clients keep the types.
LEMMA ClientTypes ==
    ASSUME TypeOK, Clients
    PROVE  TypeOK'
<1> USE CourtAssumption, NoAgentAssumption
<1>1. ASSUME NEW mode \in AllowedModes, NEW rounds \in RoundCounts, NEW prep \in PrepTimes,
             NEW observer \in BOOLEAN, CreateDebate(mode, rounds, prep, observer)
      PROVE  TypeOK'
  <2>1. roster' \in Seq(Agents) /\ faults' \in Nat
    <3>1. Creator \in Agents /\ <<>> \in Seq(Agents) /\ <<Creator>> \in Seq(Agents)
      OBVIOUS
    <3>2. roster' = <<>> \/ roster' = <<Creator>>
      BY <1>1 DEF CreateDebate
    <3>3. faults' \in Nat
      BY <1>1 DEF CreateDebate, TypeOK, HistoryTypes, Works, Fails
    <3>4. QED
      BY <3>1, <3>2, <3>3
  <2>2. params' \in [mode : Modes, rounds : Nat, prep : BOOLEAN]
    BY <1>1 DEF CreateDebate
  <2>3. QED
    BY <1>1, <2>1, <2>2 DEF CreateDebate, TypeOK, StoredTypes, RowTypes, Statuses,
           MemoryTypes, SweepTypes, PassTypes, HistoryTypes, memory, sweep, passes
<1>2. ASSUME NEW agent \in Agents, JoinDebate(agent)
      PROVE  TypeOK'
  BY <1>2 DEF JoinDebate, TypeOK, StoredTypes, RowTypes, MemoryTypes, SweepTypes,
              PassTypes, HistoryTypes, row, memory, sweep, passes, history
<1>3. ASSUME StartDebate
      PROVE  TypeOK'
  <2>1. roster[1] \in Agents
    BY <1>3 DEF StartDebate, MinimumToStart, TypeOK, StoredTypes
  <2>2. RowTypes'
    BY <1>3, <2>1, UpdateTypes
       DEF StartDebate, BeginFirstRound, TypeOK, StoredTypes, RowTypes, Statuses
  <2>3. QED
    BY <1>3, <2>2 DEF StartDebate, TypeOK, StoredTypes, MemoryTypes, SweepTypes,
           PassTypes, HistoryTypes, memory, sweep, passes, history
<1>4. ASSUME NEW agent \in Agents, NEW support \in Supports, PostArgument(agent, support)
      PROVE  TypeOK'
  <2>1. Argument(round, agent, support) \in Message
    BY MessageTypes DEF TypeOK, StoredTypes, RowTypes, Argument, Message
  <2>2. transcript' \in Seq(Message)
    BY <1>4, <2>1 DEF PostArgument, TypeOK, StoredTypes
  <2>3. RowTypes' /\ MemoryTypes' /\ PassTypes' /\ faults' \in Nat
    BY <1>4, AdvanceTurnOrFailTypes DEF PostArgument
  <2>4. QED
    BY <1>4, <2>2, <2>3 DEF PostArgument, TypeOK, StoredTypes, SweepTypes, HistoryTypes,
           sweep
<1>5. ASSUME DeleteDebate
      PROVE  TypeOK'
  <2>1. RowTypes' /\ tokens' \in Nat
    BY <1>5 DEF DeleteDebate, RowTypes, Statuses
  <2>2. roster' \in Seq(Agents) /\ transcript' \in Seq(Message)
    BY <1>5 DEF DeleteDebate
  <2>3. QED
    BY <1>5, <2>1, <2>2 DEF DeleteDebate, TypeOK, StoredTypes, MemoryTypes, SweepTypes,
           PassTypes, HistoryTypes, memory, sweep, passes, history
<1>6. QED
  BY <1>1, <1>2, <1>3, <1>4, <1>5 DEF Clients

\* The steps of the background goroutine keep the types.
LEMMA TickerTypes ==
    ASSUME TypeOK, Ticker
    PROVE  TypeOK'
<1>1. ASSUME SweepReads PROVE TypeOK'
  <2>1. SweepTypes' /\ faults' \in Nat
    <3>1. /\ Active \in BOOLEAN
          /\ (status = "moderating") \in BOOLEAN
          /\ (IF status = "moderating" THEN round ELSE 0) \in Nat
      BY DEF Active, TypeOK, StoredTypes, RowTypes
    <3>2. snapshot' \in [active : BOOLEAN, moderating : BOOLEAN, round : Nat]
      <4>1. ASSUME NEW a \in BOOLEAN, NEW m \in BOOLEAN, NEW r \in Nat
            PROVE  [active |-> a, moderating |-> m, round |-> r]
                     \in [active : BOOLEAN, moderating : BOOLEAN, round : Nat]
        OBVIOUS
      <4> DEFINE read == [active     |-> Active,
                          moderating |-> status = "moderating",
                          round      |-> IF status = "moderating" THEN round ELSE 0]
      <4>2. read \in [active : BOOLEAN, moderating : BOOLEAN, round : Nat]
        BY <3>1, <4>1
      <4> HIDE DEF read
      <4>3. snapshot' = read \/ snapshot' = snapshot
        BY <1>1, Zenon DEF SweepReads, read
      <4>4. QED
        BY <4>2, <4>3 DEF TypeOK, SweepTypes
    <3>3. QED
      BY <1>1, <3>2 DEF SweepReads, TypeOK, SweepTypes, HistoryTypes, Works, Fails
  <2>2. QED
    BY <1>1, <2>1 DEF SweepReads, TypeOK, StoredTypes, RowTypes, MemoryTypes, PassTypes,
           HistoryTypes, stored, row, memory, passes
<1>2. ASSUME SweepResumes PROVE TypeOK'
  <2>1. MemoryTypes' /\ PassTypes'
    BY <1>2, LaunchTypes DEF SweepResumes, TypeOK, SweepTypes, MemoryTypes, PassTypes,
           memory, passes
  <2>2. QED
    BY <1>2, <2>1 DEF SweepResumes, TypeOK, StoredTypes, RowTypes, SweepTypes,
           HistoryTypes, stored, row, history
<1>3. ASSUME SweepForgets PROVE TypeOK'
  <2>1. attempts' \in Attempt
    BY <1>3, AttemptTypes DEF SweepForgets, TypeOK, MemoryTypes, SweepTypes
  <2>2. QED
    BY <1>3, <2>1 DEF SweepForgets, TypeOK, StoredTypes, RowTypes, SweepTypes, MemoryTypes,
           PassTypes, HistoryTypes, stored, row, passes, history, NoSnapshot
<1>4. ASSUME ExpireTurns PROVE TypeOK'
  <2>1. RowTypes' /\ transcript' \in Seq(Message) /\ MemoryTypes' /\ PassTypes'
          /\ faults' \in Nat
    <3>1. CASE /\ PreparationIsOver /\ Works /\ BeginFirstRound
               /\ UNCHANGED <<transcript, memory, passes>>
      <4>1. roster[1] \in Agents
        BY <3>1 DEF PreparationIsOver, TypeOK, StoredTypes
      <4>2. RowTypes'
        BY <3>1, <4>1, UpdateTypes
           DEF BeginFirstRound, TypeOK, StoredTypes, RowTypes, Statuses
      <4>3. QED
        BY <3>1, <4>2 DEF TypeOK, StoredTypes, MemoryTypes, PassTypes, HistoryTypes,
               memory, passes, Works
    <3>2. CASE /\ TurnIsOver
               /\ transcript' = Append(transcript, SystemMessage(round, TurnSkipped))
               /\ AdvanceTurnOrFail
      <4>1. SystemMessage(round, TurnSkipped) \in Message
        BY DEF SystemMessage, Message, TypeOK, StoredTypes, RowTypes
      <4>2. QED
        BY <3>2, <4>1, AdvanceTurnOrFailTypes DEF TypeOK, StoredTypes
    <3>3. CASE (Works \/ Fails("read")) /\ UNCHANGED <<row, transcript, memory, passes>>
      BY <3>3 DEF TypeOK, StoredTypes, RowTypes, MemoryTypes, PassTypes, HistoryTypes,
             row, memory, passes, Works, Fails
    <3>4. QED
      BY <1>4, <3>1, <3>2, <3>3 DEF ExpireTurns
  <2>2. QED
    BY <1>4, <2>1 DEF ExpireTurns, TypeOK, StoredTypes, SweepTypes, HistoryTypes
<1>5. QED
  BY <1>1, <1>2, <1>3, <1>4 DEF Ticker

\* What the model may have answered.
Replies == {"none", "failed", "open", "agreed"}
Bases   == {"none", "stored", "budget", "unavailable", "model"}

\* The changes a step makes to the local variables keep them well typed.  The pass
\* takes over round and tokens of the row.
LEMMA FetchedTypes ==
    ASSUME NEW l \in Pass, NEW m \in Nat, NEW n \in Nat
    PROVE  [l EXCEPT !.round = m, !.tokens = n] \in Pass
BY DEF Pass

\* The pass goes for the verdict.
LEMMA VerdictLocalTypes ==
    ASSUME NEW l \in Pass, NEW msgs \in Seq(Message), NEW agreed \in BOOLEAN,
           NEW basis \in Bases
    PROVE  [l EXCEPT !.msgs = msgs, !.consensus = agreed, !.call = "verdict",
                     !.basis = basis] \in Pass
BY DEF Pass, Bases

\* The pass goes for a summary.
LEMMA SummaryLocalTypes ==
    ASSUME NEW l \in Pass, NEW msgs \in Seq(Message), NEW parts \in Seq(Agents)
    PROVE  [l EXCEPT !.msgs = msgs, !.parts = parts, !.call = "summary"] \in Pass
BY DEF Pass

\* The call has ended.
LEMMA RepliedTypes ==
    ASSUME NEW l \in Pass, NEW n \in Nat, NEW reply \in Replies, NEW basis \in Bases
    PROVE  [l EXCEPT !.reply = reply, !.charge = n, !.basis = basis] \in Pass
BY DEF Pass, Replies, Bases

\* The call has been charged, or its charge was lost.
LEMMA ChargedTypes ==
    ASSUME NEW l \in Pass, NEW m \in Nat
    PROVE  /\ [l EXCEPT !.tokens = m, !.charge = 0] \in Pass
           /\ [l EXCEPT !.charge = 0] \in Pass
BY DEF Pass

\* A returning pass, and one on its way to the next round.
LEMMA ReturnTypes ==
    ASSUME PassTypes, NEW p \in Slots, Return(p)
    PROVE  PassTypes'
<1>1. pass[p].token \in Nat /\ <<>> \in Seq(Agents)
  BY DEF PassTypes, Pass
<1>2. [Idle EXCEPT !.token = pass[p].token] \in Pass
  BY <1>1, LocalTypes
<1>3. QED
  BY <1>2, KeepTypes DEF Return, Labels

\* Going for the next round leaves well-typed local variables.
LEMMA TowardsNextRoundTypes ==
    ASSUME PassTypes, NEW p \in Slots, NEW parts \in Seq(Agents),
           TowardsNextRound(p, parts)
    PROVE  PassTypes'
<1>1. pass[p].token \in Nat /\ pass[p].round \in Nat
  BY DEF PassTypes, Pass
<1>2. [Idle EXCEPT !.token = pass[p].token, !.round = pass[p].round, !.parts = parts]
        \in Pass
  BY <1>1, LocalTypes
<1>3. QED
  BY <1>2, KeepTypes DEF TowardsNextRound, Labels

\* A pass that goes for the verdict, with or without asking the model.
LEMMA TowardsVerdictTypes ==
    ASSUME PassTypes, NEW p \in Slots, NEW msgs \in Seq(Message), NEW agreed \in BOOLEAN,
           NEW basis \in Bases, Keep(p, ForVerdict(p, msgs, agreed, basis)),
           Goto(p, TowardsVerdict(basis))
    PROVE  PassTypes'
<1>1. pass[p] \in Pass
  BY DEF PassTypes
<1>2. ForVerdict(p, msgs, agreed, basis) \in Pass
  <2>1. [pass[p] EXCEPT !.msgs = msgs, !.consensus = agreed, !.call = "verdict",
                        !.basis = basis] \in Pass
    BY <1>1, VerdictLocalTypes, Zenon
  <2>2. QED
    BY <2>1, Zenon DEF ForVerdict
<1>3. TowardsVerdict(basis) \in Labels
  BY DEF TowardsVerdict, Labels
<1>4. QED
  BY <1>2, <1>3, KeepTypes

\* Whatever the model, a notice or a stored verdict decides is a basis.
LEMMA BasisTypes ==
    ASSUME NEW msgs, NEW r
    PROVE  NoticeBasis(msgs, r) \in Bases /\ VerdictBasis(msgs, r) \in Bases
BY DEF NoticeBasis, VerdictBasis, Bases

\* What a pass reads of an outcome is a truth value.
LEMMA RoundConsensusTypes ==
    ASSUME NEW msgs, NEW r
    PROVE  RoundConsensus(msgs, r) \in BOOLEAN
BY DEF RoundConsensus, Unanimity, StoredConsensus

\* A missing summary adds at most its notice.
LEMMA NoteTypes ==
    ASSUME StoredTypes, PassTypes, HistoryTypes, NEW p \in Slots, NoteMissingSummary(p)
    PROVE  transcript' \in Seq(Message) /\ faults' \in Nat
<1>1. pass[p].round \in Nat
  BY DEF PassTypes, Pass
<1>2. SummaryNotice(p) \in Notices
  BY DEF SummaryNotice, Notices
<1>3. SystemMessage(pass[p].round, SummaryNotice(p)) \in Message
  BY <1>1, <1>2 DEF SystemMessage, Message
<1>4. \/ transcript' = transcript
      \/ transcript' = Append(transcript, SystemMessage(pass[p].round, SummaryNotice(p)))
  BY DEF NoteMissingSummary
<1>5. transcript' \in Seq(Message)
  BY <1>3, <1>4 DEF StoredTypes
<1>6. faults' \in Nat
  BY DEF NoteMissingSummary, HistoryTypes, Works, Fails
<1>7. QED
  BY <1>5, <1>6

\* The records that close a debate are messages.
LEMMA ClosingTypes ==
    ASSUME StoredTypes, PassTypes, NEW p \in Slots
    PROVE  /\ ClosingRecords(p) \in Seq(Message)
           /\ OutcomeConsensus(p) \in BOOLEAN
<1>1. pass[p].round \in Nat /\ pass[p].consensus \in BOOLEAN
  BY DEF PassTypes, Pass
<1>2. OutcomeConsensus(p) \in BOOLEAN
  BY <1>1 DEF OutcomeConsensus
<1>3. Explanation(p) \in Seq(Message)
  <2>1. BudgetVerdict(params.mode) \in Notices /\ UnavailableVerdict(params.mode) \in Notices
    BY DEF BudgetVerdict, UnavailableVerdict, Notices
  <2>2. /\ SystemMessage(pass[p].round, BudgetVerdict(params.mode)) \in Message
        /\ SystemMessage(pass[p].round, UnavailableVerdict(params.mode)) \in Message
    BY <1>1, <2>1 DEF SystemMessage, Message
  <2>3. QED
    BY <2>2 DEF Explanation
<1>4. NewVerdict(p) \in Seq(Message)
  <2>1. /\ Verdict(pass[p].round, "moderator", OutcomeConsensus(p)) \in Message
        /\ Verdict(pass[p].round, "system", OutcomeConsensus(p)) \in Message
    BY <1>1, <1>2 DEF Verdict, Message
  <2>2. QED
    BY <2>1 DEF NewVerdict
<1>5. QED
  BY <1>2, <1>3, <1>4 DEF ClosingRecords

\* The steps of a moderation pass up to its first write keep the types.
LEMMA ReadingTypes ==
    ASSUME TypeOK, NEW p \in Slots,
           Fetch(p) \/ ReadTranscript(p) \/ RereadTranscript(p)
    PROVE  TypeOK'
<1>1. pass[p] \in Pass
  BY DEF TypeOK, PassTypes
<1>2. CASE Fetch(p)
  <2>1. [pass[p] EXCEPT !.round = round, !.tokens = tokens] \in Pass
    BY <1>1, FetchedTypes, Zenon DEF TypeOK, StoredTypes, RowTypes
  <2>2. PassTypes'
    BY <1>2, <2>1, KeepTypes, ReturnTypes DEF Fetch, TypeOK, Labels
  <2>3. faults' \in Nat
    BY <1>2 DEF Fetch, TypeOK, HistoryTypes, Works, Fails
  <2>4. QED
    BY <1>2, <2>2, <2>3 DEF Fetch, TypeOK, StoredTypes, RowTypes, MemoryTypes, SweepTypes,
           HistoryTypes, stored, row, memory, sweep
<1>3. CASE ReadTranscript(p)
  <2> DEFINE r       == pass[p].round
             reached == RoundConsensus(transcript, r)
             parts   == IF params.mode = "hybrid" THEN roster ELSE <<>>
             basis   == VerdictBasis(transcript, r)
  <2>1. /\ parts \in Seq(Agents) /\ transcript \in Seq(Message) /\ basis \in Bases
        /\ reached \in BOOLEAN
    BY <1>1, BasisTypes, RoundConsensusTypes DEF TypeOK, StoredTypes
  <2>2. PassTypes'
    <3>1. CASE Return(p)
      BY <3>1, ReturnTypes DEF TypeOK
    <3>2. CASE Keep(p, ForVerdict(p, transcript, reached, basis)) /\ Goto(p, TowardsVerdict(basis))
      BY <3>2, <2>1, TowardsVerdictTypes DEF TypeOK
    <3>3. CASE TowardsNextRound(p, parts)
      BY <3>3, <2>1, TowardsNextRoundTypes DEF TypeOK
    <3>4. CASE /\ Keep(p, [pass[p] EXCEPT !.msgs = transcript, !.parts = parts,
                                           !.call = "summary"])
               /\ Goto(p, "admit")
      <4>1. "admit" \in Labels
        BY DEF Labels
      <4> HIDE DEF parts
      <4>2. [pass[p] EXCEPT !.msgs = transcript, !.parts = parts, !.call = "summary"] \in Pass
        BY <1>1, <2>1, SummaryLocalTypes, Zenon
      <4>3. QED
        BY <3>4, <4>1, <4>2, KeepTypes DEF TypeOK
    <3>5. QED
      BY <1>3, <3>1, <3>2, <3>3, <3>4, Zenon DEF ReadTranscript
  <2>3. attempts' \in Attempt /\ faults' \in Nat
    BY <1>1, <1>3, AttemptTypes
       DEF ReadTranscript, TypeOK, MemoryTypes, HistoryTypes, Works, Fails
  <2>4. QED
    BY <1>3, <2>2, <2>3 DEF ReadTranscript, TypeOK, StoredTypes, RowTypes, MemoryTypes,
           SweepTypes, HistoryTypes, stored, row, sweep
<1>4. CASE RereadTranscript(p)
  <2>1. /\ transcript \in Seq(Message) /\ TRUE \in BOOLEAN
        /\ NoticeBasis(transcript, pass[p].round) \in Bases
    BY BasisTypes DEF TypeOK, StoredTypes
  <2>2. PassTypes'
    <3> DEFINE basis == NoticeBasis(transcript, pass[p].round)
    <3>1. CASE Keep(p, ForVerdict(p, transcript, TRUE, basis)) /\ Goto(p, TowardsVerdict(basis))
      BY <2>1, <3>1, TowardsVerdictTypes DEF TypeOK
    <3>2. CASE TowardsNextRound(p, <<>>)
      <4>1. <<>> \in Seq(Agents)
        OBVIOUS
      <4>2. QED
        BY <3>2, <4>1, TowardsNextRoundTypes DEF TypeOK
    <3>3. CASE Return(p)
      BY <3>3, ReturnTypes DEF TypeOK
    <3>4. QED
      BY <1>4, <3>1, <3>2, <3>3, Zenon DEF RereadTranscript
  <2>3. faults' \in Nat
    <3>1. Works \/ Fails("read")
      BY <1>4 DEF RereadTranscript
    <3>2. QED
      BY <3>1 DEF TypeOK, HistoryTypes, Works, Fails
  <2>4. QED
    BY <1>4, <2>2, <2>3 DEF RereadTranscript, TypeOK, StoredTypes, RowTypes, MemoryTypes,
           SweepTypes, HistoryTypes, stored, row, memory, sweep
<1>5. QED
  BY <1>2, <1>3, <1>4

\* Another lost charge, or another lost reply.
LEMMA LostTypes ==
    ASSUME NEW lost \in [charges : Nat, replies : [DeclaredRounds -> Nat]], NEW r
    PROVE  /\ [lost EXCEPT !.charges = @ + 1]
                 \in [charges : Nat, replies : [DeclaredRounds -> Nat]]
           /\ [lost EXCEPT !.replies[r] = @ + 1]
                 \in [charges : Nat, replies : [DeclaredRounds -> Nat]]
OBVIOUS

\* The steps around a model call keep the types.
LEMMA CallingTypes ==
    ASSUME TypeOK, NEW p \in Slots, Admit(p) \/ Call(p) \/ Charge(p)
    PROVE  TypeOK'
<1> USE CourtAssumption
<1>1. pass[p] \in Pass
  BY DEF TypeOK, PassTypes
<1>2. CASE Admit(p)
  <2>1. /\ "budget" \in Bases /\ "unavailable" \in Bases
        /\ {"skip", "conclude", "call"} \subseteq Labels
    BY DEF Bases, Labels
  <2>2. /\ [pass[p] EXCEPT !.basis = "budget"] \in Pass
        /\ [pass[p] EXCEPT !.basis = "unavailable"] \in Pass
    BY <1>1 DEF Pass
  <2>3. PassTypes'
    BY <1>2, <2>1, <2>2, KeepTypes DEF Admit, Goto, TypeOK, PassTypes
  <2>4. attempts' \in Attempt
    BY <1>1, <1>2, AttemptTypes DEF Admit, TypeOK, MemoryTypes
  <2>5. QED
    BY <1>2, <2>3, <2>4 DEF Admit, TypeOK, StoredTypes, RowTypes, MemoryTypes, SweepTypes,
           HistoryTypes, stored, row, sweep, history
<1>3. CASE Call(p)
  <2>1. PICK reply \in {"failed", "open", "agreed"}, bill \in Billing, cost \in Costs :
            LET charge == ChargeOf(bill, cost, Estimate(pass[p].msgs))
            IN  /\ Keep(p, [pass[p] EXCEPT
                              !.reply = reply, !.charge = charge,
                              !.basis = IF reply = "failed" THEN "unavailable" ELSE "model"])
                /\ Goto(p, IF charge > 0 THEN "charge" ELSE AfterCall(p))
    BY <1>3 DEF Call
  <2> DEFINE bound  == Estimate(pass[p].msgs)
             charge == ChargeOf(bill, cost, bound)
             basis  == IF reply = "failed" THEN "unavailable" ELSE "model"
             label  == IF charge > 0 THEN "charge" ELSE AfterCall(p)
  <2>2. bound \in Nat
    BY <1>1 DEF Estimate, Pass
  <2>3. charge \in Nat /\ basis \in Bases /\ reply \in Replies
    BY <2>2 DEF ChargeOf, Bases, Replies
  <2>4. label \in Labels
    BY DEF AfterCall, Labels
  <2>5. /\ Keep(p, [pass[p] EXCEPT !.reply = reply, !.charge = charge, !.basis = basis])
        /\ Goto(p, label)
    BY <2>1, Zenon
  <2> HIDE DEF bound, charge, basis, label
  <2>6. [pass[p] EXCEPT !.reply = reply, !.charge = charge, !.basis = basis] \in Pass
    BY <1>1, <2>3, RepliedTypes, Zenon
  <2>7. PassTypes'
    BY <2>4, <2>5, <2>6, KeepTypes DEF TypeOK
  <2>8. unbooked' \in [charges : Nat, replies : [DeclaredRounds -> Nat]]
    <3>1. \/ unbooked' = unbooked
          \/ unbooked' = [unbooked EXCEPT !.replies[pass[p].round] = @ + 1]
      BY <1>3 DEF Call
    <3>2. QED
      BY <3>1, LostTypes DEF TypeOK, HistoryTypes
  <2>9. QED
    BY <1>3, <2>7, <2>8 DEF Call, TypeOK, StoredTypes, RowTypes, MemoryTypes, SweepTypes,
           HistoryTypes, stored, row, memory, sweep, history
<1>4. CASE Charge(p)
  <2>1. pass[p].tokens + pass[p].charge \in Nat /\ AfterCall(p) \in Labels
    BY <1>1 DEF Pass, AfterCall, Labels
  <2>2. /\ [pass[p] EXCEPT !.tokens = pass[p].tokens + pass[p].charge, !.charge = 0] \in Pass
        /\ [pass[p] EXCEPT !.charge = 0] \in Pass
    BY <1>1, <2>1, ChargedTypes, Zenon
  <2>3. \/ Keep(p, [pass[p] EXCEPT !.tokens = pass[p].tokens + pass[p].charge, !.charge = 0])
        \/ Keep(p, [pass[p] EXCEPT !.charge = 0])
    BY <1>4 DEF Charge
  <2>4. PassTypes'
    BY <1>4, <2>1, <2>2, <2>3, KeepTypes DEF Charge, TypeOK
  <2>5. attempts' \in Attempt
    BY <1>1, <1>4, AttemptTypes DEF Charge, TypeOK, MemoryTypes
  <2>6. tokens' \in Nat /\ faults' \in Nat
    <3>1. pass[p].charge \in Nat /\ tokens \in Nat /\ faults \in Nat
      BY <1>1 DEF Pass, TypeOK, StoredTypes, HistoryTypes
    <3>2. /\ tokens' = tokens + pass[p].charge \/ tokens' = tokens
          /\ faults' = faults \/ faults' = faults + 1
      BY <1>4 DEF Charge, Works, Fails
    <3>3. QED
      BY <3>1, <3>2
  <2>7. unbooked' \in [charges : Nat, replies : [DeclaredRounds -> Nat]]
    BY <1>4, LostTypes DEF Charge, TypeOK, HistoryTypes
  <2>8. QED
    BY <1>4, <2>4, <2>5, <2>6, <2>7 DEF Charge, TypeOK, StoredTypes, RowTypes, MemoryTypes,
           SweepTypes, HistoryTypes, row, sweep
<1>5. QED
  BY <1>2, <1>3, <1>4

\* The writing steps of a moderation pass keep the types.
LEMMA WritingTypes ==
    ASSUME TypeOK, NEW p \in Slots,
           SkipSummary(p) \/ SaveSummary(p) \/ Conclude(p) \/ Advance(p)
    PROVE  TypeOK'
<1>1. /\ pass[p] \in Pass /\ pass[p].round \in Nat /\ pass[p].parts \in Seq(Agents)
  BY DEF TypeOK, PassTypes, Pass
<1>2. CASE SkipSummary(p)
  <2>1. PassTypes'
    BY <1>1, <1>2, TowardsNextRoundTypes DEF SkipSummary, TypeOK
  <2>2. transcript' \in Seq(Message) /\ faults' \in Nat
    BY <1>2, NoteTypes DEF SkipSummary, TypeOK
  <2>3. QED
    BY <1>2, <2>1, <2>2 DEF SkipSummary, TypeOK, StoredTypes, RowTypes, MemoryTypes,
           SweepTypes, HistoryTypes, row, memory, sweep
<1>3. CASE SaveSummary(p)
  <2>1. ASSUME NEW reached \in BOOLEAN, AfterSummary(p, reached)
        PROVE  PassTypes'
    <3>1. [pass[p] EXCEPT !.consensus = reached] \in Pass
      BY <1>1 DEF Pass
    <3>2. QED
      BY <1>1, <2>1, <3>1, KeepTypes, TowardsNextRoundTypes
         DEF AfterSummary, TypeOK, Labels
  <2>2. SummaryConsensus(p) \in BOOLEAN
    BY DEF SummaryConsensus
  <2>3. PassTypes'
    BY <1>3, <2>1, <2>2, ReturnTypes DEF SaveSummary, TypeOK
  <2>4. RoundSummary(pass[p].round, SummaryConsensus(p)) \in Message
    BY <1>1, <2>2 DEF RoundSummary, Message
  <2>5. transcript' \in Seq(Message) /\ faults' \in Nat
    <3>1. CASE NoteMissingSummary(p)
      BY <3>1, NoteTypes DEF TypeOK
    <3>2. CASE /\ Works \/ Fails("write")
               /\ \/ transcript' = transcript
                  \/ transcript' = Append(transcript,
                                          RoundSummary(pass[p].round, SummaryConsensus(p)))
      <4>1. transcript' \in Seq(Message)
        BY <2>4, <3>2 DEF TypeOK, StoredTypes
      <4>2. QED
        BY <3>2, <4>1 DEF TypeOK, HistoryTypes, Works, Fails
    <3>3. QED
      BY <1>3, <3>1, <3>2 DEF SaveSummary
  <2>6. QED
    BY <1>3, <2>3, <2>5 DEF SaveSummary, TypeOK, StoredTypes, RowTypes, MemoryTypes,
           SweepTypes, HistoryTypes, row, memory, sweep
<1>4. CASE Conclude(p)
  <2>1. ClosingRecords(p) \in Seq(Message) /\ OutcomeConsensus(p) \in BOOLEAN
    BY ClosingTypes DEF TypeOK
  <2>2. RowTypes'
    <3>1. CASE UpdateDebate("concluded", pass[p].round, NoAgent, OutcomeConsensus(p))
      BY <1>1, <2>1, <3>1, UpdateTypes DEF TypeOK, StoredTypes, Statuses
    <3>2. CASE UNCHANGED row
      BY <3>2 DEF TypeOK, StoredTypes, RowTypes, row
    <3>3. QED
      BY <1>4, <3>1, <3>2 DEF Conclude
  <2>3. transcript' \in Seq(Message)
    <3>1. \A n \in 0..Len(ClosingRecords(p)) :
             SubSeq(ClosingRecords(p), 1, n) \in Seq(Message)
      BY <2>1
    <3>2. \/ transcript' = transcript
          \/ transcript' = transcript \o ClosingRecords(p)
          \/ \E n \in 0..Len(ClosingRecords(p)) :
                transcript' = transcript \o SubSeq(ClosingRecords(p), 1, n)
      BY <1>4 DEF Conclude
    <3>3. \A records \in Seq(Message) : transcript \o records \in Seq(Message)
      BY DEF TypeOK, StoredTypes
    <3>4. transcript \in Seq(Message)
      BY DEF TypeOK, StoredTypes
    <3>5. QED
      BY <2>1, <3>1, <3>2, <3>3, <3>4, Zenon
  <2>4. faults' \in Nat /\ conclusions' \in Nat
    <3>1. /\ conclusions' = conclusions \/ conclusions' = conclusions + 1
          /\ Works \/ Fails("write")
      BY <1>4 DEF Conclude
    <3>2. QED
      BY <3>1 DEF TypeOK, HistoryTypes, Works, Fails
  <2>5. PassTypes'
    BY <1>4, ReturnTypes DEF Conclude, TypeOK
  <2>6. QED
    BY <1>4, <2>2, <2>3, <2>4, <2>5 DEF Conclude, TypeOK, StoredTypes, MemoryTypes,
           SweepTypes, HistoryTypes, memory, sweep
<1>5. CASE Advance(p)
  <2>1. NextParticipants(p) \in Seq(Agents)
    BY <1>1 DEF NextParticipants, TypeOK, StoredTypes
  <2>2. RowTypes'
    <3>1. CASE /\ NextParticipants(p) # <<>>
               /\ UpdateDebate("running", pass[p].round + 1, NextParticipants(p)[1], FALSE)
      <4>1. NextParticipants(p)[1] \in Agents
        BY <2>1, <3>1
      <4>2. /\ pass[p].round + 1 \in Nat /\ "running" \in Statuses
            /\ NextParticipants(p)[1] \in Agents \cup {NoAgent}
        BY <1>1, <4>1 DEF Statuses
      <4>3. QED
        BY <3>1, <4>2, UpdateTypes DEF TypeOK, StoredTypes
    <3>2. CASE UNCHANGED row
      BY <3>2 DEF TypeOK, StoredTypes, RowTypes, row
    <3>3. QED
      BY <1>5, <3>1, <3>2 DEF Advance
  <2>3. faults' \in Nat
    <3>1. Works \/ Fails("write")
      BY <1>5 DEF Advance
    <3>2. QED
      BY <3>1 DEF TypeOK, HistoryTypes, Works, Fails
  <2>4. PassTypes'
    BY <1>5, ReturnTypes DEF Advance, TypeOK
  <2>5. QED
    BY <1>5, <2>2, <2>3, <2>4 DEF Advance, TypeOK, StoredTypes, MemoryTypes, SweepTypes,
           HistoryTypes, memory, sweep
<1>6. QED
  BY <1>2, <1>3, <1>4, <1>5

\* A restart keeps the types.
LEMMA RestartTypes ==
    ASSUME TypeOK, Restart
    PROVE  /\ StoredTypes' /\ MemoryTypes' /\ SweepTypes' /\ PassTypes'
           /\ faults' \in Nat /\ conclusions' \in Nat
           /\ unbooked' \in [charges : Nat, replies : [DeclaredRounds -> Nat]]
<1> USE CourtAssumption
<1>1. <<>> \in Seq(Agents) /\ 0 \in Nat
  OBVIOUS
<1>2. PassTypes'
  BY <1>1, LocalTypes DEF Restart, PassTypes, Labels
<1>3. MemoryTypes' /\ SweepTypes'
  BY <1>1, AttemptTypes DEF Restart, MemoryTypes, SweepTypes, NoAttempts, Attempt, NoSnapshot
<1>4. Cardinality({p \in Slots : Paying(p)}) \in Nat
  <2>1. IsFiniteSet(Slots)
    BY FS_Interval DEF Slots
  <2>2. IsFiniteSet({p \in Slots : Paying(p)})
    BY <2>1, FS_Subset
  <2>3. QED
    BY <2>2, FS_CardinalityType
<1>5. NoReplyLost \in [DeclaredRounds -> Nat]
  BY DEF NoReplyLost
<1>6. unbooked' \in [charges : Nat, replies : [DeclaredRounds -> Nat]]
  BY <1>4, <1>5 DEF Restart, TypeOK, HistoryTypes
<1>7. QED
  BY <1>2, <1>3, <1>6 DEF Restart, TypeOK, StoredTypes, RowTypes, HistoryTypes, stored, row

\* Every step keeps the types.
LEMMA TypeStep ==
    ASSUME TypeOK, [Next]_vars
    PROVE  TypeOK'
<1>1. CASE Clients
  BY <1>1, ClientTypes
<1>2. CASE Ticker
  BY <1>2, TickerTypes
<1>3. ASSUME NEW p \in Slots, PassStep(p)
      PROVE  TypeOK'
  <2>1. CASE Panic(p)
    BY <2>1, RestartTypes DEF Panic, TypeOK, HistoryTypes
  <2>2. CASE End(p)
    <3>1. pass[p].token \in Nat /\ 0 \in Nat /\ <<>> \in Seq(Agents)
      BY DEF TypeOK, PassTypes, Pass
    <3>2. attempts' \in Attempt
      BY <2>2, <3>1, AttemptTypes DEF End, TypeOK, MemoryTypes
    <3>3. Idle \in Pass
      BY <3>1, LocalTypes
    <3>4. PassTypes'
      BY <2>2, <3>3, KeepTypes DEF End, TypeOK, Labels
    <3>5. QED
      BY <2>2, <3>2, <3>4 DEF End, TypeOK, StoredTypes, RowTypes, MemoryTypes, SweepTypes,
             HistoryTypes, stored, row, sweep, history
  <2>3. QED
    BY <1>3, <2>1, <2>2, ReadingTypes, CallingTypes, WritingTypes DEF PassStep
<1>4. CASE Time
  BY <1>4 DEF Time, DeadlinePasses, RetryPauseElapses, TypeOK, StoredTypes, RowTypes,
         MemoryTypes, SweepTypes, PassTypes, HistoryTypes, stored, row, memory, sweep,
         passes, history
<1>5. CASE Crash
  BY <1>5, RestartTypes DEF Crash, TypeOK, HistoryTypes
<1>6. CASE UNCHANGED vars
  BY <1>6 DEF vars, TypeOK, StoredTypes, RowTypes, MemoryTypes, SweepTypes, PassTypes,
         HistoryTypes, stored, row, memory, sweep, passes, history
<1>7. QED
  BY <1>1, <1>2, <1>3, <1>4, <1>5, <1>6 DEF Next

\* Every variable keeps its shape: whatever the clients, the ticker, the passes,
\* the store's failures and restarts do, in any interleaving.
THEOREM TypesHold == Spec => []TypeOK
<1>1. Init => TypeOK
  BY TypeInit
<1>2. TypeOK /\ [Next]_vars => TypeOK'
  BY TypeStep
<1>3. QED
  BY <1>1, <1>2, PTL DEF Spec

-------------------------------------------------------------------------------
(* At most one moderation pass works on a debate, under the two timing       *)
(* assumptions of module Court.                                              *)
(*                                                                           *)
(* The inductive invariant is PassInvariant of module CourtProperties.  Its  *)
(* heart is WorkingOwns: a working pass owns the attempt record, so two of   *)
(* them would have the same token, which TokensAreFresh excludes.  The other *)
(* parts are what keeps a pass from starting to work while another one does. *)

(* Facts that the steps below share. *)

\* What beginning a pass writes into the attempt record.
LEMMA BegunFields ==
    ASSUME NEW a \in Attempt, NEW r \in Nat
    PROVE  /\ Begun(a, r).running
           /\ Begun(a, r).pass = a.pass + 1
           /\ Begun(a, r).round = IF r > a.round THEN r ELSE a.round
<1>1. CASE r > a.round
  BY <1>1 DEF Begun, ForRound, Attempt
<1>2. CASE ~(r > a.round)
  BY <1>2 DEF Begun, ForRound, Attempt
<1>3. QED
  BY <1>1, <1>2

\* The values the invariant compares are numbers and truth values.
LEMMA Shapes ==
    ASSUME TypeOK
    PROVE  /\ attempts.round \in Nat /\ attempts.pass \in Nat
           /\ attempts.running \in BOOLEAN
           /\ round \in Nat /\ snapshot.round \in Nat
           /\ snapshot.active \in BOOLEAN /\ snapshot.moderating \in BOOLEAN
           /\ \A p \in Slots : pass[p].token \in Nat /\ pass[p].round \in Nat
BY DEF TypeOK, MemoryTypes, Attempt, StoredTypes, RowTypes, SweepTypes, PassTypes, Pass

\* Two working passes would share the token of the attempt record.
LEMMA WorkingIsUnique ==
    ASSUME PassInvariant, NEW p \in Slots, NEW q \in Slots, Working(p), Working(q)
    PROVE  p = q
BY DEF PassInvariant, WorkingOwns, TokensAreFresh, Working

\* A step that leaves what the invariant is about as it is keeps the invariant.
LEMMA IdleStep ==
    ASSUME PassInvariant, UNCHANGED <<status, round, attempts, sweep, passes>>
    PROVE  PassInvariant'
BY DEF PassInvariant, QuietBeforeStart, TokensAreFresh, WorkingOwns, LaunchedOwns,
       RoundsAreNew, SnapshotIsEarlier, Working, Active, sweep, passes

\* A pass goes on working, with its token and its round, or returns.
PassGoesOn(p) ==
    /\ pc'[p] \notin {"idle", "fetch"}
    /\ pass'[p].token = pass[p].token
    /\ pc'[p] # "end" => pass'[p].round = pass[p].round
    /\ \A q \in Slots : q # p => pc'[q] = pc[q] /\ pass'[q] = pass[q]

\* A working pass that goes on working, or is through, without moving the debate
\* keeps the invariant.
LEMMA WorkStep ==
    ASSUME TypeOK, PassInvariant, NEW p \in Slots, Working(p), PassGoesOn(p),
           UNCHANGED <<status, round, sweep>>,
           attempts'.running = attempts.running, attempts'.pass = attempts.pass,
           attempts'.round = attempts.round
    PROVE  PassInvariant'
<1>1. ticker' = ticker /\ snapshot' = snapshot
  BY DEF sweep
<1>2. status \in {"moderating", "deleted"}
  BY DEF PassInvariant, WorkingOwns
<1>3. ASSUME NEW q \in Slots
      PROVE  /\ pass'[q].token = pass[q].token
             /\ pc'[q] # "idle" => pc[q] # "idle"
             /\ pc'[q] = "fetch" => pc[q] = "fetch"
             /\ pc'[q] \notin {"idle", "fetch", "end"} =>
                   pc[q] \notin {"idle", "fetch", "end"} /\ pass'[q].round = pass[q].round
  BY DEF PassGoesOn, Working
<1>4. QuietBeforeStart'
  BY <1>2 DEF QuietBeforeStart
<1>5. TokensAreFresh'
  BY <1>1, <1>3 DEF PassInvariant, TokensAreFresh, Active
<1>6. WorkingOwns'
  BY <1>3 DEF PassInvariant, WorkingOwns, Working
<1>7. LaunchedOwns'
  BY <1>3 DEF PassInvariant, LaunchedOwns
<1>8. RoundsAreNew' /\ SnapshotIsEarlier'
  BY <1>1 DEF PassInvariant, RoundsAreNew, SnapshotIsEarlier, Active
<1>9. QED
  BY <1>4, <1>5, <1>6, <1>7, <1>8 DEF PassInvariant

\* A pass that moves the debate on, and is through with it, keeps the invariant.
LEMMA FinishStep ==
    ASSUME TypeOK, PassInvariant, NEW p \in Slots, Working(p), Return(p),
           UNCHANGED <<attempts, sweep>>, status = "moderating",
           status' = "concluded" \/ (status' = "running" /\ round' = pass[p].round + 1)
    PROVE  PassInvariant'
<1> USE Shapes
<1>1. /\ pc' = [pc EXCEPT ![p] = "end"]
      /\ pass' = [pass EXCEPT ![p] = [Idle EXCEPT !.token = pass[p].token]]
      /\ ticker' = ticker /\ snapshot' = snapshot
      /\ pc \in [Slots -> Labels] /\ pass \in [Slots -> Pass]
      /\ pc[p] \notin {"idle", "fetch", "end"}
  BY DEF Return, Goto, Keep, sweep, TypeOK, PassTypes, Working
<1>2. round = pass[p].round /\ attempts.round = pass[p].round
  BY DEF PassInvariant, WorkingOwns
<1>3. ASSUME NEW q \in Slots
      PROVE  /\ pass'[q].token = pass[q].token
             /\ pc'[q] # "idle" => pc[q] # "idle"
  BY <1>1 DEF Idle
<1>4. ASSUME NEW q \in Slots
      PROVE  pc'[q] \in {"idle", "fetch", "end"}
  <2>1. CASE q = p
    BY <1>1, <2>1
  <2>2. CASE q # p
    <3>1. ~Working(q)
      BY <2>2, WorkingIsUnique
    <3>2. QED
      BY <1>1, <2>2, <3>1 DEF Working
  <2>3. QED
    BY <2>1, <2>2
<1>5. QuietBeforeStart' /\ LaunchedOwns'
  BY DEF QuietBeforeStart, LaunchedOwns
<1>6. TokensAreFresh'
  BY <1>1, <1>3 DEF PassInvariant, TokensAreFresh, Active
<1>7. WorkingOwns'
  BY <1>4 DEF WorkingOwns, Working
<1>8. RoundsAreNew'
  BY <1>2 DEF RoundsAreNew
<1>9. SnapshotIsEarlier'
  BY <1>1, <1>2 DEF PassInvariant, SnapshotIsEarlier, Active
<1>10. QED
  BY <1>5, <1>6, <1>7, <1>8, <1>9 DEF PassInvariant

(* The steps that begin a pass. *)

\* The sweep begins a pass only when nobody else works or is about to.
LEMMA SweepResumesKeeps ==
    ASSUME TypeOK, PassInvariant, SweepResumes
    PROVE  PassInvariant'
<1> USE Shapes
<1>1. /\ ticker = "resume" /\ ticker' = "forget"
      /\ status' = status /\ round' = round /\ snapshot' = snapshot
  BY DEF SweepResumes, stored, row
<1>2. CASE ~snapshot.moderating \/ ~CanBegin(attempts, snapshot.round, "resumed", paused)
  <2>1. UNCHANGED <<attempts, pc, pass>>
    BY <1>2 DEF SweepResumes, Launch, memory, passes
  <2>2. QED
    BY <1>1, <2>1
       DEF PassInvariant, QuietBeforeStart, TokensAreFresh, WorkingOwns, LaunchedOwns,
           RoundsAreNew, SnapshotIsEarlier, Working, Active
<1>3. CASE snapshot.moderating /\ CanBegin(attempts, snapshot.round, "resumed", paused)
  <2>1. /\ ~attempts.running /\ snapshot.round >= attempts.round
    BY <1>3 DEF CanBegin, TakesOver
  <2>2. PICK p \in Slots :
          /\ pc[p] = "idle"
          /\ attempts' = Begun(attempts, snapshot.round)
          /\ pc' = [pc EXCEPT ![p] = "fetch"]
          /\ pass' = [pass EXCEPT ![p] = [Idle EXCEPT !.token = attempts'.pass]]
    BY <1>3 DEF SweepResumes, Launch, FreeSlot
  <2>3. /\ attempts'.running /\ attempts'.pass = attempts.pass + 1
        /\ attempts'.round = snapshot.round
    BY <2>1, <2>2, BegunFields DEF TypeOK, MemoryTypes
  <2>4. /\ pc'[p] = "fetch" /\ pass'[p].token = attempts'.pass
        /\ \A q \in Slots : q # p => pc'[q] = pc[q] /\ pass'[q] = pass[q]
    BY <2>2 DEF TypeOK, PassTypes, Idle
  <2>5. QuietBeforeStart'
    BY <1>1, <1>3 DEF PassInvariant, QuietBeforeStart
  <2>6. TokensAreFresh'
    <3>1. snapshot.active
      BY <1>3 DEF PassInvariant, SnapshotIsEarlier
    <3>2. \A q \in Slots : pc[q] # "idle" => pass[q].token <= attempts.pass
      BY <1>1, <3>1 DEF PassInvariant, TokensAreFresh
    <3>3. QED
      BY <2>3, <2>4, <3>2 DEF PassInvariant, TokensAreFresh
  <2>7. WorkingOwns'
    BY <2>1, <2>4 DEF PassInvariant, WorkingOwns, Working
  <2>8. status = "moderating" => snapshot.round = round
    BY <1>3, <2>1 DEF PassInvariant, SnapshotIsEarlier
  <2>9. LaunchedOwns'
    BY <1>1, <2>1, <2>3, <2>4, <2>8 DEF PassInvariant, LaunchedOwns
  <2>10. RoundsAreNew'
    BY <1>1, <1>3, <2>3 DEF PassInvariant, RoundsAreNew, SnapshotIsEarlier
  <2>11. SnapshotIsEarlier'
    BY <1>1, <2>3, <2>8 DEF PassInvariant, SnapshotIsEarlier, Active
  <2>12. QED
    BY <2>5, <2>6, <2>7, <2>9, <2>10, <2>11 DEF PassInvariant
<1>4. QED
  BY <1>2, <1>3

\* A turn that ends, and the pass it begins when it closes the round.
LEMMA AdvanceTurnKeeps ==
    ASSUME TypeOK, PassInvariant, PromptLaunch, status = "running", AdvanceTurnOrFail,
           snapshot' = snapshot,
           \/ ticker' = ticker
           \/ ticker \notin {"resume", "forget"} /\ ticker' \notin {"resume", "forget"}
    PROVE  PassInvariant'
<1> USE Shapes
<1>1. Exists
  BY DEF Exists
<1>2. CASE UNCHANGED <<status, round, attempts, pc, pass>>
  BY <1>2 DEF PassInvariant, QuietBeforeStart, TokensAreFresh, WorkingOwns, LaunchedOwns,
         RoundsAreNew, SnapshotIsEarlier, Working, Active
<1>3. CASE /\ LaunchIsPrompt
           /\ UpdateDebate("moderating", round, NoAgent, FALSE)
           /\ Launch(round, "round_closed")
  <2>1. status' = "moderating" /\ round' = round
    BY <1>1, <1>3 DEF UpdateDebate
  <2>2. attempts.round < round /\ CanBegin(attempts, round, "round_closed", paused)
    BY DEF PassInvariant, RoundsAreNew, CanBegin, TakesOver
  <2>3. PICK p \in Slots :
          /\ attempts' = Begun(attempts, round)
          /\ pc' = [pc EXCEPT ![p] = "fetch"]
          /\ pass' = [pass EXCEPT ![p] = [Idle EXCEPT !.token = attempts'.pass]]
    BY <1>3, <2>2 DEF Launch
  <2>4. /\ attempts'.running /\ attempts'.pass = attempts.pass + 1
        /\ attempts'.round = round
    BY <2>2, <2>3, BegunFields DEF TypeOK, MemoryTypes
  <2>5. /\ pc'[p] = "fetch" /\ pass'[p].token = attempts'.pass
        /\ \A q \in Slots : q # p => pc'[q] = pc[q] /\ pass'[q] = pass[q]
    BY <2>3 DEF TypeOK, PassTypes, Idle
  <2>6. \A q \in Slots : pc[q] \in {"idle", "end"} /\ ~Working(q)
    BY <1>3 DEF LaunchIsPrompt, PassInvariant, WorkingOwns, Working
  <2>7. QuietBeforeStart' /\ RoundsAreNew'
    BY <2>1 DEF QuietBeforeStart, RoundsAreNew
  <2>8. TokensAreFresh'
    <3>1. \A q \in Slots : pc[q] # "idle" => pass[q].token <= attempts.pass
      BY DEF PassInvariant, TokensAreFresh, Active
    <3>2. QED
      BY <2>4, <2>5, <3>1 DEF PassInvariant, TokensAreFresh
  <2>9. WorkingOwns'
    BY <2>5, <2>6 DEF WorkingOwns, Working
  <2>10. LaunchedOwns'
    BY <2>1, <2>4, <2>5, <2>6 DEF LaunchedOwns
  <2>11. SnapshotIsEarlier'
    BY <2>1, <2>4 DEF PassInvariant, SnapshotIsEarlier, Active
  <2>12. QED
    BY <2>7, <2>8, <2>9, <2>10, <2>11 DEF PassInvariant
<1>4. QED
  <2>1. CASE Fails("turn") /\ UNCHANGED <<row, memory, passes>>
    BY <1>2, <2>1 DEF row, memory, passes
  <2>2. CASE AdvanceTurn
    <3>1. CASE HasNext(roster, turn) # {}
      BY <1>1, <1>2, <2>2, <3>1 DEF AdvanceTurn, UpdateDebate, memory, passes
    <3>2. CASE HasNext(roster, turn) = {}
      BY <1>3, <2>2, <3>2 DEF AdvanceTurn
    <3>3. QED
      BY <3>1, <3>2
  <2>3. QED
    BY <2>1, <2>2 DEF AdvanceTurnOrFail

(* The other steps of clients and of the ticker. *)

\* The first round begins with no pass about and no attempt counted.
LEMMA StartKeeps ==
    ASSUME TypeOK, PassInvariant, status \in {"open", "preparing"},
           \/ BeginFirstRound
           \/ UpdateDebate("preparing", round, NoAgent, FALSE),
           UNCHANGED <<attempts, passes, snapshot>>,
           \/ ticker' = ticker
           \/ ticker \notin {"resume", "forget"} /\ ticker' \notin {"resume", "forget"},
           ticker \in {"resume", "forget"} => snapshot.active
    PROVE  PassInvariant'
<1>1. \/ status' = "running" /\ round' = 1
      \/ status' = "preparing" /\ round' = round
  BY DEF BeginFirstRound, UpdateDebate, Exists
<1>2. /\ attempts = NoAttempts /\ attempts.round = 0 /\ ~snapshot.moderating
      /\ \A p \in Slots : pc[p] = "idle"
  BY DEF PassInvariant, QuietBeforeStart, NoAttempts
<1>3. snapshot' = snapshot /\ pc' = pc /\ pass' = pass /\ attempts' = attempts
  BY DEF passes
<1>4. QuietBeforeStart' /\ TokensAreFresh' /\ WorkingOwns' /\ LaunchedOwns'
  BY <1>1, <1>2, <1>3
     DEF QuietBeforeStart, TokensAreFresh, WorkingOwns, LaunchedOwns, Working
<1>5. RoundsAreNew'
  BY <1>1, <1>2, <1>3 DEF RoundsAreNew
<1>6. SnapshotIsEarlier'
  BY <1>1, <1>2, <1>3 DEF PassInvariant, SnapshotIsEarlier
<1>7. QED
  BY <1>4, <1>5, <1>6 DEF PassInvariant

\* No request of a client breaks the pass invariant.
LEMMA ClientsKeep ==
    ASSUME TypeOK, PassInvariant, PromptLaunch, PromptSweep, Clients
    PROVE  PassInvariant'
<1>1. ASSUME NEW mode \in AllowedModes, NEW rounds \in RoundCounts, NEW prep \in PrepTimes,
             NEW observer \in BOOLEAN, CreateDebate(mode, rounds, prep, observer)
      PROVE  PassInvariant'
  BY <1>1 DEF CreateDebate, memory, sweep, passes, PassInvariant, QuietBeforeStart,
         TokensAreFresh, WorkingOwns, LaunchedOwns, RoundsAreNew, SnapshotIsEarlier, Working,
         Active
<1>2. ASSUME NEW agent \in Agents, JoinDebate(agent)
      PROVE  PassInvariant'
  BY <1>2, IdleStep DEF JoinDebate, row, memory
<1>3. CASE StartDebate
  <2>1. ticker \in {"resume", "forget"} => snapshot.active
    BY <1>3 DEF StartDebate, SweepIsPrompt
  <2>2. QED
    BY <1>3, <2>1, StartKeeps DEF StartDebate, memory, sweep
<1>4. ASSUME NEW agent \in Agents, NEW support \in Supports, PostArgument(agent, support)
      PROVE  PassInvariant'
  BY <1>4, AdvanceTurnKeeps DEF PostArgument, HasTurn, sweep
<1>5. CASE DeleteDebate
  BY <1>5 DEF DeleteDebate, memory, sweep, passes, PassInvariant, QuietBeforeStart,
         TokensAreFresh, WorkingOwns, LaunchedOwns, RoundsAreNew, SnapshotIsEarlier, Working,
         Active
<1>6. QED
  BY <1>1, <1>2, <1>3, <1>4, <1>5 DEF Clients

\* Nor does a step of the background sweep.
LEMMA TickerKeeps ==
    ASSUME TypeOK, PassInvariant, PromptLaunch, Ticker
    PROVE  PassInvariant'
<1> USE Shapes
<1>1. CASE SweepReads
  <2>1. /\ status' = status /\ round' = round /\ attempts' = attempts
        /\ pc' = pc /\ pass' = pass
    BY <1>1 DEF SweepReads, stored, row, memory, passes
  <2>2. ~snapshot.active /\ ~snapshot.moderating
    BY <1>1 DEF SweepReads, PassInvariant, SnapshotIsEarlier
  <2>3. \/ /\ ticker' = "resume"
           /\ snapshot'.active <=> Active
           /\ snapshot'.moderating <=> status = "moderating"
           /\ status = "moderating" => snapshot'.round = round
        \/ ticker' = "expire" /\ snapshot' = snapshot
    <3> DEFINE seen == [active     |-> Active,
                        moderating |-> status = "moderating",
                        round      |-> IF status = "moderating" THEN round ELSE 0]
    <3>1. /\ seen.active <=> Active
          /\ seen.moderating <=> status = "moderating"
          /\ status = "moderating" => seen.round = round
      BY DEF Active
    <3> HIDE DEF seen
    <3>2. \/ ticker' = "resume" /\ snapshot' = seen
          \/ ticker' = "expire" /\ snapshot' = snapshot
      BY <1>1, Zenon DEF SweepReads, seen
    <3>3. QED
      BY <3>1, <3>2, Zenon
  <2>4. QuietBeforeStart' /\ WorkingOwns' /\ LaunchedOwns' /\ RoundsAreNew'
    BY <2>1, <2>2, <2>3 DEF PassInvariant, QuietBeforeStart, WorkingOwns, LaunchedOwns,
           RoundsAreNew, Working
  <2>5. TokensAreFresh'
    BY <2>1, <2>2, <2>3 DEF PassInvariant, TokensAreFresh, Active
  <2>6. SnapshotIsEarlier'
    <3>1. CASE ticker' = "resume"
      BY <2>1, <2>2, <2>3, <3>1 DEF PassInvariant, SnapshotIsEarlier, Active
    <3>2. CASE ticker' = "expire" /\ snapshot' = snapshot
      BY <2>1, <2>2, <3>2 DEF PassInvariant, SnapshotIsEarlier, Active
    <3>3. QED
      BY <2>3, <3>1, <3>2
  <2>7. QED
    BY <2>4, <2>5, <2>6 DEF PassInvariant
<1>2. CASE SweepResumes
  BY <1>2, SweepResumesKeeps
<1>3. CASE SweepForgets
  <2>1. /\ status' = status /\ round' = round /\ pc' = pc /\ pass' = pass
        /\ ticker = "forget" /\ ticker' = "expire"
        /\ ~snapshot'.active /\ ~snapshot'.moderating
    BY <1>3 DEF SweepForgets, stored, row, passes, NoSnapshot
  <2>2. CASE attempts' = attempts
    BY <2>1, <2>2 DEF PassInvariant, QuietBeforeStart, TokensAreFresh, WorkingOwns,
           LaunchedOwns, RoundsAreNew, SnapshotIsEarlier, Working, Active
  <2>3. CASE /\ ~attempts.running /\ ~snapshot.active
             /\ attempts' = NoAttempts
    <3>1. ~Active
      BY <2>1, <2>3 DEF PassInvariant, SnapshotIsEarlier
    <3>2. \A q \in Slots : ~Working(q)
      BY <2>3 DEF PassInvariant, WorkingOwns
    <3>3. QuietBeforeStart'
      BY <2>1, <2>3 DEF PassInvariant, QuietBeforeStart
    <3>4. QED
      BY <2>1, <3>1, <3>2, <3>3 DEF PassInvariant, TokensAreFresh, WorkingOwns,
             LaunchedOwns, RoundsAreNew, SnapshotIsEarlier, Working, Active
  <2>4. QED
    BY <1>3, <2>2, <2>3 DEF SweepForgets, Forgotten
<1>4. CASE ExpireTurns
  <2>1. ticker = "expire" /\ ticker' = "read" /\ snapshot' = snapshot
    BY <1>4 DEF ExpireTurns
  <2>2. CASE PreparationIsOver /\ BeginFirstRound /\ UNCHANGED <<memory, passes>>
    BY <2>1, <2>2, StartKeeps DEF PreparationIsOver, memory
  <2>3. CASE TurnIsOver /\ AdvanceTurnOrFail
    BY <2>1, <2>3, AdvanceTurnKeeps DEF TurnIsOver
  <2>4. CASE UNCHANGED <<row, memory, passes>>
    BY <2>1, <2>4 DEF PassInvariant, QuietBeforeStart, TokensAreFresh, WorkingOwns,
           LaunchedOwns, RoundsAreNew, SnapshotIsEarlier, Working, Active, row, memory, passes
  <2>5. QED
    BY <1>4, <2>2, <2>3, <2>4 DEF ExpireTurns
<1>5. QED
  BY <1>1, <1>2, <1>3, <1>4 DEF Ticker

(* The steps of a pass. *)

\* A launched pass goes to work only on a debate that waits for it.
LEMMA FetchKeeps ==
    ASSUME TypeOK, PassInvariant, NEW p \in Slots, Fetch(p)
    PROVE  PassInvariant'
<1> USE Shapes
<1>1. /\ status' = status /\ round' = round /\ attempts' = attempts
      /\ ticker' = ticker /\ snapshot' = snapshot /\ pc[p] = "fetch"
  BY DEF Fetch, stored, row, memory, sweep
<1>2. /\ pass'[p].token = pass[p].token
      /\ \/ pc'[p] = "end"
         \/ pc'[p] = "read" /\ status = "moderating" /\ pass'[p].round = round
      /\ \A q \in Slots : q # p => pc'[q] = pc[q] /\ pass'[q] = pass[q]
  <2>1. CASE Return(p)
    BY <2>1 DEF Return, Goto, Keep, TypeOK, PassTypes, Idle
  <2>2. CASE /\ status = "moderating"
             /\ Goto(p, "read")
             /\ Keep(p, [pass[p] EXCEPT !.round = round, !.tokens = tokens])
    BY <2>2 DEF Goto, Keep, TypeOK, PassTypes, Pass
  <2>3. QED
    BY <2>1, <2>2 DEF Fetch, IsModerating
<1>3. QuietBeforeStart' /\ RoundsAreNew' /\ SnapshotIsEarlier'
  BY <1>1 DEF PassInvariant, QuietBeforeStart, RoundsAreNew, SnapshotIsEarlier, Active
<1>4. TokensAreFresh'
  BY <1>1, <1>2 DEF PassInvariant, TokensAreFresh, Active
<1>5. LaunchedOwns'
  BY <1>1, <1>2 DEF PassInvariant, LaunchedOwns
<1>6. WorkingOwns'
  BY <1>1, <1>2 DEF PassInvariant, WorkingOwns, LaunchedOwns, Working
<1>7. QED
  BY <1>3, <1>4, <1>5, <1>6 DEF PassInvariant

\* A pass that ends clears the mark only when it is its own.
LEMMA EndKeeps ==
    ASSUME TypeOK, PassInvariant, NEW p \in Slots, End(p)
    PROVE  PassInvariant'
<1> USE Shapes
<1>1. /\ status' = status /\ round' = round
      /\ ticker' = ticker /\ snapshot' = snapshot
      /\ pc[p] = "end" /\ pc'[p] = "idle"
      /\ attempts' = Ended(attempts, pass[p].token)
      /\ \A q \in Slots : q # p => pc'[q] = pc[q] /\ pass'[q] = pass[q]
  BY DEF End, Goto, Keep, stored, row, sweep, TypeOK, PassTypes
<1>2. /\ attempts'.pass = attempts.pass /\ attempts'.round = attempts.round
      /\ attempts.pass # pass[p].token => attempts' = attempts
  BY <1>1 DEF Ended, TypeOK, MemoryTypes, Attempt
<1>3. QuietBeforeStart' /\ RoundsAreNew' /\ SnapshotIsEarlier'
  BY <1>1, <1>2 DEF PassInvariant, QuietBeforeStart, RoundsAreNew, SnapshotIsEarlier, Active
<1>4. TokensAreFresh'
  BY <1>1, <1>2 DEF PassInvariant, TokensAreFresh, Active
<1>5. \A q \in Slots : q # p /\ pc[q] # "idle" => pass[q].token # pass[p].token
  BY <1>1 DEF PassInvariant, TokensAreFresh
<1>6. LaunchedOwns'
  BY <1>1, <1>2, <1>5 DEF PassInvariant, LaunchedOwns
<1>7. WorkingOwns'
  BY <1>1, <1>2, <1>5 DEF PassInvariant, WorkingOwns, Working
<1>8. QED
  BY <1>3, <1>4, <1>6, <1>7 DEF PassInvariant

\* A restart leaves no pass behind.
LEMMA RestartKeeps ==
    ASSUME TypeOK, PassInvariant, Restart
    PROVE  PassInvariant'
<1> USE Shapes
<1>1. /\ status' = status /\ round' = round /\ attempts' = NoAttempts
      /\ ticker' = "read" /\ ~snapshot'.active /\ ~snapshot'.moderating
      /\ \A q \in Slots : pc'[q] = "idle"
      /\ NoAttempts.round = 0
  BY DEF Restart, stored, row, NoSnapshot, NoAttempts
<1>2. QED
  BY <1>1 DEF PassInvariant, QuietBeforeStart, TokensAreFresh, WorkingOwns,
         LaunchedOwns, RoundsAreNew, SnapshotIsEarlier, Working, Active

\* What the steps of a pass at work do to the goroutines.
LEMMA GoingOn ==
    ASSUME TypeOK, NEW p \in Slots,
           \/ ReadTranscript(p) \/ Admit(p) \/ Call(p) \/ Charge(p) \/ SkipSummary(p)
           \/ SaveSummary(p) \/ RereadTranscript(p) \/ Conclude(p) \/ Advance(p)
    PROVE  PassGoesOn(p)
<1>1. pc \in [Slots -> Labels] /\ pass \in [Slots -> Pass] /\ pass[p] \in Pass
  BY DEF TypeOK, PassTypes
<1>2. ASSUME Return(p) PROVE PassGoesOn(p)
  BY <1>1, <1>2 DEF Return, Goto, Keep, PassGoesOn, Idle
<1>3. ASSUME NEW parts, TowardsNextRound(p, parts) PROVE PassGoesOn(p)
  BY <1>1, <1>3 DEF TowardsNextRound, Goto, Keep, PassGoesOn, Idle
<1>4. ASSUME NEW locals, Keep(p, locals), NEW label, Goto(p, label),
             label \notin {"idle", "fetch"}, locals.token = pass[p].token,
             locals.round = pass[p].round
      PROVE  PassGoesOn(p)
  BY <1>1, <1>4 DEF Goto, Keep, PassGoesOn
<1>5. ASSUME NEW msgs, NEW agreed, NEW basis, Keep(p, ForVerdict(p, msgs, agreed, basis)),
             Goto(p, TowardsVerdict(basis))
      PROVE  PassGoesOn(p)
  <2>1. /\ ForVerdict(p, msgs, agreed, basis).token = pass[p].token
        /\ ForVerdict(p, msgs, agreed, basis).round = pass[p].round
        /\ TowardsVerdict(basis) \notin {"idle", "fetch"}
    BY <1>1 DEF ForVerdict, TowardsVerdict, Pass
  <2>2. QED
    BY <1>4, <1>5, <2>1
<1>6. CASE ReadTranscript(p)
  <2> DEFINE parts == IF params.mode = "hybrid" THEN roster ELSE <<>>
  <2>1. CASE /\ Keep(p, [pass[p] EXCEPT !.msgs = transcript, !.parts = parts,
                                         !.call = "summary"])
             /\ Goto(p, "admit")
    <3> DEFINE locals == [pass[p] EXCEPT !.msgs = transcript, !.parts = parts,
                                         !.call = "summary"]
    <3> HIDE DEF parts
    <3>1. locals.token = pass[p].token /\ locals.round = pass[p].round
      BY <1>1 DEF Pass
    <3> HIDE DEF locals
    <3>2. Keep(p, locals) /\ Goto(p, "admit")
      BY <2>1 DEF locals
    <3>3. QED
      BY <1>4, <3>1, <3>2
  <2>2. QED
    BY <1>2, <1>3, <1>5, <1>6, <2>1, Zenon DEF ReadTranscript
<1>7. CASE Admit(p)
  BY <1>1, <1>7 DEF Admit, Goto, Keep, PassGoesOn, Pass
<1>8. CASE Call(p)
  <2>1. PICK reply, charge, basis :
          /\ Keep(p, [pass[p] EXCEPT !.reply = reply, !.charge = charge, !.basis = basis])
          /\ Goto(p, IF charge > 0 THEN "charge" ELSE AfterCall(p))
    BY <1>8, Zenon DEF Call
  <2>2. QED
    BY <1>1, <2>1 DEF AfterCall, Goto, Keep, PassGoesOn, Pass
<1>9. CASE Charge(p)
  BY <1>1, <1>9 DEF Charge, AfterCall, Goto, Keep, PassGoesOn, Pass
<1>10. CASE SkipSummary(p)
  BY <1>3, <1>10 DEF SkipSummary
<1>11. CASE SaveSummary(p)
  <2>1. ASSUME NEW reached, AfterSummary(p, reached) PROVE PassGoesOn(p)
    BY <1>1, <1>3, <2>1 DEF AfterSummary, Goto, Keep, PassGoesOn, Pass
  <2>2. QED
    BY <1>2, <1>11, <2>1 DEF SaveSummary
<1>12. CASE RereadTranscript(p)
  BY <1>2, <1>3, <1>5, <1>12, Zenon DEF RereadTranscript
<1>13. CASE Conclude(p) \/ Advance(p)
  BY <1>2, <1>13 DEF Conclude, Advance
<1>14. QED
  BY <1>6, <1>7, <1>8, <1>9, <1>10, <1>11, <1>12, <1>13

\* A pass at work keeps the invariant: it changes nothing the invariant is about
\* until its last write, which moves the debate out of moderation.
LEMMA WorkingKeeps ==
    ASSUME TypeOK, PassInvariant, NEW p \in Slots,
           \/ ReadTranscript(p) \/ Admit(p) \/ Call(p) \/ Charge(p) \/ SkipSummary(p)
           \/ SaveSummary(p) \/ RereadTranscript(p) \/ Conclude(p) \/ Advance(p)
    PROVE  PassInvariant'
<1> USE Shapes
<1>1. Working(p)
  BY DEF Working, ReadTranscript, Admit, Call, Charge, SkipSummary, SaveSummary,
         RereadTranscript, Conclude, Advance
<1>2. snapshot' = snapshot /\ ticker' = ticker
  BY DEF ReadTranscript, Admit, Call, Charge, SkipSummary, SaveSummary,
         RereadTranscript, Conclude, Advance, sweep
<1>3. /\ attempts'.running = attempts.running
      /\ attempts'.pass = attempts.pass
      /\ attempts'.round = attempts.round
  <2>1. \/ attempts' = attempts
        \/ attempts' = GivenUp(attempts)
        \/ attempts' = Admitted(attempts)
        \/ attempts' = ChargeNoted(attempts)
    BY DEF ReadTranscript, Admit, Call, Charge, SkipSummary, SaveSummary,
           RereadTranscript, Conclude, Advance, memory
  <2>2. QED
    BY <2>1 DEF GivenUp, Admitted, ChargeNoted, TypeOK, MemoryTypes, Attempt
<1>4. CASE UNCHANGED <<status, round>>
  <2>1. PassGoesOn(p)
    BY GoingOn
  <2>2. QED
    BY <1>1, <1>2, <1>3, <1>4, <2>1, WorkStep DEF sweep
<1>5. CASE ~(UNCHANGED <<status, round>>)
  <2>1. Return(p) /\ UNCHANGED attempts
    BY <1>5 DEF ReadTranscript, Admit, Call, Charge, SkipSummary, SaveSummary,
           RereadTranscript, Conclude, Advance, stored, row, memory
  <2>2. /\ Exists
        /\ \/ status' = "concluded"
           \/ status' = "running" /\ round' = pass[p].round + 1
    BY <1>5 DEF ReadTranscript, Admit, Call, Charge, SkipSummary, SaveSummary,
           RereadTranscript, Conclude, Advance, UpdateDebate, stored, row
  <2>3. status = "moderating"
    BY <1>1, <2>2 DEF PassInvariant, WorkingOwns, Exists
  <2>4. QED
    BY <1>1, <1>2, <2>1, <2>2, <2>3, FinishStep DEF sweep
<1>6. QED
  BY <1>4, <1>5

\* Every step keeps the invariant.
LEMMA PassInvariantStep ==
    ASSUME TypeOK, PassInvariant, PromptLaunch, PromptSweep, [Next]_vars
    PROVE  PassInvariant'
<1>1. CASE Clients
  BY <1>1, ClientsKeep
<1>2. CASE Ticker
  BY <1>2, TickerKeeps
<1>3. ASSUME NEW p \in Slots, PassStep(p)
      PROVE  PassInvariant'
  BY <1>3, FetchKeeps, WorkingKeeps, EndKeeps, RestartKeeps DEF PassStep, Panic
<1>4. CASE Time
  BY <1>4, IdleStep DEF Time, DeadlinePasses, RetryPauseElapses, stored, row, memory
<1>5. CASE Crash
  BY <1>5, RestartKeeps DEF Crash
<1>6. CASE UNCHANGED vars
  BY <1>6, IdleStep DEF vars, stored, row, memory
<1>7. QED
  BY <1>1, <1>2, <1>3, <1>4, <1>5, <1>6 DEF Next

\* The pass invariant holds at first.
LEMMA PassInvariantInit == Init => PassInvariant
BY DEF Init, NoSnapshot, NoAttempts, PassInvariant, QuietBeforeStart, TokensAreFresh,
       WorkingOwns, LaunchedOwns, RoundsAreNew, SnapshotIsEarlier, Working, Active

\* The inductive invariant holds of every behaviour.
THEOREM PassInvariantHolds ==
    ASSUME PromptLaunch, PromptSweep
    PROVE  Spec => []PassInvariant
<1>1. TypeOK /\ PassInvariant /\ [Next]_vars => PassInvariant'
  BY PassInvariantStep
<1>2. QED
  BY <1>1, PassInvariantInit, TypesHold, PTL DEF Spec

\* However turns, sweeps, retries, failures and restarts interleave, a debate is
\* never moderated by two passes at once (service.go, beginModerationAttempt).
THEOREM OnePassHolds ==
    ASSUME PromptLaunch, PromptSweep
    PROVE  Spec => []OnePass
<1>1. PassInvariant => OnePass
  BY WorkingIsUnique DEF PassInvariant, WorkingOwns, OnePass
<1>2. QED
  BY <1>1, PassInvariantHolds, PTL

\* A concluded debate changes no more, except that it can be deleted: no late
\* pass, sweep or turn touches its row, its participants or its transcript.
THEOREM ConcludedIsFinalHolds ==
    ASSUME PromptLaunch, PromptSweep
    PROVE  Spec => ConcludedIsFinal
<1>1. TypeOK /\ PassInvariant /\ [Next]_vars
        => [status = "concluded" =>
              status' = "deleted" \/ UNCHANGED <<row, roster, transcript>>]_vars
  <2> SUFFICES ASSUME TypeOK, PassInvariant, [Next]_vars, status = "concluded"
               PROVE  status' = "deleted" \/ UNCHANGED <<row, roster, transcript>>
    OBVIOUS
  <2>1. CASE Clients
    BY <2>1 DEF Clients, CreateDebate, JoinDebate, StartDebate, PostArgument, HasTurn,
           DeleteDebate
  <2>2. CASE Ticker
    BY <2>2 DEF Ticker, SweepReads, SweepResumes, SweepForgets, ExpireTurns,
           PreparationIsOver, TurnIsOver, stored
  <2>3. ASSUME NEW p \in Slots, PassStep(p)
        PROVE  UNCHANGED <<row, roster, transcript>>
    <3>1. ~Working(p)
      BY DEF PassInvariant, WorkingOwns
    <3>2. Fetch(p) \/ Panic(p) \/ End(p)
      BY <2>3, <3>1 DEF PassStep, Working, ReadTranscript, Admit, Call, Charge, SkipSummary,
             SaveSummary, RereadTranscript, Conclude, Advance
    <3>3. QED
      BY <3>2 DEF Fetch, Panic, End, Restart, stored
  <2>4. CASE Time \/ Crash \/ UNCHANGED vars
    BY <2>4 DEF Time, DeadlinePasses, RetryPauseElapses, Crash, Restart, vars, stored
  <2>5. QED
    BY <2>1, <2>2, <2>3, <2>4 DEF Next
<1>2. QED
  BY <1>1, PassInvariantHolds, TypesHold, PTL DEF Spec, ConcludedIsFinal

(* The debate is concluded once. *)

\* Why a second conclusion is out of reach: the first one was the last write of the
\* last pass that will ever work.
ConclusionInvariant ==
    /\ conclusions <= 1
    /\ conclusions > 0 =>
          status \in {"concluded", "deleted"} /\ \A p \in Slots : ~Working(p)

\* A launch is not yet work.
LEMMA LaunchIsNoWork ==
    ASSUME PassTypes, NEW r, NEW trigger, Launch(r, trigger) \/ UNCHANGED passes,
           \A p \in Slots : ~Working(p)
    PROVE  \A p \in Slots : ~Working(p)'
<1>1. CASE UNCHANGED passes
  BY <1>1 DEF passes, Working
<1>2. CASE \E p \in Slots : pc' = [pc EXCEPT ![p] = "fetch"]
  BY <1>2 DEF PassTypes, Working
<1>3. CASE Launch(r, trigger) /\ CanBegin(attempts, r, trigger, paused)
  <2>1. \E p \in Slots :
            /\ FreeSlot(p)
            /\ attempts' = Begun(attempts, r)
            /\ paused' = TRUE
            /\ pc' = [pc EXCEPT ![p] = "fetch"]
            /\ pass' = [pass EXCEPT ![p] = [Idle EXCEPT !.token = attempts'.pass]]
    BY <1>3 DEF Launch
  <2>2. QED
    BY <1>2, <2>1
<1>4. QED
  BY <1>1, <1>3 DEF Launch

\* The step that announces a conclusion.
LEMMA ConcludeKeepsConclusion ==
    ASSUME TypeOK, PassInvariant, ConclusionInvariant, NEW p \in Slots, Conclude(p),
           conclusions' = conclusions + 1,
           UpdateDebate("concluded", pass[p].round, NoAgent, OutcomeConsensus(p))
    PROVE  ConclusionInvariant'
<1>1. Working(p)
  BY DEF Conclude, Working
<1>2. conclusions' = 1
  BY <1>1 DEF ConclusionInvariant, TypeOK, HistoryTypes
<1>3. status' \in {"concluded", "deleted"}
  BY <1>1 DEF PassInvariant, WorkingOwns, UpdateDebate, Exists, row
<1>4. PassGoesOn(p) /\ pc'[p] = "end"
  BY GoingOn DEF Conclude, Return, Goto, TypeOK, PassTypes
<1>5. \A q \in Slots : q # p => ~Working(q)
  BY <1>1, WorkingIsUnique
<1>6. \A q \in Slots : ~Working(q)'
  BY <1>4, <1>5 DEF PassGoesOn, Working
<1>7. QED
  BY <1>2, <1>3, <1>6 DEF ConclusionInvariant

\* After the conclusion nothing moves the debate but its removal, and no pass goes
\* to work.
LEMMA ConclusionIsKept ==
    ASSUME TypeOK, PassInvariant, status \in {"concluded", "deleted"},
           \A p \in Slots : ~Working(p), [Next]_vars
    PROVE  /\ conclusions' = conclusions
           /\ status' \in {"concluded", "deleted"}
           /\ \A p \in Slots : ~Working(p)'
<1>1. CASE Clients
  BY <1>1 DEF Clients, CreateDebate, JoinDebate, StartDebate, PostArgument, HasTurn,
         DeleteDebate, row, passes, history, Working
<1>2. CASE Ticker
  <2>1. conclusions' = conclusions /\ status' = status
    BY <1>2 DEF Ticker, SweepReads, SweepResumes, SweepForgets, ExpireTurns,
           PreparationIsOver, TurnIsOver, stored, row, history
  <2>2. UNCHANGED passes \/ Launch(snapshot.round, "resumed")
    BY <1>2 DEF Ticker, SweepReads, SweepResumes, SweepForgets, ExpireTurns,
           PreparationIsOver, TurnIsOver
  <2>3. QED
    BY <2>1, <2>2, LaunchIsNoWork DEF TypeOK
<1>3. ASSUME NEW p \in Slots, PassStep(p)
      PROVE  /\ conclusions' = conclusions /\ status' = status
             /\ \A q \in Slots : ~Working(q)'
  <2>1. Fetch(p) \/ Panic(p) \/ End(p)
    BY <1>3 DEF PassStep, Working, ReadTranscript, Admit, Call, Charge, SkipSummary,
           SaveSummary, RereadTranscript, Conclude, Advance
  <2>2. CASE Fetch(p)
    BY <2>2 DEF Fetch, IsModerating, Return, Goto, Working, TypeOK, PassTypes, stored, row
  <2>3. CASE End(p)
    BY <2>3 DEF End, Goto, Working, TypeOK, PassTypes, stored, row, history
  <2>4. CASE Panic(p)
    BY <2>4 DEF Panic, Restart, Working, stored, row
  <2>5. QED
    BY <2>1, <2>2, <2>3, <2>4
<1>4. CASE Time \/ Crash \/ UNCHANGED vars
  BY <1>4 DEF Time, DeadlinePasses, RetryPauseElapses, Crash, Restart, vars, stored, row,
         passes, history, Working
<1>5. QED
  BY <1>1, <1>2, <1>3, <1>4 DEF Next

\* Only Conclude counts a conclusion.
LEMMA OnlyConcludeCounts ==
    ASSUME [Next]_vars
    PROVE  \/ conclusions' = conclusions
           \/ \E p \in Slots :
                 /\ Conclude(p) /\ conclusions' = conclusions + 1
                 /\ UpdateDebate("concluded", pass[p].round, NoAgent, OutcomeConsensus(p))
<1>1. CASE Clients \/ Ticker
  BY <1>1 DEF Clients, CreateDebate, JoinDebate, StartDebate, PostArgument, DeleteDebate,
         Ticker, SweepReads, SweepResumes, SweepForgets, ExpireTurns, history
<1>2. ASSUME NEW p \in Slots, PassStep(p), ~Conclude(p)
      PROVE  conclusions' = conclusions
  BY <1>2 DEF PassStep, Fetch, ReadTranscript, Admit, Call, Charge, SkipSummary,
         SaveSummary, RereadTranscript, Advance, Panic, Restart, End, history
<1>3. ASSUME NEW p \in Slots, Conclude(p)
      PROVE  \/ conclusions' = conclusions
             \/ /\ conclusions' = conclusions + 1
                /\ UpdateDebate("concluded", pass[p].round, NoAgent, OutcomeConsensus(p))
  BY <1>3 DEF Conclude
<1>4. CASE Time \/ Crash \/ UNCHANGED vars
  BY <1>4 DEF Time, DeadlinePasses, RetryPauseElapses, Crash, Restart, vars, history
<1>5. QED
  BY <1>1, <1>2, <1>3, <1>4 DEF Next

\* A debate's end is announced at most once, however many passes, sweeps and retries
\* are about: a late one finds the debate gone on and returns.
THEOREM OneConclusionHolds ==
    ASSUME PromptLaunch, PromptSweep
    PROVE  Spec => []OneConclusion
<1>1. Init => ConclusionInvariant
  BY DEF Init, ConclusionInvariant
<1>2. TypeOK /\ PassInvariant /\ ConclusionInvariant /\ [Next]_vars => ConclusionInvariant'
  <2> SUFFICES ASSUME TypeOK, PassInvariant, ConclusionInvariant, [Next]_vars
               PROVE  ConclusionInvariant'
    OBVIOUS
  <2>1. CASE conclusions > 0
    BY <2>1, ConclusionIsKept DEF ConclusionInvariant
  <2>2. CASE ~(conclusions > 0) /\ conclusions' = conclusions
    BY <2>2 DEF ConclusionInvariant
  <2>3. QED
    BY <2>1, <2>2, OnlyConcludeCounts, ConcludeKeepsConclusion
<1>3. ConclusionInvariant => OneConclusion
  BY DEF ConclusionInvariant, OneConclusion
<1>4. QED
  BY <1>1, <1>2, <1>3, PassInvariantHolds, TypesHold, PTL DEF Spec

-------------------------------------------------------------------------------
(* What the moderation of a debate costs.                                    *)
(*                                                                           *)
(* The ceiling is compared with what the store has counted.  A charge that    *)
(* the store refused is noted in the attempt record, one that a process death *)
(* or a panic took along is lost with the process.  SpendInvariant compares   *)
(* what was paid with what is counted, noted and lost; only the pass at work  *)
(* can pay (PassInvariant), so there is one charge at most to lose.           *)

\* Where a pass goes with Goto.
LEMMA Arrives ==
    ASSUME PassTypes, NEW p \in Slots, NEW label, Goto(p, label)
    PROVE  pc'[p] = label
BY DEF PassTypes, Goto

\* Nothing happens to a pass.
Untouched(q) == pc'[q] = pc[q] /\ pass'[q] = pass[q]

\* Whoever launches a pass, the passes at work do not notice.
LEMMA LaunchTouchesNone ==
    ASSUME PassTypes, NEW r \in Nat, NEW trigger,
           Launch(r, trigger) \/ UNCHANGED passes
    PROVE  \A q \in Slots : Untouched(q) \/ pc'[q] = "fetch"
<1>1. CASE UNCHANGED passes
  BY <1>1 DEF passes, Untouched
<1>2. ASSUME NEW p \in Slots,
             pc' = [pc EXCEPT ![p] = "fetch"],
             pass' = [pass EXCEPT ![p] = [Idle EXCEPT !.token = attempts'.pass]]
      PROVE  \A q \in Slots : Untouched(q) \/ pc'[q] = "fetch"
  BY <1>2 DEF PassTypes, Untouched
<1>3. CASE Launch(r, trigger) /\ CanBegin(attempts, r, trigger, paused)
  <2>1. \E p \in Slots :
            /\ FreeSlot(p)
            /\ attempts' = Begun(attempts, r)
            /\ paused' = TRUE
            /\ pc' = [pc EXCEPT ![p] = "fetch"]
            /\ pass' = [pass EXCEPT ![p] = [Idle EXCEPT !.token = attempts'.pass]]
    BY <1>3 DEF Launch
  <2>2. QED
    BY <1>2, <2>1
<1>4. QED
  BY <1>1, <1>3 DEF Launch

\* Nor do they notice clients, the background sweep and time.
LEMMA PassesRest ==
    ASSUME TypeOK, Clients \/ Ticker \/ Time \/ UNCHANGED vars
    PROVE  \A q \in Slots : Untouched(q) \/ pc'[q] = "fetch"
<1>1. CASE UNCHANGED passes
  BY <1>1, LaunchTouchesNone DEF TypeOK, passes, Untouched
<1>2. round \in Nat /\ snapshot.round \in Nat /\ PassTypes
  BY Shapes DEF TypeOK
<1>3. ASSUME AdvanceTurnOrFail
      PROVE  UNCHANGED passes \/ Launch(round, "round_closed")
  BY <1>3 DEF AdvanceTurnOrFail, AdvanceTurn
<1>4. CASE Clients
  <2>1. UNCHANGED passes \/ AdvanceTurnOrFail
    BY <1>4 DEF Clients, CreateDebate, JoinDebate, StartDebate, PostArgument, DeleteDebate
  <2>2. QED
    BY <1>1, <1>2, <1>3, <2>1, LaunchTouchesNone
<1>5. CASE Ticker
  <2>1. \/ UNCHANGED passes \/ AdvanceTurnOrFail
        \/ Launch(snapshot.round, "resumed")
    BY <1>5 DEF Ticker, SweepReads, SweepResumes, SweepForgets, ExpireTurns
  <2>2. QED
    BY <1>1, <1>2, <1>3, <2>1, LaunchTouchesNone
<1>6. CASE Time \/ UNCHANGED vars
  BY <1>1, <1>6 DEF Time, DeadlinePasses, RetryPauseElapses, vars
<1>7. QED
  BY <1>4, <1>5, <1>6

\* What a pass knows does not change around its call.
LEMMA CallingLocals ==
    ASSUME TypeOK, NEW p \in Slots, Admit(p) \/ Call(p) \/ Charge(p)
    PROVE  /\ PassGoesOn(p) /\ Working(p)
           /\ pc[p] \in {"admit", "call", "charge"}
           /\ pass'[p].msgs = pass[p].msgs /\ pass'[p].round = pass[p].round
           /\ pass'[p].call = pass[p].call /\ pass'[p].consensus = pass[p].consensus
           /\ \/ pc'[p] \in {"call", "charge"}
              \/ pass[p].call = "summary" /\ pc'[p] \in {"skip", "save"}
              \/ pass[p].call # "summary" /\ pc'[p] = "conclude"
           /\ pc'[p] = "charge" => pass'[p].basis \in {"model", "unavailable"}
           /\ pc'[p] = "conclude" =>
                 \/ pass'[p].basis \in {"budget", "model", "unavailable"}
                 \/ pc[p] = "charge" /\ pass'[p].basis = pass[p].basis
<1>1. PassTypes /\ pass[p] \in Pass /\ PassGoesOn(p)
  BY GoingOn DEF TypeOK, PassTypes
<1>2. CASE Admit(p)
  <2>1. pc[p] = "admit" /\ Working(p)
    BY <1>2 DEF Admit, Working
  <2>2. \/ /\ pass' = pass /\ pc'[p] = "call"
        \/ \E basis \in {"budget", "unavailable"} :
              /\ Keep(p, [pass[p] EXCEPT !.basis = basis])
              /\ pc'[p] = IF pass[p].call = "summary" THEN "skip" ELSE "conclude"
    BY <1>1, <1>2, Arrives DEF Admit
  <2>3. QED
    BY <1>1, <2>1, <2>2 DEF Keep, PassTypes, Pass
<1>3. CASE Call(p)
  <2>1. pc[p] = "call" /\ Working(p)
    BY <1>3 DEF Call, Working
  <2>2. PICK reply, charge, basis :
          /\ Keep(p, [pass[p] EXCEPT !.reply = reply, !.charge = charge, !.basis = basis])
          /\ Goto(p, IF charge > 0 THEN "charge" ELSE AfterCall(p))
          /\ basis \in {"model", "unavailable"}
    BY <1>3 DEF Call
  <2>3. pc'[p] \in {"charge", AfterCall(p)}
    BY <1>1, <2>2, Arrives
  <2>4. QED
    BY <1>1, <2>1, <2>2, <2>3 DEF Keep, PassTypes, Pass, AfterCall
<1>4. CASE Charge(p)
  <2>1. pc[p] = "charge" /\ Working(p) /\ pc'[p] = AfterCall(p)
    BY <1>1, <1>4, Arrives DEF Charge, Working
  <2>2. \/ Keep(p, [pass[p] EXCEPT !.tokens = @ + pass[p].charge, !.charge = 0])
        \/ Keep(p, [pass[p] EXCEPT !.charge = 0])
    BY <1>4 DEF Charge
  <2>3. /\ pass'[p].msgs = pass[p].msgs /\ pass'[p].call = pass[p].call
        /\ pass'[p].round = pass[p].round
        /\ pass'[p].consensus = pass[p].consensus /\ pass'[p].basis = pass[p].basis
    BY <1>1, <2>2 DEF Keep, PassTypes, Pass
  <2>4. QED
    BY <1>1, <2>1, <2>3 DEF AfterCall
<1>5. QED
  BY <1>2, <1>3, <1>4

\* Only the attempt record is forgotten together with the mark of a lost charge.
LEMMA MarkStays ==
    ASSUME NEW a \in Attempt, NEW r \in Nat, NEW token \in Nat
    PROVE  /\ Begun(a, r).chargeLost = a.chargeLost
           /\ Ended(a, token).chargeLost = a.chargeLost
           /\ GivenUp(a).chargeLost = a.chargeLost
           /\ Admitted(a).chargeLost = a.chargeLost
           /\ ChargeNoted(a).chargeLost
BY DEF Attempt, Begun, ForRound, Ended, GivenUp, Admitted, ChargeNoted

\* A step that neither pays nor counts keeps the spend, while those who count see
\* nothing of it.
LEMMA SpendStays ==
    ASSUME SpendInvariant, UNCHANGED <<tokens, crashes, panics, unbooked.charges>>,
           attempts'.chargeLost = attempts.chargeLost,
           \A q \in Slots : Untouched(q) \/ ~Counts(q)',
           Exists' => Exists \/ \A q \in Slots : ~Counts(q)',
           ~Exists' => ~Exists, MayPay' => MayPay
    PROVE  SpendInvariant'
<1>1. ASSUME NEW q \in Slots
      PROVE  SpendFits(q)'
  <2>1. CASE ~Counts(q)'
    BY <2>1 DEF SpendFits, Counts, Paying
  <2>2. CASE Counts(q)'
    <3>1. Untouched(q) /\ (Exists' => Exists)
      BY <2>2
    <3>2. SpendFits(q)
      BY DEF SpendInvariant
    <3>3. QED
      BY <3>1, <3>2 DEF SpendFits, Counts, Paying, Untouched
  <2>3. QED
    BY <2>1, <2>2
<1>2. LossesFit'
  BY DEF SpendInvariant, LossesFit
<1>3. QED
  BY <1>1, <1>2 DEF SpendInvariant

\* A pass at work is alone with the spend.
LEMMA OnlySpender ==
    ASSUME PassInvariant, NEW p \in Slots, Working(p), PassGoesOn(p), SpendFits(p)'
    PROVE  \A q \in Slots : SpendFits(q)'
<1>1. ASSUME NEW q \in Slots, q # p
      PROVE  SpendFits(q)'
  <2>1. pc[q] = pc'[q] /\ ~Working(q)
    BY <1>1, WorkingIsUnique DEF PassGoesOn
  <2>2. QED
    BY <2>1 DEF Working, SpendFits, Counts, Paying
<1>2. QED
  BY <1>1

\* A pass at work that does not pay.
LEMMA WorkKeepsSpend ==
    ASSUME PassInvariant, SpendInvariant, NEW p \in Slots, Working(p), PassGoesOn(p),
           UNCHANGED <<tokens, crashes, panics, unbooked.charges>>,
           attempts'.chargeLost = attempts.chargeLost, ~Exists' => ~Exists, SpendFits(p)'
    PROVE  SpendInvariant'
<1>1. \A q \in Slots : SpendFits(q)'
  BY OnlySpender
<1>2. LossesFit'
  BY DEF SpendInvariant, LossesFit, MayPay
<1>3. QED
  BY <1>1, <1>2 DEF SpendInvariant

\* Nobody counts before the start.
LEMMA QuietMayPay ==
    ASSUME TypeOK, PassInvariant, \A q \in Slots : Untouched(q) \/ pc'[q] = "fetch"
    PROVE  /\ \A q \in Slots : Untouched(q) \/ ~Counts(q)'
           /\ \A q \in Slots : Working(q)' => Working(q)
           /\ status = "none" => \A q \in Slots : ~Counts(q)'
BY DEF Counts, Working, Untouched, PassInvariant, QuietBeforeStart

\* No client pays, and a deletion takes the booked tokens with the row.
LEMMA ClientsKeepSpend ==
    ASSUME TypeOK, PassInvariant, SpendInvariant, Clients
    PROVE  SpendInvariant'
<1> USE CourtAssumption
<1>1. /\ \A q \in Slots : Untouched(q) \/ ~Counts(q)'
      /\ \A q \in Slots : Working(q)' => Working(q)
      /\ status = "none" => \A q \in Slots : ~Counts(q)'
  BY PassesRest, QuietMayPay
<1>2. /\ UNCHANGED <<crashes, panics, unbooked>>
      /\ attempts'.chargeLost = attempts.chargeLost
  <2>1. UNCHANGED attempts \/ AdvanceTurnOrFail
    BY DEF Clients, CreateDebate, JoinDebate, StartDebate, PostArgument, DeleteDebate, memory
  <2>2. UNCHANGED attempts \/ attempts' = Begun(attempts, round)
    BY <2>1 DEF AdvanceTurnOrFail, AdvanceTurn, Launch, memory
  <2>3. attempts'.chargeLost = attempts.chargeLost
    BY <2>2, MarkStays, Shapes DEF TypeOK, MemoryTypes
  <2>4. QED
    BY <2>3 DEF Clients, CreateDebate, JoinDebate, StartDebate, PostArgument, DeleteDebate,
                history
<1>3. CASE DeleteDebate
  <2>1. tokens' = 0 /\ ~Exists' /\ UNCHANGED passes /\ Exists
    BY <1>3 DEF DeleteDebate, Exists
  <2>2. LossesFit'
    <3>1. status' \in {"concluded", "deleted"}
      BY <1>3 DEF DeleteDebate
    <3>2. (\E p \in Slots : Working(p))' => \E p \in Slots : Working(p)
      BY <1>1
    <3>3. MayPay' => MayPay
      BY <3>1, <3>2 DEF MayPay
    <3>4. QED
      BY <1>2, <3>3 DEF SpendInvariant, LossesFit
  <2>3. \A q \in Slots : SpendFits(q)'
    BY <1>2, <2>1 DEF SpendInvariant, SpendFits, Counts, Paying, passes
  <2>4. QED
    BY <2>1, <2>2, <2>3 DEF SpendInvariant
<1>4. CASE ~DeleteDebate
  <2>1. /\ tokens' = tokens /\ status' \notin {"none", "deleted", "concluded"}
        /\ status \notin {"deleted", "concluded"}
    BY <1>4 DEF Clients, CreateDebate, JoinDebate, StartDebate, PostArgument, HasTurn,
           AdvanceTurnOrFail, AdvanceTurn, BeginFirstRound, UpdateDebate, row
  <2>2. MayPay /\ Exists' /\ (Exists \/ status = "none")
    BY <2>1 DEF MayPay, Exists
  <2>3. QED
    BY <1>1, <1>2, <2>1, <2>2, SpendStays
<1>5. QED
  BY <1>3, <1>4

\* The sweep forgets what it noted of a lost charge only when none can pay any more.
LEMMA TickerKeepsSpend ==
    ASSUME TypeOK, PassInvariant, SpendInvariant, Ticker
    PROVE  SpendInvariant'
<1>1. /\ \A q \in Slots : Untouched(q) \/ ~Counts(q)'
      /\ \A q \in Slots : Working(q)' => Working(q)
  BY PassesRest, QuietMayPay
<1>2. UNCHANGED <<tokens, crashes, panics, unbooked>>
  BY DEF Ticker, SweepReads, SweepResumes, SweepForgets, ExpireTurns, stored, history
<1>3. /\ Exists' <=> Exists
      /\ status' \in {"concluded", "deleted"} <=> status \in {"concluded", "deleted"}
  BY DEF Ticker, SweepReads, SweepResumes, SweepForgets, ExpireTurns, stored, row, Exists,
         PreparationIsOver, TurnIsOver, AdvanceTurnOrFail, AdvanceTurn, BeginFirstRound,
         UpdateDebate
<1>4. MayPay' => MayPay
  BY <1>1, <1>3 DEF MayPay
<1>5. attempts \in Attempt /\ round \in Nat /\ snapshot.round \in Nat
  BY Shapes DEF TypeOK, MemoryTypes
<1>6. CASE SweepForgets
  <2>1. CASE attempts' = attempts
    BY <1>1, <1>2, <1>3, <1>4, <2>1, SpendStays
  <2>2. CASE attempts' # attempts
    <3>1. /\ ~attempts.running /\ ~snapshot.active /\ ticker = "forget"
          /\ attempts # NoAttempts /\ UNCHANGED <<status, passes>>
      BY <1>6, <2>2 DEF SweepForgets, Forgotten, stored, row
    <3>2. \A p \in Slots : ~Working(p)
      BY <3>1 DEF PassInvariant, WorkingOwns
    <3>3. status \in {"concluded", "deleted"}
      BY <3>1 DEF PassInvariant, SnapshotIsEarlier, QuietBeforeStart, Active, TypeOK,
             StoredTypes, RowTypes, Statuses
    <3>4. ~MayPay'
      BY <3>1, <3>2, <3>3 DEF MayPay, Working, passes
    <3>5. \A q \in Slots : ~Counts(q)'
      BY <3>1, <3>2 DEF Counts, Working, passes
    <3>6. \A q \in Slots : SpendFits(q)'
      BY <3>5 DEF SpendFits, Counts, Paying
    <3>7. QED
      BY <1>2, <1>3, <3>4, <3>6 DEF SpendInvariant, LossesFit
  <2>3. QED
    BY <2>1, <2>2
<1>7. CASE ~SweepForgets
  <2>1. UNCHANGED attempts \/ AdvanceTurnOrFail \/ Launch(snapshot.round, "resumed")
    BY <1>7 DEF Ticker, SweepReads, SweepResumes, ExpireTurns, memory
  <2>2. UNCHANGED attempts \/ \E r \in Nat : attempts' = Begun(attempts, r)
    BY <1>5, <2>1 DEF AdvanceTurnOrFail, AdvanceTurn, Launch, memory
  <2>3. attempts'.chargeLost = attempts.chargeLost
    BY <1>5, <2>2, MarkStays
  <2>4. QED
    BY <1>1, <1>2, <1>3, <1>4, <2>3, SpendStays
<1>8. QED
  BY <1>6, <1>7

\* A pass starts from the spend the store has counted, and when it ends nothing is
\* left to compare.
LEMMA EdgesKeepSpend ==
    ASSUME TypeOK, PassInvariant, SpendInvariant, NEW p \in Slots, Fetch(p) \/ End(p)
    PROVE  SpendInvariant'
<1>1. /\ UNCHANGED <<tokens, crashes, panics, unbooked, status>>
      /\ \A q \in Slots : q # p => Untouched(q)
      /\ PassTypes /\ attempts \in Attempt /\ pass[p].token \in Nat
  BY Shapes DEF Fetch, End, Goto, Keep, Return, PassTypes, Untouched, stored, row, history,
         TypeOK, MemoryTypes
<1>2. attempts'.chargeLost = attempts.chargeLost
  BY <1>1, MarkStays DEF Fetch, End, memory
<1>3. \/ /\ pc'[p] = "read" /\ pass'[p].tokens = tokens /\ status = "moderating"
      \/ pc'[p] \in {"end", "idle"}
  <2>1. CASE End(p)
    <3>1. Goto(p, "idle")
      BY <2>1 DEF End
    <3>2. QED
      BY <1>1, <3>1, Arrives
  <2>2. CASE Fetch(p) /\ Return(p)
    <3>1. Goto(p, "end")
      BY <2>2 DEF Return
    <3>2. QED
      BY <1>1, <3>1, Arrives
  <2>3. CASE Fetch(p) /\ ~Return(p)
    <3>1. /\ Goto(p, "read") /\ status = "moderating"
          /\ Keep(p, [pass[p] EXCEPT !.round = round, !.tokens = tokens])
      BY <2>3 DEF Fetch, IsModerating
    <3>2. pass'[p].tokens = tokens
      BY <1>1, <3>1 DEF Keep, PassTypes, Pass
    <3>3. QED
      BY <1>1, <3>1, <3>2, Arrives
  <2>4. QED
    BY <2>1, <2>2, <2>3
<1>4. ASSUME NEW q \in Slots
      PROVE  SpendFits(q)'
  <2>1. CASE q = p
    BY <1>1, <1>3, <2>1 DEF SpendFits, Counts, Paying
  <2>2. CASE q # p
    BY <1>1, <1>2, <2>2 DEF SpendInvariant, SpendFits, Counts, Paying, Untouched, Exists
  <2>3. QED
    BY <2>1, <2>2
<1>5. MayPay' => MayPay
  <2>1. CASE status = "moderating"
    BY <2>1 DEF MayPay
  <2>2. CASE status # "moderating"
    <3>1. \A q \in Slots : Working(q)' => Working(q)
      BY <1>1, <1>3, <2>2 DEF Working, Untouched
    <3>2. QED
      BY <1>1, <3>1 DEF MayPay
  <2>3. QED
    BY <2>1, <2>2
<1>6. QED
  BY <1>1, <1>2, <1>4, <1>5 DEF SpendInvariant, LossesFit, Exists

\* Nothing is paid for before the budget has been asked.
LEMMA AdmittingKeepsSpend ==
    ASSUME TypeOK, PassInvariant, SpendInvariant, NEW p \in Slots, Admit(p)
    PROVE  SpendInvariant'
<1>1. /\ PassGoesOn(p) /\ Working(p) /\ pc[p] = "admit"
      /\ UNCHANGED <<tokens, crashes, panics, unbooked, status>>
  BY CallingLocals DEF Admit, stored, row, history
<1>2. attempts \in Attempt /\ PassTypes
  BY DEF TypeOK, MemoryTypes
<1>3. attempts'.chargeLost = attempts.chargeLost
  BY <1>2, MarkStays DEF Admit
<1>4. \/ /\ pc'[p] = "call" /\ pass' = pass
         /\ ~attempts.chargeLost /\ ~BudgetExhausted(p)
      \/ pc'[p] \in {"skip", "conclude"}
  BY <1>2, Arrives DEF Admit, AffordsModelCall
<1>5. SpendFits(p)'
  <2>1. CASE pc'[p] \in {"skip", "conclude"}
    BY <2>1 DEF SpendFits, Counts, Paying
  <2>2. CASE pc'[p] = "call"
    <3>1. (Counts(p) /\ Exists) => pass[p].tokens = tokens
      BY DEF SpendInvariant, SpendFits
    <3>2. (Counts(p) /\ Exists)' => (pass[p].tokens = tokens)'
      BY <1>1, <1>4, <2>2, <3>1 DEF Counts, Exists
    <3>3. Budget > 0 => pass[p].tokens + Estimate(pass[p].msgs) <= Budget
      <4>1. pass[p].tokens \in Nat /\ Estimate(pass[p].msgs) \in Nat /\ Budget \in Nat
        BY <1>2, CourtAssumption DEF PassTypes, Pass, Estimate
      <4>2. QED
        BY <1>4, <2>2, <4>1 DEF BudgetExhausted
    <3>4. QED
      BY <1>3, <1>4, <2>2, <3>2, <3>3 DEF SpendFits, Paying
  <2>3. QED
    BY <1>4, <2>1, <2>2
<1>6. QED
  BY <1>1, <1>3, <1>5, WorkKeepsSpend DEF Exists

\* What the call cost is now with the pass: paid, and not yet booked.
LEMMA CallingKeepsSpend ==
    ASSUME TypeOK, PassInvariant, SpendInvariant, NEW p \in Slots, Call(p)
    PROVE  SpendInvariant'
<1> USE CourtAssumption
<1>1. /\ PassGoesOn(p) /\ Working(p) /\ pc[p] = "call"
      /\ UNCHANGED <<tokens, crashes, panics, status, attempts>>
      /\ unbooked.charges' = unbooked.charges
  BY CallingLocals DEF Call, stored, row, memory, TypeOK, HistoryTypes
<1>2. /\ PassTypes /\ pass[p] \in Pass /\ pass[p].tokens \in Nat /\ Budget \in Nat
      /\ Estimate(pass[p].msgs) \in Nat
  BY DEF TypeOK, PassTypes, Pass, Estimate
<1>3. PICK charge \in Nat, reply \in Replies, basis \in Bases :
         /\ charge <= Estimate(pass[p].msgs)
         /\ Keep(p, [pass[p] EXCEPT !.reply = reply, !.charge = charge, !.basis = basis])
         /\ Goto(p, IF charge > 0 THEN "charge" ELSE AfterCall(p))
  <2>1. PICK reply \in {"failed", "open", "agreed"}, bill \in Billing, cost \in Costs :
           LET charge == ChargeOf(bill, cost, Estimate(pass[p].msgs))
           IN  /\ cost <= Estimate(pass[p].msgs)
               /\ Keep(p, [pass[p] EXCEPT
                             !.reply = reply, !.charge = charge,
                             !.basis = IF reply = "failed" THEN "unavailable" ELSE "model"])
               /\ Goto(p, IF charge > 0 THEN "charge" ELSE AfterCall(p))
    BY DEF Call
  <2> DEFINE bound  == Estimate(pass[p].msgs)
             charge == ChargeOf(bill, cost, bound)
             basis  == IF reply = "failed" THEN "unavailable" ELSE "model"
  <2>2. charge \in Nat /\ charge <= bound
    BY <1>2, <2>1 DEF ChargeOf
  <2>3. basis \in Bases /\ reply \in Replies
    BY DEF Bases, Replies
  <2>4. /\ Keep(p, [pass[p] EXCEPT !.reply = reply, !.charge = charge, !.basis = basis])
        /\ Goto(p, IF charge > 0 THEN "charge" ELSE AfterCall(p))
    BY <2>1
  <2> HIDE DEF charge, basis
  <2>5. QED
    BY <2>2, <2>3, <2>4
<1>4. pass'[p].tokens = pass[p].tokens /\ pass'[p].charge = charge
  BY <1>2, <1>3 DEF Keep, PassTypes, Pass
<1>5. pc'[p] \in {"charge", "save", "conclude"}
  BY <1>2, <1>3, Arrives DEF AfterCall
<1>6. /\ Exists => pass[p].tokens = tokens
      /\ Budget > 0 => pass[p].tokens + Estimate(pass[p].msgs) <= Budget
      /\ ~attempts.chargeLost
  BY <1>1 DEF SpendInvariant, SpendFits, Counts, Paying
<1>7. SpendFits(p)'
  <2>1. Budget > 0 => pass[p].tokens + charge <= Budget
    BY <1>2, <1>3, <1>6
  <2>2. QED
    BY <1>1, <1>4, <1>5, <1>6, <2>1 DEF SpendFits, Counts, Paying, Exists
<1>8. QED
  BY <1>1, <1>7, WorkKeepsSpend DEF Exists

\* A charge goes to the store, or leaves its mark.
LEMMA ChargingKeepsSpend ==
    ASSUME TypeOK, PassInvariant, SpendInvariant, NEW p \in Slots, Charge(p)
    PROVE  SpendInvariant'
<1> USE CourtAssumption
<1>1. /\ PassGoesOn(p) /\ Working(p) /\ pc[p] = "charge"
      /\ UNCHANGED <<crashes, panics, status>>
  BY CallingLocals DEF Charge, row
<1>2. /\ PassTypes /\ pass[p] \in Pass /\ pass[p].tokens \in Nat /\ Budget \in Nat
      /\ pass[p].charge \in Nat /\ tokens \in Nat /\ attempts \in Attempt
      /\ unbooked.charges \in Nat /\ crashes \in Nat /\ panics \in Nat
  BY DEF TypeOK, PassTypes, Pass, StoredTypes, MemoryTypes, HistoryTypes
<1>3. pc'[p] \in {"save", "conclude"}
  BY <1>2, Arrives DEF Charge, AfterCall
<1>4. /\ Exists => pass[p].tokens = tokens
      /\ Budget > 0 => pass[p].tokens + pass[p].charge <= Budget
      /\ ~attempts.chargeLost
      /\ unbooked.charges <= crashes + panics
  BY <1>1 DEF SpendInvariant, SpendFits, Counts, Paying, LossesFit, MayPay
<1>5. CASE /\ Works /\ Exists
           /\ tokens' = tokens + pass[p].charge
           /\ Keep(p, [pass[p] EXCEPT !.tokens = @ + pass[p].charge, !.charge = 0])
           /\ UNCHANGED <<attempts, unbooked>>
  <2>1. pass'[p].tokens = pass[p].tokens + pass[p].charge
    BY <1>2, <1>5 DEF Keep, PassTypes, Pass
  <2>2. SpendFits(p)'
    BY <1>3, <1>4, <1>5, <2>1 DEF SpendFits, Counts, Paying
  <2>3. \A q \in Slots : SpendFits(q)'
    BY <1>1, <2>2, OnlySpender
  <2>4. LossesFit'
    BY <1>1, <1>5 DEF SpendInvariant, LossesFit, MayPay
  <2>5. Budget > 0 => tokens' <= Budget
    BY <1>2, <1>4, <1>5
  <2>6. Exists'
    BY <1>1, <1>5 DEF Exists
  <2>7. QED
    BY <2>3, <2>4, <2>5, <2>6 DEF SpendInvariant
<1>6. CASE /\ attempts' = ChargeNoted(attempts)
           /\ unbooked' = [unbooked EXCEPT !.charges = @ + 1]
           /\ Keep(p, [pass[p] EXCEPT !.charge = 0])
           /\ UNCHANGED tokens
  <2>1. pass'[p].tokens = pass[p].tokens
    BY <1>2, <1>6 DEF Keep, PassTypes, Pass
  <2>2. SpendFits(p)'
    BY <1>1, <1>3, <1>4, <1>6, <2>1 DEF SpendFits, Counts, Paying, Exists
  <2>3. \A q \in Slots : SpendFits(q)'
    BY <1>1, <2>2, OnlySpender
  <2>4. attempts'.chargeLost
    BY <1>2, <1>6, MarkStays
  <2>5. unbooked'.charges <= crashes' + panics' + 1
    <3>1. unbooked'.charges = unbooked.charges + 1
      BY <1>6 DEF TypeOK, HistoryTypes
    <3>2. QED
      BY <1>1, <1>2, <1>4, <3>1
  <2>6. QED
    BY <1>1, <1>6, <2>3, <2>4, <2>5 DEF SpendInvariant, LossesFit, Exists
<1>7. QED
  BY <1>5, <1>6 DEF Charge

\* The steps of a pass that read and write take their locals along.
LEMMA LocalSpend ==
    ASSUME TypeOK, NEW p \in Slots,
           \/ ReadTranscript(p) \/ SkipSummary(p) \/ SaveSummary(p)
           \/ RereadTranscript(p) \/ Conclude(p) \/ Advance(p)
    PROVE  /\ Working(p)
           /\ pc[p] \in {"read", "skip", "save", "reread", "conclude", "advance"}
           /\ ~Paying(p)'
           /\ Counts(p)' => Counts(p) /\ pass'[p].tokens = pass[p].tokens
<1>1. PassTypes
  BY DEF TypeOK
<1>2. CASE ReadTranscript(p)
  <2>1. /\ pc[p] = "read"
        /\ \/ Return(p)
           \/ \E parts : TowardsNextRound(p, parts)
           \/ \E msgs, reached, basis : /\ Keep(p, ForVerdict(p, msgs, reached, basis))
                                        /\ Goto(p, TowardsVerdict(basis))
           \/ \E msgs, parts : /\ Keep(p, [pass[p] EXCEPT !.msgs = msgs, !.parts = parts,
                                                          !.call = "summary"])
                               /\ Goto(p, "admit")
    BY <1>2 DEF ReadTranscript
  <2>2. pc'[p] \in {"end", "advance", "admit", "conclude"}
    BY <1>1, <2>1, Arrives DEF Return, TowardsNextRound, TowardsVerdict
  <2>3. pc'[p] = "admit" => pass'[p].tokens = pass[p].tokens
    BY <1>1, <2>1, Arrives DEF Return, TowardsNextRound, Keep, ForVerdict, PassTypes, Pass
  <2>4. QED
    BY <2>1, <2>2, <2>3 DEF Working, Counts, Paying
<1>3. CASE SkipSummary(p) \/ Conclude(p) \/ Advance(p)
  BY <1>1, <1>3, Arrives DEF SkipSummary, Conclude, Advance, TowardsNextRound, Return,
     Working, Counts, Paying
<1>4. CASE SaveSummary(p)
  <2>1. /\ pc[p] = "save"
        /\ \/ Return(p) \/ AfterSummary(p, FALSE) \/ AfterSummary(p, SummaryConsensus(p))
    BY <1>4 DEF SaveSummary
  <2>2. \/ pc'[p] \in {"end", "advance"}
        \/ \E reached : /\ Goto(p, "reread")
                        /\ Keep(p, [pass[p] EXCEPT !.consensus = reached])
    BY <1>1, <2>1, Arrives DEF Return, AfterSummary, TowardsNextRound
  <2>3. \/ pc'[p] \in {"end", "advance"}
        \/ pc'[p] = "reread" /\ pass'[p].tokens = pass[p].tokens
    BY <1>1, <2>2, Arrives DEF Keep, PassTypes, Pass
  <2>4. QED
    BY <2>1, <2>3 DEF Working, Counts, Paying
<1>5. CASE RereadTranscript(p)
  <2>1. /\ pc[p] = "reread"
        /\ \/ Return(p)
           \/ \E parts : TowardsNextRound(p, parts)
           \/ \E msgs, reached, basis : /\ Keep(p, ForVerdict(p, msgs, reached, basis))
                                        /\ Goto(p, TowardsVerdict(basis))
    BY <1>5 DEF RereadTranscript
  <2>2. pc'[p] \in {"end", "advance", "admit", "conclude"}
    BY <1>1, <2>1, Arrives DEF Return, TowardsNextRound, TowardsVerdict
  <2>3. pc'[p] = "admit" => pass'[p].tokens = pass[p].tokens
    BY <1>1, <2>1, Arrives DEF Return, TowardsNextRound, Keep, ForVerdict, PassTypes, Pass
  <2>4. QED
    BY <2>1, <2>2, <2>3 DEF Working, Counts, Paying
<1>6. QED
  BY <1>2, <1>3, <1>4, <1>5

\* Between its calls and after them a pass owes nothing.
LEMMA OthersKeepSpend ==
    ASSUME TypeOK, PassInvariant, SpendInvariant, NEW p \in Slots,
           \/ ReadTranscript(p) \/ SkipSummary(p) \/ SaveSummary(p)
           \/ RereadTranscript(p) \/ Conclude(p) \/ Advance(p)
    PROVE  SpendInvariant'
<1>1. /\ PassGoesOn(p) /\ Working(p) /\ ~Paying(p)'
      /\ Counts(p)' => Counts(p) /\ pass'[p].tokens = pass[p].tokens
  BY GoingOn, LocalSpend
<1>2. UNCHANGED <<tokens, crashes, panics, unbooked>>
  BY DEF ReadTranscript, SkipSummary, SaveSummary, RereadTranscript, Conclude, Advance,
         stored, history
<1>3. attempts'.chargeLost = attempts.chargeLost
  <2>1. attempts' = attempts \/ attempts' = GivenUp(attempts)
    BY DEF ReadTranscript, SkipSummary, SaveSummary, RereadTranscript, Conclude, Advance, memory
  <2>2. QED
    BY <2>1, MarkStays DEF TypeOK, MemoryTypes
<1>4. Exists' <=> Exists
  BY DEF ReadTranscript, SkipSummary, SaveSummary, RereadTranscript, Conclude, Advance,
         stored, row, UpdateDebate, Exists
<1>5. SpendFits(p)'
  <2>1. Counts(p) /\ Exists => pass[p].tokens = tokens
    BY DEF SpendInvariant, SpendFits
  <2>2. (Counts(p) /\ Exists)' => pass'[p].tokens = tokens'
    BY <1>1, <1>2, <1>4, <2>1
  <2>3. QED
    BY <1>1, <2>2 DEF SpendFits, Paying
<1>6. QED
  BY <1>1, <1>2, <1>3, <1>4, <1>5, WorkKeepsSpend

\* A process dies with one call unpaid for at most.
LEMMA OnePaymentAtMost ==
    ASSUME PassInvariant
    PROVE  \/ Cardinality({p \in Slots : Paying(p)}) = 0
           \/ /\ Cardinality({p \in Slots : Paying(p)}) = 1
              /\ \E p \in Slots : Paying(p)
<1> DEFINE C == {p \in Slots : Paying(p)}
<1>1. CASE C = {}
  BY <1>1, FS_EmptySet
<1>2. ASSUME NEW p \in C
      PROVE  Cardinality(C) = 1
  <2>1. ASSUME NEW q \in C
        PROVE  q = p
    BY WorkingIsUnique DEF Working, Paying
  <2>2. C = {p}
    BY <2>1
  <2>3. QED
    BY <2>2, FS_Singleton
<1>3. QED
  BY <1>1, <1>2

\* A process death loses the one call that is not in the store, and is counted.
LEMMA RestartKeepsSpend ==
    ASSUME TypeOK, PassInvariant, SpendInvariant, Restart,
           \/ crashes' = crashes + 1 /\ panics' = panics
           \/ panics' = panics + 1 /\ crashes' = crashes
    PROVE  SpendInvariant'
<1> DEFINE lost == Cardinality({p \in Slots : Paying(p)})
<1>1. UNCHANGED <<tokens, status>>
  BY DEF Restart, stored, row
<1>2. \A q \in Slots : SpendFits(q)'
  BY DEF Restart, SpendFits, Counts, Paying
<1>3. unbooked.charges \in Nat /\ crashes \in Nat /\ panics \in Nat
  BY DEF TypeOK, HistoryTypes
<1>4. unbooked'.charges = unbooked.charges + lost
  BY DEF Restart
<1>5. lost = 0 \/ (lost = 1 /\ \E p \in Slots : Paying(p))
  BY OnePaymentAtMost
<1> HIDE DEF lost
<1>6. unbooked'.charges <= crashes + panics + 1
  <2>1. CASE lost = 0
    BY <1>3, <1>4, <2>1 DEF SpendInvariant, LossesFit
  <2>2. CASE lost = 1
    <3>1. PICK p \in Slots : Paying(p)
      BY <1>5, <2>2
    <3>2. Working(p)
      BY <3>1 DEF Working, Paying
    <3>3. unbooked.charges <= crashes + panics
      BY <3>1, <3>2 DEF SpendInvariant, SpendFits, LossesFit, MayPay
    <3>4. QED
      BY <1>3, <1>4, <2>2, <3>3
  <2>3. QED
    BY <1>5, <2>1, <2>2
<1>7. LossesFit'
  <2>1. unbooked'.charges \in Nat
    BY <1>3, <1>4, <1>5
  <2>2. QED
    BY <1>3, <1>6, <2>1 DEF LossesFit
<1>8. QED
  BY <1>1, <1>2, <1>7 DEF SpendInvariant, Exists

\* Nothing is spent at the start.
LEMMA SpendInvariantInit == Init => SpendInvariant
BY CourtAssumption DEF Init, NoneLost, SpendInvariant, SpendFits, LossesFit, Counts, Paying,
   Exists

\* Every step keeps it.
LEMMA SpendInvariantStep ==
    ASSUME TypeOK, PassInvariant, SpendInvariant, [Next]_vars
    PROVE  SpendInvariant'
<1>1. CASE Clients
  BY <1>1, ClientsKeepSpend
<1>2. CASE Ticker
  BY <1>2, TickerKeepsSpend
<1>3. ASSUME NEW p \in Slots, PassStep(p)
      PROVE  SpendInvariant'
  BY <1>3, EdgesKeepSpend, AdmittingKeepsSpend, CallingKeepsSpend, ChargingKeepsSpend,
     OthersKeepSpend, RestartKeepsSpend DEF PassStep, Panic
<1>4. CASE Time \/ UNCHANGED vars
  <2>1. /\ UNCHANGED <<tokens, crashes, panics, unbooked, status, attempts, passes>>
        /\ pc' = pc
    BY <1>4 DEF Time, DeadlinePasses, RetryPauseElapses, vars, stored, row, memory, history,
           passes
  <2>2. \A q \in Slots : Untouched(q)
    BY <2>1 DEF passes, Untouched
  <2>3. MayPay' => MayPay
    BY <2>1 DEF MayPay, Working
  <2>4. QED
    BY <2>1, <2>2, <2>3, SpendStays DEF Exists
<1>5. CASE Crash
  BY <1>5, RestartKeepsSpend DEF Crash
<1>6. QED
  BY <1>1, <1>2, <1>3, <1>4, <1>5 DEF Next

\* The spend invariant holds of every behaviour.
THEOREM SpendInvariantHolds ==
    ASSUME PromptLaunch, PromptSweep
    PROVE  Spec => []SpendInvariant
<1>1. /\ TypeOK /\ PassInvariant /\ SpendInvariant /\ [Next]_vars
      => SpendInvariant'
  BY SpendInvariantStep
<1>2. QED
  BY <1>1, SpendInvariantInit, TypesHold, PassInvariantHolds, PTL DEF Spec

\* The moderation of a debate never costs more than its ceiling, as far as the store
\* counts (admitModeration, chargeModeration), however calls, deletions, retries and
\* deaths interleave.
THEOREM SpendIsBoundedHolds ==
    ASSUME PromptLaunch, PromptSweep
    PROVE  Spec => []SpendIsBounded
<1>1. SpendInvariant => SpendIsBounded
  BY DEF SpendInvariant, SpendIsBounded
<1>2. QED
  BY <1>1, SpendInvariantHolds, PTL

-------------------------------------------------------------------------------
(* The calls the provider billed and the pass took for unbilled.  Each was    *)
(* admitted, and AdmissionInvariant compares their number with the account of *)
(* admitted calls: it is for one round, and lasts as long as the round can    *)
(* admit any.                                                                 *)

\* What the functions of the attempt record do to its account.
LEMMA AccountOf ==
    ASSUME NEW a \in Attempt, NEW r \in Nat, NEW token \in Nat
    PROVE  /\ \/ /\ r > a.round
                 /\ Begun(a, r).round = r /\ Begun(a, r).paid = 0
              \/ /\ ~(r > a.round)
                 /\ Begun(a, r).round = a.round /\ Begun(a, r).paid = a.paid
           /\ Ended(a, token).round = a.round /\ Ended(a, token).paid = a.paid
           /\ GivenUp(a).round = a.round /\ GivenUp(a).paid = a.paid
           /\ ChargeNoted(a).round = a.round /\ ChargeNoted(a).paid = a.paid
           /\ Admitted(a).round = a.round
           /\ a.running => Admitted(a).paid = a.paid + 1
BY DEF Attempt, Begun, ForRound, Ended, GivenUp, Admitted, ChargeNoted, NoAttempts

\* The rounds are numbers from 1, the account and the losses are counts.
LEMMA CountsAreNumbers ==
    ASSUME TypeOK
    PROVE  /\ attempts \in Attempt /\ attempts.round \in Nat /\ attempts.paid \in Nat
           /\ PaidCap \in Nat /\ DeclaredRounds \subseteq Nat \ {0}
           /\ \A r \in DeclaredRounds : unbooked.replies[r] \in Nat
<1>1. attempts \in Attempt
  BY DEF TypeOK, MemoryTypes
<1>2. DeclaredRounds \subseteq Nat \ {0}
  BY CourtAssumption DEF DeclaredRounds
<1>3. QED
  BY <1>1, <1>2, PaidCapAssumption DEF Attempt, TypeOK, HistoryTypes

\* A step that admits no call and loses none keeps the account.
LEMMA AccountStays ==
    ASSUME TypeOK, AdmissionInvariant, unbooked'.replies = unbooked.replies,
           \/ attempts'.round = attempts.round /\ attempts'.paid = attempts.paid
           \/ /\ attempts'.round \in Nat /\ attempts'.round > attempts.round
              /\ attempts'.paid = 0 /\ \A q \in Slots : pc'[q] # "call",
           \A q \in Slots : pc'[q] = "call" => pc[q] = "call",
           MayPay' => MayPay
    PROVE  AdmissionInvariant'
<1>1. attempts'.paid <= PaidCap
  BY CountsAreNumbers DEF AdmissionInvariant
<1>2. ASSUME MayPay', NEW r \in DeclaredRounds
      PROVE  /\ r > attempts'.round => unbooked'.replies[r] = 0
             /\ r = attempts'.round =>
                   /\ unbooked'.replies[r] <= attempts'.paid
                   /\ (\E p \in Slots : pc'[p] = "call")
                         => unbooked'.replies[r] < attempts'.paid
  <2>1. /\ r > attempts.round => unbooked.replies[r] = 0
        /\ r = attempts.round =>
              /\ unbooked.replies[r] <= attempts.paid
              /\ (\E p \in Slots : pc[p] = "call") => unbooked.replies[r] < attempts.paid
    BY <1>2 DEF AdmissionInvariant, AdmissionsCover
  <2>2. CASE attempts'.round = attempts.round /\ attempts'.paid = attempts.paid
    BY <2>1, <2>2
  <2>3. CASE /\ attempts'.round \in Nat /\ attempts'.round > attempts.round
             /\ attempts'.paid = 0 /\ \A q \in Slots : pc'[q] # "call"
    <3>1. r \in Nat /\ attempts.round \in Nat
      BY CountsAreNumbers
    <3>2. r >= attempts'.round => unbooked.replies[r] = 0
      BY <2>1, <2>3, <3>1
    <3>3. QED
      BY <2>3, <3>1, <3>2
  <2>4. QED
    BY <2>2, <2>3
<1>3. MayPay' => AdmissionsCover'
  BY <1>2 DEF AdmissionsCover
<1>4. QED
  BY <1>1, <1>3 DEF AdmissionInvariant

\* A pass that has been admitted nothing keeps the account.
LEMMA WorkKeepsAccount ==
    ASSUME TypeOK, AdmissionInvariant, NEW p \in Slots, Working(p), PassGoesOn(p),
           unbooked'.replies = unbooked.replies,
           attempts'.round = attempts.round, attempts'.paid = attempts.paid,
           pc'[p] # "call"
    PROVE  AdmissionInvariant'
<1>1. \A q \in Slots : pc'[q] = "call" => pc[q] = "call"
  BY DEF PassGoesOn
<1>2. MayPay
  BY DEF MayPay
<1>3. QED
  BY <1>1, <1>2, AccountStays

\* Nobody can pay after what clients, the sweep and time do who could not before.
LEMMA NobodyCanPayAgain ==
    ASSUME TypeOK, PassInvariant, Clients \/ Ticker \/ Time \/ UNCHANGED vars
    PROVE  MayPay' => MayPay
<1>1. \A q \in Slots : Working(q)' => Working(q)
  BY PassesRest, QuietMayPay
<1>2. CASE Clients
  <2>1. status' = "deleted" \/ status \notin {"concluded", "deleted"}
    BY <1>2 DEF Clients, CreateDebate, JoinDebate, StartDebate, PostArgument, HasTurn,
           DeleteDebate
  <2>2. QED
    BY <1>1, <2>1 DEF MayPay
<1>3. CASE Ticker
  <2>1. status' \in {"concluded", "deleted"} <=> status \in {"concluded", "deleted"}
    BY <1>3 DEF Ticker, SweepReads, SweepResumes, SweepForgets, ExpireTurns, stored, row,
           Exists, PreparationIsOver, TurnIsOver, AdvanceTurnOrFail, AdvanceTurn,
           BeginFirstRound, UpdateDebate
  <2>2. QED
    BY <1>1, <2>1 DEF MayPay
<1>4. CASE Time \/ UNCHANGED vars
  <2>1. status' = status
    BY <1>4 DEF Time, DeadlinePasses, RetryPauseElapses, vars, stored, row
  <2>2. QED
    BY <1>1, <2>1 DEF MayPay
<1>5. QED
  BY <1>2, <1>3, <1>4

\* A round that closes, or is taken up again by the sweep, begins its account when no
\* pass works.
LEMMA LaunchKeepsAccount ==
    ASSUME TypeOK, PassInvariant, AdmissionInvariant,
           \A q \in Slots : Untouched(q) \/ pc'[q] = "fetch",
           unbooked' = unbooked, MayPay' => MayPay,
           NEW r \in Nat, attempts' = Begun(attempts, r), \A q \in Slots : ~Working(q)
    PROVE  AdmissionInvariant'
<1>1. \A q \in Slots : pc'[q] # "call"
  BY DEF Working, Untouched
<1>2. \/ attempts'.round = attempts.round /\ attempts'.paid = attempts.paid
      \/ attempts'.round = r /\ r > attempts.round /\ attempts'.paid = 0
  BY CountsAreNumbers, AccountOf
<1>3. QED
  BY <1>1, <1>2, AccountStays

\* Clients, the sweep and time admit no call; the sweep forgets the account only when
\* none can be admitted any more.
LEMMA BackgroundKeepsAdmissions ==
    ASSUME TypeOK, PassInvariant, AdmissionInvariant,
           Clients \/ Ticker \/ Time \/ UNCHANGED vars
    PROVE  AdmissionInvariant'
<1>1. /\ \A q \in Slots : Untouched(q) \/ pc'[q] = "fetch"
      /\ MayPay' => MayPay
  BY PassesRest, NobodyCanPayAgain
<1>2. unbooked' = unbooked
  BY DEF Clients, CreateDebate, JoinDebate, StartDebate, PostArgument, DeleteDebate, Ticker,
         SweepReads, SweepResumes, SweepForgets, ExpireTurns, Time, DeadlinePasses,
         RetryPauseElapses, vars, history
<1>3. CASE attempts' = attempts
  <2>1. \A q \in Slots : pc'[q] = "call" => pc[q] = "call"
    BY <1>1 DEF Untouched
  <2>2. QED
    BY <1>1, <1>2, <1>3, <2>1, AccountStays
<1>4. CASE SweepForgets /\ attempts' # attempts
  <2>1. /\ ~attempts.running /\ ~snapshot.active /\ ticker = "forget"
        /\ attempts' = NoAttempts /\ attempts # NoAttempts /\ UNCHANGED <<status, passes>>
    BY <1>4 DEF SweepForgets, Forgotten, stored, row
  <2>2. \A p \in Slots : ~Working(p)
    BY <2>1 DEF PassInvariant, WorkingOwns
  <2>3. status \in {"concluded", "deleted"}
    BY <2>1 DEF PassInvariant, SnapshotIsEarlier, QuietBeforeStart, Active, TypeOK,
           StoredTypes, RowTypes, Statuses
  <2>4. ~MayPay'
    BY <2>1, <2>2, <2>3 DEF MayPay, Working, passes
  <2>5. attempts'.paid <= PaidCap
    BY <2>1, CountsAreNumbers DEF NoAttempts
  <2>6. QED
    BY <1>2, <2>4, <2>5 DEF AdmissionInvariant
<1>5. CASE ~SweepForgets /\ attempts' # attempts
  <2>1. \/ (HasTurn(turn) \/ TurnIsOver) /\ attempts' = Begun(attempts, round)
        \/ ~attempts.running /\ attempts' = Begun(attempts, snapshot.round)
    <3>1. \/ (\E agent \in Agents : HasTurn(agent)) /\ AdvanceTurnOrFail
          \/ TurnIsOver /\ AdvanceTurnOrFail
          \/ Launch(snapshot.round, "resumed")
      BY <1>5 DEF Clients, CreateDebate, JoinDebate, StartDebate, PostArgument, DeleteDebate,
             Ticker, SweepReads, SweepResumes, ExpireTurns, Time, DeadlinePasses,
             RetryPauseElapses, vars, memory
    <3>2. QED
      BY <1>5, <3>1 DEF AdvanceTurnOrFail, AdvanceTurn, Launch, CanBegin, TakesOver, memory,
             HasTurn
  <2>2. \A p \in Slots : ~Working(p)
    BY <2>1 DEF HasTurn, TurnIsOver, PassInvariant, WorkingOwns
  <2>3. round \in Nat /\ snapshot.round \in Nat
    BY Shapes
  <2>4. QED
    BY <1>1, <1>2, <2>1, <2>2, <2>3, LaunchKeepsAccount
<1>6. QED
  BY <1>3, <1>4, <1>5

\* The beginning and the end of a pass admit no call.
LEMMA EdgesKeepAdmissions ==
    ASSUME TypeOK, PassInvariant, AdmissionInvariant, NEW p \in Slots, Fetch(p) \/ End(p)
    PROVE  AdmissionInvariant'
<1>1. /\ UNCHANGED <<unbooked, status>>
      /\ \A q \in Slots : q # p => Untouched(q)
      /\ PassTypes /\ attempts \in Attempt /\ pass[p].token \in Nat
  BY Shapes DEF Fetch, End, Goto, Keep, Return, PassTypes, Untouched, stored, row, history,
         TypeOK, MemoryTypes
<1>2. attempts'.round = attempts.round /\ attempts'.paid = attempts.paid
  BY <1>1, AccountOf DEF Fetch, End, memory
<1>3. \/ pc'[p] = "read" /\ status = "moderating"
      \/ pc'[p] \in {"end", "idle"}
  BY <1>1, Arrives DEF Fetch, End, Return, IsModerating
<1>4. \A q \in Slots : pc'[q] = "call" => pc[q] = "call"
  BY <1>1, <1>3 DEF Untouched
<1>5. MayPay' => MayPay
  <2>1. CASE status = "moderating"
    BY <2>1 DEF MayPay
  <2>2. CASE status # "moderating"
    <3>1. \A q \in Slots : Working(q)' => Working(q)
      BY <1>1, <1>3, <2>2 DEF Working, Untouched
    <3>2. QED
      BY <1>1, <3>1 DEF MayPay
  <2>3. QED
    BY <2>1, <2>2
<1>6. QED
  BY <1>1, <1>2, <1>4, <1>5, AccountStays

\* An admitted call is in the account before the provider has it.
LEMMA AdmittingKeepsAdmissions ==
    ASSUME TypeOK, PassInvariant, AdmissionInvariant, NEW p \in Slots, Admit(p)
    PROVE  AdmissionInvariant'
<1>1. /\ PassGoesOn(p) /\ Working(p) /\ PassTypes
      /\ unbooked' = unbooked
  BY CallingLocals DEF Admit, history, TypeOK
<1>2. CASE attempts' = attempts /\ pc'[p] \in {"skip", "conclude"}
  BY <1>1, <1>2, WorkKeepsAccount
<1>3. CASE AffordsModelCall(attempts) /\ attempts' = Admitted(attempts)
  <2>1. /\ attempts.running /\ attempts \in Attempt /\ attempts.paid \in Nat
        /\ PaidCap \in Nat /\ attempts.paid < PaidCap
    BY <1>1, <1>3, CountsAreNumbers DEF PassInvariant, WorkingOwns, AffordsModelCall
  <2>2. attempts'.round = attempts.round /\ attempts'.paid = attempts.paid + 1
    BY <1>3, <2>1, AccountOf
  <2>3. AdmissionsCover
    BY <1>1 DEF AdmissionInvariant, MayPay
  <2>4. ASSUME NEW r \in DeclaredRounds
        PROVE  /\ r > attempts'.round => unbooked'.replies[r] = 0
               /\ r = attempts'.round => unbooked'.replies[r] < attempts'.paid
    BY <1>1, <2>1, <2>2, <2>3, CountsAreNumbers DEF AdmissionsCover
  <2>5. AdmissionsCover'
    BY <1>1, <2>1, <2>2, <2>4, CountsAreNumbers DEF AdmissionsCover
  <2>6. attempts'.paid <= PaidCap
    BY <2>1, <2>2
  <2>7. QED
    BY <1>1, <2>5, <2>6 DEF AdmissionInvariant
<1>4. QED
  BY <1>1, <1>2, <1>3, Arrives DEF Admit

\* A reply that is lost is that of the call that was admitted last.
LEMMA CallingKeepsAdmissions ==
    ASSUME TypeOK, PassInvariant, AdmissionInvariant, NEW p \in Slots, Call(p)
    PROVE  AdmissionInvariant'
<1>1. /\ PassGoesOn(p) /\ Working(p) /\ pc[p] = "call" /\ pc'[p] # "call"
      /\ attempts' = attempts
  <2>1. PassGoesOn(p) /\ Working(p) /\ pc[p] = "call" /\ attempts' = attempts
    BY CallingLocals DEF Call, memory
  <2>2. PICK charge : Goto(p, IF charge > 0 THEN "charge" ELSE AfterCall(p))
    BY DEF Call
  <2>3. pc'[p] # "call"
    BY <2>2, Arrives DEF TypeOK, AfterCall
  <2>4. QED
    BY <2>1, <2>3
<1>2. CASE unbooked' = unbooked
  BY <1>1, <1>2, WorkKeepsAccount
<1>3. CASE unbooked' = [unbooked EXCEPT !.replies[pass[p].round] = @ + 1]
  <2>1. \A q \in Slots : pc'[q] # "call"
    <3>1. ASSUME NEW q \in Slots, q # p
          PROVE  pc'[q] # "call"
      BY <1>1, <3>1, WorkingIsUnique DEF PassGoesOn, Working
    <3>2. QED
      BY <1>1, <3>1
  <2>2. pass[p].round = attempts.round
    BY <1>1 DEF PassInvariant, WorkingOwns
  <2>3. AdmissionsCover
    BY <1>1 DEF AdmissionInvariant, MayPay
  <2>4. ASSUME NEW r \in DeclaredRounds
        PROVE  /\ r = attempts.round => unbooked'.replies[r] = unbooked.replies[r] + 1
               /\ r # attempts.round => unbooked'.replies[r] = unbooked.replies[r]
    BY <1>3, <2>2 DEF TypeOK, HistoryTypes
  <2>5. ASSUME NEW r \in DeclaredRounds
        PROVE  /\ unbooked'.replies[r] <= PaidCap
               /\ r > attempts.round => unbooked'.replies[r] = 0
               /\ r = attempts.round => unbooked'.replies[r] <= attempts.paid
    <3>1. /\ unbooked.replies[r] \in Nat /\ r \in Nat /\ attempts.round \in Nat
          /\ attempts.paid \in Nat /\ PaidCap \in Nat
      BY CountsAreNumbers
    <3>2. /\ attempts.paid <= PaidCap /\ unbooked.replies[r] <= PaidCap
          /\ r > attempts.round => unbooked.replies[r] = 0
          /\ r = attempts.round => unbooked.replies[r] < attempts.paid
      BY <1>1, <2>3 DEF AdmissionInvariant, AdmissionsCover
    <3>3. QED
      BY <2>4, <3>1, <3>2
  <2>6. AdmissionsCover'
    BY <1>1, <2>1, <2>5 DEF AdmissionsCover
  <2>7. QED
    BY <1>1, <2>5, <2>6 DEF AdmissionInvariant
<1>4. QED
  BY <1>2, <1>3 DEF Call

\* The other steps of a pass admit no call and lose none.
LEMMA OthersKeepAdmissions ==
    ASSUME TypeOK, PassInvariant, AdmissionInvariant, NEW p \in Slots,
           \/ ReadTranscript(p) \/ SkipSummary(p) \/ SaveSummary(p) \/ Charge(p)
           \/ RereadTranscript(p) \/ Conclude(p) \/ Advance(p)
    PROVE  AdmissionInvariant'
<1>1. PassGoesOn(p) /\ Working(p) /\ pc'[p] # "call"
  <2>1. CASE Charge(p)
    BY <2>1, CallingLocals, Arrives DEF Charge, AfterCall, TypeOK
  <2>2. CASE ~Charge(p)
    BY <2>2, GoingOn, LocalSpend DEF Paying
  <2>3. QED
    BY <2>1, <2>2
<1>2. unbooked'.replies = unbooked.replies
  <2>1. unbooked' = unbooked \/ unbooked' = [unbooked EXCEPT !.charges = @ + 1]
    BY DEF ReadTranscript, SkipSummary, SaveSummary, RereadTranscript, Conclude, Advance,
           Charge, history
  <2>2. QED
    BY <2>1 DEF TypeOK, HistoryTypes
<1>3. attempts'.round = attempts.round /\ attempts'.paid = attempts.paid
  <2>1. attempts' \in {attempts, GivenUp(attempts), ChargeNoted(attempts)}
    BY DEF ReadTranscript, SkipSummary, SaveSummary, RereadTranscript, Conclude, Advance,
           Charge, memory
  <2>2. QED
    BY <2>1, AccountOf DEF TypeOK, MemoryTypes
<1>4. QED
  BY <1>1, <1>2, <1>3, WorkKeepsAccount

\* A restart begins the account and the losses of the rounds anew.
LEMMA RestartKeepsAdmissions ==
    ASSUME Restart
    PROVE  AdmissionInvariant'
<1>1. /\ \A r \in DeclaredRounds : unbooked'.replies[r] = 0
      /\ attempts'.paid = 0 /\ \A q \in Slots : pc'[q] # "call"
  BY DEF Restart, NoReplyLost, NoAttempts
<1>2. QED
  BY <1>1, PaidCapAssumption DEF AdmissionInvariant, AdmissionsCover

\* No reply is lost and no call admitted at the start.
LEMMA AdmissionInvariantInit == Init => AdmissionInvariant
BY PaidCapAssumption DEF Init, NoneLost, NoReplyLost, NoAttempts, AdmissionInvariant,
   AdmissionsCover

\* Every step keeps it.
LEMMA AdmissionInvariantStep ==
    ASSUME TypeOK, PassInvariant, AdmissionInvariant, [Next]_vars
    PROVE  AdmissionInvariant'
<1>1. CASE Clients \/ Ticker \/ Time \/ UNCHANGED vars
  BY <1>1, BackgroundKeepsAdmissions
<1>2. ASSUME NEW p \in Slots, PassStep(p)
      PROVE  AdmissionInvariant'
  BY <1>2, EdgesKeepAdmissions, AdmittingKeepsAdmissions, CallingKeepsAdmissions,
     OthersKeepAdmissions, RestartKeepsAdmissions DEF PassStep, Panic
<1>3. CASE Crash
  BY <1>3, RestartKeepsAdmissions DEF Crash
<1>4. QED
  BY <1>1, <1>2, <1>3 DEF Next

\* The admission invariant holds of every behaviour.
THEOREM AdmissionInvariantHolds ==
    ASSUME PromptLaunch, PromptSweep
    PROVE  Spec => []AdmissionInvariant
<1>1. /\ TypeOK /\ PassInvariant /\ AdmissionInvariant /\ [Next]_vars
      => AdmissionInvariant'
  BY AdmissionInvariantStep
<1>2. QED
  BY <1>1, AdmissionInvariantInit, TypesHold, PassInvariantHolds, PTL DEF Spec

\* Of the calls the store never counts, a process leaves one whose charge is lost, be
\* it with the process or in the store, and for each round as many as it may admit
\* whose reply was lost on its way back (admitModeration, noteChargeLost, ADR 0008).
THEOREM UncountedIsBoundedHolds ==
    ASSUME PromptLaunch, PromptSweep
    PROVE  Spec => []UncountedIsBounded
<1>1. SpendInvariant /\ AdmissionInvariant => UncountedIsBounded
  BY DEF SpendInvariant, LossesFit, AdmissionInvariant, UncountedIsBounded
<1>2. QED
  BY <1>1, SpendInvariantHolds, AdmissionInvariantHolds, PTL
===============================================================================
