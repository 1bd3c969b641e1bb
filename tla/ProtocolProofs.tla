---------------------------- MODULE ProtocolProofs ----------------------------
(***************************************************************************)
(* What the service promises its clients.  It implements the debate        *)
(* protocol: module TurnProofs says what the steps of the service do to    *)
(* the stored debate, and each of these effects is a step of               *)
(* DebateProtocol, or none.  And what it exports of a debate, in any       *)
(* state, conforms to the rules of its own conformance suite.              *)
(***************************************************************************)
EXTENDS TurnProofs, ResultProofs, CourtProtocol, Export, FunctionTheorems

-------------------------------------------------------------------------------
(* The refinement. *)

\* Where the turn is does not change with what is not about it.
LEMMA SameTurn ==
    ASSUME turn' = turn, roster' = roster \/ turn = NoAgent
    PROVE  TurnPosition' = TurnPosition
BY SameRoster DEF TurnPosition

\* With the same arguments, the same has been said.
LEMMA SameSaid ==
    ASSUME Arguments(transcript)' = Arguments(transcript),
           \A i \in Arguments(transcript) : transcript'[i] = transcript[i]
    PROVE  Spoken' = Spoken
BY DEF Spoken

\* Notes of a pass are not heard.
LEMMA NotesAreNotSaid ==
    ASSUME TypeOK, NEW recs \in Seq(Message), OnlyNotes(recs), transcript' = transcript \o recs
    PROVE  Spoken' = Spoken
BY NotesAreNoArguments, SameSaid DEF TypeOK, StoredTypes, Arguments

\* Before the start, and after the removal, nobody has spoken.
LEMMA NothingSaid ==
    ASSUME transcript = <<>>
    PROVE  Spoken = {}
BY DEF Spoken, Arguments

\* The first participant, who has the turn when a round begins, is the first position.
LEMMA FirstTurn ==
    ASSUME TypeOK, JoinedOnce, Len(roster) >= MinimumToStart, turn' = roster[1],
           roster' = roster
    PROVE  TurnPosition' = 1
<1>1. 1 \in DOMAIN roster /\ roster[1] \in Agents
  BY DEF TypeOK, StoredTypes, MinimumToStart
<1>2. Position(roster[1]) = 1 /\ roster[1] # NoAgent
  BY <1>1, PositionIs, NoAgentAssumption
<1>3. Position(turn)' = Position(roster[1])
  BY DEF Position
<1>4. QED
  BY <1>2, <1>3 DEF TurnPosition

\* The steps before the first turn, and deletion, are steps of the protocol.
LEMMA LifecycleImplements ==
    ASSUME TypeOK, DebateInOrder, Creates \/ Joins \/ Prepares \/ Begins \/ Deletes
    PROVE  Protocol!Next
<1>1. CASE Creates
  <2>1. status = "none" /\ status' = "open" /\ RoundLimit' \in RoundCounts
    BY <1>1 DEF Creates, RoundLimit
  <2>2. roster' \in {<<>>} \cup {<<a>> : a \in Agents}
    BY <1>1, CourtAssumption DEF Creates
  <2>3. turn = NoAgent
    BY <1>1 DEF Creates, DebateInOrder, PhaseFits
  <2>4. UNCHANGED <<round, TurnPosition, Spoken, consensus>>
    BY <1>1, <2>3, SameTurn, SameSaid DEF Creates, Arguments
  <2>5. Protocol!Create
    BY <2>1, <2>2, <2>4 DEF Protocol!Create
  <2>6. QED
    BY <2>5 DEF Protocol!Next
<1>2. CASE Joins
  <2>1. turn = NoAgent
    BY <1>2 DEF Joins, DebateInOrder, PhaseFits
  <2>2. UNCHANGED <<TurnPosition, Spoken, RoundLimit>>
    BY <1>2, <2>1, SameTurn, SameSaid DEF Joins, Arguments, RoundLimit
  <2>3. Protocol!Join
    BY <1>2, <2>2 DEF Joins, Participating, Protocol!Join
  <2>4. QED
    BY <2>3 DEF Protocol!Next
<1>3. CASE Prepares
  <2>1. turn = NoAgent /\ consensus = FALSE
    BY <1>3 DEF Prepares, DebateInOrder, PhaseFits, TypeOK, StoredTypes, RowTypes
  <2>2. UNCHANGED <<TurnPosition, Spoken, RoundLimit, consensus>>
    BY <1>3, <2>1, SameTurn, SameSaid DEF Prepares, Arguments, RoundLimit
  <2>3. Protocol!Prepare
    BY <1>3, <2>2 DEF Prepares, MinimumToStart, Protocol!Prepare
  <2>4. QED
    BY <2>3 DEF Protocol!Next
<1>4. CASE Begins
  <2>1. consensus = FALSE
    BY <1>4 DEF Begins, DebateInOrder, PhaseFits, TypeOK, StoredTypes, RowTypes
  <2>2. TurnPosition' = 1
    BY <1>4, FirstTurn DEF Begins, DebateInOrder
  <2>3. UNCHANGED <<Spoken, RoundLimit, consensus>>
    BY <1>4, <2>1, SameSaid DEF Begins, Arguments, RoundLimit
  <2>4. Protocol!Begin
    BY <1>4, <2>2, <2>3 DEF Begins, MinimumToStart, Protocol!Begin
  <2>5. QED
    BY <2>4 DEF Protocol!Next
<1>5. CASE Deletes
  <2>1. Spoken' = {}
    <3>1. Arguments(transcript)' = {}
      BY <1>5 DEF Deletes, Arguments
    <3>2. QED
      BY <3>1 DEF Spoken
  <2>2. TurnPosition' = 0 /\ RoundLimit' = RoundLimit
    BY <1>5 DEF Deletes, Exists, TurnPosition, RoundLimit
  <2>3. Protocol!Delete
    BY <1>5, <2>1, <2>2 DEF Deletes, Exists, Protocol!Delete
  <2>4. QED
    BY <2>3 DEF Protocol!Next
<1>6. QED
  BY <1>1, <1>2, <1>3, <1>4, <1>5

\* A reply is an argument nobody has made in this round yet, a skip is none.
LEMMA TurnImplements ==
    ASSUME TypeOK, DebateInOrder, TurnMoves
    PROVE  Protocol!Next
<1> DEFINE n == Len(transcript)
           said == [agent |-> turn, round |-> round]
<1>1. PICK m \in Message :
        /\ m.round = round /\ m.kind \in {"argument", "system"}
        /\ m.kind = "argument" => m.speaker = turn
        /\ transcript' = Append(transcript, m)
  BY DEF TurnMoves
<1>2. /\ DOMAIN transcript = 1..n /\ n \in Nat
      /\ \A i \in DOMAIN transcript : transcript'[i] = transcript[i]
      /\ transcript'[n + 1] = m
      /\ Arguments(transcript)' \subseteq Arguments(transcript) \cup {n + 1}
      /\ n + 1 \in Arguments(transcript)' <=> m.kind = "argument"
      /\ DOMAIN transcript' = 1..(n + 1)
  BY <1>1, OneMore DEF TypeOK, StoredTypes
<1>3. Arguments(transcript) \subseteq 1..n /\ Arguments(transcript) \subseteq Arguments(transcript)'
  BY <1>2 DEF Arguments
<1>4. Participating(turn) /\ status = "running" /\ consensus = FALSE
  BY DEF TurnMoves, DebateInOrder, PhaseFits, TypeOK, StoredTypes, RowTypes
<1>5. Position(turn) \in DOMAIN roster /\ roster[Position(turn)] = turn
  BY <1>4, ParticipantHasPosition
<1>6. turn # NoAgent /\ DOMAIN roster = 1..Len(roster) /\ Len(roster) \in Nat
  BY <1>5, NoAgentAssumption DEF TypeOK, StoredTypes
<1>7. TurnPosition = Position(turn)
  BY <1>6 DEF TurnPosition
<1>8. /\ UNCHANGED <<round, params, roster>> /\ consensus' = FALSE /\ RoundLimit' = RoundLimit
  BY <1>4 DEF TurnMoves, RoundLimit
<1>9. IF TurnPosition < Len(roster)
      THEN TurnPosition' = TurnPosition + 1 /\ status' = status
      ELSE TurnPosition' = 0 /\ status' = "moderating"
  <2>1. CASE TurnPosition < Len(roster)
    <3>1. status' = status /\ turn' = roster[Position(turn) + 1]
      BY <1>7, <2>1 DEF TurnMoves
    <3>2. Position(turn) + 1 \in DOMAIN roster
      BY <1>5, <1>6, <1>7, <2>1
    <3>3. turn' \in Agents
      BY <3>1, <3>2 DEF TypeOK, StoredTypes
    <3>4. Position(turn)' = Position(turn) + 1
      BY <1>4, <3>1, TurnAfter
    <3>5. QED
      BY <1>7, <2>1, <3>1, <3>3, <3>4, NoAgentAssumption DEF TurnPosition
  <2>2. CASE ~(TurnPosition < Len(roster))
    BY <1>7, <2>2 DEF TurnMoves, TurnPosition
  <2>3. QED
    BY <2>1, <2>2
<1>10. Protocol!TurnPasses
  BY <1>4, <1>8, <1>9 DEF Protocol!TurnPasses
<1>11. CASE m.kind = "argument"
  <2>1. Arguments(transcript)' = Arguments(transcript) \cup {n + 1}
    BY <1>2, <1>3, <1>11
  <2>2. transcript'[n + 1].speaker = turn /\ transcript'[n + 1].round = round
    BY <1>1, <1>2, <1>11
  <2>3. \A i \in Arguments(transcript) : transcript'[i] = transcript[i]
    BY <1>2, <1>3
  <2>4. Spoken' = Spoken \cup {said}
    BY <2>1, <2>2, <2>3 DEF Spoken
  <2>5. \A i \in Arguments(transcript) :
            [agent |-> transcript[i].speaker, round |-> transcript[i].round] # said
    <3> SUFFICES ASSUME NEW i \in Arguments(transcript),
                        transcript[i].speaker = turn, transcript[i].round = round
                 PROVE  FALSE
      OBVIOUS
    <3>1. Position(turn) < Position(turn)
      BY <1>4 DEF DebateInOrder, SpeakersWereBefore
    <3>2. QED
      BY <1>5, <1>6, <3>1
  <2>6. said \notin Spoken
    BY <2>5 DEF Spoken
  <2>7. said = [agent |-> roster[TurnPosition], round |-> round]
    BY <1>5, <1>7
  <2> HIDE DEF said
  <2>8. Protocol!Speak
    BY <1>10, <2>4, <2>6, <2>7 DEF Protocol!Speak
  <2>9. QED
    BY <2>8 DEF Protocol!Next
<1>12. CASE m.kind # "argument"
  <2>1. Arguments(transcript)' = Arguments(transcript)
    BY <1>2, <1>3, <1>12
  <2>2. \A i \in Arguments(transcript) : transcript'[i] = transcript[i]
    BY <1>2, <1>3
  <2>3. Spoken' = Spoken
    BY <2>1, <2>2, SameSaid
  <2>4. Protocol!Skip
    BY <1>10, <2>3 DEF Protocol!Skip
  <2>5. QED
    BY <2>4 DEF Protocol!Next
<1>13. QED
  BY <1>11, <1>12

\* The steps out of moderation are steps of the protocol.
LEMMA ModerationImplements ==
    ASSUME TypeOK, DebateInOrder, OpensRound \/ Concludes
    PROVE  Protocol!Next
<1>1. turn = NoAgent /\ consensus = FALSE /\ Len(roster) >= MinimumToStart
  BY DEF OpensRound, Concludes, DebateInOrder, PhaseFits, TypeOK, StoredTypes, RowTypes
<1>2. CASE OpensRound
  <2>1. TurnPosition' = 1
    BY <1>1, <1>2, FirstTurn DEF OpensRound, DebateInOrder
  <2>2. Spoken' = Spoken /\ RoundLimit' = RoundLimit /\ RoundLimit = params.rounds
    BY <1>2, SameSaid DEF OpensRound, Arguments, RoundLimit
  <2>3. Protocol!OpenNextRound
    BY <1>1, <1>2, <2>1, <2>2 DEF OpensRound, Protocol!OpenNextRound
  <2>4. QED
    BY <2>3 DEF Protocol!Next
<1>3. CASE Concludes
  <2>1. Spoken' = Spoken
    BY <1>3, NotesAreNotSaid DEF Concludes
  <2>2. RoundLimit' = RoundLimit /\ TurnPosition' = TurnPosition
    BY <1>1, <1>3 DEF Concludes, RoundLimit, TurnPosition
  <2>3. Protocol!Conclude
    BY <1>3, <2>1, <2>2 DEF Concludes, Protocol!Conclude
  <2>4. QED
    BY <2>3 DEF Protocol!Next
<1>4. QED
  BY <1>2, <1>3

\* What passes note and what nobody sees is a stutter.
LEMMA SilenceImplements ==
    ASSUME TypeOK, Rests \/ Notes
    PROVE  UNCHANGED Protocol!vars
<1>1. UNCHANGED <<status, roster, RoundLimit, round, TurnPosition, consensus>>
  BY SameTurn DEF Rests, Notes, SameDebate, RoundLimit
<1>2. Spoken' = Spoken
  <2>1. CASE Rests
    BY <2>1, SameSaid DEF Rests, Arguments
  <2>2. CASE Notes
    BY <2>2, NotesAreNotSaid DEF Notes
  <2>3. QED
    BY <2>1, <2>2
<1>3. QED
  BY <1>1, <1>2 DEF Protocol!vars

\* The service implements the debate protocol, for every number of agents, rounds,
\* passes, failed reads and writes and process deaths, as long as the store keeps the
\* turn it is handed.
THEOREM ProtocolIsImplemented ==
    ASSUME PromptLaunch, PromptSweep, "turn" \notin Faulty
    PROVE  Spec => ImplementsProtocol
<1>1. Init => Protocol!Init
  <2> SUFFICES ASSUME Init PROVE Protocol!Init
    OBVIOUS
  <2>1. Spoken = {}
    BY NothingSaid DEF Init
  <2>2. RoundLimit = 0 /\ TurnPosition = 0
    BY DEF Init, RoundLimit, TurnPosition
  <2>3. QED
    BY <2>1, <2>2 DEF Init, Protocol!Init
<1>2. TypeOK /\ PassInvariant /\ TurnInvariant /\ [Next]_vars
        => [Protocol!Next]_(Protocol!vars)
  <2> SUFFICES ASSUME TypeOK, PassInvariant, TurnInvariant, [Next]_vars
               PROVE  Protocol!Next \/ UNCHANGED Protocol!vars
    OBVIOUS
  <2>1. Effect /\ DebateInOrder
    BY StepHasEffect DEF TurnInvariant, DebateInOrder
  <2>2. QED
    BY <2>1, LifecycleImplements, TurnImplements, ModerationImplements, SilenceImplements
       DEF Effect
<1>3. QED
  BY <1>1, <1>2, TypesHold, PassInvariantHolds, TurnInvariantHolds, PTL
     DEF Spec, ImplementsProtocol, Protocol!Spec

-------------------------------------------------------------------------------
(* What is exported conforms.                                                *)
(*                                                                           *)
(* Most rules follow from TurnInvariant and ResultInvariant.  Two facts of   *)
(* the artifact need more: supported agents and speakers take part           *)
(* (RecordsFit), and the verdict, the votes and the row say the same of the  *)
(* consensus (ConsensusFits), which a pass carries from its reading to its   *)
(* verdict and from there to the row.                                        *)

\* A set of positions has a last one: there is no longest chain in it that could be
\* continued, because each member leaves fewer members above it.
LEMMA MaxIsLast ==
    ASSUME NEW n \in Nat, NEW S \in SUBSET (1..n), S # {}
    PROVE  Max(S) \in S /\ \A x \in S : x <= Max(S)
<1> DEFINE Above(x) == {y \in S : y > x}
           T == {Above(x) : x \in S}
<1>1. IsFiniteSet(S)
  <2>1. IsFiniteSet(1..n)
    BY FS_Interval
  <2>2. QED
    BY <2>1, FS_Subset
<1>2. IsWellFoundedOn(StrictSubsetOrdering(S), SUBSET S)
  BY <1>1, FS_StrictSubsetOrderingWellFounded, FS_FiniteSubsetsOfFinite
<1>3. T \subseteq SUBSET S /\ T # {}
  OBVIOUS
<1>4. PICK least \in T : \A other \in T : ~(<<other, least>> \in StrictSubsetOrdering(S))
  <2> HIDE DEF T
  <2>1. QED
    BY <1>2, <1>3, WFMin
<1>5. PICK x \in S : least = Above(x)
  BY <1>4
<1>6. \A y \in S : y <= x
  <2>1. SUFFICES ASSUME NEW y \in S, y > x
                 PROVE  FALSE
    BY DEF Above
  <2>2. Above(y) \subseteq Above(x) /\ Above(y) # Above(x)
    <3>1. y \in Above(x) /\ y \notin Above(y)
      BY <2>1
    <3>2. \A z \in Above(y) : z \in Above(x)
      BY <2>1
    <3>3. QED
      BY <3>1, <3>2
  <2>3. Above(y) \in T /\ Above(y) \in SUBSET S /\ Above(x) \in SUBSET S
    OBVIOUS
  <2> HIDE DEF Above, T
  <2>4. <<Above(y), Above(x)>> \in StrictSubsetOrdering(S)
    BY <2>2, <2>3 DEF StrictSubsetOrdering
  <2>5. QED
    BY <1>4, <1>5, <2>3, <2>4
<1>7. \E m \in S : \A y \in S : m >= y
  BY <1>6
<1>8. QED
  BY <1>7 DEF Max

\* At least two members.
LEMMA TwoAtLeast ==
    ASSUME NEW S, IsFiniteSet(S)
    PROVE  Cardinality(S) >= 2 <=> \E x, y \in S : x # y
<1>1. Cardinality(S) \in Nat
  BY FS_CardinalityType
<1>2. Cardinality(S) = 0 <=> S = {}
  BY FS_EmptySet
<1>3. Cardinality(S) = 1 <=> \E x : S = {x}
  BY FS_Singleton
<1>4. (\E x, y \in S : x # y) <=> (S # {} /\ ~\E x : S = {x})
  OBVIOUS
<1>5. QED
  BY <1>1, <1>2, <1>3, <1>4

\* The last argument of a speaker is one.
LEMMA LastArgument ==
    ASSUME NEW msgs \in Seq(Message), NEW a \in Speakers(msgs)
    PROVE  LET own == {i \in Arguments(msgs) : msgs[i].speaker = a}
           IN  Max(own) \in own /\ \A i \in own : i <= Max(own)
<1> DEFINE own == {i \in Arguments(msgs) : msgs[i].speaker = a}
<1>1. own # {} /\ own \in SUBSET (1..Len(msgs)) /\ Len(msgs) \in Nat
  BY DEF Speakers, Arguments
<1> HIDE DEF own
<1>2. Max(own) \in own /\ \A i \in own : i <= Max(own)
  BY <1>1, MaxIsLast
<1>3. QED
  BY <1>2 DEF own

\* With the same arguments, the same votes.
LEMMA VotesStay ==
    ASSUME transcript \in Seq(Message),
           Arguments(transcript)' = Arguments(transcript),
           \A i \in Arguments(transcript) : transcript'[i] = transcript[i]
    PROVE  CurrentVotes(transcript)' = CurrentVotes(transcript)
<1>1. Speakers(transcript)' = Speakers(transcript)
  BY DEF Speakers
<1>2. ASSUME NEW a \in Speakers(transcript)
      PROVE  CurrentVotes(transcript)'[a] = CurrentVotes(transcript)[a]
  <2> DEFINE own  == {i \in Arguments(transcript) : transcript[i].speaker = a}
  <2>1. own' = own
    OBVIOUS
  <2>2. Max(own) \in Arguments(transcript)
    BY <1>2, LastArgument
  <2>3. transcript'[Max(own)] = transcript[Max(own)]
    BY <2>2
  <2>4. QED
    BY <1>1, <2>1, <2>3 DEF CurrentVotes
<1>3. QED
  BY <1>1, <1>2 DEF CurrentVotes

-------------------------------------------------------------------------------
(* Records fit the roster. *)

\* The end of a pass says what its pass has found.
LEMMA ClosingSays ==
    ASSUME TypeOK, NEW p \in Slots, Conclude(p), status = "moderating"
    PROVE  /\ \E m, v \in Message :
                 /\ m.kind = "system" /\ m.speaker = NoAgent /\ m.support = NoAgent
                 /\ v.kind = "verdict" /\ v.consensus = OutcomeConsensus(p)
                 /\ transcript' \in {transcript, Append(transcript, m), Append(transcript, v),
                                     Append(Append(transcript, m), v)}
           /\ pass[p].basis = "stored" => transcript' = transcript
           /\ status' \in {"moderating", "concluded"}
           /\ status' = "concluded" => consensus' = OutcomeConsensus(p)
<1> DEFINE r  == pass[p].round
           by == IF pass[p].basis = "model" THEN "moderator" ELSE "system"
           m  == SystemMessage(r, Cause(p))
           v  == Verdict(r, by, OutcomeConsensus(p))
<1>1. r \in Nat /\ OutcomeConsensus(p) \in BOOLEAN /\ Cause(p) \in Notices
  BY Shapes, ClosingTypes, NoticesDiffer DEF TypeOK, Cause, VerdictNotices
<1>2. /\ m \in Message /\ m.kind = "system" /\ m.speaker = NoAgent /\ m.support = NoAgent
      /\ v \in Message /\ v.kind = "verdict" /\ v.consensus = OutcomeConsensus(p)
  BY <1>1 DEF SystemMessage, Verdict, Message
<1>3. Explanation(p) \in {<<>>, <<m>>}
  BY DEF Explanation, Cause
<1>4. /\ pass[p].basis = "model" => v = Verdict(r, "moderator", OutcomeConsensus(p))
      /\ pass[p].basis # "model" => v = Verdict(r, "system", OutcomeConsensus(p))
  OBVIOUS
<1> HIDE DEF m, v, by
<1>5. NewVerdict(p) \in {<<>>, <<v>>}
  <2>1. CASE pass[p].basis = "model"
    BY <1>4, <2>1 DEF NewVerdict
  <2>2. CASE pass[p].basis # "model"
    BY <1>4, <2>2 DEF NewVerdict
  <2>3. QED
    BY <2>1, <2>2
<1>6. pass[p].basis = "stored" => Explanation(p) = <<>> /\ NewVerdict(p) = <<>>
  BY DEF Explanation, NewVerdict
<1> DEFINE explained == IF Explanation(p) = <<>> THEN transcript ELSE Append(transcript, m)
           decided   == IF NewVerdict(p) = <<>> THEN explained ELSE Append(explained, v)
<1>7. /\ transcript' \in {transcript, explained, decided}
      /\ status' \in {"moderating", "concluded"}
      /\ status' = "concluded" => consensus' = OutcomeConsensus(p)
  BY <1>2, <1>3, <1>5, ClosingWrites
<1>8. QED
  BY <1>2, <1>6, <1>7

\* The transcript keeps its records, and those it gets fit.
Fitting ==
    \A i \in DOMAIN transcript' :
        \/ i \in DOMAIN transcript /\ transcript'[i] = transcript[i]
        \/ RecordFits(transcript'[i])

\* One more record that fits.
LEMMA OneFits ==
    ASSUME transcript \in Seq(Message), NEW m \in Message, RecordFits(m),
           transcript' = Append(transcript, m)
    PROVE  Fitting
<1>1. /\ DOMAIN transcript' = DOMAIN transcript \cup {Len(transcript) + 1}
      /\ \A i \in DOMAIN transcript : transcript'[i] = transcript[i]
      /\ transcript'[Len(transcript) + 1] = m
  BY OneLonger, Longer
<1>2. QED
  BY <1>1 DEF Fitting

\* What a pass writes when it closes the debate has no speaker to fit.
LEMMA ConcludingFits ==
    ASSUME TypeOK, PassInvariant, NEW p \in Slots, Conclude(p)
    PROVE  Fitting
<1>1. transcript \in Seq(Message)
  BY DEF TypeOK, StoredTypes
<1>2. CASE transcript' = transcript
  BY <1>2 DEF Fitting
<1>3. CASE transcript' # transcript
  <2>1. Working(p) /\ Exists
    BY <1>3, ClosingIsOrdered DEF Conclude, Working
  <2>2. status = "moderating"
    BY <2>1, WorkingOnTheRound
  <2>3. PICK m, v \in Message :
           /\ m.kind = "system" /\ m.speaker = NoAgent /\ m.support = NoAgent
           /\ v.kind = "verdict"
           /\ transcript' \in {transcript, Append(transcript, m), Append(transcript, v),
                               Append(Append(transcript, m), v)}
    BY <2>2, ClosingSays
  <2>4. RecordFits(m) /\ RecordFits(v)
    BY <2>3 DEF RecordFits
  <2>5. CASE transcript' \in {Append(transcript, m), Append(transcript, v)}
    BY <1>1, <2>4, <2>5, OneFits
  <2>6. CASE transcript' = Append(Append(transcript, m), v)
    <3> DEFINE noted == Append(transcript, m)
    <3>1. /\ noted \in Seq(Message)
          /\ DOMAIN noted = DOMAIN transcript \cup {Len(transcript) + 1}
          /\ \A i \in DOMAIN transcript : noted[i] = transcript[i]
          /\ noted[Len(transcript) + 1] = m
      BY <1>1, OneLonger, Longer, AppendProperties
    <3> HIDE DEF noted
    <3>2. /\ DOMAIN Append(noted, v) = DOMAIN noted \cup {Len(noted) + 1}
          /\ \A i \in DOMAIN noted : Append(noted, v)[i] = noted[i]
          /\ Append(noted, v)[Len(noted) + 1] = v
      BY <3>1, OneLonger, Longer
    <3>3. transcript' = Append(noted, v)
      BY <2>6 DEF noted
    <3>4. QED
      BY <2>4, <3>1, <3>2, <3>3 DEF Fitting
  <2>7. QED
    BY <1>3, <2>3, <2>5, <2>6
<1>4. QED
  BY <1>2, <1>3

\* What a pass writes fits.
LEMMA PassFits ==
    ASSUME TypeOK, PassInvariant, NEW p \in Slots, PassStep(p)
    PROVE  Fitting /\ roster' = roster
<1>1. transcript \in Seq(Message) /\ pass[p].round \in Nat
  BY Shapes DEF TypeOK, StoredTypes
<1>2. roster' = roster
  BY DEF PassStep, Fetch, ReadTranscript, Admit, Call, Charge, SkipSummary, SaveSummary,
         RereadTranscript, Conclude, Advance, Panic, Restart, End, stored
<1>3. CASE transcript' = transcript
  BY <1>2, <1>3 DEF Fitting
<1>4. ASSUME NoteMissingSummary(p)
      PROVE  Fitting
  <2>1. CASE transcript' = Append(transcript, SystemMessage(pass[p].round, SummaryNotice(p)))
    <3>1. SummaryNotice(p) \in Notices
      BY DEF SummaryNotice, Notices
    <3>2. SystemMessage(pass[p].round, SummaryNotice(p)) \in Message
      BY <1>1, <3>1 DEF SystemMessage, Message
    <3>3. RecordFits(SystemMessage(pass[p].round, SummaryNotice(p)))
      BY DEF RecordFits, SystemMessage
    <3>4. QED
      BY <1>1, <2>1, <3>2, <3>3, OneFits
  <2>2. QED
    BY <1>3, <1>4, <2>1 DEF NoteMissingSummary
<1>5. CASE SaveSummary(p)
  <2>1. CASE transcript' = Append(transcript, RoundSummary(pass[p].round, SummaryConsensus(p)))
    <3>1. SummaryConsensus(p) \in BOOLEAN
      BY DEF SummaryConsensus
    <3>2. RoundSummary(pass[p].round, SummaryConsensus(p)) \in Message
      BY <1>1, <3>1 DEF RoundSummary, Message
    <3>3. RecordFits(RoundSummary(pass[p].round, SummaryConsensus(p)))
      BY DEF RecordFits, RoundSummary
    <3>4. QED
      BY <1>1, <1>2, <2>1, <3>2, <3>3, OneFits
  <2>2. QED
    BY <1>3, <1>4, <1>5, <2>1 DEF SaveSummary
<1>6. CASE Conclude(p)
  BY <1>2, <1>6, ConcludingFits
<1>7. QED
  BY <1>2, <1>3, <1>4, <1>5, <1>6
     DEF PassStep, Fetch, ReadTranscript, Admit, Call, Charge, SkipSummary, RereadTranscript,
         Advance, Panic, Restart, End, stored

\* What a turn adds fits.
LEMMA TurnFits ==
    ASSUME TypeOK, Clients \/ Ticker, roster' = roster, transcript' # <<>>
    PROVE  Fitting
<1> USE CourtAssumption
<1>1. transcript \in Seq(Message) /\ round \in Nat
  BY Shapes DEF TypeOK, StoredTypes
<1>2. CASE transcript' = transcript
  BY <1>2 DEF Fitting
<1>3. ASSUME NEW agent \in Agents, NEW support \in Supports, PostArgument(agent, support)
      PROVE  Fitting
  <2>1. /\ Argument(round, agent, support) \in Message
        /\ RecordFits(Argument(round, agent, support))
    BY <1>1, <1>3 DEF Argument, Message, RecordFits, PostArgument
  <2>2. QED
    BY <1>1, <1>3, <2>1, OneFits DEF PostArgument
<1>4. CASE transcript' = Append(transcript, SystemMessage(round, TurnSkipped))
  <2>1. /\ SystemMessage(round, TurnSkipped) \in Message
        /\ RecordFits(SystemMessage(round, TurnSkipped))
    BY <1>1 DEF SystemMessage, Message, RecordFits
  <2>2. QED
    BY <1>1, <1>4, <2>1, OneFits
<1>5. QED
  BY <1>2, <1>3, <1>4
     DEF Clients, CreateDebate, JoinDebate, StartDebate, DeleteDebate,
         Ticker, SweepReads, SweepResumes, SweepForgets, ExpireTurns, stored

\* Every step keeps the records fitting the roster.
LEMMA RecordsFitStep ==
    ASSUME TypeOK, PassInvariant, TurnInvariant, RecordsFit, [Next]_vars
    PROVE  RecordsFit'
<1> USE CourtAssumption
<1>1. roster \in Seq(Agents) /\ Len(roster) \in Nat
  BY DEF TypeOK, StoredTypes
<1>2. ASSUME Fitting, roster' = roster
      PROVE  RecordsFit'
  BY <1>2 DEF Fitting, RecordsFit, RecordFits, Participating
<1>3. ASSUME transcript' = <<>>, Len(roster') <= MaxParticipants
      PROVE  RecordsFit'
  BY <1>3 DEF RecordsFit
<1>4. CASE Clients
  <2>1. CASE roster' = roster /\ transcript' # <<>>
    BY <1>2, <1>4, <2>1, TurnFits
  <2>2. CASE roster' = roster /\ transcript' = <<>>
    BY <1>3, <2>2 DEF RecordsFit
  <2>3. CASE roster' # roster
    <3>1. /\ transcript' = <<>>
          /\ \/ roster' \in {<<>>, <<Creator>>}
             \/ \E agent \in Agents :
                   roster' = Append(roster, agent) /\ Len(roster) < MaxParticipants
      BY <1>4, <2>3
         DEF Clients, CreateDebate, JoinDebate, StartDebate, PostArgument, DeleteDebate,
             TurnInvariant, PhaseFits, row
    <3>2. Len(roster') <= MaxParticipants
      <4>1. CASE roster' = <<>> \/ roster' = <<Creator>>
        BY <4>1
      <4>2. ASSUME NEW agent \in Agents, roster' = Append(roster, agent),
                   Len(roster) < MaxParticipants
            PROVE  Len(roster') <= MaxParticipants
        <5>1. Len(roster') = Len(roster) + 1
          BY <1>1, <4>2, AppendProperties
        <5>2. QED
          BY <1>1, <4>2, <5>1
      <4>3. QED
        BY <3>1, <4>1, <4>2
    <3>3. QED
      BY <1>3, <3>1, <3>2
  <2>4. QED
    BY <2>1, <2>2, <2>3
<1>5. CASE Ticker
  <2>1. roster' = roster
    BY <1>5 DEF Ticker, SweepReads, SweepResumes, SweepForgets, ExpireTurns, stored
  <2>2. CASE transcript' = <<>>
    BY <1>3, <2>1, <2>2 DEF RecordsFit
  <2>3. QED
    BY <1>2, <1>5, <2>1, <2>2, TurnFits
<1>6. ASSUME NEW p \in Slots, PassStep(p)
      PROVE  RecordsFit'
  BY <1>2, <1>6, PassFits
<1>7. CASE Time \/ Crash \/ UNCHANGED vars
  BY <1>2, <1>7
     DEF Time, DeadlinePasses, RetryPauseElapses, Crash, Restart, vars, stored, Fitting
<1>8. QED
  BY <1>4, <1>5, <1>6, <1>7 DEF Next
-------------------------------------------------------------------------------
(* Verdict, votes and row agree. *)

\* What all verdicts say, when a record is added.
LEMMA SaysAfter ==
    ASSUME NEW msgs \in Seq(Message), NEW m \in Message, NEW outcome,
           VerdictsSay(msgs, outcome), m.kind = "verdict" => m.consensus = outcome
    PROVE  VerdictsSay(Append(msgs, m), outcome)
<1> DEFINE longer == Append(msgs, m)
<1>1. /\ DOMAIN longer = DOMAIN msgs \cup {Len(msgs) + 1}
      /\ \A i \in DOMAIN msgs : longer[i] = msgs[i]
      /\ longer[Len(msgs) + 1] = m
  BY OneLonger, Longer
<1> HIDE DEF longer
<1>2. VerdictsSay(longer, outcome)
  BY <1>1 DEF VerdictsSay
<1>3. QED
  BY <1>2 DEF longer

\* A record that is no argument leaves the votes.
LEMMA VotesAfter ==
    ASSUME transcript \in Seq(Message), NEW m \in Message, m.kind # "argument",
           transcript' = Append(transcript, m)
    PROVE  VotesAgree' = VotesAgree
<1>1. /\ DOMAIN transcript' = DOMAIN transcript \cup {Len(transcript) + 1}
      /\ \A i \in DOMAIN transcript : transcript'[i] = transcript[i]
      /\ transcript'[Len(transcript) + 1] = m
  BY OneLonger, Longer
<1>2. /\ Arguments(transcript)' = Arguments(transcript)
      /\ \A i \in Arguments(transcript) : transcript'[i] = transcript[i]
  BY <1>1 DEF Arguments
<1>3. QED
  BY <1>2, VotesStay DEF VotesAgree

\* Where there is no verdict and nobody goes for one, nothing can disagree.
LEMMA NothingDisagrees ==
    ASSUME NoVerdict(transcript'), status' # "concluded",
           \A q \in Slots : ~HoldsReading(q)' \/ ~Exists'
    PROVE  ConsensusFits'
BY DEF NoVerdict, ConsensusFits, VerdictsSay, PassAgrees, HoldsReading

\* Without a new record, who agreed agrees.
LEMMA AgreementStays ==
    ASSUME ConsensusFits, UNCHANGED <<transcript, params>>, Exists' => Exists,
           status' = "concluded" => status = "concluded" /\ consensus' = consensus,
           \A q \in Slots : Untouched(q) \/ PassAgrees(q)'
    PROVE  ConsensusFits'
<1>1. VotesAgree' = VotesAgree
  BY DEF VotesAgree
<1>2. ASSUME NEW q \in Slots
      PROVE  PassAgrees(q)'
  BY <1>1, <1>2 DEF ConsensusFits, PassAgrees, Untouched, HoldsReading, ForSummary
<1>3. QED
  BY <1>1, <1>2 DEF ConsensusFits

\* A turn is taken while there is no verdict.
LEMMA TurnKeepsConsensus ==
    ASSUME TypeOK, PassInvariant, ResultInvariant, status = "running", AdvanceTurnOrFail,
           \A q \in Slots : Untouched(q) \/ pc'[q] = "fetch",
           NEW m \in Message, m.kind # "verdict", transcript' = Append(transcript, m)
    PROVE  ConsensusFits'
<1>1. transcript \in Seq(Message)
  BY DEF TypeOK, StoredTypes
<1>2. NoVerdict(transcript)
  BY DEF ResultInvariant, VerdictIsLast, NoVerdict
<1>3. NoVerdict(transcript')
  BY <1>1, <1>2, OneLonger, Longer DEF NoVerdict
<1>4. status' # "concluded"
  BY DEF AdvanceTurnOrFail, AdvanceTurn, UpdateDebate, row, Exists
<1>5. \A q \in Slots : ~HoldsReading(q)'
  BY DEF PassInvariant, WorkingOwns, Working, HoldsReading, Untouched
<1>6. QED
  BY <1>3, <1>4, <1>5, NothingDisagrees

\* Clients write no verdict, and while they may argue no pass holds a reading.
LEMMA ClientsKeepConsensus ==
    ASSUME TypeOK, PassInvariant, ResultInvariant, NoticeInvariant, ConsensusFits, Clients
    PROVE  ConsensusFits'
<1> USE CourtAssumption
<1>1. \A q \in Slots : Untouched(q) \/ pc'[q] = "fetch"
  BY PassesRest
<1>2. \A q \in Slots : Untouched(q) \/ PassAgrees(q)'
  BY <1>1 DEF PassAgrees, HoldsReading
<1>3. ASSUME NEW mode \in AllowedModes, NEW rounds \in RoundCounts, NEW prep \in PrepTimes,
             NEW observer \in BOOLEAN, CreateDebate(mode, rounds, prep, observer)
      PROVE  ConsensusFits'
  <2>1. /\ status = "none" /\ status' = "open" /\ transcript' = <<>> /\ pc' = pc
    BY <1>3 DEF CreateDebate, passes, NoticeInvariant
  <2>2. \A q \in Slots : ~HoldsReading(q)'
    BY <2>1 DEF PassInvariant, QuietBeforeStart, HoldsReading
  <2>3. QED
    BY <2>1, <2>2, NothingDisagrees DEF NoVerdict
<1>4. CASE (\E agent \in Agents : JoinDebate(agent)) \/ StartDebate
  <2>1. /\ UNCHANGED <<transcript, params>> /\ status = "open"
        /\ status' \in {"open", "preparing", "running"}
    BY <1>4 DEF JoinDebate, StartDebate, BeginFirstRound, UpdateDebate, Exists, row
  <2>2. QED
    BY <1>2, <2>1, AgreementStays DEF Exists
<1>5. ASSUME NEW agent \in Agents, NEW support \in Supports, PostArgument(agent, support)
      PROVE  ConsensusFits'
  <2>1. /\ status = "running" /\ AdvanceTurnOrFail
        /\ transcript' = Append(transcript, Argument(round, agent, support))
    BY <1>5 DEF PostArgument, HasTurn
  <2>2. /\ Argument(round, agent, support) \in Message
        /\ Argument(round, agent, support).kind = "argument"
    BY DEF Argument, Message, TypeOK, StoredTypes, RowTypes
  <2>3. QED
    BY <1>1, <2>1, <2>2, TurnKeepsConsensus
<1>6. CASE DeleteDebate
  <2>1. status' = "deleted" /\ transcript' = <<>>
    BY <1>6 DEF DeleteDebate
  <2>2. QED
    BY <2>1, NothingDisagrees DEF NoVerdict, Exists
<1>7. QED
  BY <1>3, <1>4, <1>5, <1>6 DEF Clients

\* A skipped turn is no verdict.
LEMMA TickerKeepsConsensus ==
    ASSUME TypeOK, PassInvariant, ResultInvariant, ConsensusFits, Ticker
    PROVE  ConsensusFits'
<1>1. \A q \in Slots : Untouched(q) \/ pc'[q] = "fetch"
  BY PassesRest
<1>2. \A q \in Slots : Untouched(q) \/ PassAgrees(q)'
  BY <1>1 DEF PassAgrees, HoldsReading
<1>3. CASE TurnIsOver /\ ExpireTurns /\ transcript' # transcript
  <2>1. /\ status = "running" /\ AdvanceTurnOrFail
        /\ transcript' = Append(transcript, SystemMessage(round, TurnSkipped))
    BY <1>3 DEF ExpireTurns, TurnIsOver
  <2>2. /\ SystemMessage(round, TurnSkipped) \in Message
        /\ SystemMessage(round, TurnSkipped).kind = "system"
    BY DEF SystemMessage, Message, TypeOK, StoredTypes, RowTypes
  <2>3. QED
    BY <1>1, <2>1, <2>2, TurnKeepsConsensus
<1>4. CASE transcript' = transcript
  <2>1. /\ params' = params
        /\ Exists' => Exists
        /\ status' = "concluded" => status = "concluded" /\ consensus' = consensus
    BY <1>4 DEF Ticker, SweepReads, SweepResumes, SweepForgets, ExpireTurns, stored, row,
           PreparationIsOver, TurnIsOver, BeginFirstRound, AdvanceTurnOrFail, AdvanceTurn,
           UpdateDebate, Exists
  <2>2. QED
    BY <1>2, <1>4, <2>1, AgreementStays
<1>5. QED
  BY <1>3, <1>4 DEF Ticker, SweepReads, SweepResumes, SweepForgets, ExpireTurns, stored

\* Of a pass at work only its own opinion matters.
LEMMA OnlyOpinion ==
    ASSUME PassInvariant, NEW p \in Slots, Working(p), PassGoesOn(p), PassAgrees(p)'
    PROVE  \A q \in Slots : PassAgrees(q)'
<1>1. ASSUME NEW q \in Slots, q # p
      PROVE  PassAgrees(q)'
  <2>1. pc[q] = pc'[q] /\ ~Working(q)
    BY <1>1, WorkingIsUnique DEF PassGoesOn
  <2>2. QED
    BY <2>1 DEF Working, PassAgrees, HoldsReading
<1>2. QED
  BY <1>1

\* A pass that begins or ends knows nothing of the outcome.
LEMMA EdgesKeepConsensus ==
    ASSUME TypeOK, ConsensusFits, NEW p \in Slots, Fetch(p) \/ End(p)
    PROVE  ConsensusFits'
<1>1. /\ UNCHANGED <<transcript, params, status, consensus>> /\ PassTypes
      /\ \A q \in Slots : q # p => Untouched(q)
  BY DEF Fetch, End, Goto, Keep, Return, PassTypes, Untouched, stored, row, TypeOK
<1>2. pc'[p] \in {"read", "end", "idle"}
  BY <1>1, Arrives DEF Fetch, End, Return
<1>3. PassAgrees(p)'
  BY <1>2 DEF PassAgrees, HoldsReading
<1>4. QED
  BY <1>1, <1>3, AgreementStays DEF Exists

\* The call does not change what the pass has read of the votes.
LEMMA CallingKeepsConsensus ==
    ASSUME TypeOK, PassInvariant, NoticeInvariant, ConsensusFits, NEW p \in Slots,
           Admit(p) \/ Call(p) \/ Charge(p)
    PROVE  ConsensusFits'
<1>1. /\ PassGoesOn(p) /\ Working(p)
      /\ pc[p] \in {"admit", "call", "charge"}
      /\ pass'[p].call = pass[p].call /\ pass'[p].consensus = pass[p].consensus
      /\ \/ pc'[p] \in {"call", "charge"}
         \/ pass[p].call = "summary" /\ pc'[p] \in {"skip", "save"}
         \/ pass[p].call # "summary" /\ pc'[p] = "conclude"
      /\ pc'[p] = "conclude" =>
            \/ pass'[p].basis \in {"budget", "model", "unavailable"}
            \/ pc[p] = "charge" /\ pass'[p].basis = pass[p].basis
  BY CallingLocals
<1>2. UNCHANGED <<transcript, params, status, consensus>>
  BY DEF Admit, Call, Charge, stored, row
<1>3. (Exists /\ pc'[p] = "conclude") => pass'[p].basis # "stored"
  BY <1>1 DEF NoticeInvariant, ReadingHolds, ReadingFits, HoldsReading
<1>4. HoldsReading(p) /\ (~ForSummary(p)' => ~ForSummary(p))
  BY <1>1 DEF HoldsReading, ForSummary
<1>5. PassAgrees(p)'
  <2>1. PassAgrees(p) /\ VotesAgree' = VotesAgree
    BY <1>2 DEF ConsensusFits, VotesAgree
  <2>2. QED
    BY <1>1, <1>2, <1>3, <1>4, <2>1 DEF PassAgrees, Exists
<1>6. \A q \in Slots : PassAgrees(q)'
  BY <1>1, <1>5, OnlyOpinion
<1>7. QED
  BY <1>2, <1>6, AgreementStays DEF Exists
\* What a pass finds to be the consensus is what the stored verdict says.
LEMMA StoredVerdictSays ==
    ASSUME TypeOK, ResultInvariant, ConsensusFits, NEW r
    PROVE  Stored(transcript, r, "verdict") =>
              VerdictsSay(transcript, RoundConsensus(transcript, r))
<1>1. CASE params.mode = "hybrid"
  BY <1>1 DEF RoundConsensus, ConsensusFits, VotesAgree
<1>2. ASSUME params.mode # "hybrid", Stored(transcript, r, "verdict")
      PROVE  VerdictsSay(transcript, RoundConsensus(transcript, r))
  <2>1. RoundConsensus(transcript, r) = StoredConsensus(transcript, r, "verdict")
    BY <1>2 DEF RoundConsensus
  <2>2. PICK i \in Results(transcript, r, "verdict") : TRUE
    BY <1>2 DEF Stored
  <2>3. \A j \in DOMAIN transcript : transcript[j].kind = "verdict" => j = i
    BY <2>2 DEF Results, ResultInvariant, VerdictIsLast
  <2>4. transcript[i].consensus \in BOOLEAN
    <3>1. transcript[i] \in Message
      BY <2>2 DEF Results, TypeOK, StoredTypes
    <3>2. QED
      BY <3>1 DEF Message
  <2>5. StoredConsensus(transcript, r, "verdict") = transcript[i].consensus
    BY <2>2, <2>3, <2>4 DEF StoredConsensus, Results
  <2>6. QED
    BY <2>1, <2>3, <2>5 DEF VerdictsSay
<1>3. QED
  BY <1>1, <1>2

\* The locals of a pass that has read the transcript and goes for the verdict.
LEMMA VerdictLocals ==
    ASSUME PassTypes, NEW p \in Slots, NEW msgs, NEW reached, NEW basis,
           Keep(p, ForVerdict(p, msgs, reached, basis)), Goto(p, TowardsVerdict(basis))
    PROVE  /\ pc'[p] \in {"admit", "conclude"} /\ pass'[p].call = "verdict"
           /\ pass'[p].consensus = reached /\ pass'[p].basis = basis
BY Arrives DEF Keep, ForVerdict, TowardsVerdict, PassTypes, Pass

\* A pass takes the outcome from the verdict it finds, or from the votes.
LEMMA ReadingKeepsConsensus ==
    ASSUME TypeOK, PassInvariant, ResultInvariant, TurnInvariant, ConsensusFits,
           NEW p \in Slots, ReadTranscript(p) \/ RereadTranscript(p)
    PROVE  ConsensusFits'
<1>1. /\ PassTypes /\ PassGoesOn(p) /\ Working(p)
      /\ UNCHANGED <<transcript, params, status, consensus>>
  BY GoingOn DEF TypeOK, ReadTranscript, RereadTranscript, stored, row, Working
<1>2. VotesAgree' = VotesAgree
  BY <1>1 DEF VotesAgree
<1>3. ASSUME ~HoldsReading(p)' \/ ForSummary(p)'
      PROVE  PassAgrees(p)'
  BY <1>3 DEF PassAgrees, HoldsReading, ForSummary
<1>4. ASSUME Return(p) \/ \E parts : TowardsNextRound(p, parts)
      PROVE  PassAgrees(p)'
  BY <1>1, <1>3, <1>4, Arrives DEF Return, TowardsNextRound, HoldsReading
<1>5. ASSUME ReadTranscript(p)
      PROVE  PassAgrees(p)'
  <2> DEFINE r     == pass[p].round
             reached == RoundConsensus(transcript, r)
             basis == VerdictBasis(transcript, r)
  <2>1. CASE Keep(p, ForVerdict(p, transcript, reached, basis)) /\ Goto(p, TowardsVerdict(basis))
    <3>1. /\ pass'[p].call = "verdict" /\ pc'[p] \in {"admit", "conclude"}
          /\ pass'[p].consensus = reached /\ pass'[p].basis = basis
      BY <1>1, <2>1, VerdictLocals
    <3>2. basis = "stored" => VerdictsSay(transcript, reached)
      <4>1. basis = "stored" => Stored(transcript, r, "verdict")
        BY BasisIsRecorded DEF VerdictBasis
      <4>2. QED
        BY <4>1, StoredVerdictSays
    <3>3. params.mode = "hybrid" => reached = VotesAgree
      BY DEF RoundConsensus, VotesAgree
    <3>4. QED
      BY <1>1, <1>2, <3>1, <3>2, <3>3 DEF PassAgrees
  <2>2. CASE /\ Keep(p, [pass[p] EXCEPT !.msgs = transcript,
                                        !.parts = IF params.mode = "hybrid" THEN roster ELSE <<>>,
                                        !.call = "summary"])
             /\ Goto(p, "admit")
    <3>1. pass'[p].call = "summary" /\ pc'[p] = "admit"
      BY <1>1, <2>2, Arrives DEF Keep, PassTypes, Pass
    <3>2. QED
      BY <1>3, <3>1 DEF ForSummary
  <2>3. QED
    BY <1>4, <1>5, <2>1, <2>2 DEF ReadTranscript
<1>6. ASSUME RereadTranscript(p)
      PROVE  PassAgrees(p)'
  <2> DEFINE basis == NoticeBasis(transcript, pass[p].round)
  <2> HIDE DEF basis
  <2>1. CASE Keep(p, ForVerdict(p, transcript, TRUE, basis)) /\ Goto(p, TowardsVerdict(basis))
    <3>1. pass'[p].basis = basis
      BY <1>1, <2>1, VerdictLocals
    <3>2. basis # "stored"
      BY DEF basis, NoticeBasis
    <3>3. params.mode # "hybrid"
      BY <1>6 DEF RereadTranscript, TurnInvariant, NextRoundIsThere, MayOpenRound
    <3>4. QED
      BY <1>1, <3>1, <3>2, <3>3 DEF PassAgrees
  <2>2. QED
    BY <1>4, <1>6, <2>1 DEF RereadTranscript, basis
<1>7. \A q \in Slots : PassAgrees(q)'
  BY <1>1, <1>5, <1>6, OnlyOpinion
<1>8. QED
  BY <1>1, <1>7, AgreementStays DEF Exists

\* A pass that leaves with a record that is neither argument nor verdict.
LEMMA LeavingKeepsConsensus ==
    ASSUME TypeOK, PassInvariant, ConsensusFits, NEW p \in Slots, Working(p), PassGoesOn(p),
           pc'[p] \in {"advance", "reread", "end"}, params' = params,
           \/ transcript' = transcript
           \/ \E m \in Message : /\ m.kind \notin {"argument", "verdict"}
                                 /\ transcript' = Append(transcript, m),
           status' \in {"running", status}, status # "concluded"
    PROVE  ConsensusFits'
<1>1. transcript \in Seq(Message)
  BY DEF TypeOK, StoredTypes
<1>2. \A q \in Slots : PassAgrees(q)'
  BY WriterLeaves DEF PassAgrees, HoldsReading
<1>3. VotesAgree' = VotesAgree
  BY <1>1, VotesAfter DEF VotesAgree
<1>4. params.mode = "hybrid" => VerdictsSay(transcript', VotesAgree)
  <2>1. params.mode = "hybrid" => VerdictsSay(transcript, VotesAgree)
    BY DEF ConsensusFits
  <2>2. QED
    BY <1>1, <2>1, SaysAfter
<1>5. QED
  BY <1>2, <1>3, <1>4 DEF ConsensusFits

\* Going on to the next round is no outcome.
LEMMA SummarizingKeepsConsensus ==
    ASSUME TypeOK, PassInvariant, ConsensusFits, NEW p \in Slots,
           SkipSummary(p) \/ SaveSummary(p) \/ Advance(p)
    PROVE  ConsensusFits'
<1>1. /\ PassTypes /\ PassGoesOn(p) /\ Working(p) /\ params' = params
      /\ pass[p].round \in Nat
  BY GoingOn, Shapes DEF TypeOK, SkipSummary, SaveSummary, Advance, Working
<1>2. status # "concluded"
  BY <1>1, WorkingAlone
<1>3. status' \in {"running", status}
  BY DEF SkipSummary, SaveSummary, Advance, UpdateDebate, row
<1>4. pc'[p] \in {"advance", "reread", "end"}
  BY <1>1, Arrives DEF SkipSummary, SaveSummary, Advance, AfterSummary, TowardsNextRound, Return
<1>5. \/ transcript' = transcript
      \/ \E m \in Message : /\ m.kind \notin {"argument", "verdict"}
                            /\ transcript' = Append(transcript, m)
  <2>1. ASSUME NoteMissingSummary(p), transcript' # transcript
        PROVE  \E m \in Message : /\ m.kind \notin {"argument", "verdict"}
                                  /\ transcript' = Append(transcript, m)
    <3> DEFINE m == SystemMessage(pass[p].round, SummaryNotice(p))
    <3>1. m \in Message /\ m.kind = "system"
      BY <1>1 DEF SummaryNotice, Notices, SystemMessage, Message
    <3>2. transcript' = Append(transcript, m)
      BY <2>1 DEF NoteMissingSummary
    <3> HIDE DEF m
    <3>3. QED
      BY <3>1, <3>2
  <2>2. CASE transcript' = Append(transcript, RoundSummary(pass[p].round, SummaryConsensus(p)))
    <3> DEFINE m == RoundSummary(pass[p].round, SummaryConsensus(p))
    <3>1. m \in Message /\ m.kind = "summary"
      BY <1>1 DEF SummaryConsensus, RoundSummary, Message
    <3> HIDE DEF m
    <3>2. QED
      BY <2>2, <3>1 DEF m
  <2>3. QED
    BY <2>1, <2>2 DEF SkipSummary, SaveSummary, Advance
<1>6. QED
  BY <1>1, <1>2, <1>3, <1>4, <1>5, LeavingKeepsConsensus

\* A record that is no argument does not change who supports whom.
LEMMA ArgumentsAfter ==
    ASSUME NEW msgs \in Seq(Message), NEW m \in Message, m.kind # "argument"
    PROVE  /\ Append(msgs, m) \in Seq(Message)
           /\ Arguments(Append(msgs, m)) = Arguments(msgs)
           /\ \A i \in Arguments(msgs) : Append(msgs, m)[i] = msgs[i]
<1> DEFINE longer == Append(msgs, m)
<1>1. /\ DOMAIN longer = DOMAIN msgs \cup {Len(msgs) + 1}
      /\ \A i \in DOMAIN msgs : longer[i] = msgs[i]
      /\ longer[Len(msgs) + 1] = m
      /\ longer \in Seq(Message)
  BY OneLonger, Longer, AppendProperties
<1> HIDE DEF longer
<1>2. /\ longer \in Seq(Message) /\ Arguments(longer) = Arguments(msgs)
      /\ \A i \in Arguments(msgs) : longer[i] = msgs[i]
  BY <1>1 DEF Arguments
<1>3. QED
  BY <1>2 DEF longer

\* The verdict and the row get what the pass carries.
LEMMA ConcludingKeepsConsensus ==
    ASSUME TypeOK, PassInvariant, ResultInvariant, ConsensusFits, NEW p \in Slots, Conclude(p)
    PROVE  ConsensusFits'
<1>1. /\ PassTypes /\ PassGoesOn(p) /\ Working(p) /\ params' = params /\ pc'[p] = "end"
      /\ transcript \in Seq(Message) /\ pc[p] = "conclude"
  BY GoingOn, Arrives DEF TypeOK, StoredTypes, Conclude, Return, Working
<1>2. \A q \in Slots : PassAgrees(q)'
  BY <1>1, WriterLeaves DEF PassAgrees, HoldsReading
<1>3. CASE ~Exists
  <2>1. transcript' = transcript /\ UNCHANGED row
    BY <1>3, ClosingIsOrdered DEF Conclude, UpdateDebate
  <2>2. QED
    BY <1>1, <1>2, <2>1, AgreementStays DEF Exists, row
<1>4. CASE Exists
  <2> DEFINE outcome == OutcomeConsensus(p)
  <2>1. status = "moderating"
    BY <1>1, <1>4, WorkingOnTheRound
  <2>2. PICK m, v \in Message :
           /\ m.kind = "system" /\ v.kind = "verdict" /\ v.consensus = outcome
           /\ transcript' \in {transcript, Append(transcript, m), Append(transcript, v),
                               Append(Append(transcript, m), v)}
    BY <2>1, ClosingSays
  <2>3. /\ pass[p].basis = "stored" => transcript' = transcript
        /\ status' = "concluded" => consensus' = outcome
    BY <2>1, ClosingSays
  <2>4. VotesAgree' = VotesAgree
    <3> DEFINE noted == Append(transcript, m)
    <3>1. /\ noted \in Seq(Message) /\ Arguments(noted) = Arguments(transcript)
          /\ \A i \in Arguments(transcript) : noted[i] = transcript[i]
      BY <1>1, <2>2, ArgumentsAfter
    <3>2. /\ Arguments(Append(transcript, v)) = Arguments(transcript)
          /\ \A i \in Arguments(transcript) : Append(transcript, v)[i] = transcript[i]
      BY <1>1, <2>2, ArgumentsAfter
    <3> HIDE DEF noted
    <3>3. /\ Arguments(Append(noted, v)) = Arguments(noted)
          /\ \A i \in Arguments(noted) : Append(noted, v)[i] = noted[i]
      BY <2>2, <3>1, ArgumentsAfter
    <3>4. transcript' \in {transcript, noted, Append(transcript, v), Append(noted, v)}
      BY <2>2 DEF noted
    <3>5. /\ Arguments(transcript') = Arguments(transcript)
          /\ \A i \in Arguments(transcript) : transcript'[i] = transcript[i]
      BY <3>1, <3>2, <3>3, <3>4
    <3>6. QED
      BY <1>1, <3>5, VotesStay DEF VotesAgree
  <2>5. VerdictsSay(transcript, outcome)
    <3>1. CASE pass[p].basis = "stored"
      BY <1>1, <1>4, <3>1 DEF ConsensusFits, PassAgrees, OutcomeConsensus
    <3>2. CASE pass[p].basis # "stored"
      BY <1>1, <3>2 DEF ResultInvariant, StillOpen, NoVerdict, VerdictsSay
    <3>3. QED
      BY <3>1, <3>2
  <2>6. VerdictsSay(transcript', outcome)
    <3> HIDE DEF outcome
    <3>1. Append(transcript, m) \in Seq(Message)
      BY <1>1, AppendProperties
    <3>2. QED
      BY <1>1, <2>2, <2>5, <3>1, SaysAfter
  <2>7. params.mode = "hybrid" => outcome = VotesAgree
    BY <1>1, <1>4 DEF ConsensusFits, PassAgrees, HoldsReading, ForSummary, OutcomeConsensus
  <2>8. QED
    BY <1>1, <1>2, <2>3, <2>4, <2>6, <2>7 DEF ConsensusFits
<1>5. QED
  BY <1>3, <1>4

\* A restart leaves only what is stored.
LEMMA RestartKeepsConsensus ==
    ASSUME ConsensusFits, Restart
    PROVE  ConsensusFits'
<1>1. UNCHANGED <<transcript, params, status, consensus>>
  BY DEF Restart, stored, row
<1>2. \A q \in Slots : PassAgrees(q)'
  BY DEF Restart, PassAgrees, HoldsReading
<1>3. QED
  BY <1>1, <1>2, AgreementStays DEF Exists

\* Every step keeps the agreement.
LEMMA ConsensusFitsStep ==
    ASSUME TypeOK, PassInvariant, ResultInvariant, NoticeInvariant, TurnInvariant,
           ConsensusFits, [Next]_vars
    PROVE  ConsensusFits'
<1>1. CASE Clients
  BY <1>1, ClientsKeepConsensus
<1>2. CASE Ticker
  BY <1>2, TickerKeepsConsensus
<1>3. ASSUME NEW p \in Slots, PassStep(p)
      PROVE  ConsensusFits'
  BY <1>3, EdgesKeepConsensus, ReadingKeepsConsensus, CallingKeepsConsensus,
     SummarizingKeepsConsensus, ConcludingKeepsConsensus, RestartKeepsConsensus
     DEF PassStep, Panic
<1>4. CASE Time \/ UNCHANGED vars
  <2>1. UNCHANGED <<transcript, params, status, consensus, passes>>
    BY <1>4 DEF Time, DeadlinePasses, RetryPauseElapses, vars, stored, row
  <2>2. \A q \in Slots : Untouched(q)
    BY <2>1 DEF passes, Untouched
  <2>3. QED
    BY <2>1, <2>2, AgreementStays DEF Exists
<1>5. CASE Crash
  BY <1>5, RestartKeepsConsensus DEF Crash
<1>6. QED
  BY <1>1, <1>2, <1>3, <1>4, <1>5 DEF Next
-------------------------------------------------------------------------------
(* The rules. *)

\* The exported document.
Artifact == Stream(ExportSnapshot)

\* What the suite sees is what the service has stored.
LEMMA ArtifactShows ==
    ASSUME transcript \in Seq(Message)
    PROVE  /\ Artifact.debate.status = status /\ Artifact.debate.mode = params.mode
           /\ Artifact.debate.rounds = params.rounds /\ Artifact.debate.current = round
           /\ Artifact.debate.consensus = consensus
           /\ Artifact.participants = ParticipantRecords
           /\ Artifact.votes = ViewVotes
           /\ DOMAIN Artifact.transcript = DOMAIN transcript
           /\ Len(Artifact.transcript) = Len(transcript)
           /\ transcript = <<>> => Artifact.transcript = <<>>
           /\ \A i \in DOMAIN transcript :
                 /\ Artifact.transcript[i].type = RecordType(transcript[i].kind)
                 /\ Artifact.transcript[i].kind = transcript[i].kind
                 /\ Artifact.transcript[i].round = transcript[i].round
                 /\ Artifact.transcript[i].speaker = transcript[i].speaker
                 /\ Artifact.transcript[i].support = transcript[i].support
                 /\ Artifact.transcript[i].consensus = transcript[i].consensus
<1> DEFINE shown == [i \in DOMAIN transcript |-> RecordForMessage(transcript[i])]
<1>1. Artifact.transcript = shown
  BY DEF Artifact, Stream, ExportSnapshot
<1>2. DOMAIN transcript = 1..Len(transcript) /\ Len(transcript) \in Nat
  OBVIOUS
<1>3. DOMAIN shown = DOMAIN transcript
  OBVIOUS
<1>4. Len(shown) = Len(transcript) /\ (transcript = <<>> => shown = <<>>)
  BY <1>2
<1>5. \A i \in DOMAIN transcript :
         /\ shown[i].type = RecordType(transcript[i].kind)
         /\ shown[i].kind = transcript[i].kind
         /\ shown[i].round = transcript[i].round
         /\ shown[i].speaker = transcript[i].speaker
         /\ shown[i].support = transcript[i].support
         /\ shown[i].consensus = transcript[i].consensus
  BY DEF RecordForMessage
<1> HIDE DEF shown
<1>6. QED
  BY <1>1, <1>3, <1>4, <1>5 DEF Artifact, Stream, ExportSnapshot

\* The groups of the artifact.
LEMMA ArtifactGroups ==
    ASSUME TypeOK
    PROVE  /\ Suite!Roster(Artifact) = {a \in Agents : Participating(a)}
           /\ Suite!Records(Artifact, "message") =
                 {i \in DOMAIN transcript : transcript[i].kind \in {"argument", "system"}}
           /\ Suite!Records(Artifact, "round_summary") =
                 {i \in DOMAIN transcript : transcript[i].kind = "summary"}
           /\ Suite!Records(Artifact, "verdict") =
                 {i \in DOMAIN transcript : transcript[i].kind = "verdict"}
           /\ Suite!Said(Artifact) = Arguments(transcript)
           /\ Suite!Started(Artifact) <=> status \notin {"open", "preparing"}
<1>1. transcript \in Seq(Message) /\ roster \in Seq(Agents)
  BY DEF TypeOK, StoredTypes
<1>2. \A i \in DOMAIN transcript :
         transcript[i].kind \in {"argument", "system", "summary", "verdict"}
  <2>1. \A i \in DOMAIN transcript : transcript[i] \in Message
    BY <1>1
  <2>2. QED
    BY <2>1 DEF Message
<1>3. Suite!Roster(Artifact) = {a \in Agents : Participating(a)}
  <2>1. Suite!Roster(Artifact) = {p.agent : p \in ParticipantRecords}
    BY <1>1, ArtifactShows DEF Suite!Roster
  <2>2. \A i \in DOMAIN roster : roster[i] \in Agents
    BY <1>1
  <2>3. ASSUME NEW i \in DOMAIN roster
        PROVE  roster[i] \in {p.agent : p \in ParticipantRecords}
    <3>1. /\ [agent |-> roster[i], joined |-> i] \in ParticipantRecords
          /\ [agent |-> roster[i], joined |-> i].agent = roster[i]
      BY DEF ParticipantRecords
    <3>2. QED
      BY <3>1
  <2>4. ASSUME NEW p \in ParticipantRecords
        PROVE  \E i \in DOMAIN roster : p.agent = roster[i]
    BY DEF ParticipantRecords
  <2>5. QED
    BY <2>1, <2>2, <2>3, <2>4 DEF Participating
<1>4. ASSUME NEW type
      PROVE  Suite!Records(Artifact, type) =
                {i \in DOMAIN transcript : RecordType(transcript[i].kind) = type}
  BY <1>1, ArtifactShows DEF Suite!Records
<1>5. /\ Suite!Records(Artifact, "message") =
            {i \in DOMAIN transcript : transcript[i].kind \in {"argument", "system"}}
      /\ Suite!Records(Artifact, "round_summary") =
            {i \in DOMAIN transcript : transcript[i].kind = "summary"}
      /\ Suite!Records(Artifact, "verdict") =
            {i \in DOMAIN transcript : transcript[i].kind = "verdict"}
  BY <1>2, <1>4 DEF RecordType
<1>6. Suite!Said(Artifact) = Arguments(transcript)
  BY <1>1, <1>5, ArtifactShows DEF Suite!Said, Arguments
<1>7. Suite!Started(Artifact) <=> status \notin {"open", "preparing"}
  BY <1>1, ArtifactShows DEF Suite!Started, Suite!NotYet
<1>8. QED
  BY <1>3, <1>5, <1>6, <1>7

\* The suite counts as the service does.
LEMMA SameCardinality ==
    ASSUME NEW S
    PROVE  Suite!Cardinality(S) = Cardinality(S)
BY DEF Suite!Cardinality, Cardinality

\* C1: there are as many participants as have joined.
LEMMA ParticipantsConform ==
    ASSUME TypeOK, TurnInvariant, RecordsFit, Exists
    PROVE  Suite!ParticipantCount(Artifact)
<1>1. roster \in Seq(Agents) /\ transcript \in Seq(Message)
  BY DEF TypeOK, StoredTypes
<1>2. DOMAIN roster = 1..Len(roster) /\ Len(roster) \in Nat
  BY <1>1
<1>3. Cardinality(ParticipantRecords) = Len(roster)
  <2> DEFINE f == [i \in DOMAIN roster |-> [agent |-> roster[i], joined |-> i]]
  <2>1. f \in [DOMAIN roster -> ParticipantRecords]
    BY DEF ParticipantRecords
  <2>2. \A i, j \in DOMAIN roster : f[i] = f[j] => i = j
    <3>1. \A i \in DOMAIN roster : f[i].joined = i
      OBVIOUS
    <3>2. QED
      BY <3>1
  <2>3. \A r \in ParticipantRecords : \E i \in DOMAIN roster : f[i] = r
    BY DEF ParticipantRecords
  <2> HIDE DEF f
  <2>4. f \in Bijection(DOMAIN roster, ParticipantRecords)
    BY <2>1, <2>2, <2>3, Fun_IsBij
  <2>5. ExistsBijection(DOMAIN roster, ParticipantRecords)
    BY <2>4 DEF ExistsBijection
  <2>6. IsFiniteSet(DOMAIN roster) /\ Cardinality(DOMAIN roster) = Len(roster)
    <3>1. /\ IsFiniteSet(1..Len(roster))
          /\ Cardinality(1..Len(roster)) = IF 1 > Len(roster) THEN 0 ELSE Len(roster) - 1 + 1
      BY <1>2, FS_Interval
    <3>2. QED
      BY <1>2, <3>1
  <2>7. QED
    BY <2>5, <2>6, FS_Bijection
<1>4. status \notin {"open", "preparing"} => Len(roster) >= 2
  BY DEF TurnInvariant, PhaseFits, MinimumToStart, Exists, TypeOK, StoredTypes, RowTypes,
         Statuses
<1>5. /\ Cardinality(Artifact.participants) = Len(roster)
      /\ Suite!Started(Artifact) => Len(roster) >= 2
  BY <1>1, <1>3, <1>4, ArtifactShows, ArtifactGroups
<1>6. Len(roster) <= MaxParticipants
  BY DEF RecordsFit
<1>7. QED
  BY <1>5, <1>6, SameCardinality DEF Suite!ParticipantCount

\* C2 and C3: who speaks and who is supported takes part.
LEMMA IdentitiesConform ==
    ASSUME TypeOK, TurnInvariant, RecordsFit
    PROVE  Suite!SpeakerIdentity(Artifact) /\ Suite!SupportTarget(Artifact)
<1>1. transcript \in Seq(Message) /\ \A i \in DOMAIN transcript : transcript[i] \in Message
  BY DEF TypeOK, StoredTypes
<1>2. ASSUME NEW i \in DOMAIN transcript, transcript[i].kind = "argument"
      PROVE  /\ transcript[i].speaker \in {a \in Agents : Participating(a)}
             /\ transcript[i].support \in {a \in Agents : Participating(a)} \cup {NoAgent}
  <2>1. Participating(transcript[i].speaker)
    BY <1>2 DEF TurnInvariant, SpeakersWereBefore, Arguments
  <2>2. transcript[i].support = NoAgent \/ Participating(transcript[i].support)
    BY <1>2 DEF RecordsFit, RecordFits
  <2>3. \A agent : Participating(agent) => agent \in Agents
    BY DEF Participating, TypeOK, StoredTypes
  <2>4. QED
    BY <2>1, <2>2, <2>3
<1>3. ASSUME NEW i \in DOMAIN transcript, transcript[i].kind = "system"
      PROVE  transcript[i].speaker = NoAgent /\ transcript[i].support = NoAgent
  BY <1>3 DEF RecordsFit, RecordFits
<1>4. Suite!SpeakerIdentity(Artifact)
  BY <1>1, <1>2, <1>3, ArtifactShows, ArtifactGroups DEF Suite!SpeakerIdentity
<1>5. Suite!SupportTarget(Artifact)
  BY <1>1, <1>2, <1>3, ArtifactShows, ArtifactGroups DEF Suite!SupportTarget
<1>6. QED
  BY <1>4, <1>5

\* C4: the turn order is the order of joining.
LEMMA TurnsConform ==
    ASSUME TypeOK, TurnInvariant
    PROVE  Suite!InTurnOrder(Artifact)
<1>1. transcript \in Seq(Message)
  BY DEF TypeOK, StoredTypes
<1>2. ASSUME NEW i \in Arguments(transcript), NEW j \in Arguments(transcript),
             i < j, transcript[i].round = transcript[j].round
      PROVE  Suite!JoinedBefore(Artifact, transcript[i].speaker, transcript[j].speaker)
  <2> DEFINE a == transcript[i].speaker
             b == transcript[j].speaker
  <2>1. Position(a) < Position(b)
    BY <1>2 DEF TurnInvariant, TurnOrder
  <2>2. Participating(a) /\ Participating(b)
    BY DEF TurnInvariant, SpeakersWereBefore
  <2> HIDE DEF a, b
  <2>3. /\ Position(a) \in DOMAIN roster /\ roster[Position(a)] = a
        /\ Position(b) \in DOMAIN roster /\ roster[Position(b)] = b
    BY <2>2, ParticipantHasPosition
  <2>4. /\ [agent |-> a, joined |-> Position(a)] \in ParticipantRecords
        /\ [agent |-> b, joined |-> Position(b)] \in ParticipantRecords
    BY <2>3 DEF ParticipantRecords
  <2>5. Suite!JoinedBefore(Artifact, a, b)
    BY <1>1, <2>1, <2>4, ArtifactShows DEF Suite!JoinedBefore
  <2>6. QED
    BY <2>5 DEF a, b
<1>3. \A i \in Arguments(transcript) :
         /\ Artifact.transcript[i].round = transcript[i].round
         /\ Artifact.transcript[i].speaker = transcript[i].speaker
  BY <1>1, ArtifactShows DEF Arguments
<1>4. QED
  BY <1>2, <1>3, ArtifactGroups DEF Suite!InTurnOrder

\* C5: rounds move forward.
LEMMA RoundsConform ==
    ASSUME TypeOK, TurnInvariant, RoundsMoveForward, Exists
    PROVE  Suite!Rounds(Artifact)
<1>1. transcript \in Seq(Message) /\ round \in Nat /\ params.rounds \in Nat
  BY DEF TypeOK, StoredTypes, RowTypes
<1>2. /\ round <= params.rounds
      /\ status \notin {"open", "preparing"} <=> round >= 1
  BY <1>1 DEF RoundsMoveForward
<1>3. ASSUME NEW i \in DOMAIN transcript
      PROVE  /\ transcript[i].round \in 1..params.rounds
             /\ transcript[i].round <= round
             /\ i > 1 => i - 1 \in DOMAIN transcript /\
                         transcript[i - 1].round <= transcript[i].round
  <2>1. transcript[i].round \in 1..round
    BY DEF RoundsMoveForward
  <2>2. i > 1 => i - 1 \in DOMAIN transcript /\ i - 1 < i
    BY <1>1
  <2>3. QED
    BY <1>1, <1>2, <2>1, <2>2 DEF RoundsMoveForward
<1>4. QED
  BY <1>1, <1>2, <1>3, ArtifactShows, ArtifactGroups DEF Suite!Rounds

\* C6 and C7: one summary of a round, and nothing after the verdict.
LEMMA ResultsConform ==
    ASSUME TypeOK, ResultInvariant
    PROVE  Suite!RoundSummaries(Artifact) /\ Suite!VerdictCloses(Artifact)
<1>1. transcript \in Seq(Message)
  BY DEF TypeOK, StoredTypes
<1>2. Suite!RoundSummaries(Artifact)
  <2>1. \A i \in DOMAIN transcript : Artifact.transcript[i].round = transcript[i].round
    BY <1>1, ArtifactShows
  <2>2. QED
    BY <2>1, ArtifactGroups DEF Suite!RoundSummaries, ResultInvariant, OneSummary
<1>3. Suite!VerdictCloses(Artifact)
  BY <1>1, ArtifactShows, ArtifactGroups DEF Suite!VerdictCloses, ResultInvariant, VerdictIsLast
<1>4. QED
  BY <1>2, <1>3
\* Whom a speaker backs in the end.
Backed(a) == CurrentVotes(transcript)[a]

\* The votes the artifact shows, in terms of the last arguments.
LEMMA VotesShown ==
    ASSUME TypeOK, params.mode = "hybrid", status # "open"
    PROVE  /\ ViewVotes = {[agent |-> a, supports |-> Backed(a)] : a \in Speakers(transcript)}
           /\ IsFiniteSet(ViewVotes)
<1>1. transcript \in Seq(Message)
  BY DEF TypeOK, StoredTypes
<1>2. DOMAIN CurrentVotes(transcript) = Speakers(transcript)
  BY DEF CurrentVotes
<1>3. ViewVotes = {[agent |-> a, supports |-> Backed(a)] : a \in Speakers(transcript)}
  BY <1>2 DEF ViewVotes, Backed
<1>4. IsFiniteSet(Speakers(transcript))
  <2> DEFINE f == [i \in Arguments(transcript) |-> transcript[i].speaker]
  <2>1. IsFiniteSet(Arguments(transcript))
    <3>1. IsFiniteSet(1..Len(transcript)) /\ Arguments(transcript) \in SUBSET (1..Len(transcript))
      BY <1>1, FS_Interval DEF Arguments
    <3>2. QED
      BY <3>1, FS_Subset
  <2>2. f \in Surjection(Arguments(transcript), Speakers(transcript))
    <3>1. f \in [Arguments(transcript) -> Speakers(transcript)]
      BY DEF Speakers
    <3>2. \A a \in Speakers(transcript) : \E i \in Arguments(transcript) : f[i] = a
      BY DEF Speakers
    <3> HIDE DEF f
    <3>3. QED
      BY <3>1, <3>2, Fun_IsSurj
  <2> HIDE DEF f
  <2>3. QED
    BY <2>1, <2>2, FS_Surjection
<1>5. IsFiniteSet(ViewVotes)
  <2> DEFINE f == [a \in Speakers(transcript) |-> [agent |-> a, supports |-> Backed(a)]]
  <2>1. f \in [Speakers(transcript) -> ViewVotes]
    BY <1>3
  <2>2. \A v \in ViewVotes : \E a \in Speakers(transcript) : f[a] = v
    BY <1>3
  <2> HIDE DEF f
  <2>3. f \in Surjection(Speakers(transcript), ViewVotes)
    BY <2>1, <2>2, Fun_IsSurj
  <2>4. QED
    BY <1>4, <2>3, FS_Surjection
<1>6. QED
  BY <1>3, <1>5

\* The hybrid rule of the suite and that of the service agree.
LEMMA UnanimityShown ==
    ASSUME TypeOK, params.mode = "hybrid", status # "open"
    PROVE  Suite!Unanimous(ViewVotes) <=> VotesAgree
<1> DEFINE ballot(a) == [agent |-> a, supports |-> Backed(a)]
<1>1. ViewVotes = {ballot(a) : a \in Speakers(transcript)} /\ IsFiniteSet(ViewVotes)
  BY VotesShown
<1>2. /\ DOMAIN CurrentVotes(transcript) = Speakers(transcript)
      /\ \A a \in Speakers(transcript) : CurrentVotes(transcript)[a] = Backed(a)
  BY DEF CurrentVotes, Backed
<1>3. \A a : ballot(a).agent = a /\ ballot(a).supports = Backed(a)
  OBVIOUS
<1> HIDE DEF ballot
<1>4. Cardinality(ViewVotes) >= 2 <=> \E a, b \in Speakers(transcript) : a # b
  <2>1. (\E v, w \in ViewVotes : v # w) <=> \E a, b \in Speakers(transcript) : a # b
    BY <1>1, <1>3
  <2>2. QED
    BY <1>1, <2>1, TwoAtLeast
<1>5. (\A v, w \in ViewVotes : v.supports = w.supports)
         <=> \A a, b \in Speakers(transcript) : Backed(a) = Backed(b)
  BY <1>1, <1>3
<1>6. VotesAgree <=> /\ \E a, b \in Speakers(transcript) : a # b
                     /\ \A a, b \in Speakers(transcript) : Backed(a) = Backed(b)
  BY <1>2 DEF VotesAgree, Unanimity
<1>7. QED
  BY <1>4, <1>5, <1>6, SameCardinality DEF Suite!Unanimous

\* C8 and C9: verdicts and votes agree with the outcome.
LEMMA ConsensusConforms ==
    ASSUME TypeOK, ConsensusFits
    PROVE  Suite!ModeratorConsensus(Artifact) /\ Suite!HybridConsensus(Artifact)
<1>1. transcript \in Seq(Message) /\ consensus \in BOOLEAN
  BY DEF TypeOK, StoredTypes, RowTypes
<1>2. status = "concluded" => Suite!VerdictsAgree(Artifact)
  BY <1>1, ArtifactShows, ArtifactGroups DEF ConsensusFits, VerdictsSay, Suite!VerdictsAgree
<1>3. (params.mode = "hybrid" /\ status = "concluded") =>
         Suite!Unanimous(ViewVotes) = consensus
  <2>1. VotesAgree \in BOOLEAN /\ Suite!Unanimous(ViewVotes) \in BOOLEAN
    BY DEF VotesAgree, Unanimity, Suite!Unanimous
  <2>2. QED
    BY <1>1, <2>1, UnanimityShown DEF ConsensusFits
<1>4. QED
  BY <1>1, <1>2, <1>3, ArtifactShows DEF Suite!ModeratorConsensus, Suite!HybridConsensus

\* C10 and C11: the votes follow from the transcript.
LEMMA VotesConform ==
    ASSUME TypeOK, TurnInvariant, RecordsFit
    PROVE  Suite!VotesAreDerived(Artifact) /\ Suite!VotesAreAbsent(Artifact)
<1> DEFINE backs(i) == IF transcript[i].support = NoAgent THEN transcript[i].speaker
                                                         ELSE transcript[i].support
           own(a)  == {i \in Arguments(transcript) : transcript[i].speaker = a}
           last(i) == \A k \in Arguments(transcript) :
                         transcript[k].speaker = transcript[i].speaker => k <= i
<1>1. transcript \in Seq(Message) /\ Arguments(transcript) \subseteq Nat
  BY DEF TypeOK, StoredTypes, Arguments
<1>2. \A i \in Arguments(transcript) :
         /\ Artifact.transcript[i].speaker = transcript[i].speaker
         /\ Artifact.transcript[i].support = transcript[i].support
  BY <1>1, ArtifactShows DEF Arguments
<1>3. Suite!ExpectedVotes(Artifact) =
         {[agent |-> transcript[i].speaker, supports |-> backs(i)] :
             i \in {j \in Arguments(transcript) : last(j)}}
  <2>1. \A j \in Arguments(transcript) :
           (\A k \in Arguments(transcript) :
               Artifact.transcript[k].speaker = Artifact.transcript[j].speaker => k <= j)
           <=> last(j)
    BY <1>2
  <2>2. QED
    BY <1>2, <2>1, ArtifactGroups DEF Suite!ExpectedVotes
<1>4. ASSUME NEW a \in Speakers(transcript)
      PROVE  /\ Max(own(a)) \in own(a) /\ last(Max(own(a)))
             /\ Backed(a) = backs(Max(own(a)))
  <2>1. Max(own(a)) \in own(a) /\ \A i \in own(a) : i <= Max(own(a))
    BY <1>1, LastArgument
  <2>2. Backed(a) = backs(Max(own(a)))
    <3>1. transcript[Max(own(a))].speaker = a
      BY <2>1
    <3>2. QED
      BY <3>1 DEF Backed, CurrentVotes
  <2>3. QED
    BY <2>1, <2>2
<1>5. ASSUME NEW i \in Arguments(transcript), last(i)
      PROVE  transcript[i].speaker \in Speakers(transcript) /\ i = Max(own(transcript[i].speaker))
  <2> DEFINE a == transcript[i].speaker
             m == Max(own(a))
  <2>1. a \in Speakers(transcript)
    BY DEF Speakers
  <2>2. m \in own(a) /\ last(m)
    BY <1>4, <2>1
  <2>3. m <= i /\ i <= m /\ m \in Nat /\ i \in Nat
    BY <1>1, <1>5, <2>2
  <2>4. QED
    BY <2>1, <2>3
<1>6. ASSUME params.mode = "hybrid", status # "open"
      PROVE  ViewVotes = Suite!ExpectedVotes(Artifact)
  <2>1. ViewVotes = {[agent |-> a, supports |-> Backed(a)] : a \in Speakers(transcript)}
    BY <1>6, VotesShown
  <2>2. ASSUME NEW v \in ViewVotes
        PROVE  v \in Suite!ExpectedVotes(Artifact)
    <3>1. PICK a \in Speakers(transcript) : v = [agent |-> a, supports |-> Backed(a)]
      BY <2>1
    <3>2. /\ Max(own(a)) \in Arguments(transcript) /\ transcript[Max(own(a))].speaker = a
          /\ last(Max(own(a))) /\ Backed(a) = backs(Max(own(a)))
      BY <1>4
    <3> HIDE DEF backs, own, last
    <3>3. QED
      BY <1>3, <3>1, <3>2
  <2>3. ASSUME NEW v \in Suite!ExpectedVotes(Artifact)
        PROVE  v \in ViewVotes
    <3> HIDE DEF backs, last
    <3>1. PICK i \in Arguments(transcript) :
             /\ last(i) /\ v = [agent |-> transcript[i].speaker, supports |-> backs(i)]
      BY <1>3
    <3>2. /\ transcript[i].speaker \in Speakers(transcript)
          /\ Backed(transcript[i].speaker) = backs(i)
      BY <1>4, <1>5, <3>1
    <3>3. QED
      BY <2>1, <3>1, <3>2
  <2>4. QED
    BY <2>2, <2>3
<1>7. ASSUME params.mode = "hybrid", status # "open", NEW v \in ViewVotes
      PROVE  v.supports \in {b \in Agents : Participating(b)}
  <2>1. PICK a \in Speakers(transcript) : v = [agent |-> a, supports |-> Backed(a)]
    BY <1>7, VotesShown
  <2>2. PICK i \in Arguments(transcript) : Backed(a) = backs(i)
    BY <1>4
  <2>3. Participating(transcript[i].speaker)
    BY DEF TurnInvariant, SpeakersWereBefore
  <2>4. transcript[i].support = NoAgent \/ Participating(transcript[i].support)
    BY DEF RecordsFit, RecordFits, Arguments
  <2>5. \A b : Participating(b) => b \in Agents
    BY DEF Participating, TypeOK, StoredTypes
  <2>6. QED
    BY <2>1, <2>2, <2>3, <2>4, <2>5
<1>8. Suite!VotesAreDerived(Artifact)
  BY <1>1, <1>6, <1>7, ArtifactShows, ArtifactGroups DEF Suite!VotesAreDerived
<1>9. status = "preparing" => ViewVotes = {}
  <2>1. status = "preparing" => DOMAIN CurrentVotes(transcript) = {}
    BY DEF TurnInvariant, PhaseFits, CurrentVotes, Speakers, Arguments
  <2>2. QED
    BY <2>1 DEF ViewVotes
<1>10. Suite!VotesAreAbsent(Artifact)
  BY <1>1, <1>9, ArtifactShows, ArtifactGroups DEF Suite!VotesAreAbsent, ViewVotes
<1>11. QED
  BY <1>8, <1>10

\* C14: nothing is said before the start.
LEMMA StartConforms ==
    ASSUME TypeOK, TurnInvariant
    PROVE  Suite!EmptyBeforeStart(Artifact)
<1>1. transcript \in Seq(Message)
  BY DEF TypeOK, StoredTypes
<1>2. QED
  BY <1>1, ArtifactShows, ArtifactGroups DEF Suite!EmptyBeforeStart, TurnInvariant, PhaseFits

\* A debate has no more participants than it may, and the records of its transcript
\* name none but them (JoinDebate, PostArgument).
THEOREM RecordsFitHolds ==
    ASSUME PromptLaunch, PromptSweep, "turn" \notin Faulty
    PROVE  Spec => []RecordsFit
<1>1. Init => RecordsFit
  BY CourtAssumption DEF Init, RecordsFit
<1>2. /\ TypeOK /\ PassInvariant /\ TurnInvariant /\ RecordsFit /\ [Next]_vars
      => RecordsFit'
  BY RecordsFitStep
<1>3. QED
  BY <1>1, <1>2, TypesHold, PassInvariantHolds, TurnInvariantHolds, PTL DEF Spec

\* A stored verdict, the pass that takes it up and the row agree on the consensus
\* (concludeModeration, UpdateDebate).
THEOREM ConsensusFitsHolds ==
    ASSUME PromptLaunch, PromptSweep, "turn" \notin Faulty
    PROVE  Spec => []ConsensusFits
<1>1. Init => ConsensusFits
  BY DEF Init, ConsensusFits, VerdictsSay, PassAgrees, HoldsReading
<1>2. /\ TypeOK /\ PassInvariant /\ ResultInvariant /\ NoticeInvariant /\ TurnInvariant
      /\ ConsensusFits /\ [Next]_vars
      => ConsensusFits'
  BY ConsensusFitsStep
<1>3. QED
  BY <1>1, <1>2, TypesHold, PassInvariantHolds, ResultInvariantHolds, NoticeInvariantHolds,
     TurnInvariantHolds, PTL DEF Spec

\* Whatever state a debate is in, what the service exports of it (ExportSnapshot,
\* Stream) breaks none of the rules C1 to C11 and C14 of its own conformance suite.
THEOREM ExportConformsHolds ==
    ASSUME PromptLaunch, PromptSweep, "turn" \notin Faulty
    PROVE  Spec => []ExportConforms
<1>1. /\ TypeOK /\ ResultInvariant /\ TurnInvariant /\ RoundsMoveForward /\ RecordsFit
      /\ ConsensusFits
      => ExportConforms
  BY ParticipantsConform, IdentitiesConform, TurnsConform, RoundsConform, ResultsConform,
     ConsensusConforms, VotesConform, StartConforms
     DEF ExportConforms, Artifact, Suite!Conforms
<1>2. QED
  BY <1>1, TypesHold, ResultInvariantHolds, TurnInvariantHolds, RoundsMoveForwardHolds,
     RecordsFitHolds, ConsensusFitsHolds, PTL
===============================================================================
