------------------------------ MODULE TurnProofs ------------------------------
(***************************************************************************)
(* Turns and rounds are in order, for any number of agents, rounds, passes,*)
(* failures of the store other than that of a turn, and process deaths.    *)
(*                                                                         *)
(* The argument has two halves.  The first (StepHasEffect) says what any   *)
(* step of the system can do to the row, the roster and the transcript:    *)
(* one of ten effects, whatever handler, sweep or pass takes it.  The      *)
(* second looks at the effects only: each keeps TurnInvariant, and each is *)
(* a step of DebateProtocol or leaves it as it is (module ProtocolProofs). *)
(***************************************************************************)
EXTENDS CourtProofs, SequenceTheorems

-------------------------------------------------------------------------------
(* The effects *)

\* A step leaves the row and the seats of the debate.
SameDebate == UNCHANGED <<status, round, turn, consensus, params, roster>>

\* Records of the current round that are no arguments.
OnlyNotes(recs) == \A i \in DOMAIN recs : recs[i].round = round /\ recs[i].kind # "argument"

\* A step outside the debate.
Rests == SameDebate /\ UNCHANGED transcript

\* A pass writes records in the round it moderates.
Notes ==
    /\ SameDebate /\ status = "moderating"
    /\ \E recs \in Seq(Message) : OnlyNotes(recs) /\ transcript' = transcript \o recs

\* CreateDebate.
Creates ==
    /\ status = "none" /\ status' = "open"
    /\ params'.rounds \in RoundCounts /\ roster' \in {<<>>, <<Creator>>}
    /\ UNCHANGED <<round, turn, consensus, transcript>>

\* JoinDebate.
Joins ==
    /\ status = "open" /\ Len(roster) < MaxParticipants
    /\ \E agent \in Agents : ~Participating(agent) /\ roster' = Append(roster, agent)
    /\ UNCHANGED <<status, round, turn, consensus, params, transcript>>

\* StartDebate with a preparation.
Prepares ==
    /\ status = "open" /\ Len(roster) >= MinimumToStart
    /\ status' = "preparing" /\ turn' = NoAgent /\ consensus' = FALSE
    /\ UNCHANGED <<round, params, roster, transcript>>

\* The first turn opens: by StartDebate, by everybody ready, or by the sweep.
Begins ==
    /\ status \in {"open", "preparing"} /\ Len(roster) >= MinimumToStart
    /\ status' = "running" /\ round' = 1 /\ turn' = roster[1] /\ consensus' = FALSE
    /\ UNCHANGED <<params, roster, transcript>>

\* A reply or a skip is stored and the turn moves on, or the round closes.
TurnMoves ==
    /\ status = "running"
    /\ \E m \in Message :
          /\ m.round = round /\ m.kind \in {"argument", "system"}
          /\ m.kind = "argument" => m.speaker = turn
          /\ transcript' = Append(transcript, m)
    /\ IF Position(turn) < Len(roster)
       THEN status' = status /\ turn' = roster[Position(turn) + 1]
       ELSE status' = "moderating" /\ turn' = NoAgent
    /\ consensus' = FALSE
    /\ UNCHANGED <<round, params, roster>>

\* A pass that found no consensus opens the next round.
OpensRound ==
    /\ status = "moderating" /\ round < params.rounds
    /\ status' = "running" /\ round' = round + 1 /\ turn' = roster[1] /\ consensus' = FALSE
    /\ UNCHANGED <<params, roster, transcript>>

\* A pass ends the debate.
Concludes ==
    /\ status = "moderating" /\ status' = "concluded" /\ turn' = NoAgent
    /\ consensus' \in BOOLEAN
    /\ \E recs \in Seq(Message) : OnlyNotes(recs) /\ transcript' = transcript \o recs
    /\ UNCHANGED <<round, params, roster>>

\* DeleteDebate.
Deletes ==
    /\ Exists /\ status' = "deleted" /\ round' = 0 /\ turn' = NoAgent /\ consensus' = FALSE
    /\ roster' = <<>> /\ transcript' = <<>>
    /\ UNCHANGED params

\* What a step of the program may do to the debate.
Effect ==
    \/ Rests \/ Notes \/ Creates \/ Joins \/ Prepares \/ Begins \/ TurnMoves
    \/ OpensRound \/ Concludes \/ Deletes

-------------------------------------------------------------------------------
(* Rosters and transcripts *)

\* Who joined once is found where it is.
LEMMA PositionIs ==
    ASSUME JoinedOnce, NEW i \in DOMAIN roster
    PROVE  Position(roster[i]) = i
BY DEF JoinedOnce, Position

\* A participant has a position.
LEMMA ParticipantHasPosition ==
    ASSUME NEW agent, Participating(agent)
    PROVE  Position(agent) \in DOMAIN roster /\ roster[Position(agent)] = agent
BY DEF Participating, Position

\* The turn order is read off the roster alone.
LEMMA SameRoster ==
    ASSUME roster' = roster, NEW agent
    PROVE  Position(agent)' = Position(agent) /\ Participating(agent)' = Participating(agent)
BY DEF Position, Participating

\* Notes lengthen the transcript and bring no argument.
LEMMA NotesAreNoArguments ==
    ASSUME transcript \in Seq(Message), NEW recs \in Seq(Message), OnlyNotes(recs),
           transcript' = transcript \o recs
    PROVE  /\ Arguments(transcript)' = Arguments(transcript)
           /\ DOMAIN transcript \subseteq DOMAIN transcript'
           /\ DOMAIN transcript \subseteq Nat /\ DOMAIN transcript' \subseteq Nat
           /\ \A i \in DOMAIN transcript : transcript'[i] = transcript[i]
           /\ \A i \in DOMAIN transcript' \ DOMAIN transcript :
                 /\ transcript'[i].round = round
                 /\ \A j \in DOMAIN transcript : j < i
<1> DEFINE n == Len(transcript)
<1>1. /\ DOMAIN transcript = 1..n /\ n \in Nat
      /\ DOMAIN recs = 1..Len(recs) /\ Len(recs) \in Nat
      /\ DOMAIN (transcript \o recs) = 1..(n + Len(recs))
      /\ \A i \in 1..(n + Len(recs)) :
            (transcript \o recs)[i] = IF i <= n THEN transcript[i] ELSE recs[i - n]
  BY ConcatProperties
<1>2. \A i \in 1..n : transcript'[i] = transcript[i]
  BY <1>1
<1>3. \A i \in (1..(n + Len(recs))) \ (1..n) :
          /\ i - n \in DOMAIN recs
          /\ transcript'[i] = recs[i - n]
          /\ \A j \in 1..n : j < i
  BY <1>1
<1>4. \A i \in (1..(n + Len(recs))) \ (1..n) :
          transcript'[i].round = round /\ transcript'[i].kind # "argument"
  BY <1>3 DEF OnlyNotes
<1>5. DOMAIN transcript' = 1..(n + Len(recs)) /\ 1..n \subseteq 1..(n + Len(recs))
  BY <1>1
<1> HIDE DEF n
<1>6. Arguments(transcript)' = Arguments(transcript)
  BY <1>1, <1>2, <1>4, <1>5 DEF Arguments
<1>7. QED
  BY <1>1, <1>2, <1>3, <1>4, <1>5, <1>6

\* One record more.
LEMMA OneMore ==
    ASSUME transcript \in Seq(Message), NEW m \in Message, transcript' = Append(transcript, m)
    PROVE  /\ DOMAIN transcript = 1..Len(transcript) /\ Len(transcript) \in Nat
           /\ DOMAIN transcript' = 1..(Len(transcript) + 1)
           /\ \A i \in DOMAIN transcript : transcript'[i] = transcript[i]
           /\ transcript'[Len(transcript) + 1] = m
           /\ Arguments(transcript)' \subseteq Arguments(transcript) \cup {Len(transcript) + 1}
           /\ Len(transcript) + 1 \in Arguments(transcript)' <=> m.kind = "argument"
<1>1. /\ DOMAIN transcript = 1..Len(transcript) /\ Len(transcript) \in Nat
      /\ DOMAIN transcript' = 1..(Len(transcript) + 1)
      /\ \A i \in DOMAIN transcript : transcript'[i] = transcript[i]
      /\ transcript'[Len(transcript) + 1] = m
  BY AppendProperties
<1>2. QED
  BY <1>1 DEF Arguments

-------------------------------------------------------------------------------
(* Effects keep the order *)

\* What TurnInvariant says of the stored debate.
DebateInOrder ==
    PhaseFits /\ JoinedOnce /\ RecordsInOrder /\ TurnOrder /\ SpeakersWereBefore

\* With the same arguments, roster and phase, the order of turns is the same.
LEMMA SameArguments ==
    ASSUME TurnOrder, SpeakersWereBefore, roster' = roster,
           Arguments(transcript)' = Arguments(transcript),
           \A i \in Arguments(transcript) : transcript'[i] = transcript[i],
           status' = "running" => status = "running" /\ round' = round /\ turn' = turn
    PROVE  TurnOrder' /\ SpeakersWereBefore'
<1>1. \A agent : Position(agent)' = Position(agent) /\ Participating(agent)' = Participating(agent)
  BY SameRoster
<1>2. TurnOrder'
  BY <1>1 DEF TurnOrder
<1>3. SpeakersWereBefore'
  BY <1>1 DEF SpeakersWereBefore
<1>4. QED
  BY <1>2, <1>3

\* Without a record there is no order to keep.
LEMMA NoRecords ==
    ASSUME transcript' = <<>>
    PROVE  RecordsInOrder' /\ TurnOrder' /\ SpeakersWereBefore'
<1>1. DOMAIN transcript' = {} /\ Arguments(transcript)' = {}
  BY DEF Arguments
<1>2. QED
  BY <1>1 DEF RecordsInOrder, TurnOrder, SpeakersWereBefore

\* A step outside the debate keeps it in order.
LEMMA RestsKeeps ==
    ASSUME DebateInOrder, Rests
    PROVE  DebateInOrder'
<1>1. TurnOrder' /\ SpeakersWereBefore'
  BY SameArguments DEF DebateInOrder, Rests, SameDebate, Arguments
<1>2. PhaseFits' /\ JoinedOnce' /\ RecordsInOrder'
  BY DEF DebateInOrder, Rests, SameDebate, PhaseFits, JoinedOnce, RecordsInOrder, Participating
<1>3. QED
  BY <1>1, <1>2 DEF DebateInOrder

\* Records of a pass, with or without the end of the debate, keep it in order.
LEMMA NotesKeep ==
    ASSUME TypeOK, DebateInOrder, status = "moderating",
           NEW recs \in Seq(Message), OnlyNotes(recs), transcript' = transcript \o recs,
           UNCHANGED <<round, params, roster>>, turn' = NoAgent,
           \/ status' = "moderating" /\ consensus' = FALSE
           \/ status' = "concluded" /\ consensus' \in BOOLEAN
    PROVE  DebateInOrder'
<1>1. transcript \in Seq(Message) /\ round \in Nat
  BY DEF TypeOK, StoredTypes, RowTypes
<1>2. /\ Arguments(transcript)' = Arguments(transcript)
      /\ DOMAIN transcript \subseteq DOMAIN transcript'
      /\ DOMAIN transcript \subseteq Nat /\ DOMAIN transcript' \subseteq Nat
      /\ \A i \in DOMAIN transcript : transcript'[i] = transcript[i]
      /\ \A i \in DOMAIN transcript' \ DOMAIN transcript :
            /\ transcript'[i].round = round
            /\ \A j \in DOMAIN transcript : j < i
  BY <1>1, NotesAreNoArguments
<1>3. TurnOrder' /\ SpeakersWereBefore'
  BY <1>2, SameArguments DEF DebateInOrder, Arguments
<1>4. round \in 1..params.rounds
  BY DEF DebateInOrder, PhaseFits
<1>5. RecordsInOrder'
  <2> SUFFICES ASSUME NEW i \in DOMAIN transcript'
               PROVE  /\ transcript'[i].round \in 1..round
                      /\ \A j \in DOMAIN transcript' :
                            i < j => transcript'[i].round <= transcript'[j].round
    BY DEF RecordsInOrder
  <2>1. \A k \in DOMAIN transcript' : transcript'[k].round \in 1..round
    BY <1>1, <1>2, <1>4 DEF DebateInOrder, RecordsInOrder
  <2>2. ASSUME NEW j \in DOMAIN transcript', i < j
        PROVE  transcript'[i].round <= transcript'[j].round
    <3>1. CASE j \in DOMAIN transcript
      BY <1>2, <2>2, <3>1 DEF DebateInOrder, RecordsInOrder
    <3>2. CASE j \notin DOMAIN transcript
      BY <1>1, <1>2, <2>1, <3>2
    <3>3. QED
      BY <3>1, <3>2
  <2>3. QED
    BY <2>1, <2>2
<1>6. PhaseFits' /\ JoinedOnce'
  BY DEF DebateInOrder, PhaseFits, JoinedOnce, Participating
<1>7. QED
  BY <1>3, <1>5, <1>6 DEF DebateInOrder

\* Before the start there is nothing to keep in order but the roster.
LEMMA CreatesKeeps ==
    ASSUME TypeOK, DebateInOrder, Creates
    PROVE  DebateInOrder'
<1>1. transcript' = <<>>
  BY DEF Creates, DebateInOrder, PhaseFits
<1>2. PhaseFits'
  BY DEF Creates, DebateInOrder, PhaseFits, Participating
<1>3. JoinedOnce'
  BY DEF Creates, JoinedOnce
<1>4. QED
  BY <1>1, <1>2, <1>3, NoRecords DEF DebateInOrder

\* A new participant keeps the debate in order.
LEMMA JoinsKeeps ==
    ASSUME TypeOK, DebateInOrder, Joins
    PROVE  DebateInOrder'
<1>1. transcript' = <<>>
  BY DEF Joins, DebateInOrder, PhaseFits
<1>2. PhaseFits'
  BY DEF Joins, DebateInOrder, PhaseFits
<1>3. JoinedOnce'
  <2>1. PICK agent \in Agents : ~Participating(agent) /\ roster' = Append(roster, agent)
    BY DEF Joins
  <2>2. roster \in Seq(Agents)
    BY DEF TypeOK, StoredTypes
  <2>3. /\ DOMAIN roster = 1..Len(roster) /\ Len(roster) \in Nat
        /\ DOMAIN roster' = 1..(Len(roster) + 1)
        /\ \A i \in DOMAIN roster : roster'[i] = roster[i]
        /\ roster'[Len(roster) + 1] = agent
    BY <2>1, <2>2, AppendProperties
  <2>4. \A i \in DOMAIN roster' : i \in DOMAIN roster \/ i = Len(roster) + 1
    BY <2>3
  <2>5. \A i \in DOMAIN roster : roster[i] # agent
    BY <2>1 DEF Participating
  <2>6. QED
    BY <2>3, <2>4, <2>5 DEF DebateInOrder, JoinedOnce
<1>4. QED
  BY <1>1, <1>2, <1>3, NoRecords DEF DebateInOrder

\* A start keeps the debate in order.
LEMMA StartsKeep ==
    ASSUME TypeOK, DebateInOrder, Prepares \/ Begins
    PROVE  DebateInOrder'
<1>1. transcript' = <<>>
  BY DEF Prepares, Begins, DebateInOrder, PhaseFits
<1>2. JoinedOnce'
  BY DEF Prepares, Begins, DebateInOrder, JoinedOnce
<1>3. CASE Prepares
  <2>1. PhaseFits'
    BY <1>3 DEF Prepares, DebateInOrder, PhaseFits
  <2>2. QED
    BY <1>1, <1>2, <2>1, NoRecords DEF DebateInOrder
<1>4. CASE Begins
  <2> DEFINE n == params.rounds
  <2>0. n \in RoundCounts
    BY <1>4 DEF Begins, DebateInOrder, PhaseFits
  <2> HIDE DEF n
  <2>1. n \in Nat \ {0}
    BY <2>0, CourtAssumption
  <2>1a. 1 \in 1..n
    BY <2>1
  <2> USE DEF n
  <2>2. roster \in Seq(Agents) /\ Len(roster) >= 2
    BY <1>4 DEF Begins, MinimumToStart, TypeOK, StoredTypes
  <2>3. 1 \in DOMAIN roster
    BY <2>2
  <2>4. Participating(turn)'
    BY <1>4, <2>3 DEF Begins, Participating
  <2>5. PhaseFits'
    BY <1>4, <2>1a, <2>4 DEF Begins, DebateInOrder, PhaseFits
  <2>6. QED
    BY <1>1, <1>2, <2>5, NoRecords DEF DebateInOrder
<1>5. QED
  BY <1>3, <1>4

\* Where the turn is after it has moved.
LEMMA TurnAfter ==
    ASSUME TypeOK, DebateInOrder, TurnMoves
    PROVE  \/ status' = "running" /\ Position(turn)' = Position(turn) + 1 /\ Participating(turn)'
           \/ status' = "moderating" /\ turn' = NoAgent
<1> DEFINE k == Position(turn)
<1>2. roster \in Seq(Agents)
  BY DEF TypeOK, StoredTypes
<1>4. Participating(turn) /\ status = "running"
  BY DEF TurnMoves, DebateInOrder, PhaseFits
<1>5. k \in DOMAIN roster /\ roster[k] = turn
  BY <1>4, ParticipantHasPosition
<1>6. DOMAIN roster = 1..Len(roster) /\ Len(roster) \in Nat
  BY <1>2
<1>7. roster' = roster
  BY DEF TurnMoves
<1>8. \A agent : Position(agent)' = Position(agent) /\ Participating(agent)' = Participating(agent)
  BY <1>7, SameRoster
<1>11. CASE k < Len(roster)
  <2>1. status' = "running" /\ turn' = roster[k + 1]
    BY <1>4, <1>11 DEF TurnMoves
  <2>2. k + 1 \in DOMAIN roster
    BY <1>5, <1>6, <1>11
  <2>3. Position(turn') = k + 1
    BY <2>1, <2>2, PositionIs DEF DebateInOrder
  <2>4. Position(turn)' = k + 1
    BY <1>8, <2>3
  <2>5. Participating(turn')
    BY <2>1, <2>2 DEF Participating
  <2>6. Participating(turn)'
    BY <1>7, <2>5 DEF Participating
  <2>7. QED
    BY <2>1, <2>4, <2>6
<1>12. CASE ~(k < Len(roster))
  <2>1. status' = "moderating" /\ turn' = NoAgent
    BY <1>12 DEF TurnMoves
  <2>2. QED
    BY <2>1
<1>13. QED
  BY <1>11, <1>12

\* A reply or a skip keeps the debate in order.
LEMMA TurnMovesKeeps ==
    ASSUME TypeOK, DebateInOrder, TurnMoves
    PROVE  DebateInOrder'
<1> DEFINE n == Len(transcript)
           k == Position(turn)
<1>1. PICK m \in Message :
        /\ m.round = round /\ m.kind \in {"argument", "system"}
        /\ m.kind = "argument" => m.speaker = turn
        /\ transcript' = Append(transcript, m)
  BY DEF TurnMoves
<1>2. transcript \in Seq(Message) /\ roster \in Seq(Agents) /\ round \in Nat
  BY DEF TypeOK, StoredTypes, RowTypes
<1>3. /\ DOMAIN transcript = 1..n /\ n \in Nat
      /\ DOMAIN transcript' = 1..(n + 1)
      /\ \A i \in DOMAIN transcript : transcript'[i] = transcript[i]
      /\ transcript'[n + 1] = m
      /\ Arguments(transcript)' \subseteq Arguments(transcript) \cup {n + 1}
      /\ n + 1 \in Arguments(transcript)' <=> m.kind = "argument"
  BY <1>1, <1>2, OneMore
<1>4. Participating(turn) /\ status = "running"
  BY DEF TurnMoves, DebateInOrder, PhaseFits
<1>5. k \in DOMAIN roster /\ roster[k] = turn
  BY <1>4, ParticipantHasPosition
<1>6. DOMAIN roster = 1..Len(roster) /\ Len(roster) \in Nat
  BY <1>2
<1>7. roster' = roster /\ params' = params /\ round' = round /\ consensus' = FALSE
  BY DEF TurnMoves
<1>8. \A agent : Position(agent)' = Position(agent) /\ Participating(agent)' = Participating(agent)
  BY <1>7, SameRoster
<1>9. \A i \in Arguments(transcript) :
          /\ i \in 1..n /\ transcript'[i] = transcript[i]
          /\ Participating(transcript[i].speaker)
          /\ Position(transcript[i].speaker) \in Nat
          /\ transcript[i].round = round => Position(transcript[i].speaker) < k
  <2>1. \A i \in Arguments(transcript) : i \in 1..n /\ transcript'[i] = transcript[i]
    BY <1>3 DEF Arguments
  <2>2. \A i \in Arguments(transcript) :
            /\ Participating(transcript[i].speaker)
            /\ transcript[i].round = round => Position(transcript[i].speaker) < k
    BY <1>4 DEF DebateInOrder, SpeakersWereBefore
  <2>3. \A i \in Arguments(transcript) : Position(transcript[i].speaker) \in DOMAIN roster
    BY <2>2, ParticipantHasPosition
  <2>4. QED
    BY <1>6, <2>1, <2>2, <2>3
<1>10. /\ \A i \in Arguments(transcript)' : i \in Arguments(transcript) \/ i = n + 1
       /\ n + 1 \in Arguments(transcript)' =>
             transcript'[n + 1].speaker = turn /\ transcript'[n + 1].round = round
  BY <1>1, <1>3
<1>11. TurnOrder'
  <2> SUFFICES ASSUME NEW i \in Arguments(transcript)', NEW j \in Arguments(transcript)',
                      i < j, transcript'[i].round = transcript'[j].round
               PROVE  Position(transcript'[i].speaker) < Position(transcript'[j].speaker)
    BY <1>8 DEF TurnOrder
  <2>1. CASE i \in Arguments(transcript) /\ j \in Arguments(transcript)
    BY <1>9, <2>1 DEF DebateInOrder, TurnOrder
  <2>2. CASE i \in Arguments(transcript) /\ j = n + 1
    BY <1>9, <1>10, <2>2
  <2>3. CASE i = n + 1
    BY <1>3, <1>9, <1>10, <2>3
  <2>4. QED
    BY <1>10, <2>1, <2>2, <2>3
<1>12. SpeakersWereBefore'
  <2> SUFFICES ASSUME NEW i \in Arguments(transcript)'
               PROVE  /\ Participating(transcript'[i].speaker)
                      /\ (status' = "running" /\ transcript'[i].round = round)
                            => Position(transcript'[i].speaker) < Position(turn)'
    BY <1>7, <1>8 DEF SpeakersWereBefore
  <2>1. status' = "running" => Position(turn)' = k + 1 /\ k \in Nat
    BY <1>5, <1>6, TurnAfter
  <2>2. CASE i \in Arguments(transcript)
    BY <1>9, <2>1, <2>2
  <2>3. CASE i = n + 1
    BY <1>4, <1>10, <2>1, <2>3
  <2>4. QED
    BY <1>10, <2>2, <2>3
<1>13. round \in 1..params.rounds
  BY <1>4 DEF DebateInOrder, PhaseFits
<1>14. RecordsInOrder'
  <2> SUFFICES ASSUME NEW i \in 1..(n + 1)
               PROVE  /\ transcript'[i].round \in 1..round
                      /\ \A j \in 1..(n + 1) :
                            i < j => transcript'[i].round <= transcript'[j].round
    BY <1>3, <1>7 DEF RecordsInOrder
  <2>1. \A j \in 1..n : transcript'[j].round \in 1..round
    BY <1>3 DEF DebateInOrder, RecordsInOrder
  <2>2. transcript'[n + 1].round = round
    BY <1>1, <1>3
  <2>3. transcript'[i].round \in 1..round
    BY <1>2, <1>3, <1>13, <2>1, <2>2
  <2>4. ASSUME NEW j \in 1..(n + 1), i < j
        PROVE  transcript'[i].round <= transcript'[j].round
    <3>1. CASE j \in 1..n
      BY <1>3, <2>4, <3>1 DEF DebateInOrder, RecordsInOrder
    <3>2. CASE j = n + 1
      BY <1>2, <2>2, <2>3, <3>2
    <3>3. QED
      BY <1>3, <3>1, <3>2
  <2>5. QED
    BY <2>3, <2>4
<1>15. PhaseFits'
  <2>1. Len(roster) >= MinimumToStart
    BY <1>4 DEF DebateInOrder, PhaseFits
  <2>2. params.rounds \in RoundCounts
    BY <1>4 DEF DebateInOrder, PhaseFits
  <2>3. QED
    BY <1>7, <1>13, <2>1, <2>2, TurnAfter DEF PhaseFits
<1>16. JoinedOnce'
  BY <1>7 DEF DebateInOrder, JoinedOnce
<1>17. QED
  BY <1>11, <1>12, <1>14, <1>15, <1>16 DEF DebateInOrder

\* A new round keeps the debate in order.
LEMMA OpensRoundKeeps ==
    ASSUME TypeOK, DebateInOrder, OpensRound
    PROVE  DebateInOrder'
<1>1. roster \in Seq(Agents) /\ Len(roster) >= 2 /\ round \in Nat
  BY DEF OpensRound, DebateInOrder, PhaseFits, MinimumToStart, TypeOK, StoredTypes, RowTypes
<1>2. 1 \in DOMAIN roster
  BY <1>1
<1>3. Participating(turn)'
  BY <1>2 DEF OpensRound, Participating
<1>4. /\ round' = round + 1 /\ transcript' = transcript /\ roster' = roster
      /\ params' = params /\ status' = "running" /\ consensus' = FALSE
  BY DEF OpensRound
<1>5. round + 1 \in 1..params.rounds
  BY <1>1 DEF OpensRound, TypeOK, StoredTypes
<1>6. PhaseFits'
  BY <1>3, <1>4, <1>5 DEF OpensRound, DebateInOrder, PhaseFits
<1>7. \A i \in DOMAIN transcript : transcript[i].round \in 1..round
  BY DEF DebateInOrder, RecordsInOrder
<1>8. RecordsInOrder'
  BY <1>1, <1>4, <1>7 DEF DebateInOrder, RecordsInOrder
<1>9. \A agent : Position(agent)' = Position(agent) /\ Participating(agent)' = Participating(agent)
  BY <1>4, SameRoster
<1>10. Arguments(transcript)' = Arguments(transcript) /\ Arguments(transcript) \subseteq DOMAIN transcript
  BY <1>4 DEF Arguments
<1>11. TurnOrder'
  BY <1>4, <1>9, <1>10 DEF DebateInOrder, TurnOrder
<1>12. \A i \in Arguments(transcript) : transcript[i].round # round + 1
  BY <1>1, <1>7, <1>10
<1>13. SpeakersWereBefore'
  BY <1>4, <1>9, <1>10, <1>12 DEF DebateInOrder, SpeakersWereBefore
<1>14. JoinedOnce'
  BY <1>4 DEF DebateInOrder, JoinedOnce
<1>15. QED
  BY <1>6, <1>8, <1>11, <1>13, <1>14 DEF DebateInOrder

\* A deletion leaves a debate in order.
LEMMA DeletesKeeps ==
    ASSUME TypeOK, DebateInOrder, Deletes
    PROVE  DebateInOrder'
<1>1. PhaseFits' /\ JoinedOnce'
  BY DEF Deletes, Exists, DebateInOrder, PhaseFits, JoinedOnce
<1>2. QED
  BY <1>1, NoRecords DEF Deletes, DebateInOrder

\* Every effect keeps turns and rounds in order.
LEMMA EffectKeepsOrder ==
    ASSUME TypeOK, DebateInOrder, Effect
    PROVE  DebateInOrder'
<1>1. CASE Notes
  <2>1. turn = NoAgent /\ consensus = FALSE
    BY <1>1 DEF Notes, DebateInOrder, PhaseFits, TypeOK, StoredTypes, RowTypes
  <2>2. QED
    BY <1>1, <2>1, NotesKeep DEF Notes, SameDebate
<1>2. CASE Concludes
  BY <1>2, NotesKeep DEF Concludes
<1>3. QED
  BY <1>1, <1>2, RestsKeeps, CreatesKeeps, JoinsKeeps, StartsKeep, TurnMovesKeeps,
     OpensRoundKeeps, DeletesKeeps DEF Effect

-------------------------------------------------------------------------------
(* What each step does to the stored debate *)

\* A store that keeps the turn moves it to the next participant or closes the round.
LEMMA AdvanceTurnMoves ==
    ASSUME TypeOK, DebateInOrder, "turn" \notin Faulty, status = "running",
           AdvanceTurnOrFail, UNCHANGED <<params, roster>>,
           NEW m \in Message, m.round = round, m.kind \in {"argument", "system"},
           m.kind = "argument" => m.speaker = turn, transcript' = Append(transcript, m)
    PROVE  TurnMoves
<1> DEFINE k == Position(turn)
<1>1. AdvanceTurn /\ Exists
  BY DEF AdvanceTurnOrFail, Fails, Exists
<1>2. Participating(turn)
  BY DEF DebateInOrder, PhaseFits
<1>3. k \in DOMAIN roster /\ roster[k] = turn /\ roster \in Seq(Agents)
  BY <1>2, ParticipantHasPosition DEF TypeOK, StoredTypes
<1>4. DOMAIN roster = 1..Len(roster) /\ Len(roster) \in Nat
  BY <1>3
<1>5. \A i \in HasNext(roster, turn) : i = k /\ k < Len(roster)
  BY <1>3, <1>4, PositionIs DEF HasNext, DebateInOrder
<1>6. k < Len(roster) => k \in HasNext(roster, turn)
  BY <1>3, <1>4 DEF HasNext
<1>7. CASE HasNext(roster, turn) # {}
  <2>1. (CHOOSE i \in HasNext(roster, turn) : TRUE) = k /\ k < Len(roster)
    BY <1>5, <1>7
  <2>2. UpdateDebate("running", round, roster[k + 1], FALSE)
    BY <1>1, <1>7, <2>1 DEF AdvanceTurn
  <2>3. QED
    BY <1>1, <2>1, <2>2 DEF UpdateDebate, TurnMoves
<1>8. CASE HasNext(roster, turn) = {}
  <2>1. ~(k < Len(roster))
    BY <1>6, <1>8
  <2>2. UpdateDebate("moderating", round, NoAgent, FALSE)
    BY <1>1, <1>8 DEF AdvanceTurn
  <2>3. QED
    BY <1>1, <2>1, <2>2 DEF UpdateDebate, TurnMoves
<1>9. QED
  BY <1>7, <1>8

\* What clients do is one of the effects.
LEMMA ClientsHaveEffect ==
    ASSUME TypeOK, DebateInOrder, PassInvariant, "turn" \notin Faulty, Clients
    PROVE  Effect
<1>1. ASSUME NEW mode \in AllowedModes, NEW rounds \in RoundCounts, NEW prep \in PrepTimes,
             NEW observer \in BOOLEAN, CreateDebate(mode, rounds, prep, observer)
      PROVE  Effect
  <2>1. params'.rounds = rounds
    BY <1>1 DEF CreateDebate
  <2>2. Creates
    BY <1>1, <2>1 DEF CreateDebate, Creates
  <2>3. QED
    BY <2>2 DEF Effect
<1>2. ASSUME NEW agent \in Agents, JoinDebate(agent) PROVE Effect
  BY <1>2 DEF JoinDebate, row, Joins, Effect
<1>3. CASE StartDebate
  BY <1>3 DEF StartDebate, BeginFirstRound, UpdateDebate, Exists, Prepares, Begins, Effect
<1>4. ASSUME NEW agent \in Agents, NEW support \in Supports, PostArgument(agent, support)
      PROVE  Effect
  <2> DEFINE m == Argument(round, agent, support)
  <2>1. round \in Nat /\ support \in Agents \cup {NoAgent}
    BY CourtAssumption DEF TypeOK, StoredTypes, RowTypes
  <2>2. m \in Message
    BY <2>1 DEF Argument, Message
  <2>3. m.round = round /\ m.kind = "argument" /\ m.speaker = agent
    BY DEF Argument
  <2>4. /\ status = "running" /\ turn = agent /\ AdvanceTurnOrFail
        /\ transcript' = Append(transcript, m) /\ UNCHANGED <<params, roster>>
    BY <1>4 DEF PostArgument, HasTurn
  <2> HIDE DEF m
  <2>5. QED
    BY <2>2, <2>3, <2>4, AdvanceTurnMoves DEF Effect
<1>5. CASE DeleteDebate
  BY <1>5 DEF DeleteDebate, Deletes, Effect
<1>6. QED
  BY <1>1, <1>2, <1>3, <1>4, <1>5 DEF Clients

\* What the sweep does is one of the effects.
LEMMA TickerHasEffect ==
    ASSUME TypeOK, DebateInOrder, "turn" \notin Faulty, Ticker
    PROVE  Effect
<1>1. CASE SweepReads \/ SweepResumes \/ SweepForgets
  BY <1>1 DEF SweepReads, SweepResumes, SweepForgets, stored, row, Rests, SameDebate, Effect
<1>2. CASE ExpireTurns
  <2>0. params' = params /\ roster' = roster
    BY <1>2 DEF ExpireTurns
  <2>1. CASE PreparationIsOver /\ BeginFirstRound /\ UNCHANGED transcript
    <3>1. Len(roster) >= MinimumToStart /\ status = "preparing"
      BY <2>1 DEF PreparationIsOver, DebateInOrder, PhaseFits
    <3>2. Begins
      BY <2>0, <2>1, <3>1 DEF BeginFirstRound, UpdateDebate, Exists, Begins
    <3>3. QED
      BY <3>2 DEF Effect
  <2>2. CASE /\ TurnIsOver /\ AdvanceTurnOrFail
             /\ transcript' = Append(transcript, SystemMessage(round, TurnSkipped))
    <3> DEFINE m == SystemMessage(round, TurnSkipped)
    <3>1. m \in Message
      BY DEF SystemMessage, Message, TypeOK, StoredTypes, RowTypes
    <3>2. m.round = round /\ m.kind = "system"
      BY DEF SystemMessage
    <3>3. status = "running" /\ transcript' = Append(transcript, m)
      BY <2>2 DEF TurnIsOver
    <3> HIDE DEF m
    <3>4. QED
      BY <2>0, <2>2, <3>1, <3>2, <3>3, AdvanceTurnMoves DEF Effect
  <2>3. CASE UNCHANGED <<row, transcript>>
    BY <2>0, <2>3 DEF row, Rests, SameDebate, Effect
  <2>4. QED
    BY <1>2, <2>1, <2>2, <2>3 DEF ExpireTurns
<1>3. QED
  BY <1>1, <1>2 DEF Ticker

-------------------------------------------------------------------------------
(* What a pass does to the stored debate *)

\* The records a pass may write in a round.
NotesOf(r) == {m \in Message : m.round = r /\ m.kind # "argument"}

\* Such records are notes of the current round.
LEMMA NotesAreOnlyNotes ==
    ASSUME NEW recs \in Seq(NotesOf(round))
    PROVE  recs \in Seq(Message) /\ OnlyNotes(recs)
<1>1. \A i \in DOMAIN recs : recs[i] \in NotesOf(round)
  OBVIOUS
<1>2. recs \in Seq(Message)
  <2>1. recs \in [1..Len(recs) -> NotesOf(round)] /\ Len(recs) \in Nat
    OBVIOUS
  <2>2. recs \in [1..Len(recs) -> Message]
    BY <2>1 DEF NotesOf
  <2>3. QED
    BY <2>1, <2>2
<1>3. OnlyNotes(recs)
  BY <1>1 DEF OnlyNotes, NotesOf
<1>4. QED
  BY <1>2, <1>3

\* One note, too, is written by appending it.
LEMMA OneNote ==
    ASSUME transcript \in Seq(Message), NEW m \in NotesOf(round),
           transcript' = Append(transcript, m), SameDebate, status = "moderating"
    PROVE  Notes
<1>1. m \in Message
  BY DEF NotesOf
<1>2. transcript' = transcript \o <<m>>
  BY <1>1, AppendIsConcat
<1>3. <<m>> \in Seq(NotesOf(round))
  OBVIOUS
<1>4. <<m>> \in Seq(Message) /\ OnlyNotes(<<m>>)
  BY <1>3, NotesAreOnlyNotes
<1>5. QED
  BY <1>2, <1>4 DEF Notes

\* The records that close a debate, or as many of them as the store takes.
LEMMA ClosingRecordsAreNotes ==
    ASSUME TypeOK, NEW p \in Slots
    PROVE  /\ ClosingRecords(p) \in Seq(NotesOf(pass[p].round))
           /\ \A n \in 0..Len(ClosingRecords(p)) :
                 SubSeq(ClosingRecords(p), 1, n) \in Seq(NotesOf(pass[p].round))
<1> DEFINE S == NotesOf(pass[p].round)
<1>1. pass[p].round \in Nat /\ OutcomeConsensus(p) \in BOOLEAN
  BY ClosingTypes, Shapes DEF TypeOK
<1>2. Explanation(p) \in Seq(S)
  <2>1. BudgetVerdict(params.mode) \in Notices /\ UnavailableVerdict(params.mode) \in Notices
    BY DEF BudgetVerdict, UnavailableVerdict, Notices
  <2>2. /\ SystemMessage(pass[p].round, BudgetVerdict(params.mode)) \in S
        /\ SystemMessage(pass[p].round, UnavailableVerdict(params.mode)) \in S
    BY <1>1, <2>1 DEF SystemMessage, Message, NotesOf
  <2> HIDE DEF S
  <2>3. QED
    BY <2>2 DEF Explanation
<1>3. NewVerdict(p) \in Seq(S)
  <2>1. /\ Verdict(pass[p].round, "moderator", OutcomeConsensus(p)) \in S
        /\ Verdict(pass[p].round, "system", OutcomeConsensus(p)) \in S
    BY <1>1 DEF Verdict, Message, NotesOf
  <2> HIDE DEF S
  <2>2. QED
    BY <2>1 DEF NewVerdict
<1> HIDE DEF S
<1>4. ClosingRecords(p) \in Seq(S)
  BY <1>2, <1>3 DEF ClosingRecords
<1>5. ASSUME NEW s \in Seq(S), NEW n \in 0..Len(s)
      PROVE  SubSeq(s, 1, n) \in Seq(S)
  <2>1. \A i \in 1..n : s[i] \in S
    BY <1>5
  <2>2. QED
    BY <2>1, SubSeqProperties
<1>6. QED
  BY <1>4, <1>5 DEF S

\* A pass that works on a debate that exists works on its round.
LEMMA WorkingOnTheRound ==
    ASSUME PassInvariant, NEW p \in Slots, Working(p), Exists
    PROVE  status = "moderating" /\ round = pass[p].round
BY DEF PassInvariant, WorkingOwns, Exists

\* Noting a missing summary is one of the effects.
LEMMA NoteHasEffect ==
    ASSUME TypeOK, PassInvariant, NEW p \in Slots, Working(p), SameDebate, NoteMissingSummary(p)
    PROVE  Effect
<1> DEFINE m == SystemMessage(pass[p].round, SummaryNotice(p))
<1>1. \/ transcript' = transcript
      \/ Exists /\ transcript' = Append(transcript, m)
  BY DEF NoteMissingSummary
<1>2. CASE transcript' = transcript
  BY <1>2 DEF Rests, Effect
<1>3. CASE Exists /\ transcript' = Append(transcript, m)
  <2>1. status = "moderating" /\ round = pass[p].round
    BY <1>3, WorkingOnTheRound
  <2>2. SummaryNotice(p) \in Notices
    BY DEF SummaryNotice, Notices
  <2>3. m \in NotesOf(round)
    BY <2>1, <2>2, Shapes DEF SystemMessage, Message, NotesOf
  <2> HIDE DEF m
  <2>4. QED
    BY <1>3, <2>1, <2>3, OneNote DEF TypeOK, StoredTypes, Effect
<1>4. QED
  BY <1>1, <1>2, <1>3

\* Storing a summary is one of the effects.
LEMMA SaveSummaryHasEffect ==
    ASSUME TypeOK, PassInvariant, NEW p \in Slots, SaveSummary(p)
    PROVE  Effect
<1>1. Working(p) /\ SameDebate
  BY DEF SaveSummary, Working, SameDebate, row
<1>2. CASE NoteMissingSummary(p)
  BY <1>1, <1>2, NoteHasEffect
<1>3. CASE transcript' = transcript
  BY <1>1, <1>3 DEF Rests, Effect
<1>4. CASE /\ Exists
           /\ transcript' = Append(transcript, RoundSummary(pass[p].round, SummaryConsensus(p)))
  <2> DEFINE m == RoundSummary(pass[p].round, SummaryConsensus(p))
  <2>1. status = "moderating" /\ round = pass[p].round
    BY <1>1, <1>4, WorkingOnTheRound
  <2>2. SummaryConsensus(p) \in BOOLEAN
    BY DEF SummaryConsensus
  <2>3. m \in NotesOf(round)
    BY <2>1, <2>2, Shapes DEF RoundSummary, Message, NotesOf
  <2> HIDE DEF m
  <2>4. transcript' = Append(transcript, m)
    BY <1>4 DEF m
  <2>5. QED
    BY <1>1, <2>1, <2>3, <2>4, OneNote DEF TypeOK, StoredTypes, Effect
<1>5. QED
  BY <1>2, <1>3, <1>4 DEF SaveSummary

\* Concluding is one of the effects.
LEMMA ConcludeHasEffect ==
    ASSUME TypeOK, PassInvariant, DebateInOrder, NEW p \in Slots, Conclude(p)
    PROVE  Effect
<1> DEFINE recs == ClosingRecords(p)
<1>1. Working(p) /\ params' = params /\ roster' = roster
  BY DEF Conclude, Working
<1>2. transcript \in Seq(Message)
  BY DEF TypeOK, StoredTypes
<1>3. CASE ~Exists
  <2>1. transcript' = transcript
    <3>1. transcript \o <<>> = transcript
      BY <1>2, ConcatEmptySeq
    <3>2. QED
      BY <1>3, <3>1 DEF Conclude
  <2>2. UNCHANGED row
    BY <1>3 DEF Conclude, UpdateDebate
  <2>3. QED
    BY <1>1, <2>1, <2>2 DEF row, Rests, SameDebate, Effect
<1>4. CASE Exists
  <2>1. status = "moderating" /\ round = pass[p].round
    BY <1>1, <1>4, WorkingOnTheRound
  <2>2. /\ recs \in Seq(NotesOf(round))
        /\ \A n \in 0..Len(recs) : SubSeq(recs, 1, n) \in Seq(NotesOf(round))
    BY <2>1, ClosingRecordsAreNotes
  <2>3. OutcomeConsensus(p) \in BOOLEAN
    BY ClosingTypes DEF TypeOK
  <2>4. \/ /\ transcript' = transcript \o recs
           /\ UpdateDebate("concluded", pass[p].round, NoAgent, OutcomeConsensus(p))
        \/ /\ \E n \in 0..Len(recs) : transcript' = transcript \o SubSeq(recs, 1, n)
           /\ UNCHANGED row
    BY <1>4 DEF Conclude
  <2> HIDE DEF recs
  <2>5. CASE /\ transcript' = transcript \o recs
             /\ UpdateDebate("concluded", pass[p].round, NoAgent, OutcomeConsensus(p))
    <3>1. recs \in Seq(Message) /\ OnlyNotes(recs)
      BY <2>2, NotesAreOnlyNotes
    <3>2. Concludes
      BY <1>1, <1>4, <2>1, <2>3, <2>5, <3>1 DEF UpdateDebate, Concludes
    <3>3. QED
      BY <3>2 DEF Effect
  <2>6. ASSUME NEW n \in 0..Len(recs), transcript' = transcript \o SubSeq(recs, 1, n),
               UNCHANGED row
        PROVE  Effect
    <3>1. SubSeq(recs, 1, n) \in Seq(Message) /\ OnlyNotes(SubSeq(recs, 1, n))
      BY <2>2, NotesAreOnlyNotes
    <3>2. Notes
      BY <1>1, <2>1, <2>6, <3>1 DEF row, SameDebate, Notes
    <3>3. QED
      BY <3>2 DEF Effect
  <2>7. QED
    BY <2>4, <2>5, <2>6
<1>5. QED
  BY <1>3, <1>4

\* Opening the next round is one of the effects.
LEMMA AdvanceHasEffect ==
    ASSUME TypeOK, PassInvariant, NextRoundIsThere, NEW p \in Slots, Advance(p)
    PROVE  Effect
<1>1. /\ Working(p) /\ pc[p] = "advance" /\ params' = params /\ roster' = roster
      /\ transcript' = transcript
  BY DEF Advance, Working
<1>2. CASE UNCHANGED row
  BY <1>1, <1>2 DEF row, Rests, SameDebate, Effect
<1>3. CASE /\ Exists
           /\ UpdateDebate("running", pass[p].round + 1, NextParticipants(p)[1], FALSE)
  <2>1. status = "moderating" /\ round = pass[p].round
    BY <1>1, <1>3, WorkingOnTheRound
  <2>2. pass[p].round < params.rounds /\ NextParticipants(p) = roster
    BY <1>1, <1>3 DEF NextRoundIsThere, MayOpenRound, NextParticipants
  <2>3. OpensRound
    BY <1>1, <1>3, <2>1, <2>2 DEF UpdateDebate, OpensRound
  <2>4. QED
    BY <2>3 DEF Effect
<1>4. QED
  BY <1>2, <1>3 DEF Advance, UpdateDebate

\* What a pass does is one of the effects.
LEMMA PassHasEffect ==
    ASSUME TypeOK, PassInvariant, DebateInOrder, NextRoundIsThere, NEW p \in Slots, PassStep(p)
    PROVE  Effect
<1>1. CASE \/ Fetch(p) \/ ReadTranscript(p) \/ Admit(p) \/ Call(p) \/ Charge(p)
           \/ RereadTranscript(p) \/ Panic(p) \/ End(p)
  <2>1. UNCHANGED <<row, params, roster, transcript>>
    BY <1>1 DEF Fetch, ReadTranscript, Admit, Call, Charge, RereadTranscript, Panic, End,
                Restart, stored
  <2>2. QED
    BY <2>1 DEF row, Rests, SameDebate, Effect
<1>2. CASE SkipSummary(p)
  <2>1. Working(p) /\ SameDebate /\ NoteMissingSummary(p)
    BY <1>2 DEF SkipSummary, Working, SameDebate, row
  <2>2. QED
    BY <2>1, NoteHasEffect
<1>3. QED
  BY <1>1, <1>2, SaveSummaryHasEffect, ConcludeHasEffect, AdvanceHasEffect DEF PassStep

\* Whoever takes it, a step has one of the effects.
LEMMA StepHasEffect ==
    ASSUME TypeOK, PassInvariant, TurnInvariant, "turn" \notin Faulty, [Next]_vars
    PROVE  Effect
<1>1. DebateInOrder /\ NextRoundIsThere
  BY DEF TurnInvariant, DebateInOrder
<1>2. CASE Time \/ Crash \/ UNCHANGED vars
  <2>1. UNCHANGED <<status, round, turn, consensus, params, roster, transcript>>
    BY <1>2 DEF Time, DeadlinePasses, RetryPauseElapses, Crash, Restart, vars, stored, row
  <2>2. QED
    BY <2>1 DEF Rests, SameDebate, Effect
<1>3. QED
  BY <1>1, <1>2, ClientsHaveEffect, TickerHasEffect, PassHasEffect DEF Next

-------------------------------------------------------------------------------
(* The next round is there *)

\* No pass comes to open a round by this step, nor with other participants.
NoNewOpener ==
    \A q \in Slots : MayOpenRound(q)' =>
        /\ MayOpenRound(q)
        /\ pass'[q].round = pass[q].round
        /\ params.mode = "hybrid" => pc'[q] # "reread" /\ pass'[q].parts = pass[q].parts

\* A step that makes no new opener of a round keeps the next round in place.
LEMMA OpenersStay ==
    ASSUME NextRoundIsThere, NoNewOpener, params' = params,
           Exists' => Exists /\ roster' = roster
    PROVE  NextRoundIsThere'
BY DEF NextRoundIsThere, NoNewOpener

\* A step of one pass leaves the others.
LEMMA OnePassMoves ==
    ASSUME PassTypes, NEW p \in Slots, NEW label, NEW locals, Goto(p, label), Keep(p, locals)
    PROVE  /\ pc'[p] = label /\ pass'[p] = locals
           /\ \A q \in Slots \ {p} :
                 /\ pc'[q] = pc[q] /\ pass'[q] = pass[q]
                 /\ MayOpenRound(q)' => MayOpenRound(q)
<1>1. pc'[p] = label /\ pass'[p] = locals
  BY DEF Goto, Keep, PassTypes
<1>2. \A q \in Slots \ {p} : pc'[q] = pc[q] /\ pass'[q] = pass[q]
  BY DEF Goto, Keep, PassTypes
<1>3. QED
  BY <1>1, <1>2 DEF MayOpenRound, MayWriteSummary

\* A pass that goes nowhere near the next round is no new opener.
LEMMA NoOpener ==
    ASSUME PassTypes, NextRoundIsThere, NEW p \in Slots, NEW label, NEW locals,
           Goto(p, label), Keep(p, locals),
           \/ label \in {"idle", "read", "conclude", "end"}
           \/ label = "admit" /\ locals.call = "verdict"
    PROVE  NoNewOpener
<1>1. ~MayOpenRound(p)'
  BY OnePassMoves DEF MayOpenRound, MayWriteSummary
<1>2. \A q \in Slots \ {p} : pc'[q] = pc[q] /\ pass'[q] = pass[q] /\ (MayOpenRound(q)' => MayOpenRound(q))
  BY OnePassMoves
<1>3. QED
  BY <1>1, <1>2 DEF NoNewOpener, NextRoundIsThere

\* A pass that was on its way to the next round stays on it.
LEMMA OpenerGoesOn ==
    ASSUME PassTypes, NextRoundIsThere, NEW p \in Slots, NEW label, NEW locals,
           Goto(p, label), Keep(p, locals), MayOpenRound(p),
           locals.round = pass[p].round,
           params.mode = "hybrid" => label # "reread" /\ locals.parts = pass[p].parts
    PROVE  NoNewOpener
<1>1. pc'[p] = label /\ pass'[p] = locals
  BY OnePassMoves
<1>2. \A q \in Slots \ {p} : pc'[q] = pc[q] /\ pass'[q] = pass[q] /\ (MayOpenRound(q)' => MayOpenRound(q))
  BY OnePassMoves
<1>3. QED
  BY <1>1, <1>2 DEF NoNewOpener, NextRoundIsThere

\* A pass that returns opens no round.
LEMMA ReturnIsNoOpener ==
    ASSUME PassTypes, NextRoundIsThere, NEW p \in Slots, Return(p)
    PROVE  NoNewOpener
BY NoOpener DEF Return

\* A pass on its way to the verdict opens no round.
LEMMA VerdictIsNoOpener ==
    ASSUME PassTypes, NextRoundIsThere, NEW p \in Slots, NEW msgs, NEW reached, NEW basis,
           Keep(p, ForVerdict(p, msgs, reached, basis)), Goto(p, TowardsVerdict(basis))
    PROVE  NoNewOpener
<1> DEFINE locals == ForVerdict(p, msgs, reached, basis)
<1>1. locals.call = "verdict"
  BY DEF ForVerdict, PassTypes, Pass
<1>2. TowardsVerdict(basis) \in {"admit", "conclude"}
  BY DEF TowardsVerdict
<1> HIDE DEF locals
<1>3. Keep(p, locals)
  BY DEF locals
<1>4. QED
  BY <1>1, <1>2, <1>3, NoOpener

\* A pass on its way to the next round is one that may open it.
LEMMA TowardsNextRoundGoesOn ==
    ASSUME PassTypes, NextRoundIsThere, NEW p \in Slots, MayOpenRound(p), NEW parts,
           TowardsNextRound(p, parts), params.mode = "hybrid" => parts = pass[p].parts
    PROVE  NoNewOpener
<1> DEFINE locals == [Idle EXCEPT !.token = pass[p].token, !.round = pass[p].round,
                                  !.parts = parts]
<1>1. locals.round = pass[p].round /\ locals.parts = parts
  BY DEF Idle
<1>2. Goto(p, "advance") /\ Keep(p, locals)
  BY DEF TowardsNextRound
<1> HIDE DEF locals
<1>3. QED
  BY <1>1, <1>2, OpenerGoesOn

\* Launching a pass brings no opener.
LEMMA LaunchIsNoOpener ==
    ASSUME PassTypes, NextRoundIsThere, NEW r, NEW trigger, Launch(r, trigger) \/ UNCHANGED passes
    PROVE  NoNewOpener
<1>1. CASE UNCHANGED passes
  BY <1>1 DEF passes, NoNewOpener, NextRoundIsThere, MayOpenRound, MayWriteSummary
<1>2. ASSUME NEW p \in Slots,
             pc' = [pc EXCEPT ![p] = "fetch"],
             pass' = [pass EXCEPT ![p] = [Idle EXCEPT !.token = attempts'.pass]]
      PROVE  NoNewOpener
  <2>1. \A q \in Slots : \/ pc'[q] = "fetch"
                         \/ pc'[q] = pc[q] /\ pass'[q] = pass[q]
    BY <1>2 DEF PassTypes
  <2>2. QED
    BY <2>1 DEF NoNewOpener, NextRoundIsThere, MayOpenRound, MayWriteSummary
<1>3. CASE Launch(r, trigger) /\ CanBegin(attempts, r, trigger, paused)
  <2>1. \E p \in Slots :
            /\ FreeSlot(p)
            /\ attempts' = Begun(attempts, r)
            /\ paused' = TRUE
            /\ pc' = [pc EXCEPT ![p] = "fetch"]
            /\ pass' = [pass EXCEPT ![p] = [Idle EXCEPT !.token = attempts'.pass]]
    BY <1>3 DEF Launch
  <2>2. QED
    BY <1>2, <2>1
<1>4. QED
  BY <1>1, <1>3 DEF Launch

\* What clients do keeps the next round in place.
LEMMA ClientsKeepNextRound ==
    ASSUME TypeOK, PassInvariant, NextRoundIsThere, Clients
    PROVE  NextRoundIsThere'
<1>0. PassTypes
  BY DEF TypeOK
<1>1. CASE status \in {"none", "open"} /\ UNCHANGED passes
  <2>1. \A p \in Slots : ~MayOpenRound(p)'
    BY <1>1 DEF passes, PassInvariant, QuietBeforeStart, MayOpenRound, MayWriteSummary
  <2>2. QED
    BY <2>1 DEF NextRoundIsThere
<1>2. ASSUME NEW agent \in Agents, NEW support \in Supports, PostArgument(agent, support)
      PROVE  NextRoundIsThere'
  <2>1. Launch(round, "round_closed") \/ UNCHANGED passes
    BY <1>2 DEF PostArgument, AdvanceTurnOrFail, AdvanceTurn
  <2>2. params' = params /\ roster' = roster /\ Exists
    BY <1>2 DEF PostArgument, HasTurn, Exists
  <2>3. QED
    BY <1>0, <2>1, <2>2, LaunchIsNoOpener, OpenersStay
<1>3. CASE DeleteDebate
  <2>1. ~Exists' /\ params' = params /\ UNCHANGED passes
    BY <1>3 DEF DeleteDebate, Exists
  <2>2. QED
    BY <1>0, <2>1, LaunchIsNoOpener, OpenersStay
<1>4. CASE StartDebate
  BY <1>1, <1>4 DEF StartDebate
<1>5. ASSUME NEW agent \in Agents, JoinDebate(agent) PROVE NextRoundIsThere'
  BY <1>1, <1>5 DEF JoinDebate
<1>6. ASSUME NEW mode \in AllowedModes, NEW rounds \in RoundCounts, NEW prep \in PrepTimes,
             NEW observer \in BOOLEAN, CreateDebate(mode, rounds, prep, observer)
      PROVE  NextRoundIsThere'
  BY <1>1, <1>6 DEF CreateDebate
<1>7. QED
  BY <1>2, <1>3, <1>4, <1>5, <1>6 DEF Clients

\* What the sweep does keeps the next round in place.
LEMMA TickerKeepsNextRound ==
    ASSUME TypeOK, NextRoundIsThere, Ticker
    PROVE  NextRoundIsThere'
<1>1. \/ \E r, trigger : Launch(r, trigger)
      \/ UNCHANGED passes
  BY DEF Ticker, SweepReads, SweepResumes, SweepForgets, ExpireTurns, AdvanceTurnOrFail,
         AdvanceTurn
<1>2. params' = params /\ roster' = roster
  BY DEF Ticker, SweepReads, SweepResumes, SweepForgets, ExpireTurns, stored
<1>3. Exists' => Exists
  <2>1. CASE UNCHANGED row
    BY <2>1 DEF row, Exists
  <2>2. CASE status \in {"preparing", "running"}
    BY <2>2 DEF Exists
  <2>3. QED
    BY <2>1, <2>2 DEF Ticker, SweepReads, SweepResumes, SweepForgets, ExpireTurns,
                      PreparationIsOver, TurnIsOver, stored
<1>4. QED
  BY <1>1, <1>2, <1>3, LaunchIsNoOpener, OpenersStay DEF TypeOK

\* The first and the last step of a pass.
LEMMA EdgesAreNoOpeners ==
    ASSUME TypeOK, NextRoundIsThere, NEW p \in Slots, Fetch(p) \/ End(p)
    PROVE  NoNewOpener
<1>0. PassTypes
  BY DEF TypeOK
<1>1. CASE End(p)
  BY <1>0, <1>1, NoOpener DEF End
<1>2. CASE Return(p)
  BY <1>0, <1>2, ReturnIsNoOpener
<1>3. ASSUME NEW locals, Goto(p, "read"), Keep(p, locals) PROVE NoNewOpener
  BY <1>0, <1>3, NoOpener
<1>4. QED
  BY <1>1, <1>2, <1>3 DEF Fetch

\* A pass asks the model, and pays.
LEMMA CallingAreNoOpeners ==
    ASSUME TypeOK, NextRoundIsThere, NEW p \in Slots, Admit(p) \/ Call(p) \/ Charge(p)
    PROVE  NoNewOpener
<1>0. PassTypes /\ pass[p] \in Pass
  BY DEF TypeOK, PassTypes
<1>1. ASSUME NEW label, NEW locals, Goto(p, label), Keep(p, locals),
             locals.round = pass[p].round, locals.parts = pass[p].parts,
             label # "reread",
             MayOpenRound(p) \/ label = "conclude"
      PROVE  NoNewOpener
  BY <1>0, <1>1, NoOpener, OpenerGoesOn
<1>2. pc[p] \in {"admit", "call", "charge"} /\ pass[p].call = "summary" => MayOpenRound(p)
  BY DEF MayOpenRound, MayWriteSummary
<1>3. CASE Admit(p)
  <2>1. pc[p] = "admit"
    BY <1>3 DEF Admit
  <2>2. ASSUME NEW basis, Keep(p, [pass[p] EXCEPT !.basis = basis]),
               Goto(p, IF pass[p].call = "summary" THEN "skip" ELSE "conclude")
        PROVE  NoNewOpener
    <3> DEFINE locals == [pass[p] EXCEPT !.basis = basis]
    <3>1. locals.round = pass[p].round /\ locals.parts = pass[p].parts
      BY <1>0 DEF Pass
    <3> HIDE DEF locals
    <3>2. Keep(p, locals)
      BY <2>2 DEF locals
    <3>3. QED
      BY <1>1, <1>2, <2>1, <2>2, <3>1, <3>2
  <2>3. ASSUME Goto(p, "call"), pass' = pass PROVE NoNewOpener
    <3>1. Keep(p, pass[p])
      BY <1>0, <2>3 DEF Keep, PassTypes
    <3>2. CASE pass[p].call = "summary"
      BY <1>1, <1>2, <2>1, <2>3, <3>1, <3>2
    <3>3. CASE pass[p].call # "summary"
      <4>1. ~MayOpenRound(p)'
        BY <1>0, <2>3, <3>1, <3>3, OnePassMoves DEF MayOpenRound, MayWriteSummary
      <4>2. QED
        BY <1>0, <2>3, <3>1, <4>1, OnePassMoves DEF NoNewOpener, NextRoundIsThere
    <3>4. QED
      BY <3>2, <3>3
  <2>4. QED
    BY <1>3, <2>2, <2>3, Zenon DEF Admit
<1>4. ASSUME pc[p] \in {"call", "charge"},
             NEW locals, Keep(p, locals), NEW label, Goto(p, label),
             label \in {"charge", AfterCall(p)},
             locals.round = pass[p].round, locals.parts = pass[p].parts,
             locals.call = pass[p].call
      PROVE  NoNewOpener
  <2>1. CASE pass[p].call = "summary"
    <3>1. label # "reread"
      BY <1>4, <2>1 DEF AfterCall
    <3>2. QED
      BY <1>1, <1>2, <1>4, <2>1, <3>1
  <2>2. CASE pass[p].call # "summary"
    <3>1. label \in {"charge", "conclude"}
      BY <1>4, <2>2 DEF AfterCall
    <3>2. ~MayOpenRound(p)'
      BY <1>0, <1>4, <2>2, <3>1, OnePassMoves DEF MayOpenRound, MayWriteSummary
    <3>3. QED
      BY <1>0, <1>4, <3>2, OnePassMoves DEF NoNewOpener, NextRoundIsThere
  <2>3. QED
    BY <2>1, <2>2
<1>5. CASE Call(p)
  <2>1. PICK reply, charge, basis :
          /\ Keep(p, [pass[p] EXCEPT !.reply = reply, !.charge = charge, !.basis = basis])
          /\ Goto(p, IF charge > 0 THEN "charge" ELSE AfterCall(p))
    BY <1>5, Zenon DEF Call
  <2> DEFINE locals == [pass[p] EXCEPT !.reply = reply, !.charge = charge, !.basis = basis]
             label == IF charge > 0 THEN "charge" ELSE AfterCall(p)
  <2>2. /\ locals.round = pass[p].round /\ locals.parts = pass[p].parts
        /\ locals.call = pass[p].call
    BY <1>0 DEF Pass
  <2>3. label \in {"charge", AfterCall(p)} /\ pc[p] = "call"
    BY <1>5 DEF Call
  <2> HIDE DEF locals, label
  <2>4. Keep(p, locals) /\ Goto(p, label)
    BY <2>1 DEF locals, label
  <2>5. QED
    BY <1>4, <2>2, <2>3, <2>4
<1>6. CASE Charge(p)
  <2>1. PICK n \in Nat : Keep(p, [pass[p] EXCEPT !.tokens = n, !.charge = 0])
    <3>1. pass[p].tokens \in Nat /\ pass[p].charge \in Nat
      BY <1>0 DEF Pass
    <3>2. pass[p].tokens + pass[p].charge \in Nat
      BY <3>1
    <3>3. [pass[p] EXCEPT !.tokens = pass[p].tokens, !.charge = 0] = [pass[p] EXCEPT !.charge = 0]
      BY <1>0 DEF Pass
    <3>4. \/ Keep(p, [pass[p] EXCEPT !.tokens = pass[p].tokens + pass[p].charge, !.charge = 0])
          \/ Keep(p, [pass[p] EXCEPT !.charge = 0])
      BY <1>6 DEF Charge
    <3>5. CASE Keep(p, [pass[p] EXCEPT !.tokens = pass[p].tokens + pass[p].charge, !.charge = 0])
      BY <3>2, <3>5
    <3>6. CASE Keep(p, [pass[p] EXCEPT !.charge = 0])
      BY <3>1, <3>3, <3>6
    <3>7. QED
      BY <3>4, <3>5, <3>6
  <2> DEFINE locals == [pass[p] EXCEPT !.tokens = n, !.charge = 0]
  <2>2. /\ locals.round = pass[p].round /\ locals.parts = pass[p].parts
        /\ locals.call = pass[p].call
    BY <1>0 DEF Pass
  <2>3. pc[p] = "charge" /\ Goto(p, AfterCall(p))
    BY <1>6 DEF Charge
  <2> HIDE DEF locals
  <2>4. Keep(p, locals)
    BY <2>1 DEF locals
  <2>5. QED
    BY <1>4, <2>2, <2>3, <2>4
<1>7. QED
  BY <1>3, <1>5, <1>6

\* A pass skips or stores its summary, looks again, and closes or opens.
LEMMA WritingAreNoOpeners ==
    ASSUME TypeOK, NextRoundIsThere, NEW p \in Slots,
           SkipSummary(p) \/ SaveSummary(p) \/ RereadTranscript(p) \/ Conclude(p) \/ Advance(p)
    PROVE  NoNewOpener
<1>0. PassTypes /\ pass[p] \in Pass
  BY DEF TypeOK, PassTypes
<1>1. CASE Return(p)
  BY <1>0, <1>1, ReturnIsNoOpener
<1>2. CASE SkipSummary(p)
  <2>1. MayOpenRound(p) /\ TowardsNextRound(p, pass[p].parts)
    BY <1>2 DEF SkipSummary, MayOpenRound
  <2>2. QED
    BY <1>0, <2>1, TowardsNextRoundGoesOn
<1>3. ASSUME pc[p] = "save", NEW reached, AfterSummary(p, reached) PROVE NoNewOpener
  <2>1. MayOpenRound(p)
    BY <1>3 DEF MayOpenRound, MayWriteSummary
  <2>2. CASE params.mode = "hybrid"
    <3>1. TowardsNextRound(p, pass[p].parts)
      BY <1>3, <2>2 DEF AfterSummary
    <3>2. QED
      BY <1>0, <2>1, <3>1, TowardsNextRoundGoesOn
  <2>3. CASE params.mode # "hybrid"
    <3> DEFINE locals == [pass[p] EXCEPT !.consensus = reached]
    <3>1. locals.round = pass[p].round
      BY <1>0 DEF Pass
    <3> HIDE DEF locals
    <3>2. Goto(p, "reread") /\ Keep(p, locals)
      BY <1>3, <2>3 DEF AfterSummary, locals
    <3>3. QED
      BY <1>0, <2>1, <2>3, <3>1, <3>2, OpenerGoesOn
  <2>4. QED
    BY <2>2, <2>3
<1>4. CASE SaveSummary(p)
  BY <1>1, <1>3, <1>4 DEF SaveSummary
<1>5. CASE RereadTranscript(p)
  <2>1. MayOpenRound(p) /\ params.mode # "hybrid"
    BY <1>5 DEF RereadTranscript, MayOpenRound, NextRoundIsThere
  <2>2. CASE TowardsNextRound(p, <<>>)
    BY <1>0, <2>1, <2>2, TowardsNextRoundGoesOn
  <2>3. ASSUME NEW msgs, NEW basis, Keep(p, ForVerdict(p, msgs, TRUE, basis)),
               Goto(p, TowardsVerdict(basis))
        PROVE  NoNewOpener
    BY <1>0, <2>3, VerdictIsNoOpener
  <2>4. QED
    BY <1>1, <1>5, <2>2, <2>3, Zenon DEF RereadTranscript
<1>6. QED
  BY <1>1, <1>2, <1>4, <1>5 DEF Conclude, Advance

\* The step by which a pass comes to have a round to open.
LEMMA ReadTranscriptKeepsNextRound ==
    ASSUME TypeOK, PassInvariant, NextRoundIsThere, NEW p \in Slots, ReadTranscript(p)
    PROVE  NextRoundIsThere'
<1> DEFINE parts == IF params.mode = "hybrid" THEN roster ELSE <<>>
<1>0. PassTypes /\ pass[p] \in Pass
  BY DEF TypeOK, PassTypes
<1>1. params' = params /\ roster' = roster /\ Exists' = Exists
  BY DEF ReadTranscript, stored, row, Exists
<1>2. CASE NoNewOpener
  BY <1>1, <1>2, OpenersStay
<1>3. ASSUME NEW label, NEW locals, Goto(p, label), Keep(p, locals),
             label # "reread", ~LastRound(p),
             locals.round = pass[p].round, locals.parts = parts
      PROVE  NextRoundIsThere'
  <2>1. pc'[p] = label /\ pass'[p] = locals
    BY <1>0, <1>3, OnePassMoves
  <2>2. \A q \in Slots \ {p} : pc'[q] = pc[q] /\ pass'[q] = pass[q] /\ (MayOpenRound(q)' => MayOpenRound(q))
    BY <1>0, <1>3, OnePassMoves
  <2>3. pass[p].round < params.rounds
    BY <1>0, <1>3 DEF LastRound, Pass, TypeOK, StoredTypes
  <2>4. params.mode = "hybrid" => locals.parts = roster
    BY <1>3
  <2> HIDE DEF parts
  <2>5. QED
    BY <1>1, <1>3, <2>1, <2>2, <2>3, <2>4 DEF NextRoundIsThere
<1>4. \/ Return(p)
      \/ \E msgs, reached, basis : /\ Keep(p, ForVerdict(p, msgs, reached, basis))
                                   /\ Goto(p, TowardsVerdict(basis))
      \/ ~LastRound(p) /\ TowardsNextRound(p, parts)
      \/ /\ ~LastRound(p) /\ Goto(p, "admit")
         /\ Keep(p, [pass[p] EXCEPT !.msgs = transcript, !.parts = parts, !.call = "summary"])
  BY Zenon DEF ReadTranscript
<1>5. CASE ~LastRound(p) /\ TowardsNextRound(p, parts)
  <2> DEFINE locals == [Idle EXCEPT !.token = pass[p].token, !.round = pass[p].round,
                                    !.parts = parts]
  <2> HIDE DEF parts
  <2>1. locals.round = pass[p].round /\ locals.parts = parts
    BY DEF Idle
  <2>2. Goto(p, "advance") /\ Keep(p, locals)
    BY <1>5 DEF TowardsNextRound
  <2> HIDE DEF locals
  <2>3. QED
    BY <1>3, <1>5, <2>1, <2>2
<1>6. CASE /\ ~LastRound(p) /\ Goto(p, "admit")
           /\ Keep(p, [pass[p] EXCEPT !.msgs = transcript, !.parts = parts, !.call = "summary"])
  <2> DEFINE locals == [pass[p] EXCEPT !.msgs = transcript, !.parts = parts, !.call = "summary"]
  <2> HIDE DEF parts
  <2>1. locals.round = pass[p].round /\ locals.parts = parts
    BY <1>0 DEF Pass
  <2>2. Keep(p, locals)
    BY <1>6
  <2> HIDE DEF locals
  <2>3. QED
    BY <1>3, <1>6, <2>1, <2>2
<1> HIDE DEF parts
<1>7. QED
  BY <1>0, <1>2, <1>4, <1>5, <1>6, ReturnIsNoOpener, VerdictIsNoOpener

\* What a pass does keeps the next round in place.
LEMMA PassKeepsNextRound ==
    ASSUME TypeOK, PassInvariant, NextRoundIsThere, NEW p \in Slots, PassStep(p)
    PROVE  NextRoundIsThere'
<1>1. CASE ReadTranscript(p)
  BY <1>1, ReadTranscriptKeepsNextRound
<1>2. CASE Panic(p)
  BY <1>2 DEF Panic, Restart, NextRoundIsThere, MayOpenRound, MayWriteSummary
<1>3. CASE \/ Fetch(p) \/ End(p) \/ Admit(p) \/ Call(p) \/ Charge(p) \/ SkipSummary(p)
           \/ SaveSummary(p) \/ RereadTranscript(p) \/ Conclude(p) \/ Advance(p)
  <2>1. NoNewOpener
    BY <1>3, EdgesAreNoOpeners, CallingAreNoOpeners, WritingAreNoOpeners
  <2>2. params' = params /\ roster' = roster
    BY <1>3 DEF Fetch, End, Admit, Call, Charge, SkipSummary, SaveSummary,
                RereadTranscript, Conclude, Advance, stored
  <2>3. Exists' => Exists
    BY <1>3 DEF Fetch, End, Admit, Call, Charge, SkipSummary, SaveSummary,
                RereadTranscript, Conclude, Advance, stored, row, UpdateDebate, Exists
  <2>4. QED
    BY <2>1, <2>2, <2>3, OpenersStay
<1>4. QED
  BY <1>1, <1>2, <1>3 DEF PassStep

-------------------------------------------------------------------------------
(* The invariant *)

\* The invariant holds at the start.
LEMMA TurnInvariantInit == Init => TurnInvariant
<1> SUFFICES ASSUME Init PROVE TurnInvariant
  OBVIOUS
<1>1. PhaseFits /\ JoinedOnce
  BY DEF Init, PhaseFits, JoinedOnce
<1>2. DOMAIN transcript = {}
  BY DEF Init
<1>3. RecordsInOrder /\ TurnOrder /\ SpeakersWereBefore
  BY <1>2 DEF RecordsInOrder, TurnOrder, SpeakersWereBefore, Arguments
<1>4. NextRoundIsThere
  BY DEF Init, NextRoundIsThere, MayOpenRound, MayWriteSummary
<1>5. QED
  BY <1>1, <1>3, <1>4 DEF TurnInvariant

\* Every step keeps the invariant.
LEMMA TurnInvariantStep ==
    ASSUME TypeOK, PassInvariant, TurnInvariant, "turn" \notin Faulty, [Next]_vars
    PROVE  TurnInvariant'
<1>1. DebateInOrder /\ NextRoundIsThere
  BY DEF TurnInvariant, DebateInOrder
<1>2. DebateInOrder'
  BY <1>1, StepHasEffect, EffectKeepsOrder
<1>3. NextRoundIsThere'
  <2>1. CASE Time \/ Crash \/ UNCHANGED vars
    BY <1>1, <2>1 DEF Time, DeadlinePasses, RetryPauseElapses, Crash, Restart, vars, stored,
          row, passes, Exists, NextRoundIsThere, MayOpenRound, MayWriteSummary
  <2>2. QED
    BY <1>1, <2>1, ClientsKeepNextRound, TickerKeepsNextRound, PassKeepsNextRound DEF Next
<1>4. QED
  BY <1>2, <1>3 DEF TurnInvariant, DebateInOrder

\* Phase, roster, transcript and passes fit together in every state, as long as the
\* store keeps the turn that PostArgument and expireTurns hand it.
THEOREM TurnInvariantHolds ==
    ASSUME PromptLaunch, PromptSweep, "turn" \notin Faulty
    PROVE  Spec => []TurnInvariant
<1>1. TypeOK /\ PassInvariant /\ TurnInvariant /\ [Next]_vars => TurnInvariant'
  BY TurnInvariantStep
<1>2. QED
  BY <1>1, TurnInvariantInit, TypesHold, PassInvariantHolds, PTL DEF Spec

\* C4 (conformance.go, checkTurnOrder): within a round arguments follow the order of
\* joining and nobody speaks twice.
THEOREM TurnOrderHolds ==
    ASSUME PromptLaunch, PromptSweep, "turn" \notin Faulty
    PROVE  Spec => []TurnOrder
<1>1. TurnInvariant => TurnOrder
  BY DEF TurnInvariant
<1>2. QED
  BY <1>1, TurnInvariantHolds, PTL

\* C5 (conformance.go, checkRounds): rounds move forward, up to the declared count.
THEOREM RoundsMoveForwardHolds ==
    ASSUME PromptLaunch, PromptSweep, "turn" \notin Faulty
    PROVE  Spec => []RoundsMoveForward
<1>1. TypeOK /\ TurnInvariant => RoundsMoveForward
  BY DEF TurnInvariant, PhaseFits, RecordsInOrder, RoundsMoveForward, Exists, TypeOK,
         StoredTypes, RowTypes, Statuses
<1>2. QED
  BY <1>1, TurnInvariantHolds, TypesHold, PTL
===============================================================================
