----------------------------- MODULE ResultProofs -----------------------------
(***************************************************************************)
(* What passes leave in the transcript: at most one summary and one        *)
(* verdict of a round, and nothing after a verdict, for every number of    *)
(* agents, rounds, failures and restarts, under the timing assumptions of  *)
(* module Court.                                                           *)
(*                                                                         *)
(* A pass decides what to write from a transcript it has read minutes ago. *)
(* ResultInvariant says that what it has seen is still so: while it may    *)
(* write a result, there is none.  That holds because no other pass works  *)
(* at the same time (PassInvariant), and because what others write while   *)
(* the debate is in moderation is nothing at all.                          *)
(***************************************************************************)
EXTENDS CourtProofs, SequenceTheorems

\* Round by round: what OneSummary says of the results of one round.
LEMMA OneSummaryByRound ==
    ASSUME NEW msgs
    PROVE  OneSummary(msgs) <=> \A r : \A i, j \in Results(msgs, r, "summary") : i = j
BY DEF OneSummary, Results

-------------------------------------------------------------------------------
(* Steps that write no result. *)

\* No pass comes to write a result by this step.
NoNewWriter ==
    \A q \in Slots :
        /\ StillOpen(q)' => StillOpen(q)
        /\ MayWriteSummary(q)' => MayWriteSummary(q) /\ pass'[q].round = pass[q].round

\* A step that leaves the transcript alone, and moves the debate on only if there
\* is no verdict, keeps the invariant.
LEMMA SameTranscript ==
    ASSUME ResultInvariant, transcript' = transcript, NoNewWriter,
           \/ NoVerdict(transcript)
           \/ status' \in {"moderating", "concluded"} /\ round' = round
           \/ status' = status /\ round' = round,
           status' = "deleted" => status = "deleted"
    PROVE  ResultInvariant'
<1>1. VerdictIsLast'
  BY DEF ResultInvariant, VerdictIsLast, NoVerdict
<1>2. OneSummary(transcript)' /\ (status' = "deleted" => transcript' = <<>>)
  BY DEF ResultInvariant, OneSummary, Results
<1>3. ASSUME NEW p \in Slots
      PROVE  /\ StillOpen(p)' => NoVerdict(transcript)'
             /\ MayWriteSummary(p)' => ~Stored(transcript, pass[p].round, "summary")'
  BY <1>3 DEF ResultInvariant, NoNewWriter, NoVerdict, Stored, Results
<1>4. QED
  BY <1>1, <1>2, <1>3 DEF ResultInvariant

\* The positions of a transcript one record longer.
LEMMA Longer ==
    ASSUME NEW msgs \in Seq(Message), NEW m \in Message
    PROVE  /\ DOMAIN Append(msgs, m) = 1..(Len(msgs) + 1)
           /\ DOMAIN msgs = 1..Len(msgs)
           /\ Len(msgs) \in Nat
           /\ Len(Append(msgs, m)) = Len(msgs) + 1
           /\ \A i \in DOMAIN msgs : Append(msgs, m)[i] = msgs[i]
           /\ Append(msgs, m)[Len(msgs) + 1] = m
BY AppendProperties

\* A record that is not a result keeps the invariant while there is no verdict.
LEMMA PlainRecord ==
    ASSUME TypeOK, ResultInvariant, NoNewWriter, NoVerdict(transcript),
           NEW m \in Message, m.kind \notin {"summary", "verdict"},
           transcript' = Append(transcript, m), status' # "deleted"
    PROVE  ResultInvariant'
<1> DEFINE msgs == transcript
           n    == Len(transcript)
<1>1. msgs \in Seq(Message)
  BY DEF TypeOK, StoredTypes
<1>2. /\ DOMAIN transcript' = 1..(n + 1) /\ DOMAIN msgs = 1..n /\ n \in Nat
      /\ \A i \in DOMAIN msgs : transcript'[i] = msgs[i]
      /\ transcript'[n + 1] = m
  BY <1>1, Longer
<1>3. NoVerdict(transcript)'
  BY <1>2 DEF NoVerdict
<1>4. ASSUME NEW r
      PROVE  Results(transcript, r, "summary")' = Results(transcript, r, "summary")
  BY <1>2 DEF Results
<1>5. VerdictIsLast'
  BY <1>3 DEF VerdictIsLast, NoVerdict
<1>6. OneSummary(transcript)'
  BY <1>4, OneSummaryByRound DEF ResultInvariant
<1>7. ASSUME NEW p \in Slots, MayWriteSummary(p)'
      PROVE  ~Stored(transcript, pass[p].round, "summary")'
  BY <1>4, <1>7 DEF Stored, ResultInvariant, NoNewWriter
<1>8. QED
  BY <1>3, <1>5, <1>6, <1>7 DEF ResultInvariant

\* Launching a pass, or not, brings no writer.
LEMMA LaunchIsQuiet ==
    ASSUME PassTypes, NEW r \in Nat, NEW trigger,
           Launch(r, trigger) \/ UNCHANGED passes
    PROVE  NoNewWriter
<1>1. CASE UNCHANGED passes
  BY <1>1 DEF passes, NoNewWriter, StillOpen, MayWriteSummary
<1>2. ASSUME NEW p \in Slots,
             pc' = [pc EXCEPT ![p] = "fetch"],
             pass' = [pass EXCEPT ![p] = [Idle EXCEPT !.token = attempts'.pass]]
      PROVE  NoNewWriter
  <2>1. \A q \in Slots : \/ pc'[q] = "fetch"
                         \/ pc'[q] = pc[q] /\ pass'[q] = pass[q]
    BY <1>2 DEF PassTypes
  <2>2. QED
    BY <2>1 DEF NoNewWriter, StillOpen, MayWriteSummary
<1>3. CASE Launch(r, trigger) /\ CanBegin(attempts, r, trigger, paused)
  <2>1. \E p \in Slots :
            /\ FreeSlot(p)
            /\ attempts' = Begun(attempts, r)
            /\ paused' = TRUE
            /\ pc' = [pc EXCEPT ![p] = "fetch"]
            /\ pass' = [pass EXCEPT ![p] = [Idle EXCEPT !.token = attempts'.pass]]
    BY <1>3 DEF Launch
  <2>2. QED
    BY <1>2, <2>1
<1>4. QED
  BY <1>1, <1>3 DEF Launch

\* Turns are only moved while there is no verdict, and bring no writer.
LEMMA AdvanceTurnIsQuiet ==
    ASSUME TypeOK, status = "running", AdvanceTurnOrFail
    PROVE  NoNewWriter /\ status' # "deleted"
<1>1. \/ UNCHANGED <<row, memory, passes>>
      \/ UNCHANGED <<memory, passes>> /\ status' = "running"
      \/ Launch(round, "round_closed") /\ status' = "moderating"
  BY DEF AdvanceTurnOrFail, AdvanceTurn, UpdateDebate, Exists
<1>2. Launch(round, "round_closed") \/ UNCHANGED passes
  BY <1>1
<1>3. NoNewWriter
  BY <1>2, LaunchIsQuiet DEF TypeOK, StoredTypes, RowTypes
<1>4. QED
  BY <1>1, <1>3 DEF row

\* No request of a client breaks the result invariant.
LEMMA ClientsKeepResults ==
    ASSUME TypeOK, ResultInvariant, Clients
    PROVE  ResultInvariant'
<1> USE CourtAssumption
<1>1. ASSUME NEW mode \in AllowedModes, NEW rounds \in RoundCounts, NEW prep \in PrepTimes,
             NEW observer \in BOOLEAN, CreateDebate(mode, rounds, prep, observer)
      PROVE  ResultInvariant'
  <2>1. NoNewWriter /\ transcript' = transcript /\ status' = "open" /\ status = "none"
    BY <1>1 DEF CreateDebate, NoNewWriter, passes, StillOpen, MayWriteSummary
  <2>2. NoVerdict(transcript)
    BY <2>1 DEF ResultInvariant, VerdictIsLast, NoVerdict
  <2>3. QED
    BY <2>1, <2>2, SameTranscript
<1>2. ASSUME NEW agent \in Agents, JoinDebate(agent)
      PROVE  ResultInvariant'
  <2>1. NoNewWriter /\ UNCHANGED <<transcript, status, round>>
    BY <1>2 DEF JoinDebate, NoNewWriter, passes, StillOpen, MayWriteSummary, row
  <2>2. QED
    BY <2>1, SameTranscript
<1>3. CASE StartDebate
  <2>1. /\ NoNewWriter /\ transcript' = transcript /\ status = "open"
        /\ status' # "deleted"
    BY <1>3 DEF StartDebate, BeginFirstRound, UpdateDebate, Exists, NoNewWriter, passes,
           StillOpen, MayWriteSummary
  <2>2. NoVerdict(transcript)
    BY <2>1 DEF ResultInvariant, VerdictIsLast, NoVerdict
  <2>3. QED
    BY <2>1, <2>2, SameTranscript
<1>4. ASSUME NEW agent \in Agents, NEW support \in Supports, PostArgument(agent, support)
      PROVE  ResultInvariant'
  <2>1. /\ status = "running" /\ AdvanceTurnOrFail
        /\ transcript' = Append(transcript, Argument(round, agent, support))
    BY <1>4 DEF PostArgument, HasTurn
  <2>2. NoVerdict(transcript)
    BY <2>1 DEF ResultInvariant, VerdictIsLast, NoVerdict
  <2>3. /\ Argument(round, agent, support) \in Message
        /\ Argument(round, agent, support).kind = "argument"
    BY DEF Argument, Message, TypeOK, StoredTypes, RowTypes
  <2>4. QED
    BY <2>1, <2>2, <2>3, AdvanceTurnIsQuiet, PlainRecord
<1>5. CASE DeleteDebate
  BY <1>5 DEF DeleteDebate, ResultInvariant, VerdictIsLast, OneSummary, NoVerdict, Results,
         Stored
<1>6. QED
  BY <1>1, <1>2, <1>3, <1>4, <1>5 DEF Clients

\* Nor does a step of the background sweep.
LEMMA TickerKeepsResults ==
    ASSUME TypeOK, ResultInvariant, Ticker
    PROVE  ResultInvariant'
<1>1. CASE SweepReads \/ SweepForgets
  <2>1. NoNewWriter /\ UNCHANGED <<transcript, status, round>>
    BY <1>1 DEF SweepReads, SweepForgets, NoNewWriter, passes, StillOpen, MayWriteSummary,
           stored, row
  <2>2. QED
    BY <2>1, SameTranscript
<1>2. CASE SweepResumes
  <2>1. UNCHANGED <<transcript, status, round>>
    BY <1>2 DEF SweepResumes, stored, row
  <2>2. snapshot.round \in Nat
    BY DEF TypeOK, SweepTypes
  <2>3. NoNewWriter
    BY <1>2, <2>2, LaunchIsQuiet DEF SweepResumes, TypeOK
  <2>4. QED
    BY <2>1, <2>3, SameTranscript
<1>3. CASE ExpireTurns
  <2>1. CASE /\ PreparationIsOver /\ BeginFirstRound
             /\ UNCHANGED <<transcript, memory, passes>>
    <3>1. /\ NoNewWriter /\ transcript' = transcript /\ status = "preparing"
          /\ status' # "deleted"
      BY <2>1 DEF PreparationIsOver, BeginFirstRound, UpdateDebate, Exists, NoNewWriter,
             passes, StillOpen, MayWriteSummary
    <3>2. NoVerdict(transcript)
      BY <3>1 DEF ResultInvariant, VerdictIsLast, NoVerdict
    <3>3. QED
      BY <3>1, <3>2, SameTranscript
  <2>2. CASE /\ TurnIsOver /\ AdvanceTurnOrFail
             /\ transcript' = Append(transcript, SystemMessage(round, TurnSkipped))
    <3>1. status = "running"
      BY <2>2 DEF TurnIsOver
    <3>2. NoVerdict(transcript)
      BY <3>1 DEF ResultInvariant, VerdictIsLast, NoVerdict
    <3>3. /\ SystemMessage(round, TurnSkipped) \in Message
          /\ SystemMessage(round, TurnSkipped).kind = "system"
      BY DEF SystemMessage, Message, TypeOK, StoredTypes, RowTypes
    <3>4. QED
      BY <2>2, <3>1, <3>2, <3>3, AdvanceTurnIsQuiet, PlainRecord
  <2>3. CASE UNCHANGED <<row, transcript, memory, passes>>
    <3>1. NoNewWriter /\ UNCHANGED <<transcript, status, round>>
      BY <2>3 DEF NoNewWriter, passes, StillOpen, MayWriteSummary, row
    <3>2. QED
      BY <3>1, SameTranscript
  <2>4. QED
    BY <1>3, <2>1, <2>2, <2>3 DEF ExpireTurns
<1>4. QED
  BY <1>1, <1>2, <1>3 DEF Ticker

-------------------------------------------------------------------------------
(* Steps of a pass. *)

\* What a step of a working pass relies on: it is the only one, so no other may
\* write, and a debate that is still there is in moderation in the pass's round.
LEMMA WorkingAlone ==
    ASSUME TypeOK, PassInvariant, NEW p \in Slots, Working(p)
    PROVE  /\ \A q \in Slots : q # p => ~StillOpen(q) /\ ~MayWriteSummary(q)
           /\ status \in {"moderating", "deleted"}
           /\ status = "moderating" => round = pass[p].round
           /\ pass[p].round \in Nat
<1>1. \A q \in Slots : q # p => ~Working(q)
  BY WorkingIsUnique
<1>2. \A q \in Slots : ~Working(q) => ~StillOpen(q) /\ ~MayWriteSummary(q)
  BY DEF Working, StillOpen, MayWriteSummary
<1>3. QED
  BY <1>1, <1>2, Shapes DEF PassInvariant, WorkingOwns

\* A pass at work that writes no more than it might before.
LEMMA GoingOnQuietly ==
    ASSUME NEW p \in Slots, PassGoesOn(p), StillOpen(p)' => StillOpen(p),
           MayWriteSummary(p)' => MayWriteSummary(p)
    PROVE  NoNewWriter
<1>1. \A q \in Slots : q # p => pc'[q] = pc[q] /\ pass'[q] = pass[q]
  BY DEF PassGoesOn
<1>2. MayWriteSummary(p)' => pass'[p].round = pass[p].round
  BY DEF PassGoesOn, MayWriteSummary
<1>3. QED
  BY <1>1, <1>2 DEF NoNewWriter, StillOpen, MayWriteSummary

\* A pass that returns, or has only the next round to open.
LEMMA NoWriterLeft ==
    ASSUME NEW p \in Slots, PassGoesOn(p),
           pc'[p] = "end" \/ (pc'[p] = "advance" /\ StillOpen(p))
    PROVE  NoNewWriter
<1>1. /\ StillOpen(p)' => StillOpen(p)
      /\ ~MayWriteSummary(p)'
  BY DEF StillOpen, MayWriteSummary
<1>2. QED
  BY <1>1, GoingOnQuietly

\* The first and the last step of a pass.
LEMMA EdgesKeepResults ==
    ASSUME TypeOK, ResultInvariant, NEW p \in Slots, Fetch(p) \/ End(p)
    PROVE  ResultInvariant'
<1>1. UNCHANGED <<transcript, status, round>>
  BY DEF Fetch, End, stored, row
<1>2. /\ \A q \in Slots : q # p => pc'[q] = pc[q] /\ pass'[q] = pass[q]
      /\ pc'[p] \in {"read", "end", "idle"}
  <2>1. CASE Return(p)
    BY <2>1 DEF Return, Goto, Keep, TypeOK, PassTypes
  <2>2. CASE Fetch(p) /\ ~Return(p)
    BY <2>2 DEF Fetch, Goto, Keep, TypeOK, PassTypes
  <2>3. CASE End(p)
    BY <2>3 DEF End, Goto, Keep, TypeOK, PassTypes
  <2>4. QED
    BY <2>1, <2>2, <2>3
<1>3. NoNewWriter
  BY <1>2 DEF NoNewWriter, StillOpen, MayWriteSummary
<1>4. QED
  BY <1>1, <1>3, SameTranscript

\* The steps around a model call.
LEMMA CallingKeepsResults ==
    ASSUME TypeOK, ResultInvariant, NEW p \in Slots, Admit(p) \/ Call(p) \/ Charge(p)
    PROVE  ResultInvariant'
<1>1. UNCHANGED <<transcript, status, round>>
  BY DEF Admit, Call, Charge, stored, row
<1>2. PassTypes /\ pass[p] \in Pass /\ PassGoesOn(p)
  BY GoingOn DEF TypeOK, PassTypes
<1>3. NoNewWriter
  <2>1. CASE Admit(p)
    <3>1. /\ pc[p] = "admit"
          /\ \/ pc'[p] \in {"skip", "conclude"}
             \/ pc'[p] = "call" /\ pass' = pass
      BY <1>2, <2>1, Arrives DEF Admit
    <3>2. QED
      BY <1>2, <3>1, GoingOnQuietly DEF StillOpen, MayWriteSummary
  <2>2. ASSUME pc[p] \in {"call", "charge"}, pc'[p] \in {"charge", AfterCall(p)},
               pass'[p].call = pass[p].call
        PROVE  NoNewWriter
    BY <1>2, <2>2, GoingOnQuietly DEF StillOpen, MayWriteSummary, AfterCall
  <2>3. CASE Call(p)
    <3>1. PICK reply, charge, basis :
            /\ Keep(p, [pass[p] EXCEPT !.reply = reply, !.charge = charge, !.basis = basis])
            /\ Goto(p, IF charge > 0 THEN "charge" ELSE AfterCall(p))
      BY <2>3, Zenon DEF Call
    <3>2. pass'[p].call = pass[p].call
      BY <1>2, <3>1 DEF Keep, PassTypes, Pass
    <3>3. pc[p] = "call" /\ pc'[p] \in {"charge", AfterCall(p)}
      BY <1>2, <2>3, <3>1, Arrives DEF Call
    <3>4. QED
      BY <2>2, <3>2, <3>3
  <2>4. CASE Charge(p)
    <3>1. pass'[p].call = pass[p].call
      BY <1>2, <2>4 DEF Charge, Keep, PassTypes, Pass
    <3>2. pc[p] = "charge" /\ pc'[p] = AfterCall(p)
      BY <1>2, <2>4, Arrives DEF Charge
    <3>3. QED
      BY <2>2, <3>1, <3>2
  <2>5. QED
    BY <2>1, <2>3, <2>4
<1>4. QED
  BY <1>1, <1>3, SameTranscript

\* A record is stored, or lost, that says there is no summary.
LEMMA NoteIsPlain ==
    ASSUME TypeOK, NEW p \in Slots, NoteMissingSummary(p)
    PROVE  \/ transcript' = transcript
           \/ \E m \in Message : /\ m.kind \notin {"summary", "verdict"}
                                 /\ transcript' = Append(transcript, m)
                                 /\ status # "deleted"
<1>1. pass[p].round \in Nat
  BY Shapes
<1>2. SummaryNotice(p) \in Notices
  BY DEF SummaryNotice, Notices
<1>3. /\ SystemMessage(pass[p].round, SummaryNotice(p)) \in Message
      /\ SystemMessage(pass[p].round, SummaryNotice(p)).kind = "system"
  BY <1>1, <1>2 DEF SystemMessage, Message
<1>4. \/ transcript' = transcript
      \/ /\ transcript' = Append(transcript, SystemMessage(pass[p].round, SummaryNotice(p)))
         /\ status # "deleted"
  BY DEF NoteMissingSummary, Exists
<1>5. QED
  BY <1>3, <1>4

\* The record of a missing summary changes no result.
LEMMA NoteKeepsResults ==
    ASSUME TypeOK, ResultInvariant, NEW p \in Slots, StillOpen(p), NoteMissingSummary(p),
           NoNewWriter, UNCHANGED <<status, round>>
    PROVE  ResultInvariant'
<1>1. NoVerdict(transcript)
  BY DEF ResultInvariant
<1>2. CASE transcript' = transcript
  BY <1>2, SameTranscript
<1>3. ASSUME NEW m \in Message, m.kind \notin {"summary", "verdict"},
             transcript' = Append(transcript, m), status # "deleted"
      PROVE  ResultInvariant'
  BY <1>1, <1>3, PlainRecord
<1>4. QED
  BY <1>2, <1>3, NoteIsPlain

\* The pass finds no result where it goes on to write one.
LEMMA ReadingKeepsResults ==
    ASSUME TypeOK, PassInvariant, ResultInvariant, NEW p \in Slots, ReadTranscript(p)
    PROVE  ResultInvariant'
<1> DEFINE r     == pass[p].round
           parts == IF params.mode = "hybrid" THEN roster ELSE <<>>
<1>1. UNCHANGED <<transcript, status, round>> /\ pc[p] = "read"
  BY DEF ReadTranscript, stored, row
<1>2. PassTypes /\ pass[p] \in Pass /\ PassGoesOn(p)
  BY GoingOn DEF TypeOK, PassTypes
<1>3. ~Stored(transcript, r, "verdict") => NoVerdict(transcript)
  <2>1. /\ status \in {"moderating", "deleted"}
        /\ status = "moderating" => round = r
    BY <1>1, WorkingAlone DEF Working
  <2>2. QED
    BY <2>1 DEF ResultInvariant, VerdictIsLast, Stored, Results, NoVerdict
<1>4. ASSUME StillOpen(p)' => NoVerdict(transcript),
             MayWriteSummary(p)' => ~Stored(transcript, r, "summary")
      PROVE  ResultInvariant'
  <2>1. /\ VerdictIsLast' /\ OneSummary(transcript)'
        /\ status' = "deleted" => transcript' = <<>>
    BY <1>1 DEF ResultInvariant, VerdictIsLast, OneSummary, Results
  <2>2. ASSUME NEW q \in Slots
        PROVE  /\ StillOpen(q)' => NoVerdict(transcript)
               /\ MayWriteSummary(q)' => ~Stored(transcript, pass'[q].round, "summary")
    <3>1. CASE q = p
      <4>1. MayWriteSummary(p)' => pass'[p].round = r
        BY <1>2 DEF PassGoesOn, MayWriteSummary
      <4>2. QED
        BY <1>4, <3>1, <4>1
    <3>2. CASE q # p
      <4>1. pc'[q] = pc[q] /\ pass'[q] = pass[q]
        BY <1>2, <3>2 DEF PassGoesOn
      <4>2. QED
        BY <4>1 DEF ResultInvariant, StillOpen, MayWriteSummary
    <3>3. QED
      BY <3>1, <3>2
  <2>3. ASSUME NEW q \in Slots
        PROVE  /\ StillOpen(q)' => NoVerdict(transcript)'
               /\ MayWriteSummary(q)' => ~Stored(transcript, pass[q].round, "summary")'
    BY <1>1, <2>2 DEF NoVerdict, Stored, Results
  <2>4. QED
    BY <2>1, <2>3 DEF ResultInvariant
<1>5. CASE Return(p)
  <2>1. pc'[p] = "end"
    BY <1>2, <1>5, Arrives DEF Return
  <2>2. QED
    BY <1>4, <2>1 DEF StillOpen, MayWriteSummary
<1>6. ASSUME NEW reached, NEW basis,
             Keep(p, ForVerdict(p, transcript, reached, basis)),
             Goto(p, TowardsVerdict(basis)),
             basis # "stored" => ~Stored(transcript, r, "verdict")
      PROVE  ResultInvariant'
  <2>1. pc'[p] = TowardsVerdict(basis)
    BY <1>2, <1>6, Arrives
  <2>2. pass'[p].call = "verdict" /\ pass'[p].basis = basis
    BY <1>2, <1>6 DEF Keep, ForVerdict, PassTypes, Pass
  <2>3. ~MayWriteSummary(p)'
    BY <2>1, <2>2 DEF MayWriteSummary, TowardsVerdict
  <2>4. StillOpen(p)' => basis # "stored"
    BY <2>1, <2>2 DEF StillOpen, TowardsVerdict
  <2>5. QED
    BY <1>3, <1>4, <1>6, <2>3, <2>4
<1>7. CASE TowardsNextRound(p, parts) /\ ~Stored(transcript, r, "verdict")
  <2>1. pc'[p] = "advance"
    BY <1>2, <1>7, Arrives DEF TowardsNextRound
  <2>2. QED
    BY <1>3, <1>4, <1>7, <2>1 DEF MayWriteSummary
<1>8. CASE /\ ~Stored(transcript, r, "verdict") /\ ~NeedsNoSummary(transcript, r)
           /\ Goto(p, "admit")
  BY <1>3, <1>4, <1>8 DEF NeedsNoSummary
<1>9. QED
  <2>1. VerdictBasis(transcript, r) # "stored" => ~Stored(transcript, r, "verdict")
    BY DEF VerdictBasis
  <2>2. CASE /\ Keep(p, ForVerdict(p, transcript, RoundConsensus(transcript, r),
                                   VerdictBasis(transcript, r)))
             /\ Goto(p, TowardsVerdict(VerdictBasis(transcript, r)))
    BY <1>6, <2>1, <2>2
  <2>3. QED
    BY <1>5, <1>7, <1>8, <2>2, Zenon DEF ReadTranscript

\* The pass that has read the transcript again only goes on.
LEMMA RereadingKeepsResults ==
    ASSUME TypeOK, ResultInvariant, NEW p \in Slots, RereadTranscript(p)
    PROVE  ResultInvariant'
<1>1. UNCHANGED <<transcript, status, round>> /\ pc[p] = "reread"
  BY DEF RereadTranscript, stored, row
<1>2. PassTypes /\ pass[p] \in Pass /\ PassGoesOn(p)
  BY GoingOn DEF TypeOK, PassTypes
<1>3. ~MayWriteSummary(p)'
  <2>1. CASE Return(p)
    BY <1>2, <2>1, Arrives DEF Return, MayWriteSummary
  <2>2. CASE TowardsNextRound(p, <<>>)
    BY <1>2, <2>2, Arrives DEF TowardsNextRound, MayWriteSummary
  <2>3. ASSUME NEW basis, Keep(p, ForVerdict(p, transcript, TRUE, basis)),
               Goto(p, TowardsVerdict(basis))
        PROVE  ~MayWriteSummary(p)'
    <3>1. pc'[p] = TowardsVerdict(basis)
      BY <1>2, <2>3, Arrives
    <3>2. pass'[p].call = "verdict"
      BY <1>2, <2>3 DEF Keep, ForVerdict, PassTypes, Pass
    <3>3. QED
      BY <3>1, <3>2 DEF MayWriteSummary, TowardsVerdict
  <2>4. QED
    BY <2>1, <2>2, <2>3, Zenon DEF RereadTranscript
<1>4. NoNewWriter
  BY <1>1, <1>2, <1>3, GoingOnQuietly DEF StillOpen
<1>5. QED
  BY <1>1, <1>4, SameTranscript

\* Opening the next round writes no record, and there is no verdict.
LEMMA AdvancingKeepsResults ==
    ASSUME TypeOK, ResultInvariant, NEW p \in Slots, Advance(p)
    PROVE  ResultInvariant'
<1>1. transcript' = transcript /\ StillOpen(p) /\ Return(p)
  BY DEF Advance, StillOpen
<1>2. status' = "deleted" => status = "deleted"
  BY DEF Advance, UpdateDebate, row
<1>3. NoNewWriter
  BY <1>1, GoingOn, NoWriterLeft, Arrives DEF Return, TypeOK
<1>4. QED
  BY <1>1, <1>2, <1>3, SameTranscript DEF ResultInvariant

\* A restart leaves no writer.
LEMMA RestartKeepsResults ==
    ASSUME TypeOK, ResultInvariant, Restart
    PROVE  ResultInvariant'
<1>1. UNCHANGED <<transcript, status, round>>
  BY DEF Restart, stored, row
<1>2. NoNewWriter
  BY DEF Restart, NoNewWriter, StillOpen, MayWriteSummary
<1>3. QED
  BY <1>1, <1>2, SameTranscript

\* A missing summary.
LEMMA SkippingKeepsResults ==
    ASSUME TypeOK, ResultInvariant, NEW p \in Slots, SkipSummary(p)
    PROVE  ResultInvariant'
<1>1. /\ NoteMissingSummary(p) /\ UNCHANGED <<status, round>> /\ StillOpen(p)
      /\ TowardsNextRound(p, pass[p].parts)
  BY DEF SkipSummary, StillOpen, row
<1>2. NoNewWriter
  BY <1>1, GoingOn, NoWriterLeft, Arrives DEF TowardsNextRound, TypeOK
<1>3. QED
  BY <1>1, <1>2, NoteKeepsResults

\* The one summary of the round is stored by the only pass at work.
LEMMA SavingKeepsResults ==
    ASSUME TypeOK, PassInvariant, ResultInvariant, NEW p \in Slots, SaveSummary(p)
    PROVE  ResultInvariant'
<1>1. /\ UNCHANGED <<status, round>> /\ StillOpen(p) /\ MayWriteSummary(p) /\ Working(p)
      /\ pc[p] = "save"
  BY DEF SaveSummary, StillOpen, MayWriteSummary, Working, row
<1>2. PassTypes /\ PassGoesOn(p)
  BY GoingOn DEF TypeOK
<1>3. pc'[p] \in {"advance", "reread", "end"}
  BY <1>2, Arrives DEF SaveSummary, AfterSummary, TowardsNextRound, Return
<1>4. NoNewWriter /\ ~MayWriteSummary(p)'
  BY <1>1, <1>2, <1>3, GoingOnQuietly DEF MayWriteSummary
<1>5. CASE NoteMissingSummary(p)
  BY <1>1, <1>4, <1>5, NoteKeepsResults
<1>6. CASE transcript' = transcript
  BY <1>1, <1>4, <1>6, SameTranscript
<1>7. CASE /\ Exists
           /\ transcript' = Append(transcript, RoundSummary(pass[p].round, SummaryConsensus(p)))
  <2> DEFINE r == pass[p].round
             m == RoundSummary(r, SummaryConsensus(p))
             n == Len(transcript)
  <2>1. r \in Nat /\ status = "moderating"
    BY <1>1, <1>7, WorkingAlone DEF Exists
  <2>2. m \in Message /\ m.kind = "summary" /\ m.round = r
    BY <2>1 DEF RoundSummary, Message, SummaryConsensus
  <2> HIDE DEF m
  <2>3. transcript \in Seq(Message) /\ transcript' = Append(transcript, m)
    BY <1>7 DEF m, TypeOK, StoredTypes
  <2>4. /\ DOMAIN transcript' = 1..(n + 1) /\ DOMAIN transcript = 1..n /\ n \in Nat
        /\ \A i \in DOMAIN transcript : transcript'[i] = transcript[i]
        /\ transcript'[n + 1] = m
    BY <2>2, <2>3, Longer
  <2> HIDE DEF n
  <2>5. NoVerdict(transcript)'
    BY <1>1, <2>2, <2>4 DEF NoVerdict, ResultInvariant
  <2>6. Results(transcript, r, "summary") = {}
    BY <1>1 DEF ResultInvariant, Stored
  <2>7. OneSummary(transcript)'
    <3>1. ASSUME NEW s, NEW i \in Results(transcript, s, "summary")',
                 NEW j \in Results(transcript, s, "summary")'
          PROVE  i = j
      <4>1. CASE s = r
        <5>1. ASSUME NEW k \in DOMAIN transcript', transcript'[k].round = r,
                     transcript'[k].kind = "summary"
              PROVE  k = n + 1
          BY <2>4, <2>6, <5>1 DEF Results
        <5>2. QED
          BY <3>1, <4>1, <5>1 DEF Results
      <4>2. CASE s # r
        <5>1. i \in Results(transcript, s, "summary") /\ j \in Results(transcript, s, "summary")
          BY <2>2, <2>4, <3>1, <4>2 DEF Results
        <5>2. QED
          BY <5>1, OneSummaryByRound DEF ResultInvariant
      <4>3. QED
        BY <4>1, <4>2
    <3>2. QED
      BY <3>1, OneSummaryByRound
  <2>8. \A q \in Slots : ~MayWriteSummary(q)'
    <3>1. \A q \in Slots : q # p => ~MayWriteSummary(q)
      BY <1>1, WorkingAlone
    <3>2. QED
      BY <1>4, <3>1 DEF NoNewWriter
  <2>9. QED
    BY <1>1, <2>1, <2>5, <2>7, <2>8 DEF ResultInvariant, VerdictIsLast, NoVerdict
<1>8. QED
  BY <1>5, <1>6, <1>7 DEF SaveSummary

\* A sequence of one or two elements is known by them.
LEMMA ShortSequences ==
    ASSUME NEW S, NEW s \in Seq(S)
    PROVE  /\ Len(s) = 0 => s = <<>>
           /\ Len(s) = 1 => s = <<s[1]>>
           /\ Len(s) = 2 => s = <<s[1], s[2]>>
<1>1. CASE Len(s) = 0
  BY <1>1, EmptySeq
<1>2. CASE Len(s) = 1
  <2>1. s[1] \in S
    BY <1>2, ElementOfSeq
  <2>2. <<s[1]>> \in Seq(S) /\ Len(<<s[1]>>) = 1 /\ <<s[1]>>[1] = s[1]
    BY <2>1
  <2> DEFINE t == <<s[1]>>
  <2>4. t \in Seq(S) /\ Len(s) = Len(t) /\ \A i \in 1..Len(s) : s[i] = t[i]
    BY <1>2, <2>2
  <2> HIDE DEF t
  <2>5. s = t
    BY <2>4, SeqEqual
  <2>6. s = <<s[1]>>
    BY <2>5 DEF t
  <2>3. QED
    BY <1>2, <2>6
<1>3. CASE Len(s) = 2
  <2>1. s[1] \in S /\ s[2] \in S
    <3>1. 1 \in 1..Len(s) /\ 2 \in 1..Len(s)
      BY <1>3
    <3>2. QED
      BY <3>1, ElementOfSeq
  <2> DEFINE t == <<s[1], s[2]>>
  <2>2. t \in Seq(S) /\ Len(t) = 2 /\ t[1] = s[1] /\ t[2] = s[2]
    BY <2>1
  <2> HIDE DEF t
  <2>4. Len(s) = Len(t) /\ \A i \in 1..Len(s) : s[i] = t[i]
    BY <1>3, <2>2
  <2>5. s = t
    BY <2>2, <2>4, SeqEqual
  <2>6. s = <<s[1], s[2]>>
    BY <2>5 DEF t
  <2>3. QED
    BY <1>3, <2>6
<1>4. QED
  BY <1>1, <1>2, <1>3

\* Two sequences of one element each.
LEMMA Pair ==
    ASSUME NEW S, NEW m \in S, NEW v \in S
    PROVE  <<m>> \o <<v>> = <<m, v>>
<1>1. <<m>> \in Seq(S) /\ <<v>> \in Seq(S)
  OBVIOUS
<1>2. Len(<<m>>) = 1 /\ Len(<<v>>) = 1
  OBVIOUS
<1>3. <<m>> \o <<v>> \in Seq(S) /\ Len(<<m>> \o <<v>>) = 2
  BY <1>1, <1>2, ConcatProperties
<1>4. (<<m>> \o <<v>>)[1] = m /\ (<<m>> \o <<v>>)[2] = v
  BY <1>1, <1>2, ConcatProperties
<1>5. QED
  BY <1>3, <1>4, ShortSequences

\* The beginnings of a short sequence.
LEMMA Prefix ==
    ASSUME NEW S, NEW s \in Seq(S), Len(s) <= 2, NEW n \in 0..Len(s)
    PROVE  /\ n = 0 => SubSeq(s, 1, n) = <<>>
           /\ n = 1 => SubSeq(s, 1, n) = <<s[1]>>
           /\ n = 2 => SubSeq(s, 1, n) = <<s[1], s[2]>>
           /\ n \in {0, 1, 2}
<1> DEFINE t == SubSeq(s, 1, n)
<1>1. t \in Seq(S) /\ Len(t) = n /\ \A i \in 1..n : t[i] = s[i]
  BY SubSeqProperties
<1>2. n \in {0, 1, 2}
  OBVIOUS
<1>3. CASE n = 0
  BY <1>3, SubSeqEmpty
<1>4. CASE n = 1
  <2>1. t = <<t[1]>>
    BY <1>1, <1>4, ShortSequences
  <2>2. t[1] = s[1]
    BY <1>1, <1>4
  <2>3. QED
    BY <2>1, <2>2
<1>5. CASE n = 2
  <2>1. t = <<t[1], t[2]>>
    BY <1>1, <1>5, ShortSequences
  <2>2. t[1] = s[1] /\ t[2] = s[2]
    BY <1>1, <1>5
  <2>3. QED
    BY <2>1, <2>2
<1>6. QED
  BY <1>2, <1>3, <1>4, <1>5

\* So every beginning of a tail of at most two records is again one.
LEMMA Beginnings ==
    ASSUME NEW S, NEW m \in S, NEW v \in S, NEW s \in {<<>>, <<m>>, <<v>>, <<m, v>>},
           NEW n \in 0..Len(s)
    PROVE  SubSeq(s, 1, n) \in {<<>>, <<m>>, <<v>>, <<m, v>>}
<1>1. ASSUME NEW x \in S, NEW i \in 0..1
      PROVE  SubSeq(<<x>>, 1, i) \in {<<>>, <<x>>}
  <2> DEFINE t == <<x>>
  <2>1. t \in Seq(S) /\ Len(t) = 1 /\ t[1] = x
    OBVIOUS
  <2> HIDE DEF t
  <2>2. Len(t) <= 2 /\ i \in 0..Len(t)
    BY <2>1
  <2>3. /\ i = 0 => SubSeq(t, 1, i) = <<>>
        /\ i = 1 => SubSeq(t, 1, i) = <<t[1]>>
        /\ i = 2 => SubSeq(t, 1, i) = <<t[1], t[2]>>
    BY <2>1, <2>2, Prefix
  <2>4. SubSeq(t, 1, i) \in {<<>>, <<x>>}
    BY <2>1, <2>3
  <2>5. QED
    BY <2>4 DEF t
<1>2. ASSUME NEW i \in 0..2
      PROVE  SubSeq(<<m, v>>, 1, i) \in {<<>>, <<m>>, <<m, v>>}
  <2> DEFINE t == <<m, v>>
  <2>1. t \in Seq(S) /\ Len(t) = 2 /\ t[1] = m /\ t[2] = v
    OBVIOUS
  <2> HIDE DEF t
  <2>2. Len(t) <= 2 /\ i \in 0..Len(t)
    BY <2>1
  <2>3. /\ i = 0 => SubSeq(t, 1, i) = <<>>
        /\ i = 1 => SubSeq(t, 1, i) = <<t[1]>>
        /\ i = 2 => SubSeq(t, 1, i) = <<t[1], t[2]>>
    BY <2>1, <2>2, Prefix
  <2>4. SubSeq(t, 1, i) \in {<<>>, <<m>>, <<m, v>>}
    BY <2>1, <2>3
  <2>5. QED
    BY <2>4 DEF t
<1>3. CASE s = <<>>
  <2>1. n = 0
    BY <1>3
  <2>2. QED
    BY <2>1, SubSeqEmpty
<1>4. ASSUME NEW x \in {m, v}, s = <<x>>
      PROVE  SubSeq(s, 1, n) \in {<<>>, <<m>>, <<v>>}
  <2>1. Len(<<x>>) = 1
    OBVIOUS
  <2>2. n \in 0..1
    BY <1>4, <2>1
  <2>3. SubSeq(<<x>>, 1, n) \in {<<>>, <<x>>}
    BY <1>1, <2>2
  <2>4. QED
    BY <1>4, <2>3
<1>5. CASE s = <<m, v>>
  <2>1. Len(<<m, v>>) = 2
    OBVIOUS
  <2>2. n \in 0..2
    BY <1>5, <2>1
  <2>3. QED
    BY <1>2, <1>5, <2>2
<1>6. QED
  BY <1>3, <1>4, <1>5

\* One record, or two, at the end of a transcript.
LEMMA Appending ==
    ASSUME NEW msgs \in Seq(Message), NEW m \in Message, NEW v \in Message
    PROVE  /\ msgs \o <<>> = msgs
           /\ msgs \o <<m>> = Append(msgs, m)
           /\ msgs \o <<m, v>> = Append(Append(msgs, m), v)
OBVIOUS

\* What the end of a pass adds to the transcript: nothing, a notice, a verdict, or
\* a notice and then a verdict; nothing at all when the verdict was stored before.
LEMMA ClosingIsOrdered ==
    ASSUME TypeOK, NEW p \in Slots, Conclude(p)
    PROVE  \/ transcript' = transcript
           \/ /\ Exists /\ pass[p].basis # "stored"
              /\ \E m, v \in Message :
                    /\ m.kind = "system"
                    /\ v.kind = "verdict" /\ v.round = pass[p].round
                    /\ \/ transcript' = Append(transcript, m)
                       \/ transcript' = Append(transcript, v)
                       \/ transcript' = Append(Append(transcript, m), v)
<1> DEFINE records == ClosingRecords(p)
           IsRemark(m)  == m \in Message /\ m.kind = "system"
           IsVerdict(v) == v \in Message /\ v.kind = "verdict" /\ v.round = pass[p].round
<1>1. pass[p].round \in Nat /\ OutcomeConsensus(p) \in BOOLEAN /\ transcript \in Seq(Message)
  BY Shapes, ClosingTypes DEF TypeOK, StoredTypes
<1>2. Explanation(p) = <<>> \/ \E m : IsRemark(m) /\ Explanation(p) = <<m>>
  <2>1. BudgetVerdict(params.mode) \in Notices /\ UnavailableVerdict(params.mode) \in Notices
    BY DEF BudgetVerdict, UnavailableVerdict, Notices
  <2>2. /\ IsRemark(SystemMessage(pass[p].round, BudgetVerdict(params.mode)))
        /\ IsRemark(SystemMessage(pass[p].round, UnavailableVerdict(params.mode)))
    BY <1>1, <2>1 DEF SystemMessage, Message
  <2> HIDE DEF IsRemark
  <2>3. QED
    BY <2>2 DEF Explanation
<1>3. NewVerdict(p) = <<>> \/ \E v : IsVerdict(v) /\ NewVerdict(p) = <<v>>
  <2>1. /\ IsVerdict(Verdict(pass[p].round, "moderator", OutcomeConsensus(p)))
        /\ IsVerdict(Verdict(pass[p].round, "system", OutcomeConsensus(p)))
    BY <1>1 DEF Verdict, Message
  <2> HIDE DEF IsVerdict
  <2>2. QED
    BY <2>1 DEF NewVerdict
<1>4. pass[p].basis = "stored" => records = <<>>
  BY DEF ClosingRecords, Explanation, NewVerdict
<1>5. IsRemark(SystemMessage(pass[p].round, TurnSkipped))
      /\ IsVerdict(Verdict(pass[p].round, "system", FALSE))
  BY <1>1 DEF SystemMessage, Verdict, Message
<1> HIDE DEF IsRemark, IsVerdict
<1>6. \E m, v : /\ IsRemark(m) /\ IsVerdict(v)
                /\ records \in {<<>>, <<m>>, <<v>>, <<m, v>>}
  <2>1. CASE Explanation(p) = <<>> /\ NewVerdict(p) = <<>>
    <3>1. records = <<>>
      BY <2>1 DEF ClosingRecords
    <3>2. QED
      BY <1>5, <3>1
  <2>2. ASSUME NEW m, IsRemark(m), Explanation(p) = <<m>>, NewVerdict(p) = <<>>
        PROVE  \E w, v : /\ IsRemark(w) /\ IsVerdict(v)
                         /\ records \in {<<>>, <<w>>, <<v>>, <<w, v>>}
    <3>1. records = <<m>>
      BY <2>2 DEF ClosingRecords
    <3>2. QED
      BY <1>5, <2>2, <3>1
  <2>3. ASSUME NEW v, IsVerdict(v), Explanation(p) = <<>>, NewVerdict(p) = <<v>>
        PROVE  \E m, w : /\ IsRemark(m) /\ IsVerdict(w)
                         /\ records \in {<<>>, <<m>>, <<w>>, <<m, w>>}
    <3>1. records = <<v>>
      BY <2>3 DEF ClosingRecords
    <3>2. QED
      BY <1>5, <2>3, <3>1
  <2>4. ASSUME NEW m, IsRemark(m), Explanation(p) = <<m>>,
               NEW v, IsVerdict(v), NewVerdict(p) = <<v>>
        PROVE  \E w, x : /\ IsRemark(w) /\ IsVerdict(x)
                         /\ records \in {<<>>, <<w>>, <<x>>, <<w, x>>}
    <3>1. records = <<m, v>>
      BY <2>4, Pair DEF ClosingRecords, IsRemark, IsVerdict
    <3>2. QED
      BY <2>4, <3>1
  <2>5. QED
    BY <1>2, <1>3, <2>1, <2>2, <2>3, <2>4
<1>7. PICK m, v : /\ IsRemark(m) /\ IsVerdict(v)
                  /\ records \in {<<>>, <<m>>, <<v>>, <<m, v>>}
  BY <1>6
<1>8. \A n \in 0..Len(records) : SubSeq(records, 1, n) \in {<<>>, <<m>>, <<v>>, <<m, v>>}
  <2>1. m \in Message /\ v \in Message
    BY <1>7 DEF IsRemark, IsVerdict
  <2> HIDE DEF records
  <2>2. QED
    BY <1>7, <2>1, Beginnings
<1>9. \/ transcript' = transcript
      \/ /\ Exists
         /\ \E tail \in {<<>>, <<m>>, <<v>>, <<m, v>>} : transcript' = transcript \o tail
  <2>1. CASE (Exists \/ records = <<>>) /\ transcript' = transcript \o records
    BY <1>1, <1>7, <2>1, Appending DEF IsRemark
  <2>2. CASE /\ Exists
             /\ \E n \in 0..Len(records) :
                   transcript' = transcript \o SubSeq(records, 1, n)
    BY <1>8, <2>2
  <2>3. QED
    BY <2>1, <2>2 DEF Conclude
<1>10. pass[p].basis = "stored" => transcript' = transcript
  <2>1. records = <<>> /\ Len(<<>>) = 0 => \A n \in 0..Len(records) : SubSeq(records, 1, n) = <<>>
    OBVIOUS
  <2>2. QED
    BY <1>1, <1>4, <2>1, Appending DEF Conclude
<1>11. m \in Message /\ m.kind = "system"
       /\ v \in Message /\ v.kind = "verdict" /\ v.round = pass[p].round
  BY <1>7 DEF IsRemark, IsVerdict
<1>12. /\ transcript \o <<>> = transcript
       /\ transcript \o <<m>> = Append(transcript, m)
       /\ transcript \o <<v>> = Append(transcript, v)
       /\ transcript \o <<m, v>> = Append(Append(transcript, m), v)
  BY <1>1, <1>11, Appending
<1>13. \/ transcript' = transcript
       \/ /\ Exists
          /\ \/ transcript' = Append(transcript, m)
             \/ transcript' = Append(transcript, v)
             \/ transcript' = Append(Append(transcript, m), v)
  BY <1>9, <1>12
<1>14. QED
  BY <1>10, <1>11, <1>13, Zenon

\* A verdict at the end of a transcript without one keeps the invariant, when no
\* pass is left to write.
LEMMA VerdictAtTheEnd ==
    ASSUME NEW msgs \in Seq(Message), NoVerdict(msgs), OneSummary(msgs),
           NEW v \in Message, v.kind = "verdict", v.round = round',
           transcript' = Append(msgs, v), status' \in {"moderating", "concluded"},
           \A q \in Slots : ~StillOpen(q)' /\ ~MayWriteSummary(q)'
    PROVE  ResultInvariant'
<1> DEFINE n == Len(msgs)
<1>1. /\ DOMAIN transcript' = 1..(n + 1) /\ DOMAIN msgs = 1..n /\ n \in Nat
      /\ Len(transcript') = n + 1
      /\ \A i \in DOMAIN msgs : transcript'[i] = msgs[i]
      /\ transcript'[n + 1] = v
  BY Longer
<1>2. VerdictIsLast'
  BY <1>1 DEF VerdictIsLast, NoVerdict
<1>3. ASSUME NEW r
      PROVE  Results(transcript, r, "summary")' = Results(msgs, r, "summary")
  BY <1>1 DEF Results
<1>4. OneSummary(transcript)'
  BY <1>3, OneSummaryByRound
<1>5. QED
  BY <1>2, <1>4 DEF ResultInvariant

\* A record that is no result leaves a transcript without a verdict without one.
LEMMA NoticeIsQuiet ==
    ASSUME NEW msgs \in Seq(Message), NoVerdict(msgs), OneSummary(msgs),
           NEW m \in Message, m.kind = "system"
    PROVE  /\ Append(msgs, m) \in Seq(Message)
           /\ NoVerdict(Append(msgs, m)) /\ OneSummary(Append(msgs, m))
<1> DEFINE n == Len(msgs)
<1>1. /\ DOMAIN Append(msgs, m) = 1..(n + 1) /\ DOMAIN msgs = 1..n /\ n \in Nat
      /\ \A i \in DOMAIN msgs : Append(msgs, m)[i] = msgs[i]
      /\ Append(msgs, m)[n + 1] = m
  BY Longer
<1>2. NoVerdict(Append(msgs, m))
  BY <1>1 DEF NoVerdict
<1>3. ASSUME NEW r
      PROVE  Results(Append(msgs, m), r, "summary") = Results(msgs, r, "summary")
  BY <1>1 DEF Results
<1>4. OneSummary(Append(msgs, m))
  BY <1>3, OneSummaryByRound
<1>5. QED
  BY <1>2, <1>4, AppendProperties

\* The one verdict of the debate is stored by the only pass at work, as the last
\* record, whether or not the writes that should follow it succeed.
LEMMA ConcludingKeepsResults ==
    ASSUME TypeOK, PassInvariant, ResultInvariant, NEW p \in Slots, Conclude(p)
    PROVE  ResultInvariant'
<1>1. pc[p] = "conclude" /\ Working(p) /\ Return(p)
  BY DEF Conclude, Working
<1>2. PassTypes /\ PassGoesOn(p) /\ pc'[p] = "end" /\ transcript \in Seq(Message)
  BY <1>1, GoingOn, Arrives DEF TypeOK, StoredTypes, Return
<1>3. NoNewWriter
  BY <1>2, NoWriterLeft
<1>4. /\ status \in {"moderating", "deleted"}
      /\ status = "moderating" => round = pass[p].round
      /\ \A q \in Slots : q # p => ~StillOpen(q) /\ ~MayWriteSummary(q)
  BY <1>1, WorkingAlone
<1>5. \A q \in Slots : ~StillOpen(q)' /\ ~MayWriteSummary(q)'
  BY <1>2, <1>3, <1>4 DEF NoNewWriter, StillOpen, MayWriteSummary
<1>6. /\ status = "deleted" => status' = "deleted" /\ round' = round
      /\ status = "moderating" => status' \in {"moderating", "concluded"} /\ round' = round
  BY <1>4 DEF Conclude, UpdateDebate, Exists, row
<1>7. CASE transcript' = transcript
  BY <1>3, <1>4, <1>6, <1>7, SameTranscript
<1>8. ASSUME Exists, pass[p].basis # "stored", NEW m \in Message, NEW v \in Message,
             m.kind = "system", v.kind = "verdict", v.round = pass[p].round,
             \/ transcript' = Append(transcript, m)
             \/ transcript' = Append(transcript, v)
             \/ transcript' = Append(Append(transcript, m), v)
      PROVE  ResultInvariant'
  <2>1. NoVerdict(transcript) /\ OneSummary(transcript)
    BY <1>1, <1>8 DEF ResultInvariant, StillOpen
  <2>2. /\ status = "moderating" /\ status' \in {"moderating", "concluded"}
        /\ round' = pass[p].round
    BY <1>4, <1>6, <1>8 DEF Exists
  <2>3. CASE transcript' = Append(transcript, m)
    BY <1>3, <1>8, <2>1, <2>2, <2>3, PlainRecord
  <2>4. CASE transcript' = Append(transcript, v)
    BY <1>2, <1>5, <1>8, <2>1, <2>2, <2>4, VerdictAtTheEnd
  <2>5. CASE transcript' = Append(Append(transcript, m), v)
    <3>1. /\ Append(transcript, m) \in Seq(Message)
          /\ NoVerdict(Append(transcript, m)) /\ OneSummary(Append(transcript, m))
      BY <1>2, <1>8, <2>1, NoticeIsQuiet
    <3>2. QED
      BY <1>5, <1>8, <2>2, <2>5, <3>1, VerdictAtTheEnd
  <2>6. QED
    BY <1>8, <2>3, <2>4, <2>5
<1>9. QED
  BY <1>7, <1>8, ClosingIsOrdered

-------------------------------------------------------------------------------
(* The theorems. *)

\* The result invariant holds at first.
LEMMA ResultInvariantInit == Init => ResultInvariant
BY DEF Init, ResultInvariant, VerdictIsLast, OneSummary, Results, NoVerdict, StillOpen,
       MayWriteSummary

\* Every step keeps it.
LEMMA ResultInvariantStep ==
    ASSUME TypeOK, PassInvariant, ResultInvariant, [Next]_vars
    PROVE  ResultInvariant'
<1>1. CASE Clients
  BY <1>1, ClientsKeepResults
<1>2. CASE Ticker
  BY <1>2, TickerKeepsResults
<1>3. ASSUME NEW p \in Slots, PassStep(p)
      PROVE  ResultInvariant'
  BY <1>3, EdgesKeepResults, CallingKeepsResults, ReadingKeepsResults,
     RereadingKeepsResults, AdvancingKeepsResults, SkippingKeepsResults,
     SavingKeepsResults, ConcludingKeepsResults, RestartKeepsResults DEF PassStep, Panic
<1>4. CASE Time \/ UNCHANGED vars
  <2>1. NoNewWriter /\ UNCHANGED <<transcript, status, round>>
    BY <1>4 DEF Time, DeadlinePasses, RetryPauseElapses, vars, stored, row, passes,
           NoNewWriter, StillOpen, MayWriteSummary
  <2>2. QED
    BY <2>1, SameTranscript
<1>5. CASE Crash
  BY <1>5, RestartKeepsResults DEF Crash
<1>6. QED
  BY <1>1, <1>2, <1>3, <1>4, <1>5 DEF Next

\* The result invariant holds of every behaviour.
THEOREM ResultInvariantHolds ==
    ASSUME PromptLaunch, PromptSweep
    PROVE  Spec => []ResultInvariant
<1>1. TypeOK /\ PassInvariant /\ ResultInvariant /\ [Next]_vars => ResultInvariant'
  BY ResultInvariantStep
<1>2. QED
  BY <1>1, ResultInvariantInit, TypesHold, PassInvariantHolds, PTL DEF Spec

\* Whatever is retried after whatever failed, no round ever holds two summaries or
\* two verdicts, the state moderationMessagesForRound refuses for good.
THEOREM NoAmbiguousRoundHolds ==
    ASSUME PromptLaunch, PromptSweep
    PROVE  Spec => []NoAmbiguousRound
<1>1. TypeOK /\ ResultInvariant => NoAmbiguousRound
  <2> SUFFICES ASSUME TypeOK, ResultInvariant, NEW r \in 1..params.rounds,
                      Ambiguous(transcript, r)
               PROVE  FALSE
    BY DEF NoAmbiguousRound
  <2>2. PICK kind \in {"summary", "verdict"} :
           \E i, j \in Results(transcript, r, kind) : i # j
    BY DEF Ambiguous
  <2>3. CASE kind = "summary"
    BY <2>2, <2>3, OneSummaryByRound DEF ResultInvariant
  <2>4. CASE kind = "verdict"
    BY <2>2, <2>4 DEF ResultInvariant, VerdictIsLast, Results
  <2>5. QED
    BY <2>2, <2>3, <2>4
<1>2. QED
  BY <1>1, ResultInvariantHolds, TypesHold, PTL

\* A verdict is the last record of its debate, and appears only from moderation on.
THEOREM VerdictClosesHolds ==
    ASSUME PromptLaunch, PromptSweep
    PROVE  Spec => []VerdictCloses
<1>1. ResultInvariant => VerdictCloses
  BY DEF ResultInvariant, VerdictIsLast, VerdictCloses
<1>2. QED
  BY <1>1, ResultInvariantHolds, PTL

-------------------------------------------------------------------------------
(* Notices of failures are kept, and an outcome is explained by them: what a *)
(* pass has read of the transcript before its call still holds when it       *)
(* writes (NoticeInvariant).                                                 *)

\* One position more.
LEMMA OneLonger ==
    ASSUME NEW msgs \in Seq(Message), NEW m \in Message
    PROVE  DOMAIN Append(msgs, m) = DOMAIN msgs \cup {Len(msgs) + 1}
BY Longer

\* A recorded notice, by what it says.
LEMMA CommittedIsRecorded ==
    ASSUME NEW msgs, NEW r
    PROVE  /\ CommittedVerdict(msgs, r) # "" <=>
                 \/ NoticeRecorded(msgs, r, BudgetVerdict(params.mode))
                 \/ NoticeRecorded(msgs, r, UnavailableVerdict(params.mode))
           /\ CommittedSummary(msgs, r) # "" <=>
                 \/ NoticeRecorded(msgs, r, NoticeBudgetSummary)
                 \/ NoticeRecorded(msgs, r, NoticeUnavailableSummary)
<1>1. /\ BudgetVerdict(params.mode) # "" /\ UnavailableVerdict(params.mode) # ""
      /\ NoticeBudgetSummary # "" /\ NoticeUnavailableSummary # ""
  BY DEF BudgetVerdict, UnavailableVerdict, NoticeBudgetVerdictHybrid,
         NoticeBudgetVerdictModerator, NoticeUnavailableVerdictHybrid,
         NoticeUnavailableVerdictModerator, NoticeBudgetSummary, NoticeUnavailableSummary
<1>2. QED
  BY <1>1 DEF CommittedVerdict, CommittedSummary, CommittedDegradation

\* What is recorded stays so when a record is added, and only the record itself is
\* added to it.
LEMMA RecordedAfter ==
    ASSUME NEW msgs \in Seq(Message), NEW m \in Message, NEW r, NEW notice
    PROVE  NoticeRecorded(Append(msgs, m), r, notice) <=>
              \/ NoticeRecorded(msgs, r, notice)
              \/ m.kind = "system" /\ m.round = r /\ m.text = notice
<1> DEFINE n == Len(msgs)
           longer == Append(msgs, m)
<1>1. /\ DOMAIN longer = 1..(n + 1) /\ DOMAIN msgs = 1..n /\ n \in Nat
      /\ \A i \in DOMAIN msgs : longer[i] = msgs[i]
      /\ longer[n + 1] = m
  BY Longer
<1>2. DOMAIN longer = DOMAIN msgs \cup {n + 1}
  BY OneLonger
<1> HIDE DEF longer, n
<1>3. NoticeRecorded(longer, r, notice) <=>
         \/ NoticeRecorded(msgs, r, notice)
         \/ m.kind = "system" /\ m.round = r /\ m.text = notice
  BY <1>1, <1>2, Zenon DEF NoticeRecorded
<1>4. QED
  BY <1>3 DEF longer

\* A record may be added when it keeps the notices of its round, and these keep it.
LEMMA RecordExplains ==
    ASSUME NEW msgs \in Seq(Message), NEW m \in Message, Explains(msgs),
           \A i \in DOMAIN msgs : msgs[i].round = m.round =>
              /\ IsNotice(msgs[i]) => Keeps(msgs[i], m)
              /\ IsNotice(m) => Keeps(m, msgs[i]),
           IsNotice(m) =>
              m.text \in {NoticeBudgetSummary, NoticeUnavailableSummary,
                          BudgetVerdict(params.mode), UnavailableVerdict(params.mode)},
           (IsNotice(m) /\ m.text = BudgetVerdict(params.mode))
              => ~NoticeRecorded(msgs, m.round, UnavailableVerdict(params.mode)),
           (IsNotice(m) /\ m.text = UnavailableVerdict(params.mode))
              => ~NoticeRecorded(msgs, m.round, BudgetVerdict(params.mode)),
           m.kind = "verdict" => m.by = "moderator" \/ CommittedVerdict(msgs, m.round) # ""
    PROVE  Explains(Append(msgs, m))
<1> DEFINE n == Len(msgs)
           longer == Append(msgs, m)
           budget == BudgetVerdict(params.mode)
           unavailable == UnavailableVerdict(params.mode)
<1>1. /\ DOMAIN longer = 1..(n + 1) /\ DOMAIN msgs = 1..n /\ n \in Nat
      /\ \A i \in DOMAIN msgs : longer[i] = msgs[i]
      /\ longer[n + 1] = m
  BY Longer
<1>2. ASSUME NEW r
      PROVE  CommittedVerdict(msgs, r) # "" => CommittedVerdict(longer, r) # ""
  BY CommittedIsRecorded, RecordedAfter
<1>3. \A r : CommittedVerdict(msgs, r) # "" => CommittedVerdict(longer, r) # ""
  BY <1>2
<1>4. budget # unavailable
  BY DEF BudgetVerdict, UnavailableVerdict, NoticeBudgetVerdictHybrid,
         NoticeBudgetVerdictModerator, NoticeUnavailableVerdictHybrid,
         NoticeUnavailableVerdictModerator
<1> HIDE DEF longer, n, budget, unavailable
<1>5. DOMAIN longer = DOMAIN msgs \cup {n + 1}
  BY OneLonger DEF longer, n
<1>6. NoticesKept(longer)
  <2> SUFFICES ASSUME NEW i \in DOMAIN longer, NEW j \in DOMAIN longer,
                      IsNotice(longer[i]), longer[j].round = longer[i].round, i # j
               PROVE  Keeps(longer[i], longer[j])
    BY Zenon DEF NoticesKept
  <2>1. CASE i \in DOMAIN msgs /\ j \in DOMAIN msgs
    BY <1>1, <2>1 DEF Explains, NoticesKept
  <2>2. CASE i \in DOMAIN msgs /\ j = n + 1
    BY <1>1, <2>2
  <2>3. CASE i = n + 1 /\ j \in DOMAIN msgs
    BY <1>1, <2>3
  <2>4. QED
    BY <1>5, <2>1, <2>2, <2>3
<1>7. NoticesFit(longer)
  <2>1. ASSUME NEW i \in DOMAIN longer, IsNotice(longer[i])
        PROVE  longer[i].text \in {NoticeBudgetSummary, NoticeUnavailableSummary,
                                   budget, unavailable}
    BY <1>1, <1>5, <2>1 DEF Explains, NoticesFit, budget, unavailable
  <2>2. ASSUME NEW i \in DOMAIN longer, NEW j \in DOMAIN longer, IsNotice(longer[i]),
               IsNotice(longer[j]), longer[i].round = longer[j].round,
               longer[i].text = budget, longer[j].text = unavailable
        PROVE  FALSE
    <3>1. \A k \in DOMAIN msgs : IsNotice(msgs[k]) => msgs[k].kind = "system"
      BY DEF IsNotice
    <3>2. CASE i \in DOMAIN msgs /\ j \in DOMAIN msgs
      BY <1>1, <2>2, <3>2 DEF Explains, NoticesFit, budget, unavailable
    <3>3. CASE i \in DOMAIN msgs /\ j = n + 1
      BY <1>1, <2>2, <3>1, <3>3 DEF NoticeRecorded, budget, unavailable
    <3>4. CASE i = n + 1 /\ j \in DOMAIN msgs
      BY <1>1, <2>2, <3>1, <3>4 DEF NoticeRecorded, budget, unavailable
    <3>5. CASE i = n + 1 /\ j = n + 1
      BY <1>4, <2>2, <3>5
    <3>6. QED
      BY <1>5, <3>2, <3>3, <3>4, <3>5
  <2>3. QED
    BY <2>1, <2>2, Zenon DEF NoticesFit, budget, unavailable
<1>8. VerdictsExplained(longer)
  <2> SUFFICES ASSUME NEW i \in DOMAIN longer, longer[i].kind = "verdict",
                      longer[i].by # "moderator"
               PROVE  CommittedVerdict(longer, longer[i].round) # ""
    BY DEF VerdictsExplained
  <2>1. CASE i \in DOMAIN msgs
    BY <1>1, <1>3, <2>1 DEF Explains, VerdictsExplained
  <2>2. CASE i = n + 1
    BY <1>1, <1>3, <2>2
  <2>3. QED
    BY <1>5, <2>1, <2>2
<1>9. QED
  BY <1>6, <1>7, <1>8 DEF Explains, longer

\* Arguments and skipped turns say nothing of results.
LEMMA PlainExplains ==
    ASSUME NEW msgs \in Seq(Message), NEW m \in Message, Explains(msgs),
           m.kind \notin {"summary", "verdict"}, ~IsNotice(m)
    PROVE  Explains(Append(msgs, m))
<1>1. \A i \in DOMAIN msgs : IsNotice(msgs[i]) => Keeps(msgs[i], m)
  BY DEF IsNotice, Keeps
<1>2. QED
  BY <1>1, RecordExplains

\* A summary may be added while none is given up.
LEMMA SummaryExplains ==
    ASSUME NEW msgs \in Seq(Message), NEW m \in Message, Explains(msgs),
           m.kind = "summary", CommittedSummary(msgs, m.round) = ""
    PROVE  Explains(Append(msgs, m))
<1>1. /\ ~NoticeRecorded(msgs, m.round, NoticeBudgetSummary)
      /\ ~NoticeRecorded(msgs, m.round, NoticeUnavailableSummary)
  BY CommittedIsRecorded
<1>2. ASSUME NEW i \in DOMAIN msgs, msgs[i].round = m.round, IsNotice(msgs[i])
      PROVE  Keeps(msgs[i], m)
  BY <1>1, <1>2 DEF IsNotice, Keeps, NoticeRecorded
<1>3. ~IsNotice(m) /\ m.kind # "verdict"
  BY DEF IsNotice
<1>4. QED
  BY <1>2, <1>3, RecordExplains

\* The notices in place of a summary.
SummaryNotices == {NoticeBudgetSummary, NoticeUnavailableSummary}

\* The notices in place of a verdict.
VerdictNotices == {BudgetVerdict(params.mode), UnavailableVerdict(params.mode)}

\* The two kinds of notices are different.
LEMMA NoticesDiffer ==
    /\ SummaryNotices \cap VerdictNotices = {}
    /\ SummaryNotices \cup VerdictNotices \subseteq Notices
    /\ BudgetVerdict(params.mode) # UnavailableVerdict(params.mode)
    /\ \A notice \in SummaryNotices :
          notice \notin {NoticeBudgetVerdictModerator, NoticeBudgetVerdictHybrid,
                         NoticeUnavailableVerdictHybrid, NoticeUnavailableVerdictModerator}
    /\ TurnSkipped \notin Notices
BY DEF SummaryNotices, VerdictNotices, Notices, BudgetVerdict, UnavailableVerdict,
       NoticeBudgetVerdictHybrid, NoticeBudgetVerdictModerator,
       NoticeUnavailableVerdictHybrid, NoticeUnavailableVerdictModerator,
       NoticeBudgetSummary, NoticeUnavailableSummary, TurnSkipped

\* A summary may be given up while there is none, and once.
LEMMA SummaryNoticeExplains ==
    ASSUME NEW msgs \in Seq(Message), NEW r \in Nat, NEW notice \in SummaryNotices,
           Explains(msgs), ~NeedsNoSummary(msgs, r)
    PROVE  Explains(Append(msgs, SystemMessage(r, notice)))
<1> DEFINE m == SystemMessage(r, notice)
<1>1. m \in Message /\ m.kind = "system" /\ m.round = r /\ m.text = notice /\ IsNotice(m)
  BY NoticesDiffer DEF SystemMessage, Message, IsNotice
<1> HIDE DEF m
<1>2. /\ ~NoticeRecorded(msgs, r, notice)
      /\ \A i \in DOMAIN msgs : msgs[i].round = r => msgs[i].kind # "summary"
  BY CommittedIsRecorded DEF NeedsNoSummary, SummaryNotices, Stored, Results
<1>3. ASSUME NEW i \in DOMAIN msgs, msgs[i].round = r
      PROVE  /\ IsNotice(msgs[i]) => Keeps(msgs[i], m)
             /\ Keeps(m, msgs[i])
  <2>1. msgs[i].kind = "system" => msgs[i].text # notice
    BY <1>2, <1>3 DEF NoticeRecorded
  <2>2. Keeps(m, msgs[i])
    BY <1>1, <1>2, <1>3, <2>1, NoticesDiffer DEF Keeps
  <2>3. IsNotice(msgs[i]) => Keeps(msgs[i], m)
    BY <1>1, <2>1 DEF Keeps, IsNotice
  <2>4. QED
    BY <2>2, <2>3
<1>4. m.text \notin VerdictNotices /\ m.kind # "verdict"
  BY <1>1, NoticesDiffer
<1>5. QED
  BY <1>1, <1>3, <1>4, RecordExplains DEF m, VerdictNotices, SummaryNotices

\* A verdict may be given up while there is none, for one cause and once.
LEMMA VerdictNoticeExplains ==
    ASSUME NEW msgs \in Seq(Message), NEW r \in Nat, NEW notice \in VerdictNotices,
           Explains(msgs), NoVerdict(msgs), CommittedVerdict(msgs, r) = ""
    PROVE  Explains(Append(msgs, SystemMessage(r, notice)))
<1> DEFINE m == SystemMessage(r, notice)
<1>1. m \in Message /\ m.kind = "system" /\ m.round = r /\ m.text = notice /\ IsNotice(m)
  BY NoticesDiffer DEF SystemMessage, Message, IsNotice
<1> HIDE DEF m
<1>2. /\ ~NoticeRecorded(msgs, r, BudgetVerdict(params.mode))
      /\ ~NoticeRecorded(msgs, r, UnavailableVerdict(params.mode))
  BY CommittedIsRecorded
<1>3. ASSUME NEW i \in DOMAIN msgs, msgs[i].round = r
      PROVE  /\ IsNotice(msgs[i]) => Keeps(msgs[i], m)
             /\ Keeps(m, msgs[i])
  <2>1. msgs[i].kind = "system" => msgs[i].text # notice
    BY <1>2, <1>3 DEF NoticeRecorded, VerdictNotices
  <2>2. Keeps(m, msgs[i])
    <3>1. m.text \notin SummaryNotices /\ msgs[i].kind # "verdict"
      BY <1>1, NoticesDiffer DEF NoVerdict
    <3>2. QED
      BY <1>1, <2>1, <3>1 DEF Keeps, SummaryNotices
  <2>3. IsNotice(msgs[i]) => Keeps(msgs[i], m)
    BY <1>1, <2>1 DEF Keeps, IsNotice
  <2>4. QED
    BY <2>2, <2>3
<1>5. QED
  BY <1>1, <1>2, <1>3, RecordExplains DEF m, VerdictNotices

\* A verdict keeps the notices: the model's when there is none of a verdict, the
\* service's when there is one that lets it decide.
LEMMA VerdictExplains ==
    ASSUME NEW msgs \in Seq(Message), NEW m \in Message, Explains(msgs),
           m.kind = "verdict",
           \/ CommittedVerdict(msgs, m.round) = ""
           \/ /\ m.by = "system"
              /\ \/ NoticeRecorded(msgs, m.round, BudgetVerdict(params.mode))
                 \/ /\ params.mode = "hybrid"
                    /\ NoticeRecorded(msgs, m.round, UnavailableVerdict(params.mode)),
           m.by = "moderator" \/ CommittedVerdict(msgs, m.round) # ""
    PROVE  Explains(Append(msgs, m))
<1>1. ~IsNotice(m) /\ m.kind # "summary" /\ m.kind # "system"
  BY DEF IsNotice
<1>2. ASSUME NEW i \in DOMAIN msgs, msgs[i].round = m.round, IsNotice(msgs[i])
      PROVE  Keeps(msgs[i], m)
  <2>1. msgs[i].text \in SummaryNotices \cup VerdictNotices
    BY <1>2 DEF Explains, NoticesFit, SummaryNotices, VerdictNotices
  <2>2. CASE msgs[i].text \in SummaryNotices
    BY <1>1, <2>2, NoticesDiffer DEF Keeps, SummaryNotices
  <2>3. CASE msgs[i].text \in VerdictNotices
    <3>1. NoticeRecorded(msgs, m.round, msgs[i].text)
      BY <1>2 DEF NoticeRecorded, IsNotice
    <3>2. CommittedVerdict(msgs, m.round) # ""
      BY <2>3, <3>1, CommittedIsRecorded DEF VerdictNotices
    <3>3. m.by = "system"
      BY <3>2
    <3>4. msgs[i].text # NoticeUnavailableVerdictModerator
      <4>1. CASE params.mode = "hybrid"
        BY <2>3, <4>1 DEF VerdictNotices, BudgetVerdict, UnavailableVerdict,
               NoticeBudgetVerdictHybrid, NoticeUnavailableVerdictHybrid,
               NoticeUnavailableVerdictModerator
      <4>2. CASE params.mode # "hybrid"
        <5>1. PICK j \in DOMAIN msgs :
                /\ msgs[j].kind = "system" /\ msgs[j].round = m.round
                /\ msgs[j].text = BudgetVerdict(params.mode)
          BY <3>2, <4>2 DEF NoticeRecorded
        <5>2. IsNotice(msgs[j])
          BY <5>1, NoticesDiffer DEF IsNotice, VerdictNotices
        <5>3. msgs[i].text # UnavailableVerdict(params.mode)
          BY <1>2, <5>1, <5>2 DEF Explains, NoticesFit
        <5>4. QED
          BY <4>2, <5>3 DEF UnavailableVerdict
      <4>3. QED
        BY <4>1, <4>2
    <3>5. msgs[i].text \notin SummaryNotices
      BY <2>3, NoticesDiffer
    <3>6. QED
      BY <1>1, <3>3, <3>4, <3>5 DEF Keeps, SummaryNotices
  <2>4. QED
    BY <2>1, <2>2, <2>3
<1>3. QED
  BY <1>1, <1>2, RecordExplains

-------------------------------------------------------------------------------
(* Steps that leave the passes to themselves. *)

\* While no transcript and no mode changes, what was read still holds.
LEMMA ReadingsStay ==
    ASSUME ReadingHolds, \A q \in Slots : Untouched(q) \/ ~HoldsReading(q)',
           UNCHANGED <<transcript, params>>, Exists' => Exists
    PROVE  ReadingHolds'
<1>1. ASSUME NEW q \in Slots, HoldsReading(q)'
      PROVE  ReadingFits(q)'
  <2>1. pc'[q] = pc[q] /\ pass'[q] = pass[q]
    BY <1>1 DEF Untouched
  <2>2. HoldsReading(q)
    BY <1>1, <2>1 DEF HoldsReading
  <2>3. ReadingFits(q)
    BY <2>2 DEF ReadingHolds
  <2>4. QED
    BY <2>1, <2>3 DEF ReadingFits, ForSummary, NeedsNoSummary, CommittedSummary,
           CommittedVerdict, HasRead
<1>2. QED
  BY <1>1 DEF ReadingHolds

\* Without a new record, the notices are kept as they were.
LEMMA NoNewRecord ==
    ASSUME NoticeInvariant, UNCHANGED <<transcript, params>>, ReadingHolds',
           status' = "concluded" => status = "concluded" /\ round' = round,
           status' = "none" => status = "none"
    PROVE  NoticeInvariant'
<1>1. Explains(transcript)'
  BY DEF NoticeInvariant, Explains, NoticesKept, NoticesFit, VerdictsExplained,
         CommittedVerdict
<1>2. OutcomeIsExplained'
  BY DEF NoticeInvariant, OutcomeIsExplained, CommittedVerdict
<1>3. QED
  BY <1>1, <1>2 DEF NoticeInvariant

\* A debate that goes on with another transcript, and nobody has read it.
LEMMA NewRecords ==
    ASSUME Explains(transcript'), params' = params, \A q \in Slots : ~HoldsReading(q)',
           OutcomeIsExplained', status' # "none"
    PROVE  NoticeInvariant'
<1>1. Explains(transcript)'
  BY DEF Explains, NoticesKept, NoticesFit, VerdictsExplained, CommittedVerdict
<1>2. QED
  BY <1>1 DEF NoticeInvariant, ReadingHolds

\* A record of the running round is no result and no notice.
LEMMA TurnKeepsNotices ==
    ASSUME TypeOK, PassInvariant, NoticeInvariant, status = "running", AdvanceTurnOrFail,
           params' = params, \A q \in Slots : Untouched(q) \/ pc'[q] = "fetch",
           NEW m \in Message, m.kind \notin {"summary", "verdict"}, ~IsNotice(m),
           transcript' = Append(transcript, m)
    PROVE  NoticeInvariant'
<1>1. \A q \in Slots : ~HoldsReading(q)
  BY DEF PassInvariant, WorkingOwns, Working, HoldsReading
<1>2. \A q \in Slots : ~HoldsReading(q)'
  BY <1>1 DEF HoldsReading, Untouched
<1>3. Explains(transcript')
  BY PlainExplains DEF NoticeInvariant, TypeOK, StoredTypes
<1>4. status' \in {"running", "moderating"}
  BY DEF AdvanceTurnOrFail, AdvanceTurn, UpdateDebate, Exists, row
<1>5. QED
  BY <1>2, <1>3, <1>4, NewRecords DEF OutcomeIsExplained

\* No request of a client breaks the promise of a notice.
LEMMA ClientsKeepNotices ==
    ASSUME TypeOK, PassInvariant, NoticeInvariant, Clients
    PROVE  NoticeInvariant'
<1> USE CourtAssumption
<1>1. \A q \in Slots : Untouched(q) \/ pc'[q] = "fetch"
  BY PassesRest
<1>2. \A q \in Slots : Untouched(q) \/ ~HoldsReading(q)'
  BY <1>1 DEF HoldsReading
<1>3. ASSUME NEW mode \in AllowedModes, NEW rounds \in RoundCounts, NEW prep \in PrepTimes,
             NEW observer \in BOOLEAN, CreateDebate(mode, rounds, prep, observer)
      PROVE  NoticeInvariant'
  <2>1. /\ status = "none" /\ status' = "open" /\ transcript' = transcript
        /\ pc' = pc /\ transcript = <<>>
    BY <1>3 DEF CreateDebate, passes, NoticeInvariant
  <2>2. \A q \in Slots : ~HoldsReading(q)'
    BY <2>1 DEF PassInvariant, QuietBeforeStart, HoldsReading
  <2>3. QED
    BY <2>1, <2>2 DEF NoticeInvariant, Explains, NoticesKept, NoticesFit, VerdictsExplained,
           OutcomeIsExplained, ReadingHolds
<1>4. ASSUME NEW agent \in Agents, JoinDebate(agent)
      PROVE  NoticeInvariant'
  <2>1. UNCHANGED <<transcript, params, status, round>>
    BY <1>4 DEF JoinDebate, row
  <2>2. QED
    BY <1>2, <2>1, ReadingsStay, NoNewRecord DEF NoticeInvariant, Exists
<1>5. CASE StartDebate
  <2>1. /\ UNCHANGED <<transcript, params>> /\ status = "open"
        /\ status' \in {"preparing", "running"}
    BY <1>5 DEF StartDebate, BeginFirstRound, UpdateDebate, Exists
  <2>2. QED
    BY <1>2, <2>1, ReadingsStay, NoNewRecord DEF NoticeInvariant, Exists
<1>6. ASSUME NEW agent \in Agents, NEW support \in Supports, PostArgument(agent, support)
      PROVE  NoticeInvariant'
  <2>1. /\ status = "running" /\ AdvanceTurnOrFail /\ params' = params
        /\ transcript' = Append(transcript, Argument(round, agent, support))
    BY <1>6 DEF PostArgument, HasTurn
  <2>2. /\ Argument(round, agent, support) \in Message
        /\ Argument(round, agent, support).kind = "argument"
    BY DEF Argument, Message, TypeOK, StoredTypes, RowTypes
  <2>3. QED
    BY <1>1, <2>1, <2>2, TurnKeepsNotices DEF IsNotice
<1>7. CASE DeleteDebate
  <2>1. /\ status' = "deleted" /\ transcript' = <<>> /\ params' = params
        /\ UNCHANGED passes
    BY <1>7 DEF DeleteDebate
  <2>2. ReadingHolds'
    <3>1. ASSUME NEW q \in Slots, HoldsReading(q)'
          PROVE  ReadingFits(q)'
      <4>1. pc'[q] = pc[q] /\ pass'[q] = pass[q]
        BY <2>1 DEF passes
      <4>2. ReadingFits(q)
        BY <3>1, <4>1 DEF HoldsReading, ReadingHolds, NoticeInvariant
      <4>3. QED
        BY <2>1, <4>1, <4>2 DEF ReadingFits, ForSummary, NeedsNoSummary, CommittedSummary,
               CommittedVerdict, HasRead, Exists
    <3>2. QED
      BY <3>1 DEF ReadingHolds
  <2>3. DOMAIN transcript' = {}
    BY <2>1
  <2>4. Explains(transcript)'
    BY <2>3 DEF Explains, NoticesKept, NoticesFit, VerdictsExplained
  <2>5. QED
    BY <2>1, <2>2, <2>4 DEF NoticeInvariant, OutcomeIsExplained
<1>8. QED
  BY <1>3, <1>4, <1>5, <1>6, <1>7 DEF Clients

\* Nor does a step of the background sweep.
LEMMA TickerKeepsNotices ==
    ASSUME TypeOK, PassInvariant, NoticeInvariant, Ticker
    PROVE  NoticeInvariant'
<1>1. \A q \in Slots : Untouched(q) \/ pc'[q] = "fetch"
  BY PassesRest
<1>2. \A q \in Slots : Untouched(q) \/ ~HoldsReading(q)'
  BY <1>1 DEF HoldsReading
<1>3. CASE UNCHANGED <<transcript, params, status, round>>
  BY <1>2, <1>3, ReadingsStay, NoNewRecord DEF NoticeInvariant, Exists
<1>4. CASE SweepReads \/ SweepResumes \/ SweepForgets
  BY <1>3, <1>4 DEF SweepReads, SweepResumes, SweepForgets, stored, row
<1>5. CASE ExpireTurns
  <2>1. CASE PreparationIsOver /\ BeginFirstRound /\ UNCHANGED transcript
    <3>1. status = "preparing" /\ status' = "running" /\ params' = params
      BY <1>5, <2>1 DEF ExpireTurns, PreparationIsOver, BeginFirstRound, UpdateDebate, Exists
    <3>2. QED
      BY <1>2, <2>1, <3>1, ReadingsStay, NoNewRecord DEF NoticeInvariant, Exists
  <2>2. CASE /\ TurnIsOver /\ AdvanceTurnOrFail
             /\ transcript' = Append(transcript, SystemMessage(round, TurnSkipped))
    <3>1. status = "running" /\ params' = params
      BY <1>5, <2>2 DEF ExpireTurns, TurnIsOver
    <3>2. /\ SystemMessage(round, TurnSkipped) \in Message
          /\ SystemMessage(round, TurnSkipped).kind = "system"
          /\ ~IsNotice(SystemMessage(round, TurnSkipped))
      BY NoticesDiffer DEF SystemMessage, Message, TypeOK, StoredTypes, RowTypes, IsNotice
    <3>3. QED
      BY <1>1, <2>2, <3>1, <3>2, TurnKeepsNotices
  <2>3. CASE UNCHANGED <<row, transcript>>
    BY <1>3, <1>5, <2>3 DEF ExpireTurns, row
  <2>4. QED
    BY <1>5, <2>1, <2>2, <2>3 DEF ExpireTurns
<1>6. QED
  BY <1>4, <1>5 DEF Ticker

-------------------------------------------------------------------------------
(* Steps of a pass. *)

\* Fetching and ending, a pass reads no transcript.
LEMMA EdgesKeepNotices ==
    ASSUME TypeOK, NoticeInvariant, NEW p \in Slots, Fetch(p) \/ End(p)
    PROVE  NoticeInvariant'
<1>1. UNCHANGED <<transcript, params, status, round>>
  BY DEF Fetch, End, stored, row
<1>2. \A q \in Slots : Untouched(q) \/ pc'[q] \in {"read", "end", "idle"}
  <2>1. CASE Return(p)
    BY <2>1 DEF Return, Goto, Keep, TypeOK, PassTypes, Untouched
  <2>2. CASE Fetch(p) /\ ~Return(p)
    BY <2>2 DEF Fetch, Goto, Keep, TypeOK, PassTypes, Untouched
  <2>3. CASE End(p)
    BY <2>3 DEF End, Goto, Keep, TypeOK, PassTypes, Untouched
  <2>4. QED
    BY <2>1, <2>2, <2>3
<1>3. \A q \in Slots : Untouched(q) \/ ~HoldsReading(q)'
  BY <1>2 DEF HoldsReading
<1>4. QED
  BY <1>1, <1>3, ReadingsStay, NoNewRecord DEF NoticeInvariant, Exists

\* A restart leaves nothing read.
LEMMA RestartKeepsNotices ==
    ASSUME TypeOK, NoticeInvariant, Restart
    PROVE  NoticeInvariant'
<1>1. UNCHANGED <<transcript, params, status, round>>
  BY DEF Restart, stored, row
<1>2. \A q \in Slots : ~HoldsReading(q)'
  BY DEF Restart, HoldsReading
<1>3. QED
  BY <1>1, <1>2, NoNewRecord DEF ReadingHolds

\* Of a pass at work only its own reading matters.
LEMMA OnlyReading ==
    ASSUME PassInvariant, NEW p \in Slots, Working(p), PassGoesOn(p),
           HoldsReading(p)' => ReadingFits(p)'
    PROVE  ReadingHolds'
<1>1. ASSUME NEW q \in Slots, q # p
      PROVE  ~HoldsReading(q)'
  <2>1. pc[q] = pc'[q] /\ ~Working(q)
    BY <1>1, WorkingIsUnique DEF PassGoesOn
  <2>2. QED
    BY <2>1 DEF Working, HoldsReading
<1>2. QED
  BY <1>1 DEF ReadingHolds

\* The model is asked, or not, about what the pass has read.
LEMMA CallingKeepsNotices ==
    ASSUME TypeOK, PassInvariant, NoticeInvariant, NEW p \in Slots,
           Admit(p) \/ Call(p) \/ Charge(p)
    PROVE  NoticeInvariant'
<1> DEFINE msgs == pass[p].msgs
           r    == pass[p].round
<1>1. UNCHANGED <<transcript, params, status, round>>
  BY DEF Admit, Call, Charge, stored, row
<1>2. /\ PassGoesOn(p) /\ Working(p)
      /\ pc[p] \in {"admit", "call", "charge"}
      /\ pass'[p].msgs = pass[p].msgs /\ pass'[p].round = pass[p].round
      /\ pass'[p].call = pass[p].call
      /\ \/ pc'[p] \in {"call", "charge"}
         \/ pass[p].call = "summary" /\ pc'[p] \in {"skip", "save"}
         \/ pass[p].call # "summary" /\ pc'[p] = "conclude"
      /\ pc'[p] = "charge" => pass'[p].basis \in {"model", "unavailable"}
      /\ pc'[p] = "conclude" =>
            \/ pass'[p].basis \in {"budget", "model", "unavailable"}
            \/ pc[p] = "charge" /\ pass'[p].basis = pass[p].basis
  BY CallingLocals
<1>3. HoldsReading(p) /\ ReadingFits(p)
  BY <1>2 DEF HoldsReading, NoticeInvariant, ReadingHolds
<1>4. ForSummary(p)' => ForSummary(p)
  BY <1>2 DEF ForSummary
<1>5. /\ Exists => msgs = transcript
      /\ ForSummary(p) => ~NeedsNoSummary(msgs, r)
      /\ ~ForSummary(p) => CommittedVerdict(msgs, r) = ""
      /\ pc[p] = "charge" => pass[p].basis \in {"model", "unavailable"}
  BY <1>2, <1>3 DEF ReadingFits
<1>6. ~ForSummary(p) => /\ ~HasRead(p, UnavailableVerdict(params.mode))
                        /\ ~HasRead(p, BudgetVerdict(params.mode))
  BY <1>5, CommittedIsRecorded DEF HasRead
<1>7. (~ForSummary(p))' => ~ForSummary(p)
  BY <1>2 DEF ForSummary
<1>8. Exists' => pass'[p].msgs = transcript'
  BY <1>1, <1>2, <1>5 DEF Exists
<1>9. ForSummary(p)' => ~NeedsNoSummary(pass[p].msgs, pass[p].round)'
  BY <1>1, <1>2, <1>4, <1>5 DEF NeedsNoSummary, CommittedSummary
<1>10. (~ForSummary(p))' => (CommittedVerdict(pass[p].msgs, pass[p].round) = "")'
  BY <1>1, <1>2, <1>7, <1>5 DEF CommittedVerdict
<1>11. pc'[p] = "conclude" =>
          /\ pass'[p].basis \in {"budget", "model", "unavailable"}
          /\ ~HasRead(p, UnavailableVerdict(params.mode))'
          /\ ~HasRead(p, BudgetVerdict(params.mode))'
  <2>1. pc'[p] = "conclude" => ~ForSummary(p)
    BY <1>2 DEF ForSummary
  <2>2. QED
    BY <1>1, <1>2, <1>5, <1>6, <2>1 DEF HasRead
<1>12. ReadingFits(p)'
  BY <1>2, <1>8, <1>9, <1>10, <1>11 DEF ReadingFits
<1>13. QED
  BY <1>1, <1>2, <1>12, OnlyReading, NoNewRecord

\* The causes that one round's notices name exclude each other.
LEMMA OneCause ==
    ASSUME NEW msgs, NoticesFit(msgs), NEW r
    PROVE  ~(/\ NoticeRecorded(msgs, r, BudgetVerdict(params.mode))
             /\ NoticeRecorded(msgs, r, UnavailableVerdict(params.mode)))
<1> SUFFICES ASSUME NEW i \in DOMAIN msgs, NEW j \in DOMAIN msgs,
                    msgs[i].kind = "system", msgs[i].round = r,
                    msgs[i].text = BudgetVerdict(params.mode),
                    msgs[j].kind = "system", msgs[j].round = r,
                    msgs[j].text = UnavailableVerdict(params.mode)
             PROVE  FALSE
  BY Zenon DEF NoticeRecorded
<1>1. IsNotice(msgs[i]) /\ IsNotice(msgs[j])
  BY NoticesDiffer DEF IsNotice, VerdictNotices
<1>2. QED
  BY <1>1 DEF NoticesFit

\* On what the outcome is based, by what is recorded.
LEMMA BasisIsRecorded ==
    ASSUME NEW msgs, NEW r
    PROVE  /\ NoticeBasis(msgs, r) = "budget" =>
                 NoticeRecorded(msgs, r, BudgetVerdict(params.mode))
           /\ NoticeBasis(msgs, r) = "unavailable" =>
                 ~NoticeRecorded(msgs, r, BudgetVerdict(params.mode))
           /\ NoticeBasis(msgs, r) = "model" => CommittedVerdict(msgs, r) = ""
           /\ NoticeBasis(msgs, r) \in {"budget", "unavailable", "model"}
<1>1. /\ BudgetVerdict(params.mode) # "" /\ UnavailableVerdict(params.mode) # ""
      /\ BudgetVerdict(params.mode) # UnavailableVerdict(params.mode)
  BY DEF BudgetVerdict, UnavailableVerdict, NoticeBudgetVerdictHybrid,
         NoticeBudgetVerdictModerator, NoticeUnavailableVerdictHybrid,
         NoticeUnavailableVerdictModerator
<1>2. QED
  BY <1>1 DEF NoticeBasis, CommittedVerdict, CommittedDegradation

\* A pass that has just read the transcript and goes for the verdict.
LEMMA VerdictReadingFits ==
    ASSUME TypeOK, Explains(transcript), NEW p \in Slots,
           UNCHANGED <<transcript, params>>, NEW reached, NEW basis,
           Keep(p, ForVerdict(p, transcript, reached, basis)), Goto(p, TowardsVerdict(basis)),
           \/ basis = NoticeBasis(transcript, pass[p].round)
           \/ basis = "stored" /\ Stored(transcript, pass[p].round, "verdict")
    PROVE  ReadingFits(p)'
<1> DEFINE r == pass[p].round
<1>1. PassTypes /\ pass[p] \in Pass
  BY DEF TypeOK, PassTypes
<1>2. /\ pass'[p].msgs = transcript /\ pass'[p].round = r /\ pass'[p].call = "verdict"
      /\ pass'[p].basis = basis
  BY <1>1 DEF Keep, ForVerdict, PassTypes, Pass
<1>3. pc'[p] = IF basis = "model" THEN "admit" ELSE "conclude"
  BY <1>1, Arrives DEF TowardsVerdict
<1>4. ~ForSummary(p)'
  BY <1>2, <1>3 DEF ForSummary
<1>5. /\ basis \in {"stored", "budget", "unavailable", "model"}
      /\ basis = "model" => CommittedVerdict(transcript, r) = ""
      /\ basis = "stored" => Stored(transcript, r, "verdict")
      /\ basis = "unavailable" => ~NoticeRecorded(transcript, r, BudgetVerdict(params.mode))
      /\ basis = "budget" => ~NoticeRecorded(transcript, r, UnavailableVerdict(params.mode))
  BY BasisIsRecorded, OneCause DEF Explains
<1>6. basis = "model" => (CommittedVerdict(pass[p].msgs, pass[p].round) = "")'
  BY <1>2, <1>5 DEF CommittedVerdict
<1>7. QED
  BY <1>2, <1>3, <1>4, <1>5, <1>6 DEF ReadingFits, HasRead

\* The pass decides by what is recorded.
LEMMA ReadingKeepsNotices ==
    ASSUME TypeOK, PassInvariant, NoticeInvariant, NEW p \in Slots,
           ReadTranscript(p) \/ RereadTranscript(p)
    PROVE  NoticeInvariant'
<1> DEFINE r == pass[p].round
<1>1. UNCHANGED <<transcript, params, status, round>>
  BY DEF ReadTranscript, RereadTranscript, stored, row
<1>2. PassTypes /\ pass[p] \in Pass /\ PassGoesOn(p) /\ Working(p)
  BY GoingOn DEF TypeOK, PassTypes, ReadTranscript, RereadTranscript, Working
<1>3. ASSUME HoldsReading(p)' => ReadingFits(p)'
      PROVE  NoticeInvariant'
  BY <1>1, <1>2, <1>3, OnlyReading, NoNewRecord
<1>4. ASSUME pc'[p] \in {"end", "advance"}
      PROVE  NoticeInvariant'
  BY <1>3, <1>4 DEF HoldsReading
<1>5. ASSUME NEW parts, Return(p) \/ TowardsNextRound(p, parts)
      PROVE  NoticeInvariant'
  <2>1. pc'[p] \in {"end", "advance"}
    BY <1>2, <1>5, Arrives DEF Return, TowardsNextRound
  <2>2. QED
    BY <1>4, <2>1
<1>6. ASSUME NEW reached, NEW basis,
             Keep(p, ForVerdict(p, transcript, reached, basis)), Goto(p, TowardsVerdict(basis)),
             \/ basis = NoticeBasis(transcript, r)
             \/ basis = VerdictBasis(transcript, r)
      PROVE  NoticeInvariant'
  <2>1. \/ basis = NoticeBasis(transcript, r)
        \/ basis = "stored" /\ Stored(transcript, r, "verdict")
    BY <1>6 DEF VerdictBasis
  <2>2. QED
    BY <1>1, <1>3, <1>6, <2>1, VerdictReadingFits DEF NoticeInvariant
<1>7. ASSUME NEW parts, ~NeedsNoSummary(transcript, r), Goto(p, "admit"),
             Keep(p, [pass[p] EXCEPT !.msgs = transcript, !.parts = parts, !.call = "summary"])
      PROVE  NoticeInvariant'
  <2>1. /\ pass'[p].msgs = transcript /\ pass'[p].round = r /\ pass'[p].call = "summary"
        /\ pc'[p] = "admit"
    BY <1>2, <1>7, Arrives DEF Keep, PassTypes, Pass
  <2>2. ~NeedsNoSummary(pass[p].msgs, pass[p].round)'
    BY <1>1, <1>7, <2>1 DEF NeedsNoSummary, CommittedSummary
  <2>3. ReadingFits(p)'
    BY <1>1, <2>1, <2>2 DEF ReadingFits, ForSummary
  <2>4. QED
    BY <1>3, <2>3
<1>8. CASE ReadTranscript(p)
  BY <1>5, <1>6, <1>7, <1>8, Zenon DEF ReadTranscript
<1>9. CASE RereadTranscript(p)
  BY <1>5, <1>6, <1>9, Zenon DEF RereadTranscript
<1>10. QED
  BY <1>8, <1>9

\* A pass that has written reads no more, and nobody else does.
LEMMA WriterLeaves ==
    ASSUME PassInvariant, NEW p \in Slots, Working(p), PassGoesOn(p),
           pc'[p] \in {"advance", "reread", "end"}
    PROVE  \A q \in Slots : ~HoldsReading(q)'
<1>1. ASSUME NEW q \in Slots, q # p
      PROVE  ~HoldsReading(q)'
  <2>1. pc[q] = pc'[q] /\ ~Working(q)
    BY <1>1, WorkingIsUnique DEF PassGoesOn
  <2>2. QED
    BY <2>1 DEF Working, HoldsReading
<1>2. QED
  BY <1>1 DEF HoldsReading

\* The notice of a missing summary.
LEMMA NoteExplains ==
    ASSUME TypeOK, NoticeInvariant, NEW p \in Slots, HoldsReading(p), ForSummary(p),
           NoteMissingSummary(p)
    PROVE  Explains(transcript')
<1>1. CASE transcript' = transcript
  BY <1>1 DEF NoticeInvariant
<1>2. CASE /\ Exists
           /\ transcript' = Append(transcript, SystemMessage(pass[p].round, SummaryNotice(p)))
  <2>1. pass[p].msgs = transcript /\ ~NeedsNoSummary(pass[p].msgs, pass[p].round)
    BY <1>2 DEF NoticeInvariant, ReadingHolds, ReadingFits
  <2>2. SummaryNotice(p) \in SummaryNotices /\ pass[p].round \in Nat
    BY Shapes DEF SummaryNotice, SummaryNotices
  <2>3. transcript \in Seq(Message) /\ ~NeedsNoSummary(transcript, pass[p].round)
    BY <2>1 DEF TypeOK, StoredTypes
  <2>4. QED
    BY <1>2, <2>2, <2>3, SummaryNoticeExplains DEF NoticeInvariant
<1>3. QED
  BY <1>1, <1>2 DEF NoteMissingSummary

\* What is written of a summary keeps the notices.
LEMMA SummarizingKeepsNotices ==
    ASSUME TypeOK, PassInvariant, NoticeInvariant, NEW p \in Slots,
           SkipSummary(p) \/ SaveSummary(p)
    PROVE  NoticeInvariant'
<1>1. /\ UNCHANGED <<params, status, round>> /\ Working(p)
      /\ HoldsReading(p) /\ ForSummary(p)
  BY DEF SkipSummary, SaveSummary, row, Working, HoldsReading, ForSummary
<1>2. PassTypes /\ PassGoesOn(p)
  BY GoingOn DEF TypeOK
<1>3. pc'[p] \in {"advance", "reread", "end"}
  <2>1. CASE SkipSummary(p)
    BY <1>2, <2>1, Arrives DEF SkipSummary, TowardsNextRound
  <2>2. CASE SaveSummary(p)
    BY <1>2, <2>2, Arrives DEF SaveSummary, AfterSummary, TowardsNextRound, Return
  <2>3. QED
    BY <2>1, <2>2
<1>4. Explains(transcript')
  <2>1. CASE NoteMissingSummary(p)
    BY <1>1, <2>1, NoteExplains
  <2>2. CASE transcript' = transcript
    BY <2>2 DEF NoticeInvariant
  <2>3. CASE /\ Exists
             /\ transcript' = Append(transcript, RoundSummary(pass[p].round, SummaryConsensus(p)))
    <3> DEFINE m == RoundSummary(pass[p].round, SummaryConsensus(p))
    <3>1. m \in Message /\ m.kind = "summary" /\ m.round = pass[p].round
      BY Shapes DEF RoundSummary, Message, SummaryConsensus
    <3> HIDE DEF m
    <3>2. CommittedSummary(transcript, m.round) = ""
      BY <1>1, <2>3, <3>1 DEF NoticeInvariant, ReadingHolds, ReadingFits, NeedsNoSummary
    <3>3. transcript' = Append(transcript, m) /\ transcript \in Seq(Message)
      BY <2>3 DEF m, TypeOK, StoredTypes
    <3>4. QED
      BY <3>1, <3>2, <3>3, SummaryExplains DEF NoticeInvariant
  <2>4. QED
    BY <2>1, <2>2, <2>3 DEF SkipSummary, SaveSummary
<1>5. status \in {"moderating", "deleted"}
  BY <1>1, WorkingAlone
<1>6. QED
  BY <1>1, <1>2, <1>3, <1>4, <1>5, WriterLeaves, NewRecords DEF OutcomeIsExplained

\* The end of a pass in a debate that exists, by the explanation m and the verdict v
\* it has to write: nothing, the explanation or both, and both if it concludes.
LEMMA ClosingWrites ==
    ASSUME TypeOK, NEW p \in Slots, Conclude(p), status = "moderating",
           NEW m \in Message, NEW v \in Message,
           Explanation(p) \in {<<>>, <<m>>}, NewVerdict(p) \in {<<>>, <<v>>}
    PROVE  LET explained == IF Explanation(p) = <<>> THEN transcript
                                                     ELSE Append(transcript, m)
               decided   == IF NewVerdict(p) = <<>> THEN explained ELSE Append(explained, v)
           IN  /\ transcript' \in {transcript, explained, decided}
               /\ status' \in {"moderating", "concluded"}
               /\ status' = "concluded" =>
                     transcript' = decided /\ consensus' = OutcomeConsensus(p)
<1> DEFINE records   == ClosingRecords(p)
           explained == IF Explanation(p) = <<>> THEN transcript ELSE Append(transcript, m)
           decided   == IF NewVerdict(p) = <<>> THEN explained ELSE Append(explained, v)
<1>1. transcript \in Seq(Message)
  BY DEF TypeOK, StoredTypes
<1>2. <<m>> # <<>> /\ <<v>> # <<>> /\ <<m, v>> # <<>>
  OBVIOUS
<1>3. records = IF Explanation(p) = <<>>
                THEN IF NewVerdict(p) = <<>> THEN <<>> ELSE <<v>>
                ELSE IF NewVerdict(p) = <<>> THEN <<m>> ELSE <<m, v>>
  <2>1. <<>> \o <<>> = <<>> /\ <<m>> \o <<>> = <<m>> /\ <<>> \o <<v>> = <<v>>
    OBVIOUS
  <2>2. <<m>> \o <<v>> = <<m, v>>
    BY Pair
  <2>3. QED
    BY <1>2, <2>1, <2>2 DEF ClosingRecords
<1>4. /\ transcript \o <<>> = transcript
      /\ transcript \o <<m>> = Append(transcript, m)
      /\ transcript \o <<v>> = Append(transcript, v)
      /\ transcript \o <<m, v>> = Append(Append(transcript, m), v)
  BY <1>1, Appending
<1>5. transcript \o records = decided
  BY <1>2, <1>3, <1>4
<1>6. \A n \in 0..Len(records) :
          \/ SubSeq(records, 1, n) = <<>>
          \/ SubSeq(records, 1, n) = records
          \/ records = <<m, v>> /\ SubSeq(records, 1, n) = <<m>>
  <2>1. /\ records \in Seq(Message)
        /\ Len(records) \in {0, 1, 2} /\ Len(records) <= 2
    BY <1>3
  <2> HIDE DEF records
  <2>2. ASSUME NEW n \in 0..Len(records)
        PROVE  \/ SubSeq(records, 1, n) = <<>>
               \/ SubSeq(records, 1, n) = records
               \/ records = <<m, v>> /\ SubSeq(records, 1, n) = <<m>>
    <3>1. /\ n = 0 => SubSeq(records, 1, n) = <<>>
          /\ n = 1 => SubSeq(records, 1, n) = <<records[1]>>
          /\ n = 2 => SubSeq(records, 1, n) = <<records[1], records[2]>>
          /\ n \in {0, 1, 2}
      BY <2>1, Prefix
    <3>2. /\ Len(records) = 1 => records = <<records[1]>>
          /\ Len(records) = 2 => records = <<records[1], records[2]>>
      BY <2>1, ShortSequences
    <3>3. Len(records) = 2 => records = <<m, v>> /\ records[1] = m
      BY <1>3
    <3>4. CASE n = 1 /\ Len(records) = 2
      BY <3>1, <3>3, <3>4
    <3>5. CASE n = Len(records)
      BY <3>1, <3>2, <3>5
    <3>6. n = 0 \/ n = Len(records) \/ (n = 1 /\ Len(records) = 2)
      <4> DEFINE k == Len(records)
      <4>1. k \in {0, 1, 2} /\ n \in 0..k
        BY <2>1
      <4> HIDE DEF k
      <4>2. n = 0 \/ n = k \/ (n = 1 /\ k = 2)
        BY <4>1
      <4>3. QED
        BY <4>2 DEF k
    <3>7. QED
      BY <3>1, <3>4, <3>5, <3>6
  <2>3. QED
    BY <2>2
<1>7. records = <<m, v>> => explained = Append(transcript, m)
  BY <1>2, <1>3
<1>8. \/ /\ transcript' = transcript \o records
         /\ UpdateDebate("concluded", pass[p].round, NoAgent, OutcomeConsensus(p))
      \/ /\ \E n \in 0..Len(records) : transcript' = transcript \o SubSeq(records, 1, n)
         /\ UNCHANGED row
  BY DEF Conclude, Exists
<1> HIDE DEF records, explained, decided
<1>9. /\ transcript' \in {transcript, explained, decided}
      /\ status' \in {"moderating", "concluded"}
      /\ status' = "concluded" =>
            transcript' = decided /\ consensus' = OutcomeConsensus(p)
  <2>1. CASE /\ transcript' = transcript \o records
             /\ UpdateDebate("concluded", pass[p].round, NoAgent, OutcomeConsensus(p))
    BY <1>5, <2>1 DEF UpdateDebate, Exists
  <2>2. ASSUME NEW n \in 0..Len(records), transcript' = transcript \o SubSeq(records, 1, n),
               UNCHANGED row
        PROVE  transcript' \in {transcript, explained, decided} /\ status' = "moderating"
    BY <1>4, <1>5, <1>6, <1>7, <2>2 DEF row
  <2>3. QED
    BY <1>8, <2>1, <2>2
<1>10. QED
  BY <1>9 DEF explained, decided

\* The cause an outcome names when the model did not give it.
Cause(p) == IF pass[p].basis = "budget" THEN BudgetVerdict(params.mode)
                                        ELSE UnavailableVerdict(params.mode)

\* The end of a pass explains the outcome it writes, or takes up.
LEMMA ClosingExplains ==
    ASSUME TypeOK, PassInvariant, ResultInvariant, NoticeInvariant, NEW p \in Slots,
           Conclude(p), Exists
    PROVE  /\ Explains(transcript')
           /\ status' = "concluded" =>
                 \/ \E i \in DOMAIN transcript' :
                       transcript'[i].kind = "verdict" /\ transcript'[i].by = "moderator"
                 \/ CommittedVerdict(transcript', pass[p].round) # ""
<1> DEFINE r  == pass[p].round
           by == IF pass[p].basis = "model" THEN "moderator" ELSE "system"
           m  == SystemMessage(r, Cause(p))
           v  == Verdict(r, by, OutcomeConsensus(p))
           explained == IF Explanation(p) = <<>> THEN transcript ELSE Append(transcript, m)
           decided   == IF NewVerdict(p) = <<>> THEN explained ELSE Append(explained, v)
<1>1. /\ pc[p] = "conclude" /\ HoldsReading(p) /\ Working(p)
      /\ transcript \in Seq(Message) /\ r \in Nat
  BY Shapes DEF Conclude, HoldsReading, Working, TypeOK, StoredTypes
<1>2. status = "moderating"
  BY <1>1, WorkingAlone DEF Exists
<1>3. /\ pass[p].msgs = transcript
      /\ pass[p].basis \in {"stored", "budget", "unavailable", "model"}
      /\ pass[p].basis = "stored" => Stored(transcript, r, "verdict")
      /\ pass[p].basis \in {"model", "budget"} =>
            ~NoticeRecorded(transcript, r, UnavailableVerdict(params.mode))
      /\ pass[p].basis \in {"model", "unavailable"} =>
            ~NoticeRecorded(transcript, r, BudgetVerdict(params.mode))
  <2>1. ReadingFits(p) /\ pass[p] \in Pass
    BY <1>1 DEF NoticeInvariant, ReadingHolds, TypeOK, PassTypes
  <2>2. pass[p].msgs = transcript
    BY <2>1 DEF ReadingFits
  <2>3. pass[p].basis \in {"none", "stored", "budget", "unavailable", "model"}
    BY <2>1 DEF Pass
  <2>4. QED
    BY <1>1, <2>1, <2>2, <2>3 DEF ReadingFits, HasRead
<1>4. Explains(transcript) /\ (pass[p].basis # "stored" => NoVerdict(transcript))
  BY <1>1 DEF NoticeInvariant, ResultInvariant, StillOpen
<1>5. /\ Cause(p) \in VerdictNotices /\ Cause(p) \in Notices
      /\ m \in Message /\ m.kind = "system" /\ m.round = r /\ m.text = Cause(p)
  <2>1. Cause(p) \in VerdictNotices /\ Cause(p) \in Notices
    BY NoticesDiffer DEF Cause, VerdictNotices
  <2>2. QED
    BY <1>1, <2>1 DEF SystemMessage, Message
<1>6. v \in Message /\ v.kind = "verdict" /\ v.round = r /\ v.by = by
  BY <1>1, ClosingTypes DEF Verdict, Message, TypeOK
<1>7. Explanation(p) = IF \/ pass[p].basis \notin {"budget", "unavailable"}
                          \/ NoticeRecorded(transcript, r, Cause(p))
                       THEN <<>> ELSE <<m>>
  BY <1>3 DEF Explanation, Cause
<1>8. /\ pass[p].basis = "model" => v = Verdict(r, "moderator", OutcomeConsensus(p))
      /\ pass[p].basis # "model" => v = Verdict(r, "system", OutcomeConsensus(p))
  OBVIOUS
<1> HIDE DEF v
<1>9. NewVerdict(p) = IF \/ pass[p].basis \in {"model", "budget"}
                         \/ pass[p].basis = "unavailable" /\ params.mode = "hybrid"
                      THEN <<v>> ELSE <<>>
  <2>1. CASE pass[p].basis = "model"
    BY <1>8, <2>1 DEF NewVerdict
  <2>2. CASE pass[p].basis = "budget"
    BY <1>8, <2>2 DEF NewVerdict
  <2>3. CASE pass[p].basis = "unavailable"
    BY <1>8, <2>3 DEF NewVerdict
  <2>4. CASE pass[p].basis = "stored"
    BY <2>4 DEF NewVerdict
  <2>5. QED
    BY <1>3, <2>1, <2>2, <2>3, <2>4
<1> HIDE DEF m, v, by
<1>10. <<m>> # <<>> /\ <<v>> # <<>>
  OBVIOUS
<1>11. Explanation(p) # <<>> =>
         /\ pass[p].basis \in {"budget", "unavailable"}
         /\ ~NoticeRecorded(transcript, r, Cause(p))
  BY <1>7
<1>12. explained \in Seq(Message) /\ Explains(explained)
  <2>1. CASE Explanation(p) = <<>>
    BY <1>1, <1>4, <2>1
  <2>2. CASE Explanation(p) # <<>>
    <3>1. CommittedVerdict(transcript, r) = ""
      BY <1>3, <1>11, <2>2, CommittedIsRecorded DEF Cause
    <3>2. NoVerdict(transcript)
      BY <1>4, <1>11, <2>2
    <3>3. Explains(Append(transcript, m))
      BY <1>1, <1>4, <1>5, <3>1, <3>2, VerdictNoticeExplains DEF m
    <3>4. QED
      BY <1>1, <1>5, <2>2, <3>3, AppendProperties
  <2>3. QED
    BY <2>1, <2>2
<1>13. pass[p].basis \in {"budget", "unavailable"} => NoticeRecorded(explained, r, Cause(p))
  <2>1. CASE Explanation(p) = <<>>
    BY <1>7, <1>10, <2>1
  <2>2. CASE Explanation(p) # <<>>
    BY <1>1, <1>5, <2>2, RecordedAfter
  <2>3. QED
    BY <2>1, <2>2
<1>14. pass[p].basis = "model" => explained = transcript /\ CommittedVerdict(transcript, r) = ""
  BY <1>3, <1>7, CommittedIsRecorded
<1>15. pass[p].basis \in {"budget", "unavailable"} => CommittedVerdict(explained, r) # ""
  BY <1>13, CommittedIsRecorded DEF Cause
<1> HIDE DEF explained
<1>16. Explains(decided)
  <2>1. CASE NewVerdict(p) = <<>>
    BY <1>12, <2>1
  <2>2. CASE pass[p].basis = "model"
    <3>1. by = "moderator" /\ NewVerdict(p) # <<>>
      <4>1. by = "moderator"
        BY <2>2 DEF by
      <4>2. NewVerdict(p) # <<>>
        BY <1>9, <1>10, <2>2
      <4>3. QED
        BY <4>1, <4>2
    <3>2. QED
      BY <1>6, <1>12, <1>14, <2>2, <3>1, VerdictExplains
  <2>3. CASE pass[p].basis = "budget" \/ (pass[p].basis = "unavailable" /\ params.mode = "hybrid")
    <3>1. by = "system" /\ NewVerdict(p) # <<>>
      <4>1. by = "system"
        BY <2>3 DEF by
      <4>2. NewVerdict(p) # <<>>
        BY <1>9, <1>10, <2>3
      <4>3. QED
        BY <4>1, <4>2
    <3>2. \/ NoticeRecorded(explained, r, BudgetVerdict(params.mode))
          \/ /\ params.mode = "hybrid"
             /\ NoticeRecorded(explained, r, UnavailableVerdict(params.mode))
      BY <1>13, <2>3 DEF Cause
    <3>3. CommittedVerdict(explained, r) # ""
      BY <1>15, <2>3
    <3>4. QED
      BY <1>6, <1>12, <3>1, <3>2, <3>3, VerdictExplains
  <2>4. QED
    BY <1>3, <1>7, <1>9, <2>1, <2>2, <2>3
<1>17. \/ \E i \in DOMAIN decided : decided[i].kind = "verdict" /\ decided[i].by = "moderator"
       \/ CommittedVerdict(decided, r) # ""
  <2>1. CASE pass[p].basis = "model"
    <3>1. by = "moderator" /\ NewVerdict(p) # <<>>
      <4>1. by = "moderator"
        BY <2>1 DEF by
      <4>2. NewVerdict(p) # <<>>
        BY <1>9, <1>10, <2>1
      <4>3. QED
        BY <4>1, <4>2
    <3>2. decided = Append(explained, v)
      BY <3>1
    <3>3. Len(explained) + 1 \in DOMAIN decided /\ decided[Len(explained) + 1] = v
      BY <1>6, <1>12, <3>2, Longer
    <3>4. QED
      BY <1>6, <3>1, <3>3
  <2>2. CASE pass[p].basis \in {"budget", "unavailable"}
    <3>1. CASE NewVerdict(p) = <<>>
      BY <1>15, <2>2, <3>1
    <3>2. CASE NewVerdict(p) # <<>>
      <4>1. NoticeRecorded(decided, r, Cause(p))
        BY <1>6, <1>12, <1>13, <2>2, <3>2, RecordedAfter
      <4>2. QED
        BY <4>1, CommittedIsRecorded DEF Cause
    <3>3. QED
      BY <3>1, <3>2
  <2>3. CASE pass[p].basis = "stored"
    <3>1. decided = transcript
      BY <1>7, <1>9, <2>3 DEF explained
    <3>2. PICK i \in DOMAIN transcript :
             transcript[i].kind = "verdict" /\ transcript[i].round = r
      BY <1>3, <2>3 DEF Stored, Results
    <3>3. transcript[i].by = "moderator" \/ CommittedVerdict(transcript, r) # ""
      BY <1>4, <3>2 DEF Explains, VerdictsExplained
    <3>4. QED
      BY <3>1, <3>2, <3>3
  <2>4. QED
    BY <1>3, <2>1, <2>2, <2>3
<1>18. /\ transcript' \in {transcript, explained, decided}
       /\ status' = "concluded" => transcript' = decided
  <2>1. Explanation(p) \in {<<>>, <<m>>} /\ NewVerdict(p) \in {<<>>, <<v>>}
    BY <1>7, <1>9
  <2>2. QED
    BY <1>2, <1>5, <1>6, <2>1, ClosingWrites DEF explained
<1> HIDE DEF decided
<1>19. QED
  BY <1>4, <1>12, <1>16, <1>17, <1>18

\* So the end of a pass keeps the notices, also when only some of it is written.
LEMMA ConcludingKeepsNotices ==
    ASSUME TypeOK, PassInvariant, ResultInvariant, NoticeInvariant, NEW p \in Slots,
           Conclude(p)
    PROVE  NoticeInvariant'
<1>1. Working(p) /\ Return(p) /\ params' = params
  BY DEF Conclude, Working
<1>2. PassTypes /\ PassGoesOn(p) /\ pc'[p] = "end"
  BY <1>1, GoingOn, Arrives DEF TypeOK, Return
<1>3. \A q \in Slots : ~HoldsReading(q)'
  BY <1>1, <1>2, WriterLeaves
<1>4. /\ status \in {"moderating", "deleted"}
      /\ status = "moderating" => round = pass[p].round
  BY <1>1, WorkingAlone
<1>5. CASE ~Exists
  <2>1. transcript' = transcript /\ UNCHANGED row /\ status = "deleted"
    BY <1>4, <1>5, ClosingIsOrdered DEF Conclude, UpdateDebate, Exists
  <2>2. QED
    BY <1>1, <1>3, <2>1, NoNewRecord DEF row, ReadingHolds
<1>6. CASE Exists
  <2>1. /\ status = "moderating" /\ status' \in {"moderating", "concluded"}
        /\ round' = pass[p].round
    BY <1>4, <1>6 DEF Conclude, UpdateDebate, Exists, row
  <2>2. /\ Explains(transcript')
        /\ status' = "concluded" =>
              \/ \E i \in DOMAIN transcript' :
                    transcript'[i].kind = "verdict" /\ transcript'[i].by = "moderator"
              \/ CommittedVerdict(transcript', pass[p].round) # ""
    BY <1>6, ClosingExplains
  <2>3. OutcomeIsExplained'
    BY <1>1, <2>1, <2>2 DEF OutcomeIsExplained, CommittedVerdict
  <2>4. QED
    BY <1>1, <1>3, <2>1, <2>2, <2>3, NewRecords
<1>7. QED
  BY <1>5, <1>6

\* Opening the next round writes nothing.
LEMMA AdvancingKeepsNotices ==
    ASSUME TypeOK, PassInvariant, NoticeInvariant, NEW p \in Slots, Advance(p)
    PROVE  NoticeInvariant'
<1>1. Working(p) /\ Return(p) /\ UNCHANGED <<params, transcript>>
  BY DEF Advance, Working
<1>2. PassTypes /\ PassGoesOn(p) /\ pc'[p] = "end"
  BY <1>1, GoingOn, Arrives DEF TypeOK, Return
<1>3. \A q \in Slots : ~HoldsReading(q)'
  BY <1>1, <1>2, WriterLeaves
<1>4. status \in {"moderating", "deleted"} /\ status' \in {status, "running"}
  BY <1>1, WorkingAlone DEF Advance, UpdateDebate, row
<1>5. QED
  BY <1>1, <1>3, <1>4, NoNewRecord DEF ReadingHolds

\* The notice invariant holds at first.
LEMMA NoticeInvariantInit == Init => NoticeInvariant
BY DEF Init, NoticeInvariant, Explains, NoticesKept, NoticesFit, VerdictsExplained,
       OutcomeIsExplained, ReadingHolds, HoldsReading

\* Every step keeps it.
LEMMA NoticeInvariantStep ==
    ASSUME TypeOK, PassInvariant, ResultInvariant, NoticeInvariant, [Next]_vars
    PROVE  NoticeInvariant'
<1>1. CASE Clients
  BY <1>1, ClientsKeepNotices
<1>2. CASE Ticker
  BY <1>2, TickerKeepsNotices
<1>3. ASSUME NEW p \in Slots, PassStep(p)
      PROVE  NoticeInvariant'
  BY <1>3, EdgesKeepNotices, ReadingKeepsNotices, CallingKeepsNotices,
     SummarizingKeepsNotices, ConcludingKeepsNotices, AdvancingKeepsNotices,
     RestartKeepsNotices DEF PassStep, Panic
<1>4. CASE Time \/ UNCHANGED vars
  <2>1. UNCHANGED <<transcript, params, status, round, passes>>
    BY <1>4 DEF Time, DeadlinePasses, RetryPauseElapses, vars, stored, row
  <2>2. \A q \in Slots : Untouched(q)
    BY <2>1 DEF passes, Untouched
  <2>3. QED
    BY <2>1, <2>2, ReadingsStay, NoNewRecord DEF NoticeInvariant, Exists
<1>5. CASE Crash
  BY <1>5, RestartKeepsNotices DEF Crash
<1>6. QED
  BY <1>1, <1>2, <1>3, <1>4, <1>5 DEF Next

\* The notice invariant holds of every behaviour.
THEOREM NoticeInvariantHolds ==
    ASSUME PromptLaunch, PromptSweep
    PROVE  Spec => []NoticeInvariant
<1>1. /\ TypeOK /\ PassInvariant /\ ResultInvariant /\ NoticeInvariant /\ [Next]_vars
      => NoticeInvariant'
  BY NoticeInvariantStep
<1>2. QED
  BY <1>1, NoticeInvariantInit, TypesHold, PassInvariantHolds, ResultInvariantHolds, PTL
     DEF Spec

\* A recorded notice is kept: what the service has announced it will not do, no
\* retry, crash or late reply makes it do, and it announces it once.
THEOREM NoticesAreKeptHolds ==
    ASSUME PromptLaunch, PromptSweep
    PROVE  Spec => []NoticesAreKept
<1>1. NoticeInvariant => NoticesAreKept
  BY DEF NoticeInvariant, Explains, NoticesAreKept
<1>2. QED
  BY <1>1, NoticeInvariantHolds, PTL

\* A debate ends with a verdict of the model, or with the notice that says why not,
\* whichever writes failed before it ended.
THEOREM OutcomeIsExplainedHolds ==
    ASSUME PromptLaunch, PromptSweep
    PROVE  Spec => []OutcomeIsExplained
<1>1. NoticeInvariant => OutcomeIsExplained
  BY DEF NoticeInvariant
<1>2. QED
  BY <1>1, NoticeInvariantHolds, PTL
===============================================================================
