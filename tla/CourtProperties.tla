--------------------------- MODULE CourtProperties ----------------------------
(***************************************************************************)
(* What module Court is checked for.                                       *)
(***************************************************************************)
EXTENDS Court

Labels == {"idle", "fetch", "read", "admit", "call", "charge", "skip", "save",
           "reread", "conclude", "advance", "end"}

Pass == [token     : Nat,
         round     : Nat,
         tokens    : Nat,
         msgs      : Seq(Message),
         parts     : Seq(Agents),
         consensus : BOOLEAN,
         call      : {"none", "summary", "verdict"},
         reply     : {"none", "failed", "open", "agreed"},
         charge    : Nat,
         basis     : {"none", "stored", "budget", "unavailable", "model"}]

Statuses == {"none", "open", "preparing", "running", "moderating", "concluded",
             "deleted"}

RowTypes ==
    /\ status \in Statuses /\ round \in Nat /\ turn \in Agents \cup {NoAgent}
    /\ late \in BOOLEAN /\ consensus \in BOOLEAN

StoredTypes ==
    /\ RowTypes /\ tokens \in Nat
    /\ params \in [mode : Modes, rounds : Nat, prep : BOOLEAN]
    /\ roster \in Seq(Agents) /\ transcript \in Seq(Message)

MemoryTypes == attempts \in Attempt /\ paused \in BOOLEAN

SweepTypes ==
    /\ ticker \in {"read", "resume", "forget", "expire"}
    /\ snapshot \in [active : BOOLEAN, moderating : BOOLEAN, round : Nat]

PassTypes == pc \in [Slots -> Labels] /\ pass \in [Slots -> Pass]

HistoryTypes ==
    /\ faults \in Nat /\ crashes \in Nat /\ panics \in Nat
    /\ unbooked \in [charges : Nat, replies : [DeclaredRounds -> Nat]]
    /\ conclusions \in Nat

\* The shape of every variable.
TypeOK ==
    StoredTypes /\ MemoryTypes /\ SweepTypes /\ PassTypes /\ HistoryTypes

-------------------------------------------------------------------------------
(* The transcript a consumer reads (SPEC.md, internal/conformance). *)

Position(agent) == CHOOSE i \in DOMAIN roster : roster[i] = agent

\* C4: within a round arguments follow the turn order and nobody speaks twice.
TurnOrder ==
    \A i, j \in Arguments(transcript) :
        (i < j /\ transcript[i].round = transcript[j].round)
            => Position(transcript[i].speaker) < Position(transcript[j].speaker)

\* C5: rounds run from 1 to the declared count, never backwards along the
\* transcript and never ahead of the debate, whose own round is 0 exactly before
\* the start.
RoundsMoveForward ==
    /\ Exists => (round = 0 <=> status \in {"open", "preparing"})
    /\ round <= params.rounds
    /\ \A i \in DOMAIN transcript :
          /\ transcript[i].round \in 1..round
          /\ \A j \in DOMAIN transcript :
                i < j => transcript[i].round <= transcript[j].round

\* C6, and the first rollback criterion of ADR 0008: no round ever holds two
\* summaries or two verdicts, the state that no later pass can moderate.
NoAmbiguousRound == \A r \in 1..params.rounds : ~Ambiguous(transcript, r)

\* C7: the verdict is the last record, and appears only from moderation on.
VerdictCloses ==
    \A i \in DOMAIN transcript : transcript[i].kind = "verdict" =>
        /\ i = Len(transcript)
        /\ status \in {"moderating", "concluded"}

IsNotice(m) == m.kind = "system" /\ m.text \in Notices

\* The record n of the same round keeps what the notice m says.
Keeps(m, n) ==
    /\ m.text \in {NoticeBudgetSummary, NoticeUnavailableSummary} => n.kind # "summary"
    /\ m.text \in {NoticeBudgetVerdictModerator, NoticeBudgetVerdictHybrid,
                   NoticeUnavailableVerdictHybrid}
          => (n.kind = "verdict" => n.by = "system")
    /\ m.text = NoticeUnavailableVerdictModerator => n.kind # "verdict"
    /\ n.kind = "system" => n.text # m.text

NoticesKept(msgs) ==
    \A i, j \in DOMAIN msgs :
        (IsNotice(msgs[i]) /\ msgs[j].round = msgs[i].round /\ i # j)
            => Keeps(msgs[i], msgs[j])

\* A recorded notice is a promise about its round: after a summary notice no
\* summary, after a verdict notice only a verdict of the service, and in moderator
\* mode no verdict at all when the moderator was unavailable; and no notice twice.
NoticesAreKept == NoticesKept(transcript)

\* An outcome that is not the model's is explained: a concluded debate has a
\* verdict of the model, or the notice that says why not.
OutcomeIsExplained ==
    status = "concluded" =>
        \/ \E i \in DOMAIN transcript :
              transcript[i].kind = "verdict" /\ transcript[i].by = "moderator"
        \/ CommittedVerdict(transcript, round) # ""

-------------------------------------------------------------------------------
(* The moderation passes. *)

\* The pass has read the debate and has not done its last write.
Working(p) == pc[p] \notin {"idle", "fetch", "end"}

\* At most one pass works on the debate (ADR 0008, "a pass in flight is
\* excluded"), and it is the one the attempt record says is running.
OnePass ==
    \A p \in Slots : Working(p) =>
        /\ attempts.running /\ attempts.pass = pass[p].token
        /\ \A q \in Slots : Working(q) => p = q

\* The debate is concluded, and its end announced, at most once: a retry that
\* comes late finds the debate gone on and leaves it alone.
OneConclusion == conclusions <= 1

\* Nothing changes a concluded debate but its removal (SPEC.md, "terminal,
\* nothing is appended afterwards"), whatever passes and sweeps are still about.
ConcludedIsFinal ==
    [][status = "concluded" =>
        \/ status' = "deleted"
        \/ UNCHANGED <<row, roster, transcript>>]_vars

\* The spend ceiling holds for what the store has counted, although each pass
\* compares it with a count it read before its calls (ADR 0004).
SpendIsBounded == Budget > 0 => tokens <= Budget

\* What the ceiling does not see is bounded too (ADR 0008).  A process loses the
\* charge of one call at most: the one it dies in, or the one whose charge it fails
\* to store, after which it pays for no other.  Calls that were billed although the
\* process took them for unbilled are at most moderationMaxPaidPasses for a round,
\* and a restart begins that account anew.
UncountedIsBounded ==
    /\ unbooked.charges <= crashes + panics + 1
    /\ \A r \in DeclaredRounds : unbooked.replies[r] <= PaidCap

\* A debate that has started ends: no turn waits for ever, and no failure of the
\* store and no restart leaves it in moderation (issue #40, ADR 0008).
EndsEventually == Active ~> status \in {"concluded", "deleted"}

\* A debate can be deleted in any state (README.md) without taking the process
\* down with it.
NoPanic == panics = 0

-------------------------------------------------------------------------------
(* Why there is one pass: the inductive invariant of CourtProofs.  It needs *)
(* both timing assumptions.                                                 *)

\* Before the start nothing of moderation exists.
QuietBeforeStart ==
    status \in {"none", "open", "preparing"} =>
        /\ attempts = NoAttempts
        /\ \A p \in Slots : pc[p] = "idle"
        /\ ~snapshot.moderating
        /\ status # "preparing" => round = 0

\* Every goroutine has a token of its own, and while the debate can still be
\* moderated no token handed out later can be equal to it.
TokensAreFresh ==
    /\ \A p, q \in Slots :
          (p # q /\ pc[p] # "idle" /\ pc[q] # "idle") => pass[p].token # pass[q].token
    /\ \A p \in Slots :
          (pc[p] # "idle" /\ (Active \/ (ticker \in {"resume", "forget"} /\ snapshot.active)))
            => pass[p].token <= attempts.pass

\* A working pass owns the attempt record, and nobody else moves the debate.
WorkingOwns ==
    \A p \in Slots : Working(p) =>
        /\ status \in {"moderating", "deleted"}
        /\ attempts.running
        /\ attempts.pass = pass[p].token
        /\ attempts.round = pass[p].round
        /\ status = "moderating" => round = pass[p].round

\* So does a pass that has been launched and will find the debate in moderation.
LaunchedOwns ==
    \A p \in Slots : (pc[p] = "fetch" /\ status = "moderating") =>
        /\ attempts.running
        /\ attempts.pass = pass[p].token
        /\ attempts.round = round

\* The round that closes next has had no attempt.
RoundsAreNew == status = "running" => attempts.round < round

\* The debate list of the sweep is of an earlier state: it may name an earlier
\* round, but then the attempt record has gone past it.
SnapshotIsEarlier ==
    /\ snapshot.moderating => snapshot.active
    /\ ticker \notin {"resume", "forget"} => ~snapshot.active
    /\ snapshot.moderating =>
          /\ status = "moderating" =>
                /\ snapshot.round <= round
                /\ attempts.round = round \/ snapshot.round = round
          /\ status = "running" => snapshot.round < round
    /\ (Active /\ ticker \in {"resume", "forget"}) => snapshot.active

PassInvariant ==
    /\ QuietBeforeStart /\ TokensAreFresh /\ WorkingOwns /\ LaunchedOwns
    /\ RoundsAreNew /\ SnapshotIsEarlier

-------------------------------------------------------------------------------
(* Why a round has one result of a kind: the inductive invariant of          *)
(* ResultProofs, on top of PassInvariant.                                    *)

NoVerdict(msgs) == \A i \in DOMAIN msgs : msgs[i].kind # "verdict"

OneSummary(msgs) ==
    \A i, j \in DOMAIN msgs :
        /\ msgs[i].kind = "summary" /\ msgs[j].kind = "summary"
        /\ msgs[i].round = msgs[j].round
        => i = j

\* The pass has seen no verdict and may still store one, or open the next round.
StillOpen(p) ==
    \/ pc[p] \in {"admit", "call", "charge", "skip", "save", "reread", "advance"}
    \/ pc[p] = "conclude" /\ pass[p].basis # "stored"

MayWriteSummary(p) ==
    \/ pc[p] = "save"
    \/ pc[p] \in {"admit", "call", "charge"} /\ pass[p].call = "summary"

VerdictIsLast ==
    \A i \in DOMAIN transcript : transcript[i].kind = "verdict" =>
        /\ i = Len(transcript)
        /\ status \in {"moderating", "concluded"}
        /\ transcript[i].round = round

\* What a pass has read minutes ago still holds when it writes: while it may store
\* a verdict or a summary there is none, and a verdict belongs to the round of the
\* row and ends the transcript.
ResultInvariant ==
    /\ status = "deleted" => transcript = <<>>
    /\ VerdictIsLast
    /\ OneSummary(transcript)
    /\ \A p \in Slots : StillOpen(p) => NoVerdict(transcript)
    /\ \A p \in Slots : MayWriteSummary(p) => ~Stored(transcript, pass[p].round, "summary")

-------------------------------------------------------------------------------
(* Why notices are kept and outcomes explained: the inductive invariant of    *)
(* ResultProofs, on top of PassInvariant and ResultInvariant.                 *)

\* The pass decides by the transcript it has read.
HoldsReading(p) == pc[p] \in {"admit", "call", "charge", "skip", "save", "conclude"}

ForSummary(p) ==
    \/ pc[p] \in {"skip", "save"}
    \/ pc[p] \in {"admit", "call", "charge"} /\ pass[p].call = "summary"

\* Which verdict notices the pass has read of its round.
HasRead(p, notice) == NoticeRecorded(pass[p].msgs, pass[p].round, notice)

\* What a pass read before its call, minutes ago, is still what is recorded; the
\* round it summarises has no summary and no notice that there is none; a verdict it
\* asks for has no notice; and on whatever its outcome is based, no notice of
\* another cause is recorded.
ReadingFits(p) ==
    /\ Exists => pass[p].msgs = transcript
    /\ ForSummary(p) => ~NeedsNoSummary(pass[p].msgs, pass[p].round)
    /\ (~ForSummary(p) /\ pc[p] # "conclude") =>
          CommittedVerdict(pass[p].msgs, pass[p].round) = ""
    /\ pc[p] = "charge" => pass[p].basis \in {"model", "unavailable"}
    /\ pc[p] = "conclude" =>
          /\ pass[p].basis # "none"
          /\ pass[p].basis = "stored" => Stored(pass[p].msgs, pass[p].round, "verdict")
          /\ pass[p].basis \in {"model", "budget"} =>
                ~HasRead(p, UnavailableVerdict(params.mode))
          /\ pass[p].basis \in {"model", "unavailable"} =>
                ~HasRead(p, BudgetVerdict(params.mode))

ReadingHolds == \A p \in Slots : HoldsReading(p) => ReadingFits(p)

\* The notices of a debate are those of its mode, and those of one round name one
\* cause of the missing verdict.
NoticesFit(msgs) ==
    /\ \A i \in DOMAIN msgs : IsNotice(msgs[i]) =>
          msgs[i].text \in {NoticeBudgetSummary, NoticeUnavailableSummary,
                           BudgetVerdict(params.mode), UnavailableVerdict(params.mode)}
    /\ \A i, j \in DOMAIN msgs :
          (IsNotice(msgs[i]) /\ IsNotice(msgs[j]) /\ msgs[i].round = msgs[j].round)
             => ~(/\ msgs[i].text = BudgetVerdict(params.mode)
                  /\ msgs[j].text = UnavailableVerdict(params.mode))

\* A verdict is the model's, or there is a notice that says why it is not.
VerdictsExplained(msgs) ==
    \A i \in DOMAIN msgs : msgs[i].kind = "verdict" =>
        \/ msgs[i].by = "moderator"
        \/ CommittedVerdict(msgs, msgs[i].round) # ""

Explains(msgs) == NoticesKept(msgs) /\ NoticesFit(msgs) /\ VerdictsExplained(msgs)

NoticeInvariant ==
    /\ status = "none" => transcript = <<>>
    /\ Explains(transcript)
    /\ OutcomeIsExplained
    /\ ReadingHolds

-------------------------------------------------------------------------------
(* Why the ceiling holds: the inductive invariant of CourtProofs.             *)

\* The pass still compares what is spent with the ceiling, or adds to it.
Counts(p) == pc[p] \in {"read", "admit", "call", "charge", "save", "reread"}

\* What a pass took the spend to be when it started is what the store has counted,
\* and what it has been allowed fits; no pass pays when a charge was lost.
SpendFits(p) ==
    /\ (Counts(p) /\ Exists) => pass[p].tokens = tokens
    /\ (pc[p] = "call" /\ Budget > 0)
          => pass[p].tokens + Estimate(pass[p].msgs) <= Budget
    /\ (pc[p] = "charge" /\ Budget > 0)
          => pass[p].tokens + pass[p].charge <= Budget
    /\ Paying(p) => ~attempts.chargeLost

\* The debate will pay for a call, or a pass that may is still about.
MayPay ==
    \/ status \notin {"concluded", "deleted"}
    \/ \E p \in Slots : Working(p)

\* One charge may be lost beyond those of the process deaths, but the mark it leaves
\* in memory lasts as long as anybody may pay.
LossesFit ==
    /\ unbooked.charges <= crashes + panics + 1
    /\ (~attempts.chargeLost /\ MayPay) => unbooked.charges <= crashes + panics

SpendInvariant ==
    /\ Budget > 0 => tokens <= Budget
    /\ ~Exists => tokens = 0
    /\ \A p \in Slots : SpendFits(p)
    /\ LossesFit

\* Of the round of the attempt record no more replies have been lost than calls
\* admitted, of which the one now with the provider is not lost yet; of later rounds
\* none.
AdmissionsCover ==
    \A r \in DeclaredRounds :
        /\ r > attempts.round => unbooked.replies[r] = 0
        /\ r = attempts.round =>
              /\ unbooked.replies[r] <= attempts.paid
              /\ (\E p \in Slots : pc[p] = "call") => unbooked.replies[r] < attempts.paid

AdmissionInvariant ==
    /\ attempts.paid <= PaidCap
    /\ \A r \in DeclaredRounds : unbooked.replies[r] <= PaidCap
    /\ MayPay => AdmissionsCover

-------------------------------------------------------------------------------
(* Why turns and rounds are in order: the inductive invariant of TurnProofs,  *)
(* on top of PassInvariant.  It needs a store that keeps the turn.            *)

\* The row, the roster and the transcript fit the phase of the debate.
PhaseFits ==
    /\ status \in {"none", "open", "preparing"} => round = 0 /\ transcript = <<>>
    /\ status = "deleted" => round = 0 /\ transcript = <<>> /\ roster = <<>>
    /\ status = "none" => roster = <<>>
    /\ status # "none" => params.rounds \in RoundCounts
    /\ status \in {"preparing", "running", "moderating", "concluded"}
          => Len(roster) >= MinimumToStart
    /\ status \in {"running", "moderating", "concluded"} => round \in 1..params.rounds
    /\ IF status = "running" THEN Participating(turn) ELSE turn = NoAgent
    /\ consensus => status = "concluded"

JoinedOnce == \A i, j \in DOMAIN roster : roster[i] = roster[j] => i = j

RecordsInOrder ==
    \A i \in DOMAIN transcript :
        /\ transcript[i].round \in 1..round
        /\ \A j \in DOMAIN transcript :
              i < j => transcript[i].round <= transcript[j].round

\* Who has spoken in the running round comes before who has the turn.
SpeakersWereBefore ==
    \A i \in Arguments(transcript) :
        /\ Participating(transcript[i].speaker)
        /\ (status = "running" /\ transcript[i].round = round)
              => Position(transcript[i].speaker) < Position(turn)

\* A pass that may yet open the next round has one to open, and, in hybrid mode, the
\* participants it read are those of the debate.
MayOpenRound(p) == MayWriteSummary(p) \/ pc[p] \in {"skip", "reread", "advance"}

NextRoundIsThere ==
    \A p \in Slots : MayOpenRound(p) =>
        /\ pass[p].round < params.rounds
        /\ pc[p] = "reread" => params.mode # "hybrid"
        /\ (params.mode = "hybrid" /\ Exists) => pass[p].parts = roster

TurnInvariant ==
    /\ PhaseFits /\ JoinedOnce /\ RecordsInOrder /\ TurnOrder
    /\ SpeakersWereBefore /\ NextRoundIsThere
-------------------------------------------------------------------------------
(* Why the published artifact conforms: what ProtocolProofs adds to the        *)
(* invariants above.                                                           *)

\* Whom an argument supports takes part, and what the service says has no speaker.
RecordFits(m) ==
    /\ m.kind = "system" => m.speaker = NoAgent /\ m.support = NoAgent
    /\ m.kind = "argument" => m.support = NoAgent \/ Participating(m.support)

RecordsFit ==
    /\ Len(roster) <= MaxParticipants
    /\ \A i \in DOMAIN transcript : RecordFits(transcript[i])

VotesAgree == Unanimity(CurrentVotes(transcript))

VerdictsSay(msgs, outcome) ==
    \A i \in DOMAIN msgs : msgs[i].kind = "verdict" => msgs[i].consensus = outcome

\* The pass goes for the verdict with what the votes, or a stored verdict, say.
PassAgrees(p) ==
    Exists =>
        /\ (pc[p] = "conclude" /\ pass[p].basis = "stored")
              => VerdictsSay(transcript, pass[p].consensus)
        /\ (params.mode = "hybrid" /\ HoldsReading(p) /\ ~ForSummary(p))
              => pass[p].consensus = VotesAgree

\* A stored verdict, the pass that takes it up again and the row it will write agree
\* on the outcome; in hybrid mode the votes give it to all three.
ConsensusFits ==
    /\ status = "concluded" => VerdictsSay(transcript, consensus)
    /\ params.mode = "hybrid" =>
          /\ VerdictsSay(transcript, VotesAgree)
          /\ status = "concluded" => consensus = VotesAgree
    /\ \A p \in Slots : PassAgrees(p)
===============================================================================
