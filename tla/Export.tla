-------------------------------- MODULE Export --------------------------------
(***************************************************************************)
(* The artifact the service publishes of a debate: ExportSnapshot          *)
(* (internal/core/service.go) and Stream (internal/protocol).              *)
(*                                                                         *)
(* ExportSnapshot holds the transition lock over all of its reads, so what *)
(* it sees is a state between two actions of Court.                        *)
(***************************************************************************)
EXTENDS Court

Suite == INSTANCE Conformance WITH NoOne <- NoAgent, RosterLimit <- MaxParticipants

\* Participants are read in the order they joined.
ParticipantRecords == {[agent |-> roster[i], joined |-> i] : i \in DOMAIN roster}

\* viewFrom: a hybrid debate that is no longer open shows its votes.
ViewVotes ==
    IF params.mode # "hybrid" \/ status = "open" THEN {}
    ELSE LET votes == CurrentVotes(transcript)
         IN  {[agent |-> a, supports |-> votes[a]] : a \in DOMAIN votes}

ExportSnapshot ==
    [debate |-> [status |-> status, mode |-> params.mode, rounds |-> params.rounds,
                 current |-> round, consensus |-> consensus],
     participants |-> ParticipantRecords, messages |-> transcript, votes |-> ViewVotes]

RecordType(kind) == CASE kind = "summary" -> "round_summary"
                      [] kind = "verdict" -> "verdict"
                      [] OTHER            -> "message"

RecordForMessage(m) ==
    [type |-> RecordType(m.kind), kind |-> m.kind, round |-> m.round, speaker |-> m.speaker,
     support |-> m.support, consensus |-> m.consensus]

\* The groups of the artifact; within a group the order is that of the key.
Stream(seen) ==
    [debate |-> seen.debate,
     participants |-> seen.participants,
     transcript |-> [i \in DOMAIN seen.messages |-> RecordForMessage(seen.messages[i])],
     votes |-> seen.votes]

-------------------------------------------------------------------------------
(* Property *)

\* Whatever state a debate is in, also in the middle of a retry after failed writes,
\* what the service exports of it is accepted by the conformance suite (ADR 0007:
\* the export "is the evidence", SPEC.md C1 to C11 and C14).
ExportConforms == Exists => Suite!Conforms(Stream(ExportSnapshot))
===============================================================================
