---------------------------- MODULE CourtProtocol ----------------------------
(***************************************************************************)
(* The service as an implementation of the protocol.                       *)
(***************************************************************************)
EXTENDS CourtProperties

RoundLimit == IF status = "none" THEN 0 ELSE params.rounds

TurnPosition == IF turn = NoAgent THEN 0 ELSE Position(turn)

\* The arguments of the transcript, without what the service and the moderator say.
Spoken ==
    {[agent |-> transcript[i].speaker, round |-> transcript[i].round]
        : i \in Arguments(transcript)}

Protocol == INSTANCE DebateProtocol WITH
    phase   <- status,
    order   <- roster,
    limit   <- RoundLimit,
    next    <- TurnPosition,
    said    <- Spoken,
    outcome <- consensus

\* The service implements the protocol: whatever the sweep, the passes and their
\* retries do over a failing store, participants see turns in order, rounds one after
\* the other and one conclusion, from which nothing leads on. It is a property of a
\* service that can store its turns ("turn" is not in Faulty): where that fails after
\* an argument, the participant may speak again.
ImplementsProtocol == Protocol!Spec
===============================================================================
