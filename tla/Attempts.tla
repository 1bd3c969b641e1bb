------------------------------- MODULE Attempts -------------------------------
(***************************************************************************)
(* The in-memory record of moderation attempts of one debate               *)
(* (moderationAttempts, internal/core/service.go) as a value and the       *)
(* functions that read and change it.  All of them run under moderationMu, *)
(* so each is one atomic step of whoever calls it.                         *)
(*                                                                         *)
(* Time is abstracted to one question, whether the pause since lastTry is  *)
(* still running; that is the parameter `paused`.                          *)
(***************************************************************************)
EXTENDS Integers

CONSTANT PaidCap        \* moderationMaxPaidPasses

ASSUME PaidCapAssumption == PaidCap \in Nat

Attempt == [round      : Nat,
            running    : BOOLEAN,
            tries      : Nat,
            pass       : Nat,
            paid       : Nat,
            hopeless   : BOOLEAN,
            chargeLost : BOOLEAN]

\* No entry in the map.  The code gives a missing entry the meaning of the zero
\* record wherever it reads one; rounds start at 1, so the zero record never
\* stands for a round.
NoAttempts == [round |-> 0, running |-> FALSE, tries |-> 0, pass |-> 0,
               paid |-> 0, hopeless |-> FALSE, chargeLost |-> FALSE]

\* A newer round closing overrides the `running` mark of an older one.
TakesOver(a, round, trigger) == trigger = "round_closed" /\ round > a.round

\* Mutant of CanBegin: the `running` mark no longer excludes a second pass.
CanBegin_WhileRunning(a, round, trigger, paused) ==
    /\ round >= a.round
    /\ round = a.round => /\ ~a.hopeless
                          /\ a.tries > 0 => ~paused

\* Mutant of CanBegin: a round is attempted once, as before there were retries.
CanBegin_Once(a, round, trigger, paused) ==
    /\ round >= a.round
    /\ a.running => TakesOver(a, round, trigger)
    /\ round = a.round => ~a.hopeless /\ a.tries = 0

\* beginModerationAttempt's refusals, in the order the code tests them.
CanBegin(a, round, trigger, paused) ==
    /\ round >= a.round
    /\ a.running => TakesOver(a, round, trigger)
    /\ round = a.round => /\ ~a.hopeless
                          /\ a.tries > 0 => ~paused

\* Mutant of ForRound: a new round is a new account.
ForRound_Anew(a, round) ==
    IF round > a.round THEN [NoAttempts EXCEPT !.round = round, !.pass = a.pass] ELSE a

\* chargeLost is the only part of the account that a new round keeps.
ForRound(a, round) ==
    IF round > a.round
    THEN [a EXCEPT !.round = round, !.paid = 0, !.tries = 0, !.hopeless = FALSE]
    ELSE a

Begun(a, round) ==
    [ForRound(a, round) EXCEPT !.running = TRUE, !.tries = @ + 1, !.pass = @ + 1]

\* Mutant of Ended: a pass clears the mark whoever set it.
Ended_AnyPass(a, token) == [a EXCEPT !.running = FALSE]

\* endModerationAttempt: a pass clears the mark only if it is its own.
Ended(a, token) == IF a.pass = token THEN [a EXCEPT !.running = FALSE] ELSE a

GivenUp(a) == IF a = NoAttempts THEN a ELSE [a EXCEPT !.hopeless = TRUE]

\* Mutant of Admitted: the account is kept as a remainder and counted down.
Admitted_Down(a) == IF a = NoAttempts THEN a ELSE [a EXCEPT !.paid = @ - 1]

\* Mutant of Admitted: a call is not counted before it is charged.
Admitted_Uncounted(a) == a

Admitted(a) == IF a = NoAttempts THEN a ELSE [a EXCEPT !.paid = @ + 1]

ChargeNoted(a) == [a EXCEPT !.chargeLost = TRUE]

AffordsModelCall(a) == ~a.chargeLost /\ a.paid < PaidCap

\* forgetSettledModeration drops what is neither running nor active.
Forgotten(a, active) == IF a.running \/ active THEN a ELSE NoAttempts
===============================================================================
