------------------------------ MODULE EventStream -----------------------------
(***************************************************************************)
(* How the outside learns of what happens in one debate: the event hub     *)
(* (internal/core/hub.go), the event stream with its replay                *)
(* (handleEvents), the page that reads it (internal/web/index.html) and    *)
(* the long poll (WaitTurn).                                               *)
(*                                                                         *)
(* Writers hold the transition lock, so there is one at a time, but        *)
(* streams, pages and waiters take no part in that lock: they run between  *)
(* the writes of a handler and the events it publishes.  A message is its  *)
(* seq: the n-th message stored has seq n.                                 *)
(***************************************************************************)
EXTENDS Integers, Sequences, FiniteSets

CONSTANTS
    Pages,          \* open debate pages, each with its event stream
    Waiters,        \* agents in a long poll
    Nobody,         \* the turn of no waiter
    Buffer,         \* events a subscriber's channel holds
    MaxMessages,    \* bound: messages of the debate
    MaxCuts         \* bound: connections lost

ASSUME EventStreamAssumption ==
    /\ Nobody \notin Waiters /\ Pages \cap Waiters = {}
    /\ Buffer \in Nat \ {0} /\ MaxMessages \in Nat /\ MaxCuts \in Nat

Subscribers == Pages \cup Waiters

VARIABLES
    status, turn, stored,   \* the row, and the number of messages in the store
    writer,                 \* what the holder of the transition lock still has to do
    subs, channel,          \* the hub: who is subscribed, and what waits for it
    stream,                 \* the handler of each page's stream
    page,                   \* what each page has shown
    waiter,                 \* the long polls
    lossy, cuts             \* history: pages that lost an event, connections lost

debate == <<status, turn, stored>>
hub    == <<subs, channel, lossy>>
vars   == <<debate, writer, hub, stream, page, waiter, cuts>>

Message(seq) == [type |-> "message", seq |-> seq]
TurnStarted  == [type |-> "turn", seq |-> 0]
Concluded    == [type |-> "concluded", seq |-> 0]
Deleted      == [type |-> "deleted", seq |-> 0]

Exists == status # "deleted"

-------------------------------------------------------------------------------
(* Hub *)

\* Mutant of HasRoom: the channel holds one event less.
HasRoom_OneLess(s) == Len(channel[s]) + 1 < Buffer

HasRoom(s) == Len(channel[s]) < Buffer

\* A subscriber whose channel is full loses the event.
Publish(event) ==
    /\ channel' = [s \in Subscribers |->
          IF s \in subs /\ HasRoom(s) THEN Append(channel[s], event) ELSE channel[s]]
    /\ lossy' = lossy \cup {p \in subs \cap Pages : Len(channel[p]) >= Buffer}
    /\ UNCHANGED subs

Subscribe(s) ==
    /\ subs' = subs \cup {s}
    /\ channel' = [channel EXCEPT ![s] = <<>>]
    /\ UNCHANGED lossy

\* Mutant of Unsubscribe: an ended stream or poll stays in the hub.
Unsubscribe_Never(s) == UNCHANGED hub

Unsubscribe(s) ==
    /\ subs' = subs \ {s}
    /\ channel' = [channel EXCEPT ![s] = <<>>]
    /\ UNCHANGED lossy

-------------------------------------------------------------------------------
(* Writers: each write of a handler, and the event after it. *)

StoreMessage == <<[do |-> "store"], [do |-> "publish", event |-> Message(stored + 1)]>>

\* Mutant of MoveTurn: the event is published before the row is written.
MoveTurn_PublishFirst(next) ==
    <<[do |-> "publish", event |-> TurnStarted], [do |-> "move", turn |-> next]>>

MoveTurn(next) ==
    <<[do |-> "move", turn |-> next], [do |-> "publish", event |-> TurnStarted]>>

Conclusion == <<[do |-> "conclude"], [do |-> "publish", event |-> Concluded]>>

Removal == <<[do |-> "delete"], [do |-> "publish", event |-> Deleted]>>

\* A notice or a summary; a reply or a skipped turn, which move the turn on or end
\* the round; the opening of the next round; the verdict.
Handlers ==
    {MoveTurn(w) : w \in Waiters} \cup
    IF stored = MaxMessages THEN {}
    ELSE {StoreMessage, StoreMessage \o Conclusion}
            \cup {StoreMessage \o MoveTurn(w) : w \in Waiters \cup {Nobody}}

Lock(steps) ==
    /\ writer = <<>>
    /\ writer' = steps
    /\ UNCHANGED <<debate, hub, stream, page, waiter, cuts>>

DeleteDebate == Exists /\ Lock(Removal)

Write ==
    /\ status = "running"
    /\ \E steps \in Handlers : Lock(steps)

WriterStep ==
    /\ writer # <<>>
    /\ writer' = Tail(writer)
    /\ LET step == Head(writer)
       IN  \/ /\ step.do = "store"
              /\ stored' = stored + 1
              /\ UNCHANGED <<status, turn, hub>>
           \/ /\ step.do = "move"
              /\ turn' = step.turn
              /\ UNCHANGED <<status, stored, hub>>
           \/ /\ step.do = "conclude"
              /\ status' = "concluded" /\ turn' = Nobody
              /\ UNCHANGED <<stored, hub>>
           \/ /\ step.do = "delete"
              /\ status' = "deleted" /\ turn' = Nobody /\ stored' = 0
              /\ UNCHANGED hub
           \/ /\ step.do = "publish"
              /\ Publish(step.event)
              /\ UNCHANGED debate
    /\ UNCHANGED <<stream, page, waiter, cuts>>

\* A write that fails ends its handler, and nothing more is published.
WriteFails ==
    /\ writer # <<>>
    /\ Head(writer).do # "publish"
    /\ writer' = <<>>
    /\ UNCHANGED <<debate, hub, stream, page, waiter, cuts>>

-------------------------------------------------------------------------------
(* A page and its stream.  What the handler writes the page receives. *)

NoStream == [pc |-> "closed", seen |-> 0, sent |-> <<>>]
NoPage   == [open |-> FALSE, after |-> 0, shown |-> <<>>]

UpTo(n) == [i \in 1..n |-> i]

LastOf(seq) == IF seq = <<>> THEN 0 ELSE seq[Len(seq)]

\* showDebate: the transcript is fetched, and the stream asked for what follows.
LoadPage(p) ==
    /\ page[p] = NoPage
    /\ Exists
    /\ page' = [page EXCEPT ![p] = [open |-> TRUE, after |-> stored, shown |-> UpTo(stored)]]
    /\ UNCHANGED <<debate, writer, hub, stream, waiter, cuts>>

\* appendMsg drops what is not newer than the last message shown.
Shown(shown, seq) == IF seq <= LastOf(shown) THEN shown ELSE Append(shown, seq)

\* The messages after one and up to another, as the store returns them.
Between(after, last) == [i \in 1..(last - after) |-> after + i]

\* What is shown after the first messages of a replay: those that are newer are added.
ShownUpTo(shown, after, last) ==
    shown \o Between(IF after < LastOf(shown) THEN LastOf(shown) ELSE after, last)

\* The stream is asked for, or asked for again; a page that is told "not found"
\* asks no more.
OpenStream(p) ==
    /\ page[p].open /\ stream[p].pc = "closed"
    /\ IF Exists
       THEN stream' = [stream EXCEPT ![p].pc = "accepted"] /\ UNCHANGED page
       ELSE page' = [page EXCEPT ![p].open = FALSE] /\ UNCHANGED stream
    /\ UNCHANGED <<debate, writer, hub, waiter, cuts>>

SubscribeStream(p) ==
    /\ stream[p].pc = "accepted"
    /\ stream' = [stream EXCEPT ![p].pc = "subscribed"]
    /\ Subscribe(p)
    /\ UNCHANGED <<debate, writer, page, waiter, cuts>>


\* Where a replay begins: the after_seq of the page's first request, however often the
\* browser has asked again since.
ReplayedFrom(p) == page[p].after

Missed(p) == Between(ReplayedFrom(p), stored)

Replay(p) ==
    /\ stream[p].pc = "subscribed"
    /\ Exists
    /\ stream' = [stream EXCEPT ![p] = [pc |-> "live", seen |-> LastOf(Missed(p)),
                                         sent |-> Missed(p)]]
    /\ page' = [page EXCEPT ![p].shown = ShownUpTo(@, ReplayedFrom(p), stored)]
    /\ UNCHANGED <<debate, writer, hub, waiter, cuts>>

\* The debate is gone between the two reads of the handler.
ReplayFails(p) ==
    /\ stream[p].pc = "subscribed"
    /\ ~Exists
    /\ stream' = [stream EXCEPT ![p] = NoStream]
    /\ Unsubscribe(p)
    /\ UNCHANGED <<debate, writer, page, waiter, cuts>>

\* Mutant of AlreadySent: the replay is not compared.
AlreadySent_Never(p, event) == FALSE

AlreadySent(p, event) == event.type = "message" /\ event.seq <= stream[p].seen

\* One turn of the loop of handleEvents.
SendLive(p) ==
    /\ stream[p].pc = "live"
    /\ channel[p] # <<>>
    /\ LET event == Head(channel[p])
       IN  \/ /\ event.type = "message" /\ ~AlreadySent(p, event)
              /\ stream' = [stream EXCEPT ![p].sent = Append(@, event.seq)]
              /\ page' = [page EXCEPT ![p].shown = Shown(@, event.seq)]
              /\ channel' = [channel EXCEPT ![p] = Tail(@)]
              /\ UNCHANGED <<subs, lossy>>
           \/ /\ event.type # "deleted"
              /\ event.type = "message" => AlreadySent(p, event)
              /\ channel' = [channel EXCEPT ![p] = Tail(@)]
              /\ UNCHANGED <<subs, lossy, stream, page>>
           \/ /\ event.type = "deleted"
              /\ page' = [page EXCEPT ![p].open = FALSE]
              /\ stream' = [stream EXCEPT ![p] = NoStream]
              /\ Unsubscribe(p)
    /\ UNCHANGED <<debate, writer, waiter, cuts>>

\* The connection is lost at any point, within a replay too; the handler notices
\* at its next write or heartbeat and the browser asks again with the same URL.
Cut(p) ==
    /\ stream[p].pc # "closed"
    /\ cuts < MaxCuts
    /\ cuts' = cuts + 1
    /\ \/ UNCHANGED page
       \/ /\ stream[p].pc = "subscribed" /\ Exists
          /\ \E last \in ReplayedFrom(p)..stored :
                page' = [page EXCEPT ![p].shown = ShownUpTo(@, ReplayedFrom(p), last)]
    /\ stream' = [stream EXCEPT ![p] = NoStream]
    /\ Unsubscribe(p)
    /\ UNCHANGED <<debate, writer, waiter>>

-------------------------------------------------------------------------------
(* The long poll: WaitTurn. *)

StartWaiting(w) ==
    /\ waiter[w] = "idle"
    /\ waiter' = [waiter EXCEPT ![w] = "checking"]
    /\ Subscribe(w)
    /\ UNCHANGED <<debate, writer, stream, page, cuts>>

Answered(w) == ~Exists \/ status = "concluded" \/ turn = w

\* TurnStatus is read anew in every turn of the loop.
CheckTurn(w) ==
    /\ waiter[w] = "checking"
    /\ IF Answered(w)
       THEN waiter' = [waiter EXCEPT ![w] = "idle"] /\ Unsubscribe(w)
       ELSE waiter' = [waiter EXCEPT ![w] = "waiting"] /\ UNCHANGED hub
    /\ UNCHANGED <<debate, writer, stream, page, cuts>>

\* The deadline passes, or the client goes.
GiveUp(w) ==
    /\ waiter[w] \in {"checking", "waiting"}
    /\ waiter' = [waiter EXCEPT ![w] = "idle"]
    /\ Unsubscribe(w)
    /\ UNCHANGED <<debate, writer, stream, page, cuts>>

WakeByEvent(w) ==
    /\ waiter[w] = "waiting"
    /\ channel[w] # <<>>
    /\ waiter' = [waiter EXCEPT ![w] = "checking"]
    /\ channel' = [channel EXCEPT ![w] = Tail(@)]
    /\ UNCHANGED <<debate, writer, subs, lossy, stream, page, cuts>>

\* At most two seconds pass between two looks.
WakeByTimer(w) ==
    /\ waiter[w] = "waiting"
    /\ waiter' = [waiter EXCEPT ![w] = "checking"]
    /\ UNCHANGED <<debate, writer, hub, stream, page, cuts>>

-------------------------------------------------------------------------------
Init ==
    /\ status = "running" /\ turn = Nobody /\ stored = 0
    /\ writer = <<>>
    /\ subs = {} /\ channel = [s \in Subscribers |-> <<>>]
    /\ stream = [p \in Pages |-> NoStream] /\ page = [p \in Pages |-> NoPage]
    /\ waiter = [w \in Waiters |-> "idle"]
    /\ lossy = {} /\ cuts = 0

StreamStep(p) ==
    OpenStream(p) \/ SubscribeStream(p) \/ Replay(p) \/ ReplayFails(p) \/ SendLive(p)

Next ==
    \/ Write \/ DeleteDebate \/ WriterStep \/ WriteFails
    \/ \E p \in Pages : LoadPage(p) \/ StreamStep(p) \/ Cut(p)
    \/ \E w \in Waiters :
          StartWaiting(w) \/ CheckTurn(w) \/ GiveUp(w) \/ WakeByEvent(w) \/ WakeByTimer(w)

\* Handlers run on, a page reads what it is sent and asks again when it is cut off.
\* Nothing is assumed of the timers of the long poll.
Fairness ==
    /\ WF_vars(WriterStep)
    /\ \A p \in Pages : WF_vars(StreamStep(p))
    /\ \A w \in Waiters : WF_vars(CheckTurn(w)) /\ WF_vars(WakeByEvent(w))

Spec == Init /\ [][Next]_vars
FairSpec == Spec /\ Fairness

-------------------------------------------------------------------------------
(* Properties *)

\* The hub holds a bounded backlog, and only for those who are subscribed: a
\* stream from its subscription to its end, a long poll while it lasts.
HubAgrees ==
    /\ \A s \in Subscribers : Len(channel[s]) <= Buffer
    /\ \A s \in Subscribers \ subs : channel[s] = <<>>
    /\ subs = {p \in Pages : stream[p].pc \in {"subscribed", "live"}}
                \cup {w \in Waiters : waiter[w] # "idle"}

\* A page shows the transcript without a hole, through any number of reconnects
\* and however its stream's replay and live events interleave with the writers,
\* as long as its channel has not overflowed.
NoHoles == \A p \in Pages \ lossy : page[p].shown = UpTo(Len(page[p].shown))

\* A stream writes no message twice and none after a later one, overflow or not.
SentInOrder ==
    \A p \in Pages : \A i, j \in DOMAIN stream[p].sent :
        i < j => stream[p].sent[i] < stream[p].sent[j]


\* No wakeup is lost: a waiter whose turn it becomes is told by an event, without
\* the two-second timer, even when its channel overflows.
NoLostWakeup ==
    \A w \in Waiters : (waiter[w] # "idle" /\ turn = w) ~> (waiter[w] = "idle" \/ turn # w)
===============================================================================
