---------------------------- MODULE EventStreamProofs ---------------------------
(***************************************************************************)
(* Safety of the event stream, for any number of pages, long polls,        *)
(* messages, reconnects and any size of the channels: the hub agrees with  *)
(* who is listening, a stream sends in order, and a page whose channel has *)
(* not overflowed has no hole.                                             *)
(***************************************************************************)
EXTENDS EventStream, SequenceTheorems, TLAPS

-------------------------------------------------------------------------------
(* Types *)

\* The events of the hub.
Event == [type : {"message", "turn", "concluded", "deleted"}, seq : Nat]

\* The step of a writer that publishes an event.
Announce(event) == [do |-> "publish", event |-> event]

\* The steps of a writer.
WriterSteps ==
    {[do |-> "store"], [do |-> "conclude"], [do |-> "delete"]}
        \cup {[do |-> "move", turn |-> w] : w \in Waiters \cup {Nobody}}
        \cup {Announce(event) : event \in Event}

\* A stream of a page.
StreamRecords == [pc : {"closed", "accepted", "subscribed", "live"}, seen : Nat, sent : Seq(Nat)]

\* A page.
PageRecords == [open : BOOLEAN, after : Nat, shown : Seq(Nat)]

\* The types.
StreamTypes ==
    /\ status \in {"running", "concluded", "deleted"} /\ stored \in Nat
    /\ writer \in Seq(WriterSteps)
    /\ subs \subseteq Subscribers /\ channel \in [Subscribers -> Seq(Event)]
    /\ stream \in [Pages -> StreamRecords] /\ page \in [Pages -> PageRecords]
    /\ waiter \in [Waiters -> {"idle", "checking", "waiting"}]
    /\ lossy \subseteq Pages

-------------------------------------------------------------------------------
(* The invariant *)

\* An event that carries a record.
IsMessage(event) == event.type = "message"

\* A step that publishes a record.
Announces(step) == step.do = "publish" /\ IsMessage(step.event)

\* A handler stores a message first, of a debate that exists, and announces it next;
\* it concludes no debate that is gone, and a deletion is all that its handler does.
WriterFits ==
    \A i \in DOMAIN writer :
        /\ writer[i].do = "store" =>
              i = 1 /\ Exists /\ Len(writer) >= 2 /\ writer[2] = Announce(Message(stored + 1))
        /\ Announces(writer[i]) =>
              /\ Exists
              /\ \/ i = 1 /\ writer[i].event = Message(stored) /\ stored # 0
                 \/ i = 2 /\ writer[1].do = "store"
        /\ writer[i].do = "conclude" => Exists
        /\ writer[i].do = "delete" => writer = Removal

\* The messages that have been announced: all, or all but the last.
Published == IF writer # <<>> /\ Announces(writer[1]) THEN stored - 1 ELSE stored

\* What waits in a channel is in order and has been announced.
Backlog(p) ==
    /\ \A i, j \in DOMAIN channel[p] :
          i < j /\ IsMessage(channel[p][i]) /\ IsMessage(channel[p][j])
              => channel[p][i].seq < channel[p][j].seq
    /\ \A i \in DOMAIN channel[p] :
          Exists /\ IsMessage(channel[p][i]) => channel[p][i].seq <= Published

\* What waits and is not yet sent is newer than all that is sent.
SentBefore(p) ==
    /\ stream[p].pc # "live" => stream[p].sent = <<>> /\ stream[p].seen = 0
    /\ \A i, j \in DOMAIN stream[p].sent : i < j => stream[p].sent[i] < stream[p].sent[j]
    /\ Exists =>
          /\ stream[p].seen <= stored
          /\ \A k \in DOMAIN stream[p].sent :
                stream[p].sent[k] <= stream[p].seen \/ stream[p].sent[k] <= Published
    /\ \A i \in DOMAIN channel[p] :
          IsMessage(channel[p][i]) /\ channel[p][i].seq > stream[p].seen =>
              \A k \in DOMAIN stream[p].sent : stream[p].sent[k] < channel[p][i].seq

\* What a page does not show yet waits in its channel, each message before the next.
\* The parameter is the number of messages shown.
Complete(p, n) ==
    /\ stream[p].seen <= n
    /\ \A i \in DOMAIN channel[p] : IsMessage(channel[p][i]) =>
          \A m \in (n + 1)..(channel[p][i].seq - 1) :
              \E j \in DOMAIN channel[p] : j < i /\ channel[p][j] = Message(m)
    /\ Exists => \A m \in (n + 1)..Published : \E j \in DOMAIN channel[p] : channel[p][j] = Message(m)

\* What a page shows, has been sent and waits for it leaves out no record.
NoHole(p) ==
    /\ page[p].shown = UpTo(Len(page[p].shown))
    /\ page[p].after <= Len(page[p].shown)
    /\ stream[p].pc = "live" => Complete(p, Len(page[p].shown))

\* What a page is promised.
PageSafe(p) == Backlog(p) /\ SentBefore(p) /\ (p \notin lossy => NoHole(p))

\* The inductive invariant.
StreamInvariant ==
    /\ StreamTypes /\ HubAgrees /\ WriterFits
    /\ \A p \in Pages : PageSafe(p)

-------------------------------------------------------------------------------
(* Facts about the values *)

\* The first n numbers.
LEMMA UpToIs ==
    ASSUME NEW n \in Nat
    PROVE  /\ UpTo(n) \in Seq(Nat) /\ Len(UpTo(n)) = n /\ LastOf(UpTo(n)) = n
           /\ \A i \in 1..n : UpTo(n)[i] = i
<1>1. UpTo(n) \in Seq(Nat) /\ Len(UpTo(n)) = n /\ \A i \in 1..n : UpTo(n)[i] = i
  BY DEF UpTo
<1>2. LastOf(UpTo(n)) = n
  <2>1. CASE n = 0 BY <1>1, <2>1 DEF LastOf
  <2>2. CASE n # 0 BY <1>1, <2>2 DEF LastOf
  <2>3. QED BY <2>1, <2>2
<1>3. QED BY <1>1, <1>2

\* The numbers after n up to k.
LEMMA BetweenIs ==
    ASSUME NEW n \in Nat, NEW k \in Nat, n <= k
    PROVE  /\ Between(n, k) \in Seq(Nat) /\ Len(Between(n, k)) = k - n
           /\ \A i \in 1..(k - n) : Between(n, k)[i] = n + i
BY DEF Between

\* The first n numbers go on with those after n.
LEMMA UpToContinued ==
    ASSUME NEW n \in Nat, NEW k \in Nat, n <= k
    PROVE  UpTo(n) \o Between(n, k) = UpTo(k)
<1>1. UpTo(n) \in Seq(Nat) /\ Len(UpTo(n)) = n /\ \A i \in 1..n : UpTo(n)[i] = i
  BY UpToIs
<1>2. /\ Between(n, k) \in Seq(Nat) /\ Len(Between(n, k)) = k - n
      /\ \A i \in 1..(k - n) : Between(n, k)[i] = n + i
  BY BetweenIs
<1>3. /\ UpTo(n) \o Between(n, k) \in Seq(Nat)
      /\ Len(UpTo(n) \o Between(n, k)) = Len(UpTo(n)) + Len(Between(n, k))
      /\ \A i \in 1..(Len(UpTo(n)) + Len(Between(n, k))) :
            (UpTo(n) \o Between(n, k))[i] =
                IF i <= Len(UpTo(n)) THEN UpTo(n)[i] ELSE Between(n, k)[i - Len(UpTo(n))]
  <2> DEFINE s == UpTo(n)
             t == Between(n, k)
  <2>1. s \in Seq(Nat) /\ t \in Seq(Nat) BY <1>1, <1>2
  <2> HIDE DEF s, t
  <2>2. /\ s \o t \in Seq(Nat) /\ Len(s \o t) = Len(s) + Len(t)
        /\ \A i \in 1..(Len(s) + Len(t)) : (s \o t)[i] = IF i <= Len(s) THEN s[i] ELSE t[i - Len(s)]
    BY <2>1, ConcatProperties
  <2>3. QED BY <2>2 DEF s, t
<1>4. \A i \in 1..k : (UpTo(n) \o Between(n, k))[i] = i
  <2> SUFFICES ASSUME NEW i \in 1..k
               PROVE  (UpTo(n) \o Between(n, k))[i] = i
    OBVIOUS
  <2>1. Len(UpTo(n)) = n /\ i \in 1..(Len(UpTo(n)) + Len(Between(n, k)))
    BY <1>1, <1>2
  <2>2. (UpTo(n) \o Between(n, k))[i] = IF i <= n THEN UpTo(n)[i] ELSE Between(n, k)[i - n]
    BY <1>3, <2>1
  <2>3. i <= n => UpTo(n)[i] = i
    BY <1>1
  <2>4. ~(i <= n) => Between(n, k)[i - n] = i
    <3>1. ~(i <= n) => i - n \in 1..(k - n) /\ n + (i - n) = i
      OBVIOUS
    <3>2. QED
      BY <1>2, <3>1
  <2>5. QED
    BY <2>2, <2>3, <2>4
<1>5. Len(UpTo(n) \o Between(n, k)) = k
  BY <1>1, <1>2, <1>3
<1>6. QED BY <1>3, <1>4, <1>5, UpToIs, SeqEqual

\* The first n numbers go on with n + 1.
LEMMA UpToAppended == ASSUME NEW n \in Nat PROVE Append(UpTo(n), n + 1) = UpTo(n + 1)
<1>1. Append(UpTo(n), n + 1) \in Seq(Nat) /\ Len(Append(UpTo(n), n + 1)) = n + 1
  BY UpToIs
<1>2. \A i \in 1..(n + 1) : Append(UpTo(n), n + 1)[i] = i
  BY UpToIs
<1>3. QED BY <1>1, <1>2, UpToIs, SeqEqual

\* A page without a hole that is shown a replay up to a message has none after it.
LEMMA ReplayIsShown ==
    ASSUME NEW n \in Nat, NEW after \in Nat, NEW last \in Nat, after <= n
    PROVE  ShownUpTo(UpTo(n), after, last) = UpTo(IF n <= last THEN last ELSE n)
<1>1. ShownUpTo(UpTo(n), after, last) = UpTo(n) \o Between(n, last)
  <2>1. LastOf(UpTo(n)) = n BY UpToIs
  <2>2. QED BY <2>1 DEF ShownUpTo
<1>2. CASE n <= last BY <1>1, <1>2, UpToContinued
<1>3. CASE ~(n <= last)
  <2>1. Between(n, last) = <<>> BY <1>3 DEF Between
  <2>2. QED BY <1>1, <1>3, <2>1, UpToIs
<1>4. QED BY <1>2, <1>3

\* The next message fits on, an older one changes nothing.
LEMMA NextIsShown ==
    ASSUME NEW n \in Nat, NEW seq \in Nat, seq <= n + 1
    PROVE  Shown(UpTo(n), seq) = UpTo(IF seq <= n THEN n ELSE seq)
<1>1. LastOf(UpTo(n)) = n BY UpToIs
<1>2. CASE seq <= n BY <1>1, <1>2 DEF Shown
<1>3. CASE seq = n + 1 BY <1>1, <1>3, UpToAppended DEF Shown
<1>4. QED BY <1>2, <1>3

\* A page and its stream that a step does not touch stay safe, whatever is stored and
\* announced meanwhile; of a live page nothing is announced unless it has overflowed.
LEMMA Untouched ==
    ASSUME StreamTypes, StreamTypes', NEW p \in Pages, PageSafe(p),
           channel'[p] = channel[p], stream'[p] = stream[p], page'[p] = page[p],
           Exists' => Exists /\ Published' >= Published /\ stored' >= stored,
           p \notin lossy' => p \notin lossy,
           p \notin lossy' /\ stream[p].pc = "live" /\ Exists' => Published' = Published
    PROVE  PageSafe(p)'
<1>1. Published \in Int /\ Published' \in Int /\ stored \in Nat /\ stored' \in Nat
  BY DEF StreamTypes, Published
<1>2. channel[p] \in Seq(Event) /\ stream[p] \in StreamRecords
  BY DEF StreamTypes, Subscribers
<1>3. Backlog(p)'
  <2>1. Backlog(p) BY DEF PageSafe
  <2>2. ASSUME NEW i \in DOMAIN channel[p], Exists', IsMessage(channel[p][i])
        PROVE  channel[p][i].seq <= Published'
    <3>1. channel[p][i] \in Event BY <1>2, <2>2
    <3>2. channel[p][i].seq <= Published BY <2>1, <2>2 DEF Backlog
    <3>3. Published' >= Published BY <2>2
    <3>4. QED BY <1>1, <3>1, <3>2, <3>3 DEF Event
  <2>3. QED BY <2>1, <2>2 DEF Backlog, IsMessage
<1>4. SentBefore(p)'
  BY <1>1, <1>2 DEF PageSafe, SentBefore, StreamRecords
<1>5. ASSUME p \notin lossy' PROVE NoHole(p)'
  <2>1. NoHole(p) BY <1>5 DEF PageSafe
  <2>2. CASE stream[p].pc # "live" BY <2>1, <2>2 DEF NoHole
  <2>3. CASE stream[p].pc = "live"
    <3>1. Complete(p, Len(page[p].shown)) BY <2>1, <2>3 DEF NoHole
    <3>2. Exists' => Exists /\ Published' = Published BY <1>5, <2>3
    <3>3. Complete(p, Len(page[p].shown))' BY <3>1, <3>2 DEF Complete
    <3>4. QED BY <2>1, <3>3 DEF NoHole
  <2>4. QED BY <2>2, <2>3
<1>6. QED BY <1>3, <1>4, <1>5 DEF PageSafe

-------------------------------------------------------------------------------
(* Writers *)

\* What the next step of a handler stores and announces.
LEMMA NextStep ==
    ASSUME StreamTypes, WriterFits, writer # <<>>
    PROVE  /\ writer[1] \in WriterSteps /\ Head(writer) = writer[1]
           /\ Tail(writer) \in Seq(WriterSteps)
           /\ DOMAIN Tail(writer) = 1..(Len(writer) - 1)
           /\ \A i \in DOMAIN Tail(writer) : Tail(writer)[i] = writer[i + 1] /\ i + 1 \in DOMAIN writer
           /\ Tail(writer) # <<>> => Tail(writer)[1] = writer[2] /\ 2 \in DOMAIN writer
           /\ 1 \in DOMAIN writer
BY DEF StreamTypes

\* A deletion is two steps of its writer.
LEMMA RemovalIs ==
    /\ Removal \in Seq(WriterSteps) /\ Len(Removal) = 2
    /\ Removal[1] = [do |-> "delete"] /\ Removal[2] = Announce(Deleted)
<1> DEFINE gone == [do |-> "delete"]
           told == Announce(Deleted)
<1>1. gone \in WriterSteps
  BY DEF WriterSteps
<1>2. told \in WriterSteps
  <2>1. Deleted \in Event
    BY DEF Deleted, Event
  <2>2. QED
    BY <2>1 DEF WriterSteps
<1>3. Removal = <<gone, told>>
  BY DEF Removal, Announce
<1> HIDE DEF gone, told
<1>4. /\ Removal \in Seq(WriterSteps) /\ Len(Removal) = 2
      /\ Removal[1] = gone /\ Removal[2] = told
  BY <1>1, <1>2, <1>3
<1>5. QED
  BY <1>4 DEF gone, told

\* A writer that has taken a step still fits.
LEMMA WriterFitsOn ==
    ASSUME StreamTypes, WriterFits, writer # <<>>, writer' = Tail(writer),
           writer[1].do = "store" => stored' = stored + 1 /\ Exists',
           Exists /\ writer[1].do # "delete" => Exists'
    PROVE  WriterFits'
<1> SUFFICES ASSUME NEW i \in DOMAIN Tail(writer)
             PROVE  /\ Tail(writer)[i].do # "store" /\ Tail(writer)[i].do # "delete"
                    /\ Tail(writer)[i].do = "conclude" => Exists'
                    /\ Announces(Tail(writer)[i]) =>
                          /\ Exists'
                          /\ i = 1 /\ Tail(writer)[i].event = Message(stored') /\ stored' # 0
  BY DEF WriterFits, Message
<1>1. i \in Nat \ {0} /\ i + 1 \in DOMAIN writer /\ i + 1 # 1 /\ Tail(writer)[i] = writer[i + 1]
  BY NextStep
<1>2. Tail(writer)[i].do # "store"
  BY <1>1 DEF WriterFits
<1>3. Tail(writer)[i].do # "delete"
  <2>1. SUFFICES ASSUME writer[i + 1].do = "delete" PROVE FALSE BY <1>1
  <2>2. writer = Removal BY <1>1, <2>1 DEF WriterFits
  <2>3. i + 1 \in 1..2 BY <1>1, <2>2, RemovalIs
  <2>4. writer[i + 1] = Announce(Deleted) BY <1>1, <2>2, <2>3, RemovalIs
  <2>5. QED BY <2>1, <2>4 DEF Announce
<1>4. ASSUME Announces(Tail(writer)[i])
      PROVE  Exists' /\ i = 1 /\ Tail(writer)[i].event = Message(stored') /\ stored' # 0
  <2>1. i + 1 = 2 /\ writer[1].do = "store" BY <1>1, <1>4 DEF WriterFits
  <2>2. writer[2] = Announce(Message(stored + 1)) /\ stored' = stored + 1 /\ Exists'
    BY <2>1, NextStep DEF WriterFits
  <2>3. stored' # 0 BY <2>2 DEF StreamTypes
  <2>4. QED BY <1>1, <2>1, <2>2, <2>3 DEF Announce
<1>5. ASSUME Tail(writer)[i].do = "conclude" PROVE Exists'
  <2>1. SUFFICES ASSUME writer[1].do = "delete" PROVE FALSE BY <1>1, <1>5 DEF WriterFits
  <2>2. writer = Removal BY <2>1, NextStep DEF WriterFits
  <2>3. i + 1 \in 1..2 BY <1>1, <2>2, RemovalIs
  <2>4. writer[i + 1] = Announce(Deleted) BY <1>1, <2>2, <2>3, RemovalIs
  <2>5. QED BY <1>1, <1>5, <2>4 DEF Announce
<1>6. QED BY <1>2, <1>3, <1>4, <1>5

\* What follows the first step of a handler is an announcement only if that step stored
\* the message.
LEMMA PublishedNext ==
    ASSUME StreamTypes, WriterFits, writer # <<>>, writer' = Tail(writer)
    PROVE  Published' = IF writer[1].do = "store" THEN stored' - 1 ELSE stored'
<1>1. CASE writer[1].do = "store"
  <2>1. Len(writer) >= 2 /\ writer[2] = Announce(Message(stored + 1))
    BY <1>1, NextStep DEF WriterFits
  <2>2. Tail(writer) # <<>> /\ Tail(writer)[1] = writer[2]
    <3>1. Tail(writer) # <<>>
      <4>1. Len(Tail(writer)) = Len(writer) - 1 BY DEF StreamTypes
      <4>2. Len(Tail(writer)) >= 1 BY <2>1, <4>1 DEF StreamTypes
      <4>3. QED BY <4>2
    <3>2. QED BY <3>1, NextStep
  <2>3. Announces(Tail(writer)[1])
    BY <2>1, <2>2 DEF Announces, Announce, IsMessage, Message
  <2>4. QED BY <1>1, <2>2, <2>3 DEF Published
<1>2. CASE writer[1].do # "store"
  <2>1. ~(Tail(writer) # <<>> /\ Announces(Tail(writer)[1]))
    BY <1>2, NextStep DEF WriterFits
  <2>2. QED BY <1>2, <2>1 DEF Published
<1>3. QED BY <1>1, <1>2

\* Two pairs joined.
LEMMA TwoAndTwo ==
    ASSUME NEW a, NEW b, NEW c, NEW d
    PROVE  <<a, b>> \o <<c, d>> = <<a, b, c, d>>
<1> DEFINE S == {a, b, c, d}
           s == <<a, b>>
           t == <<c, d>>
           u == <<a, b, c, d>>
<1>1. /\ s \in Seq(S) /\ Len(s) = 2 /\ s[1] = a /\ s[2] = b
      /\ t \in Seq(S) /\ Len(t) = 2 /\ t[1] = c /\ t[2] = d
      /\ u \in Seq(S) /\ Len(u) = 4 /\ u[1] = a /\ u[2] = b /\ u[3] = c /\ u[4] = d
  OBVIOUS
<1> HIDE DEF S, s, t, u
<1>2. /\ s \o t \in Seq(S) /\ Len(s \o t) = Len(s) + Len(t)
      /\ \A i \in 1..(Len(s) + Len(t)) : (s \o t)[i] = IF i <= Len(s) THEN s[i] ELSE t[i - Len(s)]
  BY <1>1, ConcatProperties
<1>3. \A i \in 1..4 : (s \o t)[i] = u[i]
  BY <1>1, <1>2
<1>4. s \o t = u
  BY <1>1, <1>2, <1>3, SeqEqual
<1>5. QED BY <1>4 DEF s, t, u

\* Whatever a handler is going to do fits, and begins with no announcement.
LEMMA HandlersFit ==
    ASSUME StreamTypes, status = "running", NEW steps \in Handlers, writer' = steps,
           UNCHANGED debate
    PROVE  /\ steps \in Seq(WriterSteps) /\ WriterFits'
           /\ steps # <<>> /\ ~Announces(steps[1])
<1> DEFINE store == [do |-> "store"]
           new == Announce(Message(stored + 1))
           move(w) == [do |-> "move", turn |-> w]
           started == Announce(TurnStarted)
           conclude == [do |-> "conclude"]
           over == Announce(Concluded)
<1>1. /\ store \in WriterSteps /\ new \in WriterSteps /\ started \in WriterSteps
      /\ conclude \in WriterSteps /\ over \in WriterSteps
      /\ \A w \in Waiters \cup {Nobody} : move(w) \in WriterSteps
  <2>1. Message(stored + 1) \in Event /\ TurnStarted \in Event /\ Concluded \in Event
    BY DEF StreamTypes, Message, TurnStarted, Concluded, Event
  <2>2. QED BY <2>1 DEF WriterSteps
<1>2. /\ StoreMessage = <<store, new>>
      /\ StoreMessage \o Conclusion = <<store, new, conclude, over>>
      /\ \A w \in Waiters \cup {Nobody} :
            MoveTurn(w) = <<move(w), started>> /\ StoreMessage \o MoveTurn(w) = <<store, new, move(w), started>>
  <2>1. \A a, b, c, d : <<a, b>> \o <<c, d>> = <<a, b, c, d>> BY TwoAndTwo
  <2>2. /\ StoreMessage = <<store, new>> /\ Conclusion = <<conclude, over>>
        /\ \A w : MoveTurn(w) = <<move(w), started>>
    BY DEF StoreMessage, Conclusion, MoveTurn, Announce
  <2> HIDE DEF store, new, conclude, over, move, started
  <2>3. QED BY <2>1, <2>2
<1>3. /\ ~Announces(store) /\ ~Announces(started) /\ ~Announces(conclude) /\ ~Announces(over)
      /\ \A w \in Waiters \cup {Nobody} : ~Announces(move(w))
  BY DEF Announces, Announce, IsMessage, TurnStarted, Concluded
<1>4. Exists' /\ stored' = stored BY DEF Exists, debate
<1>5. \/ steps = <<store, new>> \/ steps = <<store, new, conclude, over>>
      \/ \E w \in Waiters \cup {Nobody} :
            steps = <<move(w), started>> \/ steps = <<store, new, move(w), started>>
  BY <1>2 DEF Handlers
<1>6. new.do = "publish" /\ started.do = "publish" /\ over.do = "publish"
  BY DEF Announce
<1>7. CASE steps = <<store, new>>
  BY <1>1, <1>3, <1>4, <1>6, <1>7 DEF WriterFits
<1>8. CASE steps = <<store, new, conclude, over>>
  BY <1>1, <1>3, <1>4, <1>6, <1>8 DEF WriterFits
<1>9. ASSUME NEW w \in Waiters \cup {Nobody}, steps = <<move(w), started>>
      PROVE  steps \in Seq(WriterSteps) /\ WriterFits' /\ steps # <<>> /\ ~Announces(steps[1])
  BY <1>1, <1>3, <1>4, <1>6, <1>9 DEF WriterFits
<1>10. ASSUME NEW w \in Waiters \cup {Nobody}, steps = <<store, new, move(w), started>>
       PROVE  steps \in Seq(WriterSteps) /\ WriterFits' /\ steps # <<>> /\ ~Announces(steps[1])
  BY <1>1, <1>3, <1>4, <1>6, <1>10 DEF WriterFits
<1>11. QED BY <1>5, <1>7, <1>8, <1>9, <1>10

\* An announced message is the next one, and whoever listens and has room has it waiting
\* behind all earlier ones.
LEMMA PublishKeepsPages ==
    ASSUME StreamInvariant, StreamTypes', NEW event \in Event, writer # <<>>,
           writer[1] = Announce(event), writer' = Tail(writer), Publish(event),
           UNCHANGED <<debate, stream, page>>, NEW p \in Pages
    PROVE  PageSafe(p)'
<1>1. PageSafe(p) /\ StreamTypes /\ WriterFits /\ HubAgrees BY DEF StreamInvariant
<1>2. /\ stored \in Nat /\ stored' = stored /\ (Exists' <=> Exists)
      /\ channel[p] \in Seq(Event) /\ stream[p] \in StreamRecords /\ page[p] \in PageRecords
      /\ stream'[p] = stream[p] /\ page'[p] = page[p]
  BY <1>1 DEF StreamTypes, Subscribers, debate, Exists
<1>3. Published' = stored
  <2>1. writer[1].do # "store" BY DEF Announce
  <2>2. QED BY <1>1, <1>2, <2>1, PublishedNext
<1>4. IsMessage(event) => event = Message(stored) /\ Published = stored - 1 /\ Exists
  <2>1. Announces(writer[1]) <=> IsMessage(event) BY DEF Announces, Announce
  <2>2. Announces(writer[1]) => Published = stored - 1 BY DEF Published
  <2>3. Announces(writer[1]) => Exists /\ writer[1].event = Message(stored)
    <3>1. 1 \in DOMAIN writer BY <1>1, NextStep
    <3>2. writer[1].do # "store" BY DEF Announce
    <3>3. QED BY <1>1, <3>1, <3>2 DEF WriterFits
  <2>4. QED BY <2>1, <2>2, <2>3 DEF Announce
<1>5. ~IsMessage(event) => Published = stored
  BY DEF Published, Announces, Announce
<1>6. CASE p \in subs /\ HasRoom(p)
  <2>1. channel'[p] = Append(channel[p], event)
    BY <1>6 DEF Publish, Subscribers
  <2>2. p \in lossy' <=> p \in lossy
    BY <1>2, <1>6, EventStreamAssumption DEF Publish, HasRoom
  <2> DEFINE n == Len(channel[p])
             old == channel[p]
             new == channel'[p]
  <2>3. /\ n \in Nat /\ DOMAIN new = 1..(n + 1) /\ DOMAIN old = 1..n /\ new[n + 1] = event
        /\ \A i \in 1..n : new[i] = old[i] /\ old[i] \in Event
    BY <1>2, <2>1
  <2>4. Backlog(p) /\ SentBefore(p) BY <1>1 DEF PageSafe
  <2>5. \A i \in 1..n : IsMessage(event) /\ IsMessage(old[i]) => old[i].seq < event.seq
    <3>1. SUFFICES ASSUME NEW i \in 1..n, IsMessage(event), IsMessage(old[i])
                   PROVE  old[i].seq < event.seq
      OBVIOUS
    <3>2. old[i].seq \in Nat BY <2>3 DEF Event
    <3>3. old[i].seq <= stored - 1 BY <1>4, <2>3, <2>4, <3>1 DEF Backlog
    <3>4. event.seq = stored BY <1>4, <3>1 DEF Message
    <3>5. QED BY <1>2, <3>2, <3>3, <3>4
  <2>6. Backlog(p)'
    <3>1. ASSUME NEW i \in DOMAIN new, NEW j \in DOMAIN new, i < j,
                 IsMessage(new[i]), IsMessage(new[j])
          PROVE  new[i].seq < new[j].seq
      <4>1. i \in 1..n BY <2>3, <3>1
      <4>2. CASE j = n + 1 BY <2>3, <2>5, <3>1, <4>1, <4>2
      <4>3. CASE j \in 1..n BY <2>3, <2>4, <3>1, <4>1, <4>3 DEF Backlog
      <4>4. QED BY <2>3, <4>2, <4>3
    <3>2. ASSUME NEW i \in DOMAIN new, Exists, IsMessage(new[i])
          PROVE  new[i].seq <= stored
      <4>1. CASE i = n + 1 BY <1>2, <1>4, <2>3, <3>2, <4>1 DEF Message
      <4>2. CASE i \in 1..n
        <5>1. old[i].seq \in Nat /\ IsMessage(old[i]) BY <2>3, <3>2, <4>2 DEF Event
        <5>2. old[i].seq <= Published BY <2>3, <2>4, <3>2, <4>2, <5>1 DEF Backlog
        <5>3. Published = stored \/ Published = stored - 1 BY <1>4, <1>5
        <5>4. QED BY <1>2, <2>3, <4>2, <5>1, <5>2, <5>3
      <4>3. QED BY <2>3, <4>1, <4>2
    <3>3. QED BY <1>2, <1>3, <3>1, <3>2 DEF Backlog, IsMessage
  <2>7. SentBefore(p)'
    <3>1. ASSUME NEW i \in DOMAIN new, IsMessage(new[i]), new[i].seq > stream[p].seen,
                 NEW k \in DOMAIN stream[p].sent
          PROVE  stream[p].sent[k] < new[i].seq
      <4>1. stream[p].sent[k] \in Nat /\ stream[p].seen \in Nat BY <1>2 DEF StreamRecords
      <4>2. CASE i = n + 1
        <5>1. Exists /\ event = Message(stored) /\ Published = stored - 1
          BY <1>4, <2>3, <3>1, <4>2
        <5>2. stream[p].sent[k] <= stream[p].seen \/ stream[p].sent[k] <= stored - 1
          BY <2>4, <5>1 DEF SentBefore
        <5>3. new[i].seq = stored BY <2>3, <4>2, <5>1 DEF Message
        <5>4. stored \in Nat /\ stored > stream[p].seen BY <1>2, <3>1, <5>3 DEF StreamTypes
        <5>5. QED BY <4>1, <5>2, <5>3, <5>4
      <4>3. CASE i \in 1..n BY <2>3, <2>4, <3>1, <4>3 DEF SentBefore
      <4>4. QED BY <2>3, <4>2, <4>3
    <3>2. ASSUME Exists, NEW k \in DOMAIN stream[p].sent
          PROVE  stream[p].sent[k] <= stream[p].seen \/ stream[p].sent[k] <= stored
      <4>1. stream[p].sent[k] \in Nat BY <1>2 DEF StreamRecords
      <4>2. Published = stored \/ Published = stored - 1 BY <1>4, <1>5
      <4>3. stream[p].sent[k] <= stream[p].seen \/ stream[p].sent[k] <= Published
        BY <2>4, <3>2 DEF SentBefore
      <4>4. QED BY <1>2, <4>1, <4>2, <4>3
    <3>3. QED BY <1>2, <1>3, <2>4, <3>1, <3>2 DEF SentBefore, IsMessage
  <2>8. ASSUME p \notin lossy' PROVE NoHole(p)'
    <3>1. NoHole(p) BY <1>1, <2>2, <2>8 DEF PageSafe
    <3>2. ASSUME stream[p].pc = "live" PROVE Complete(p, Len(page[p].shown))'
      <4> DEFINE l == Len(page[p].shown)
      <4>1. Complete(p, l) /\ l \in Nat BY <1>2, <3>1, <3>2 DEF NoHole, PageRecords
      <4>2. Exists => \A m \in (l + 1)..Published : \E j \in 1..n : old[j] = Message(m)
        BY <2>3, <4>1 DEF Complete
      <4>3. ASSUME NEW i \in DOMAIN new, IsMessage(new[i]), NEW m \in (l + 1)..(new[i].seq - 1)
            PROVE  \E j \in DOMAIN new : j < i /\ new[j] = Message(m)
        <5>1. CASE i = n + 1
          <6>1. Exists /\ new[i].seq = stored /\ Published = stored - 1
            BY <1>4, <2>3, <4>3, <5>1 DEF Message
          <6>2. m \in (l + 1)..Published BY <4>3, <6>1
          <6> HIDE DEF n, old, new, l
          <6>4. PICK j \in 1..n : old[j] = Message(m) BY <4>2, <6>1, <6>2
          <6>3. QED BY <2>3, <5>1, <6>4
        <5>2. CASE i \in 1..n
          <6>1. PICK j \in 1..n : j < i /\ old[j] = Message(m)
            BY <2>3, <4>1, <4>3, <5>2 DEF Complete
          <6> HIDE DEF n, old, new, l
          <6>2. j \in DOMAIN new /\ new[j] = old[j] BY <2>3
          <6>3. QED BY <6>1, <6>2
        <5>3. QED BY <2>3, <5>1, <5>2
      <4>4. ASSUME Exists, NEW m \in (l + 1)..stored
            PROVE  \E j \in DOMAIN new : new[j] = Message(m)
        <5>1. CASE m <= Published
          <6>1. PICK j \in 1..n : old[j] = Message(m)
            <7>1. Published \in Int /\ m \in (l + 1)..Published
              BY <1>2, <1>4, <1>5, <4>1, <4>4, <5>1
            <7>2. QED BY <4>2, <4>4, <7>1
          <6> HIDE DEF n, old, new, l
          <6>2. j \in DOMAIN new /\ new[j] = old[j] BY <2>3
          <6>3. QED BY <6>1, <6>2
        <5>2. CASE ~(m <= Published)
          <6>1. IsMessage(event) BY <1>2, <1>5, <4>1, <4>4, <5>2
          <6>2. m = stored BY <1>2, <1>4, <4>1, <4>4, <5>2, <6>1
          <6>3. QED BY <1>4, <2>3, <6>1, <6>2
        <5>3. QED BY <5>1, <5>2
      <4>5. QED BY <1>2, <1>3, <4>1, <4>3, <4>4 DEF Complete, IsMessage
    <3>3. QED BY <1>2, <3>1, <3>2 DEF NoHole
  <2>9. QED BY <2>6, <2>7, <2>8 DEF PageSafe
<1>7. CASE ~(p \in subs /\ HasRoom(p))
  <2>1. channel'[p] = channel[p] BY <1>1, <1>7 DEF Publish, Subscribers
  <2>2. Published' >= Published BY <1>2, <1>3, <1>4, <1>5
  <2>3. p \notin lossy' => p \notin lossy BY DEF Publish
  <2>4. p \notin lossy' => p \notin subs
    <3>1. Len(channel[p]) \in Nat BY <1>2
    <3>2. QED BY <1>7, <3>1, EventStreamAssumption DEF Publish, HasRoom
  <2>5. stream[p].pc = "live" => p \in subs BY <1>1 DEF HubAgrees
  <2>6. stored' >= stored BY <1>2
  <2>7. QED BY <1>1, <1>2, <2>1, <2>2, <2>3, <2>4, <2>5, <2>6, Untouched
<1>8. QED BY <1>6, <1>7

-------------------------------------------------------------------------------
(* Streams and pages *)

\* A closed stream leaves a page without a hole as long as what it shows has none.
LEMMA ClosedIsSafe ==
    ASSUME StreamTypes', NEW p \in Pages, NEW n \in Nat,
           stream'[p].pc # "live", stream'[p].sent = <<>>, stream'[p].seen = 0,
           channel'[p] = <<>>,
           p \notin lossy' => page'[p].shown = UpTo(n) /\ page'[p].after <= n
    PROVE  PageSafe(p)'
<1>1. Backlog(p)' BY DEF Backlog
<1>2. SentBefore(p)' BY DEF SentBefore, StreamTypes
<1>3. ASSUME p \notin lossy' PROVE NoHole(p)' BY <1>3, UpToIs DEF NoHole
<1>4. QED BY <1>1, <1>2, <1>3 DEF PageSafe

\* After the last stored message there is nothing to be waited for.
LEMMA NothingIsMissing ==
    ASSUME StreamTypes, NEW p \in Pages, Backlog(p), Exists, NEW n \in Nat, stored <= n
    PROVE  /\ (n + 1)..Published = {}
           /\ \A i \in DOMAIN channel[p] :
                 IsMessage(channel[p][i]) => (n + 1)..(channel[p][i].seq - 1) = {}
<1>1. channel[p] \in Seq(Event) /\ stored \in Nat /\ Published \in Int /\ Published <= stored
  BY DEF StreamTypes, Subscribers, Published
<1>2. ASSUME NEW i \in DOMAIN channel[p], IsMessage(channel[p][i])
      PROVE  channel[p][i].seq \in Nat /\ channel[p][i].seq <= n
  <2>1. channel[p][i].seq <= Published BY <1>2 DEF Backlog
  <2>2. channel[p][i] \in Event BY <1>1, <1>2
  <2>3. channel[p][i].seq \in Nat BY <2>2 DEF Event
  <2>4. QED BY <1>1, <2>1, <2>3
<1>3. \A i \in DOMAIN channel[p] : IsMessage(channel[p][i]) => (n + 1)..(channel[p][i].seq - 1) = {}
  BY <1>2
<1>4. QED BY <1>1, <1>3

\* The tail of a channel is the channel moved on by one.
LEMMA TailIs ==
    ASSUME NEW s \in Seq(Event), s # <<>>
    PROVE  /\ Head(s) = s[1] /\ s[1] \in Event /\ 1 \in DOMAIN s
           /\ Tail(s) \in Seq(Event) /\ DOMAIN Tail(s) = 1..(Len(s) - 1)
           /\ \A i \in DOMAIN Tail(s) : i + 1 \in DOMAIN s /\ Tail(s)[i] = s[i + 1]
           /\ \A j \in DOMAIN s : j # 1 => j - 1 \in DOMAIN Tail(s) /\ Tail(s)[j - 1] = s[j]
OBVIOUS

\* The head of a channel is taken: what is behind it is complete after the messages shown
\* then.
LEMMA CompleteBehindHead ==
    ASSUME StreamTypes, NEW p \in Pages, channel[p] # <<>>, UNCHANGED <<debate, writer>>,
           channel'[p] = Tail(channel[p]), stream'[p].seen = stream[p].seen,
           NEW n \in Nat, NEW k \in Nat, Complete(p, n), n <= k,
           \A m \in Nat : m > k => channel[p][1] # Message(m)
    PROVE  Complete(p, k)'
<1>1. channel[p] \in Seq(Event) /\ stream[p].seen \in Nat
  BY DEF StreamTypes, Subscribers, StreamRecords
<1>2. (Exists' <=> Exists) /\ Published' = Published /\ Published \in Int
  BY DEF debate, Exists, Published, StreamTypes
<1> DEFINE old == channel[p]
           new == channel'[p]
<1>3. /\ \A i \in DOMAIN new : i \in Int /\ i + 1 \in DOMAIN old /\ new[i] = old[i + 1] /\ new[i] \in Event
      /\ \A j \in DOMAIN old : j \in Int /\ (j # 1 => j - 1 \in DOMAIN new /\ new[j - 1] = old[j])
  BY <1>1, TailIs
<1>4. ASSUME NEW i \in DOMAIN new, IsMessage(new[i]), NEW m \in (k + 1)..(new[i].seq - 1)
      PROVE  \E j \in DOMAIN new : j < i /\ new[j] = Message(m)
  <2>1. i + 1 \in DOMAIN old /\ new[i] = old[i + 1] /\ new[i].seq \in Nat BY <1>3 DEF Event
  <2>2. m \in (n + 1)..(old[i + 1].seq - 1) /\ m \in Nat /\ m > k BY <1>4, <2>1
  <2>3. PICK j \in DOMAIN old : j < i + 1 /\ old[j] = Message(m)
    BY <1>4, <2>1, <2>2 DEF Complete
  <2>4. j # 1 BY <2>2, <2>3
  <2>5. j - 1 \in DOMAIN new /\ new[j - 1] = Message(m) /\ j - 1 < i BY <1>3, <2>3, <2>4
  <2>6. QED BY <2>5
<1>5. ASSUME Exists, NEW m \in (k + 1)..Published
      PROVE  \E j \in DOMAIN new : new[j] = Message(m)
  <2>1. m \in (n + 1)..Published /\ m \in Nat /\ m > k BY <1>2, <1>5
  <2>2. PICK j \in DOMAIN old : old[j] = Message(m) BY <1>5, <2>1 DEF Complete
  <2>3. j # 1 BY <2>1, <2>2
  <2>4. j - 1 \in DOMAIN new /\ new[j - 1] = Message(m) BY <1>3, <2>2, <2>3
  <2>5. QED BY <2>4
<1>6. stream'[p].seen <= k BY <1>1 DEF Complete
<1>7. QED BY <1>2, <1>4, <1>5, <1>6 DEF Complete, IsMessage

\* The loop of a stream: the head of the channel is sent and shown, or dropped.
LEMMA SendKeepsPage ==
    ASSUME StreamInvariant, StreamTypes', NEW p \in Pages, SendLive(p)
    PROVE  PageSafe(p)'
<1>1. /\ StreamTypes /\ PageSafe(p) /\ channel[p] \in Seq(Event) /\ channel[p] # <<>>
      /\ stream[p] \in StreamRecords /\ page[p] \in PageRecords /\ stream[p].pc = "live"
      /\ UNCHANGED <<debate, writer>>
  BY DEF StreamInvariant, StreamTypes, Subscribers, SendLive
<1>2. /\ stored \in Nat /\ stored' = stored /\ (Exists' <=> Exists) /\ Published' = Published
      /\ Published \in Int
  BY <1>1 DEF StreamTypes, debate, Exists, Published
<1> DEFINE event == channel[p][1]
           old == channel[p]
           new == channel'[p]
           n == Len(page[p].shown)
<1>3. /\ Head(channel[p]) = event /\ event \in Event /\ event.seq \in Nat /\ 1 \in DOMAIN old
      /\ n \in Nat /\ stream[p].seen \in Nat /\ stream[p].sent \in Seq(Nat)
  <2>1. Head(channel[p]) = event /\ event \in Event /\ 1 \in DOMAIN old BY <1>1, TailIs
  <2>2. event.seq \in Nat BY <2>1 DEF Event
  <2>3. n \in Nat /\ stream[p].seen \in Nat /\ stream[p].sent \in Seq(Nat)
    BY <1>1 DEF PageRecords, StreamRecords
  <2>4. QED BY <2>1, <2>2, <2>3
<1>4. Backlog(p) /\ SentBefore(p) /\ (p \notin lossy => NoHole(p) /\ Complete(p, n))
  BY <1>1 DEF PageSafe, NoHole
<1>5. CASE event.type = "deleted"
  <2>1. /\ stream'[p] = NoStream /\ channel'[p] = <<>> /\ lossy' = lossy
        /\ page'[p].shown = page[p].shown /\ page'[p].after = page[p].after
    <3>1. /\ stream' = [stream EXCEPT ![p] = NoStream]
          /\ page' = [page EXCEPT ![p].open = FALSE] /\ Unsubscribe(p)
      BY <1>3, <1>5 DEF SendLive
    <3>2. page'[p] = [page[p] EXCEPT !.open = FALSE] BY <1>1, <3>1 DEF StreamTypes
    <3>3. page'[p].shown = page[p].shown /\ page'[p].after = page[p].after
      BY <1>1, <3>2 DEF PageRecords
    <3>4. QED BY <1>1, <3>1, <3>3 DEF Unsubscribe, StreamTypes, Subscribers
  <2>2. p \notin lossy' => page'[p].shown = UpTo(n) /\ page'[p].after <= n
    BY <1>4, <2>1 DEF NoHole
  <2>3. QED BY <1>3, <2>1, <2>2, ClosedIsSafe DEF NoStream
<1>6. CASE event.type # "deleted"
  <2>1. channel'[p] = Tail(channel[p]) /\ lossy' = lossy
    BY <1>1, <1>3, <1>6 DEF SendLive, StreamTypes, Subscribers
  <2>2. /\ \A i \in DOMAIN new : i \in Nat /\ i >= 1 /\ i + 1 \in DOMAIN old /\ new[i] = old[i + 1]
                                  /\ new[i] \in Event /\ new[i].seq \in Nat
    <3>1. /\ new \in Seq(Event) /\ DOMAIN new = 1..(Len(old) - 1)
          /\ \A i \in DOMAIN new : i + 1 \in DOMAIN old /\ new[i] = old[i + 1]
      BY <1>1, <2>1, TailIs
    <3>2. ASSUME NEW i \in DOMAIN new PROVE i \in Nat /\ i >= 1 /\ new[i] \in Event
      BY <1>1, <3>1
    <3>3. QED BY <3>1, <3>2 DEF Event
  <2>3. Backlog(p)'
    <3>1. ASSUME NEW i \in DOMAIN new, NEW j \in DOMAIN new, i < j,
                 IsMessage(new[i]), IsMessage(new[j])
          PROVE  new[i].seq < new[j].seq
      BY <1>4, <2>2, <3>1 DEF Backlog
    <3>2. ASSUME NEW i \in DOMAIN new, Exists, IsMessage(new[i]) PROVE new[i].seq <= Published
      BY <1>4, <2>2, <3>2 DEF Backlog
    <3>3. QED BY <1>2, <3>1, <3>2 DEF Backlog, IsMessage
  <2>4. CASE IsMessage(event) /\ ~AlreadySent(p, event)
    <3>1. /\ stream'[p] = [stream[p] EXCEPT !.sent = Append(@, event.seq)]
          /\ page'[p] = [page[p] EXCEPT !.shown = Shown(@, event.seq)]
      BY <1>1, <1>3, <2>4 DEF SendLive, StreamTypes, IsMessage
    <3>2. /\ stream'[p].sent = Append(stream[p].sent, event.seq)
          /\ stream'[p].seen = stream[p].seen /\ stream'[p].pc = "live"
          /\ page'[p].shown = Shown(page[p].shown, event.seq) /\ page'[p].after = page[p].after
      BY <1>1, <3>1 DEF StreamRecords, PageRecords
    <3>3. event.seq > stream[p].seen BY <1>3, <2>4 DEF AlreadySent, IsMessage
    <3> DEFINE sent == stream[p].sent
               more == stream'[p].sent
               last == Len(sent) + 1
    <3>4. /\ last \in Nat /\ DOMAIN more = 1..last /\ more[last] = event.seq
          /\ \A k \in DOMAIN sent : k \in 1..(last - 1) /\ sent[k] \in Nat /\ more[k] = sent[k]
          /\ \A k \in DOMAIN more : k \in DOMAIN sent \/ k = last
      <4>1. sent \in Seq(Nat) /\ more = Append(sent, event.seq) /\ event.seq \in Nat BY <1>3, <3>2
      <4> HIDE DEF sent, more, event
      <4>2. QED BY <4>1
    <3>5. \A k \in DOMAIN sent : sent[k] < event.seq
      BY <1>3, <1>4, <2>4, <3>3 DEF SentBefore
    <3>6. SentBefore(p)'
      <4>1. ASSUME NEW i \in DOMAIN more, NEW j \in DOMAIN more, i < j PROVE more[i] < more[j]
        <5>1. i \in DOMAIN sent BY <3>4, <4>1
        <5>2. CASE j = last BY <3>4, <3>5, <5>1, <5>2
        <5>3. CASE j \in DOMAIN sent BY <1>4, <3>4, <4>1, <5>1, <5>3 DEF SentBefore
        <5>4. QED BY <3>4, <5>2, <5>3
      <4>2. ASSUME Exists, NEW k \in DOMAIN more
            PROVE  more[k] <= stream[p].seen \/ more[k] <= Published
        <5>1. CASE k = last BY <1>3, <1>4, <2>4, <3>4, <4>2, <5>1 DEF Backlog
        <5>2. CASE k \in DOMAIN sent BY <1>4, <3>4, <4>2, <5>2 DEF SentBefore
        <5>3. QED BY <3>4, <5>1, <5>2
      <4>3. ASSUME NEW i \in DOMAIN new, IsMessage(new[i]), new[i].seq > stream[p].seen,
                   NEW k \in DOMAIN more
            PROVE  more[k] < new[i].seq
        <5>1. CASE k = last
          <6>1. /\ i + 1 \in DOMAIN old /\ new[i] = old[i + 1] /\ 1 < i + 1
                /\ IsMessage(old[i + 1]) /\ IsMessage(old[1])
            BY <2>2, <2>4, <4>3
          <6>2. old[1].seq < old[i + 1].seq BY <1>3, <1>4, <6>1 DEF Backlog
          <6>3. QED BY <3>4, <5>1, <6>1, <6>2
        <5>2. CASE k \in DOMAIN sent BY <1>4, <2>2, <3>4, <4>3, <5>2 DEF SentBefore
        <5>3. QED BY <3>4, <5>1, <5>2
      <4>4. Exists => stream[p].seen <= stored BY <1>4 DEF SentBefore
      <4>5. QED BY <1>2, <3>2, <4>1, <4>2, <4>3, <4>4 DEF SentBefore, IsMessage
    <3>7. ASSUME p \notin lossy' PROVE NoHole(p)'
      <4>1. NoHole(p) /\ Complete(p, n) BY <1>4, <2>1, <3>7
      <4>2. event.seq <= n + 1
        <5>1. SUFFICES ASSUME event.seq > n + 1 PROVE FALSE BY <1>3
        <5>2. n + 1 \in (n + 1)..(event.seq - 1) BY <1>3, <5>1
        <5>3. PICK j \in DOMAIN old : j < 1 /\ old[j] = Message(n + 1)
          BY <1>3, <2>4, <4>1, <5>2 DEF Complete
        <5>4. QED BY <1>1, <5>3
      <4>3. PICK k \in Nat : k = (IF event.seq <= n THEN n ELSE event.seq) BY <1>3
      <4>4. n <= k /\ event.seq <= k
        <5> HIDE DEF n, event
        <5>1. QED BY <1>3, <4>3
      <4>5. page'[p].shown = UpTo(k)
        BY <1>3, <3>2, <4>1, <4>2, <4>3, NextIsShown DEF NoHole
      <4>6. \A m \in Nat : m > k => event # Message(m)
        BY <1>3, <4>4 DEF Message
      <4>7. Complete(p, k)'
        <5>1. PICK l \in Nat : l = n BY <1>3
        <5>2. Complete(p, l) /\ l <= k BY <4>1, <4>4, <5>1
        <5>3. QED BY <1>1, <2>1, <3>2, <4>6, <5>2, CompleteBehindHead
      <4>8. Len(page'[p].shown) = k BY <4>3, <4>5, UpToIs
      <4>9. page'[p].after <= k
        <5>1. page[p].after <= n /\ page[p].after \in Nat BY <1>1, <4>1 DEF NoHole, PageRecords
        <5> HIDE DEF n
        <5>2. QED BY <1>3, <3>2, <4>4, <5>1
      <4>10. QED BY <4>5, <4>7, <4>8, <4>9 DEF NoHole
    <3>8. QED BY <2>3, <3>6, <3>7 DEF PageSafe
  <2>5. CASE ~(IsMessage(event) /\ ~AlreadySent(p, event))
    <3>1. stream' = stream /\ page' = page
      BY <1>3, <1>6, <2>5 DEF SendLive, IsMessage
    <3>2. SentBefore(p)'
      <4>1. ASSUME NEW i \in DOMAIN new, IsMessage(new[i]), new[i].seq > stream[p].seen,
                   NEW k \in DOMAIN stream[p].sent
            PROVE  stream[p].sent[k] < new[i].seq
        BY <1>4, <2>2, <4>1 DEF SentBefore
      <4>2. QED BY <1>2, <1>4, <3>1, <4>1 DEF SentBefore, IsMessage
    <3>3. ASSUME p \notin lossy' PROVE NoHole(p)'
      <4>1. NoHole(p) /\ Complete(p, n) BY <1>4, <2>1, <3>3
      <4>2. \A m \in Nat : m > n => event # Message(m)
        <5>1. SUFFICES ASSUME NEW m \in Nat, m > n, event = Message(m) PROVE FALSE OBVIOUS
        <5>2. IsMessage(event) /\ event.seq = m BY <5>1 DEF Message, IsMessage
        <5>3. m <= stream[p].seen BY <2>5, <5>2 DEF AlreadySent
        <5>4. stream[p].seen <= n BY <4>1 DEF Complete
        <5>5. QED BY <1>3, <5>1, <5>3, <5>4
      <4>3. Complete(p, n)' BY <1>1, <1>3, <2>1, <3>1, <4>1, <4>2, CompleteBehindHead
      <4>4. QED BY <3>1, <4>1, <4>3 DEF NoHole
    <3>4. QED BY <2>3, <3>2, <3>3 DEF PageSafe
  <2>6. QED BY <2>4, <2>5
<1>7. QED BY <1>5, <1>6
-------------------------------------------------------------------------------
(* Types are kept, and the hub agrees *)

\* Taking an event keeps the bound of a channel.
LEMMA TailKeepsBound ==
    ASSUME NEW s \in Seq(Event), s # <<>>, Len(s) <= Buffer
    PROVE  Tail(s) \in Seq(Event) /\ Len(Tail(s)) <= Buffer
BY EventStreamAssumption

\* An empty channel is within the bound.
LEMMA NothingWaits == <<>> \in Seq(Event) /\ Len(<<>>) <= Buffer
BY EventStreamAssumption

\* What a step does to the subscribers keeps the hub in bounds and in agreement.
HubFits ==
    /\ subs \subseteq Subscribers /\ channel \in [Subscribers -> Seq(Event)]
    /\ \A s \in Subscribers : Len(channel[s]) <= Buffer
    /\ \A s \in Subscribers \ subs : channel[s] = <<>>
    /\ lossy \subseteq Pages

\* Subscribing and unsubscribing keep the hub.
LEMMA SubscribeFits ==
    ASSUME HubFits, NEW s \in Subscribers, Subscribe(s) \/ Unsubscribe(s)
    PROVE  HubFits'
<1>1. channel' = [channel EXCEPT ![s] = <<>>] /\ lossy' = lossy
  BY DEF Subscribe, Unsubscribe
<1>2. channel' \in [Subscribers -> Seq(Event)] BY <1>1, NothingWaits DEF HubFits
<1>3. \A r \in Subscribers : channel'[r] = IF r = s THEN <<>> ELSE channel[r]
  BY <1>1 DEF HubFits
<1>4. subs' \subseteq Subscribers /\ \A r \in Subscribers \ subs' : r = s \/ r \notin subs
  BY DEF Subscribe, Unsubscribe, HubFits
<1>5. QED BY <1>1, <1>2, <1>3, <1>4, NothingWaits DEF HubFits

\* Publishing keeps the hub: what has no room is dropped.
LEMMA PublishFits ==
    ASSUME HubFits, NEW event \in Event, Publish(event)
    PROVE  HubFits'
<1>1. \A s \in Subscribers :
        channel'[s] = IF s \in subs /\ HasRoom(s) THEN Append(channel[s], event) ELSE channel[s]
  BY DEF Publish
<1>2. ASSUME NEW s \in Subscribers
      PROVE  /\ channel'[s] \in Seq(Event) /\ Len(channel'[s]) <= Buffer
             /\ s \notin subs => channel'[s] = <<>>
  <2>1. channel[s] \in Seq(Event) /\ Len(channel[s]) <= Buffer BY DEF HubFits
  <2>2. CASE s \in subs /\ HasRoom(s)
    <3>1. Append(channel[s], event) \in Seq(Event) /\ Len(Append(channel[s], event)) = Len(channel[s]) + 1
      BY <2>1
    <3>2. channel'[s] = Append(channel[s], event) BY <1>1, <2>2
    <3>3. Len(channel[s]) \in Nat /\ Len(channel[s]) < Buffer /\ Buffer \in Nat
      BY <2>1, <2>2, EventStreamAssumption DEF HasRoom
    <3>4. Len(channel'[s]) <= Buffer BY <3>1, <3>2, <3>3
    <3>5. QED BY <2>2, <3>1, <3>2, <3>4
  <2>3. CASE ~(s \in subs /\ HasRoom(s)) BY <1>1, <2>1, <2>3 DEF HubFits
  <2>4. QED BY <2>2, <2>3
<1>3. channel' \in [Subscribers -> Seq(Event)]
  <2>1. channel' = [s \in Subscribers |-> channel'[s]] BY DEF Publish
  <2>2. QED BY <1>2, <2>1
<1>4. QED BY <1>2, <1>3 DEF HubFits, Publish

\* Taking an event keeps the hub.
LEMMA TakeFits ==
    ASSUME HubFits, NEW s \in Subscribers, channel[s] # <<>>,
           channel' = [channel EXCEPT ![s] = Tail(@)], UNCHANGED <<subs, lossy>>
    PROVE  HubFits'
<1>1. Tail(channel[s]) \in Seq(Event) /\ Len(Tail(channel[s])) <= Buffer /\ s \in subs
  BY TailKeepsBound DEF HubFits
<1>2. channel' \in [Subscribers -> Seq(Event)] BY <1>1 DEF HubFits
<1>3. \A r \in Subscribers : channel'[r] = IF r = s THEN Tail(channel[s]) ELSE channel[r]
  BY DEF HubFits
<1>4. QED BY <1>1, <1>2, <1>3 DEF HubFits

\* A step elsewhere keeps the hub.
LEMMA HubUntouched == ASSUME HubFits, UNCHANGED hub PROVE HubFits'
BY DEF HubFits, hub

\* Who listens is who is subscribed.
Listening ==
    subs = {p \in Pages : stream[p].pc \in {"subscribed", "live"}}
              \cup {w \in Waiters : waiter[w] # "idle"}

\* The invariant by its parts.
LEMMA InvariantIs ==
    StreamInvariant <=>
        /\ StreamTypes /\ HubFits /\ Listening /\ WriterFits
        /\ \A p \in Pages : PageSafe(p)
BY DEF StreamInvariant, StreamTypes, HubFits, Listening, HubAgrees

\* What is not of the hub has its type.
ProcessTypes ==
    /\ status \in {"running", "concluded", "deleted"} /\ stored \in Nat
    /\ writer \in Seq(WriterSteps)
    /\ stream \in [Pages -> StreamRecords] /\ page \in [Pages -> PageRecords]
    /\ waiter \in [Waiters -> {"idle", "checking", "waiting"}]

\* The types by their parts.
LEMMA TypesAre == StreamTypes <=> ProcessTypes /\ subs \subseteq Subscribers
                                     /\ channel \in [Subscribers -> Seq(Event)] /\ lossy \subseteq Pages
BY DEF StreamTypes, ProcessTypes

\* A step that concerns one page leaves the others safe.
LEMMA OthersRest ==
    ASSUME StreamInvariant, StreamTypes', NEW p \in Pages, NEW q \in Pages, p # q,
           UNCHANGED <<debate, writer, lossy>>,
           channel'[q] = channel[q], stream'[q] = stream[q], page'[q] = page[q]
    PROVE  PageSafe(q)'
<1>1. StreamTypes /\ PageSafe(q) BY DEF StreamInvariant
<1>2. (Exists' <=> Exists) /\ Published' = Published /\ stored' = stored /\ Published \in Int /\ stored \in Nat
  BY <1>1 DEF Exists, Published, debate, StreamTypes
<1>3. Published' >= Published /\ stored' >= stored BY <1>2
<1>4. QED BY <1>1, <1>2, <1>3, Untouched

-------------------------------------------------------------------------------
(* The steps of a page and its stream *)

\* A step of one page need only keep what that page is promised.
LEMMA PageStep ==
    ASSUME StreamInvariant, NEW p \in Pages, ProcessTypes', HubFits', Listening',
           UNCHANGED <<debate, writer, lossy>>,
           \A q \in Pages \ {p} :
               channel'[q] = channel[q] /\ stream'[q] = stream[q] /\ page'[q] = page[q],
           StreamTypes' => PageSafe(p)'
    PROVE  StreamInvariant'
<1>1. StreamTypes' BY DEF HubFits, TypesAre, StreamTypes, ProcessTypes
<1>2. WriterFits' BY DEF StreamInvariant, WriterFits, debate, Exists
<1>3. ASSUME NEW q \in Pages PROVE PageSafe(q)'
  <2>1. CASE q = p BY <1>1, <2>1
  <2>2. CASE q # p BY <1>1, <2>2, OthersRest
  <2>3. QED BY <2>1, <2>2
<1>4. HubAgrees' BY DEF HubFits, Listening, HubAgrees
<1>5. QED BY <1>1, <1>2, <1>3, <1>4 DEF StreamInvariant

\* What the invariant says of one page.
LEMMA PageFacts ==
    ASSUME StreamInvariant, NEW p \in Pages
    PROVE  /\ StreamTypes /\ ProcessTypes /\ HubFits /\ Listening /\ PageSafe(p)
           /\ p \in Subscribers /\ Backlog(p) /\ SentBefore(p) /\ (p \notin lossy => NoHole(p))
           /\ stream[p] \in StreamRecords /\ page[p] \in PageRecords /\ channel[p] \in Seq(Event)
           /\ stored \in Nat /\ Len(page[p].shown) \in Nat /\ page[p].after \in Nat
<1>1. StreamTypes /\ ProcessTypes /\ HubFits /\ Listening /\ PageSafe(p) /\ p \in Subscribers
  BY InvariantIs, TypesAre DEF Subscribers
<1>2. stream[p] \in StreamRecords /\ page[p] \in PageRecords /\ channel[p] \in Seq(Event) /\ stored \in Nat
  BY <1>1 DEF StreamTypes
<1>3. Len(page[p].shown) \in Nat /\ page[p].after \in Nat BY <1>2 DEF PageRecords
<1>4. QED BY <1>1, <1>2, <1>3 DEF PageSafe

\* The last of a list of numbers is a number.
LEMMA LastOfIs == ASSUME NEW s \in Seq(Nat) PROVE LastOf(s) \in Nat
BY DEF LastOf

\* What a page shows is a list of numbers.
LEMMA ShownUpToIs ==
    ASSUME NEW shown \in Seq(Nat), NEW after \in Nat, NEW last \in Nat
    PROVE  ShownUpTo(shown, after, last) \in Seq(Nat)
<1> DEFINE from == IF after < LastOf(shown) THEN LastOf(shown) ELSE after
           more == Between(from, last)
<1>1. from \in Nat BY LastOfIs
<1>2. more \in Seq(Nat)
  <2> HIDE DEF from
  <2>1. CASE from <= last BY <1>1, <2>1, BetweenIs
  <2>2. CASE ~(from <= last) BY <1>1, <2>2 DEF Between
  <2>3. QED BY <2>1, <2>2
<1>3. ShownUpTo(shown, after, last) = shown \o more BY DEF ShownUpTo
<1> HIDE DEF more
<1>4. QED BY <1>2, <1>3, ConcatProperties

\* Loading a page keeps the invariant.
LEMMA LoadPageStep ==
    ASSUME StreamInvariant, NEW p \in Pages, LoadPage(p) PROVE StreamInvariant'
<1>1. /\ Exists /\ page' = [page EXCEPT ![p] = [open |-> TRUE, after |-> stored, shown |-> UpTo(stored)]]
      /\ UNCHANGED <<status, turn, stored, writer, subs, channel, lossy, stream, waiter>>
  BY DEF LoadPage, debate, hub
<1>2. page'[p] = [open |-> TRUE, after |-> stored, shown |-> UpTo(stored)]
      /\ \A q \in Pages \ {p} : page'[q] = page[q]
  BY <1>1, PageFacts DEF ProcessTypes
<1>3. [open |-> TRUE, after |-> stored, shown |-> UpTo(stored)] \in PageRecords
  BY PageFacts, UpToIs DEF PageRecords
<1>4. ProcessTypes' BY <1>1, <1>3, PageFacts DEF ProcessTypes
<1>5. HubFits' /\ Listening'
  BY <1>1, PageFacts, HubUntouched DEF hub, Listening
<1>6. ASSUME StreamTypes' PROVE PageSafe(p)'
  <2>1. (Exists' <=> Exists) /\ Published' = Published BY <1>1 DEF Exists, Published
  <2>2. Backlog(p)' BY <1>1, <2>1, PageFacts DEF Backlog
  <2>3. SentBefore(p)' BY <1>1, <2>1, PageFacts DEF SentBefore
  <2>4. NoHole(p)'
    <3>1. Len(page'[p].shown) = stored /\ page'[p].shown = UpTo(stored) /\ page'[p].after = stored
      BY <1>2, PageFacts, UpToIs
    <3>2. stored \in Nat /\ StreamTypes /\ Backlog(p) /\ SentBefore(p) BY PageFacts
    <3>3. stream[p].seen <= stored BY <1>1, <3>2 DEF SentBefore
    <3>4. PICK n \in Nat : n = stored BY <3>2
    <3>5. /\ (n + 1)..Published = {}
          /\ \A i \in DOMAIN channel[p] :
                IsMessage(channel[p][i]) => (n + 1)..(channel[p][i].seq - 1) = {}
      BY <1>1, <3>2, <3>4, NothingIsMissing
    <3>6. Complete(p, n)' BY <1>1, <2>1, <3>3, <3>4, <3>5 DEF Complete, IsMessage
    <3>7. stored <= stored BY <3>2
    <3>8. QED BY <3>1, <3>4, <3>6, <3>7 DEF NoHole
  <2>5. QED BY <2>2, <2>3, <2>4 DEF PageSafe
<1>7. QED BY <1>1, <1>2, <1>4, <1>5, <1>6, PageStep DEF debate

\* Opening a stream keeps the invariant.
LEMMA OpenStreamStep ==
    ASSUME StreamInvariant, NEW p \in Pages, OpenStream(p) PROVE StreamInvariant'
<1>1. /\ stream[p].pc = "closed"
      /\ UNCHANGED <<status, turn, stored, writer, subs, channel, lossy, waiter>>
      /\ \/ stream' = [stream EXCEPT ![p].pc = "accepted"] /\ page' = page
         \/ page' = [page EXCEPT ![p].open = FALSE] /\ stream' = stream
  BY DEF OpenStream, debate, hub
<1>2. /\ stream'[p] \in StreamRecords /\ page'[p] \in PageRecords
      /\ stream'[p].pc \in {"closed", "accepted"}
      /\ stream'[p].seen = stream[p].seen /\ stream'[p].sent = stream[p].sent
      /\ page'[p].shown = page[p].shown /\ page'[p].after = page[p].after
      /\ \A q \in Pages \ {p} : stream'[q] = stream[q] /\ page'[q] = page[q]
  <2>1. /\ stream \in [Pages -> StreamRecords] /\ page \in [Pages -> PageRecords]
        /\ stream[p] \in StreamRecords /\ page[p] \in PageRecords
    BY PageFacts DEF ProcessTypes
  <2>2. CASE stream' = [stream EXCEPT ![p].pc = "accepted"] /\ page' = page
    BY <2>1, <2>2 DEF StreamRecords
  <2>3. CASE page' = [page EXCEPT ![p].open = FALSE] /\ stream' = stream
    BY <1>1, <2>1, <2>3 DEF PageRecords
  <2>4. QED BY <1>1, <2>2, <2>3
<1>3. ProcessTypes'
  <2>1. stream' \in [Pages -> StreamRecords] /\ page' \in [Pages -> PageRecords]
    BY <1>1, <1>2, PageFacts DEF ProcessTypes
  <2>2. QED BY <1>1, <2>1, PageFacts DEF ProcessTypes
<1>4. HubFits' /\ Listening'
  <2>1. \A q \in Pages : stream'[q].pc \in {"subscribed", "live"} <=> stream[q].pc \in {"subscribed", "live"}
    BY <1>1, <1>2
  <2>2. QED BY <1>1, <2>1, PageFacts, HubUntouched DEF hub, Listening
<1>5. ASSUME StreamTypes' PROVE PageSafe(p)'
  <2>1. (Exists' <=> Exists) /\ Published' = Published BY <1>1 DEF Exists, Published
  <2>2. Backlog(p)' BY <1>1, <2>1, PageFacts DEF Backlog
  <2>3. SentBefore(p)' BY <1>1, <1>2, <2>1, PageFacts DEF SentBefore
  <2>4. p \notin lossy' => NoHole(p)' BY <1>1, <1>2, PageFacts DEF NoHole
  <2>5. QED BY <2>2, <2>3, <2>4 DEF PageSafe
<1>6. QED BY <1>1, <1>2, <1>3, <1>4, <1>5, PageStep DEF debate

\* The stream ends or begins: it has sent nothing and nothing waits for it.
LEMMA QuietStep ==
    ASSUME StreamInvariant, NEW p \in Pages, NEW record \in StreamRecords,
           record.pc # "live", record.sent = <<>>, record.seen = 0,
           stream' = [stream EXCEPT ![p] = record],
           (Subscribe(p) /\ record.pc = "subscribed") \/ (Unsubscribe(p) /\ record.pc = "closed"),
           page' \in [Pages -> PageRecords], \A q \in Pages \ {p} : page'[q] = page[q],
           UNCHANGED <<debate, writer, waiter>>,
           NEW n \in Nat, p \notin lossy => page'[p].shown = UpTo(n) /\ page'[p].after <= n
    PROVE  StreamInvariant'
<1>1. ProcessTypes /\ HubFits /\ Listening /\ p \in Subscribers BY PageFacts
<1>2. /\ stream' \in [Pages -> StreamRecords] /\ stream'[p] = record
      /\ \A q \in Pages \ {p} : stream'[q] = stream[q]
  BY <1>1 DEF ProcessTypes
<1>3. ProcessTypes' BY <1>1, <1>2 DEF ProcessTypes, debate
<1>4. HubFits' BY <1>1, SubscribeFits
<1>5. Listening'
  <2>1. CASE Subscribe(p) /\ record.pc = "subscribed"
    BY <1>1, <1>2, <2>1, EventStreamAssumption DEF Listening, Subscribe
  <2>2. CASE Unsubscribe(p) /\ record.pc = "closed"
    BY <1>1, <1>2, <2>2, EventStreamAssumption DEF Listening, Unsubscribe
  <2>3. QED BY <2>1, <2>2
<1>6. channel' = [channel EXCEPT ![p] = <<>>] /\ lossy' = lossy BY DEF Subscribe, Unsubscribe
<1>7. channel'[p] = <<>> /\ \A q \in Pages \ {p} : channel'[q] = channel[q]
  BY <1>1, <1>6 DEF HubFits, Subscribers
<1>8. StreamTypes' => PageSafe(p)' BY <1>2, <1>6, <1>7, ClosedIsSafe
<1>9. QED BY <1>2, <1>3, <1>4, <1>5, <1>6, <1>7, <1>8, PageStep

\* Subscribing a stream keeps the invariant.
LEMMA SubscribeStreamStep ==
    ASSUME StreamInvariant, NEW p \in Pages, SubscribeStream(p) PROVE StreamInvariant'
<1>1. PICK record \in StreamRecords : record = [pc |-> "subscribed", seen |-> 0, sent |-> <<>>]
  <2>1. [pc |-> "subscribed", seen |-> 0, sent |-> <<>>] \in StreamRecords BY DEF StreamRecords
  <2>2. QED BY <2>1
<1>2. stream[p].sent = <<>> /\ stream[p].seen = 0
  BY PageFacts DEF SentBefore, SubscribeStream
<1>3. stream' = [stream EXCEPT ![p] = record]
  <2>1. [stream[p] EXCEPT !.pc = "subscribed"] = record BY <1>1, <1>2, PageFacts DEF StreamRecords
  <2>2. QED BY <2>1, PageFacts DEF SubscribeStream, ProcessTypes
<1>4. page' \in [Pages -> PageRecords] /\ page' = page
  BY PageFacts DEF SubscribeStream, ProcessTypes
<1>5. PICK n \in Nat : n = Len(page[p].shown) BY PageFacts
<1>6. p \notin lossy => page'[p].shown = UpTo(n) /\ page'[p].after <= n
  BY <1>4, <1>5, PageFacts DEF NoHole
<1>7. Subscribe(p) /\ UNCHANGED <<debate, writer, waiter>> BY DEF SubscribeStream
<1>8. record.pc = "subscribed" /\ record.pc # "live" /\ record.sent = <<>> /\ record.seen = 0
  BY <1>1
<1>9. QED BY <1>3, <1>4, <1>6, <1>7, <1>8, QuietStep

\* A closed stream.
LEMMA NoStreamIs ==
    /\ NoStream \in StreamRecords /\ NoStream.pc = "closed"
    /\ NoStream.sent = <<>> /\ NoStream.seen = 0
BY DEF NoStream, StreamRecords

\* A replay that fails keeps the invariant.
LEMMA ReplayFailsStep ==
    ASSUME StreamInvariant, NEW p \in Pages, ReplayFails(p) PROVE StreamInvariant'
<1>1. page' \in [Pages -> PageRecords] /\ page' = page
  BY PageFacts DEF ReplayFails, ProcessTypes
<1>2. PICK n \in Nat : n = Len(page[p].shown) BY PageFacts
<1>3. p \notin lossy => page'[p].shown = UpTo(n) /\ page'[p].after <= n
  BY <1>1, <1>2, PageFacts DEF NoHole
<1>4. /\ Unsubscribe(p) /\ UNCHANGED <<debate, writer, waiter>>
      /\ stream' = [stream EXCEPT ![p] = NoStream]
  BY DEF ReplayFails
<1>5. QED BY <1>1, <1>3, <1>4, NoStreamIs, QuietStep

\* A page that is shown a replay, or its first part.
LEMMA ReplayOnPage ==
    ASSUME StreamInvariant, NEW p \in Pages, NEW last \in Nat,
           page' = [page EXCEPT ![p].shown = ShownUpTo(@, ReplayedFrom(p), last)]
    PROVE  /\ page' \in [Pages -> PageRecords] /\ \A q \in Pages \ {p} : page'[q] = page[q]
           /\ page'[p].after = page[p].after
           /\ p \notin lossy =>
                 \E n \in Nat : /\ page'[p].shown = UpTo(n) /\ page'[p].after <= n
                                /\ last <= n
<1>1. page \in [Pages -> PageRecords] /\ page[p] \in PageRecords /\ page[p].shown \in Seq(Nat)
      /\ page[p].after \in Nat
  BY PageFacts DEF ProcessTypes, PageRecords
<1> DEFINE new == ShownUpTo(page[p].shown, page[p].after, last)
<1>2. new \in Seq(Nat) BY <1>1, ShownUpToIs
<1>3. page'[p] = [page[p] EXCEPT !.shown = new] /\ \A q \in Pages \ {p} : page'[q] = page[q]
  BY <1>1 DEF ReplayedFrom
<1>4. page'[p] \in PageRecords /\ page'[p].shown = new /\ page'[p].after = page[p].after
  <2> HIDE DEF new
  <2>1. QED BY <1>1, <1>2, <1>3 DEF PageRecords
<1>5. page' \in [Pages -> PageRecords]
  <2>1. page' = [q \in Pages |-> page'[q]] BY <1>1
  <2>2. \A q \in Pages : page'[q] \in PageRecords BY <1>1, <1>3, <1>4
  <2>3. QED BY <2>1, <2>2
<1>6. ASSUME p \notin lossy
      PROVE  \E n \in Nat : page'[p].shown = UpTo(n) /\ page'[p].after <= n /\ last <= n
  <2>1. PICK n \in Nat : n = Len(page[p].shown) BY PageFacts
  <2>2. page[p].shown = UpTo(n) /\ page[p].after <= n BY <1>6, <2>1, PageFacts DEF NoHole
  <2>3. PICK k \in Nat : k = (IF n <= last THEN last ELSE n) OBVIOUS
  <2>4. page'[p].shown = UpTo(k) BY <1>1, <1>4, <2>2, <2>3, ReplayIsShown
  <2>5. page'[p].after <= k /\ last <= k BY <1>1, <1>4, <2>2, <2>3
  <2>6. QED BY <2>4, <2>5
<1>7. QED BY <1>3, <1>4, <1>5, <1>6

\* A stream that is cut keeps the invariant.
LEMMA CutStep ==
    ASSUME StreamInvariant, NEW p \in Pages, Cut(p) PROVE StreamInvariant'
<1>1. /\ Unsubscribe(p) /\ UNCHANGED <<debate, writer, waiter>>
      /\ stream' = [stream EXCEPT ![p] = NoStream] /\ lossy' = lossy
  BY DEF Cut, Unsubscribe
<1>2. /\ page' \in [Pages -> PageRecords] /\ \A q \in Pages \ {p} : page'[q] = page[q]
      /\ p \notin lossy => \E n \in Nat : page'[p].shown = UpTo(n) /\ page'[p].after <= n
  <2>1. CASE page' = page
    <3>1. page' \in [Pages -> PageRecords] BY <2>1, PageFacts DEF ProcessTypes
    <3>2. p \notin lossy => \E n \in Nat : page'[p].shown = UpTo(n) /\ page'[p].after <= n
      BY <2>1, PageFacts DEF NoHole
    <3>3. QED BY <2>1, <3>1, <3>2
  <2>2. CASE \E last \in ReplayedFrom(p)..stored :
                page' = [page EXCEPT ![p].shown = ShownUpTo(@, ReplayedFrom(p), last)]
    <3>1. PICK last \in ReplayedFrom(p)..stored :
             page' = [page EXCEPT ![p].shown = ShownUpTo(@, ReplayedFrom(p), last)]
      BY <2>2
    <3>2. last \in Nat BY <3>1, PageFacts DEF ReplayedFrom
    <3>3. QED BY <3>1, <3>2, ReplayOnPage
  <2>3. QED BY <2>1, <2>2 DEF Cut
<1>3. PICK n \in Nat : p \notin lossy => page'[p].shown = UpTo(n) /\ page'[p].after <= n
  BY <1>2
<1>4. QED BY <1>1, <1>2, <1>3, NoStreamIs, QuietStep

\* What a stream has missed rises up to the last record stored.
LEMMA MissedIs ==
    ASSUME StreamInvariant, NEW p \in Pages
    PROVE  /\ Missed(p) \in Seq(Nat) /\ LastOf(Missed(p)) \in Nat
           /\ LastOf(Missed(p)) <= stored
           /\ \A i \in DOMAIN Missed(p) : Missed(p)[i] <= LastOf(Missed(p))
           /\ \A i \in DOMAIN Missed(p) : LastOf(Missed(p)) = stored
           /\ \A i, j \in DOMAIN Missed(p) : i < j => Missed(p)[i] < Missed(p)[j]
<1>1. PICK after \in Nat : after = ReplayedFrom(p) BY PageFacts DEF ReplayedFrom
<1>2. PICK last \in Nat : last = stored /\ Missed(p) = Between(after, last)
  BY <1>1, PageFacts DEF Missed
<1>3. CASE after < last
  <2>1. /\ Missed(p) \in Seq(Nat) /\ Len(Missed(p)) = last - after
        /\ DOMAIN Missed(p) = 1..(last - after)
        /\ \A i \in 1..(last - after) : Missed(p)[i] = after + i
    <3>1. /\ Between(after, last) \in Seq(Nat) /\ Len(Between(after, last)) = last - after
          /\ \A i \in 1..(last - after) : Between(after, last)[i] = after + i
      <4>1. after <= last BY <1>3
      <4>2. QED BY <4>1, BetweenIs
    <3>2. Missed(p) \in Seq(Nat) /\ Len(Missed(p)) = last - after
      BY <1>2, <3>1
    <3>3. DOMAIN Missed(p) = 1..(last - after) BY <3>2
    <3>4. QED BY <1>2, <3>1, <3>2, <3>3
  <2>2. LastOf(Missed(p)) = stored
    <3>1. Missed(p) # <<>> /\ LastOf(Missed(p)) = Missed(p)[last - after]
      BY <1>2, <1>3, <2>1 DEF LastOf
    <3>2. last - after \in 1..(last - after) BY <1>2, <1>3
    <3>3. Missed(p)[last - after] = after + (last - after) BY <2>1, <3>2
    <3>4. QED BY <1>2, <3>1, <3>3
  <2>3. QED BY <1>2, <2>1, <2>2
<1>4. CASE ~(after < last)
  <2>1. Missed(p) = <<>> BY <1>2, <1>4 DEF Between
  <2>2. QED BY <1>2, <2>1 DEF LastOf
<1>5. QED BY <1>3, <1>4

\* A replay keeps the invariant.
LEMMA ReplayStep ==
    ASSUME StreamInvariant, NEW p \in Pages, Replay(p) PROVE StreamInvariant'
<1> DEFINE record == [pc |-> "live", seen |-> LastOf(Missed(p)), sent |-> Missed(p)]
<1>1. /\ Exists /\ stream[p].pc = "subscribed" /\ stream' = [stream EXCEPT ![p] = record]
      /\ UNCHANGED <<status, turn, stored, writer, subs, channel, lossy, waiter>>
      /\ page' = [page EXCEPT ![p].shown = ShownUpTo(@, ReplayedFrom(p), stored)]
  BY DEF Replay, debate, hub
<1>2. record \in StreamRecords BY MissedIs DEF StreamRecords
<1>3. /\ stream' \in [Pages -> StreamRecords] /\ stream'[p] = record
      /\ \A q \in Pages \ {p} : stream'[q] = stream[q]
  <2> HIDE DEF record
  <2>1. QED BY <1>1, <1>2, PageFacts DEF ProcessTypes
<1>4. /\ page' \in [Pages -> PageRecords] /\ \A q \in Pages \ {p} : page'[q] = page[q]
      /\ p \notin lossy =>
            \E n \in Nat : page'[p].shown = UpTo(n) /\ page'[p].after <= n /\ stored <= n
  BY <1>1, PageFacts, ReplayOnPage
<1>5. ProcessTypes' BY <1>1, <1>3, <1>4, PageFacts DEF ProcessTypes
<1>6. HubFits' /\ Listening'
  <2>1. \A q \in Pages : stream'[q].pc \in {"subscribed", "live"} <=> stream[q].pc \in {"subscribed", "live"}
    BY <1>1, <1>3
  <2>2. QED BY <1>1, <2>1, PageFacts, HubUntouched DEF hub, Listening
<1>7. ASSUME StreamTypes' PROVE PageSafe(p)'
  <2>1. (Exists' <=> Exists) /\ Published' = Published /\ Published \in Int /\ Published <= stored
    BY <1>1, PageFacts DEF Exists, Published
  <2>2. Backlog(p)' BY <1>1, <2>1, PageFacts DEF Backlog
  <2>3. /\ stream'[p].sent = Missed(p) /\ stream'[p].seen = LastOf(Missed(p)) /\ stream'[p].pc = "live"
    BY <1>3
  <2>4. SentBefore(p)'
    <3>1. ASSUME NEW i \in DOMAIN channel[p], IsMessage(channel[p][i]),
                 channel[p][i].seq > LastOf(Missed(p)), NEW k \in DOMAIN Missed(p)
          PROVE  FALSE
      <4>1. channel[p][i].seq <= Published BY <1>1, <3>1, PageFacts DEF Backlog
      <4>2. channel[p][i] \in Event BY <3>1, PageFacts
      <4>3. channel[p][i].seq \in Nat BY <4>2 DEF Event
      <4>4. LastOf(Missed(p)) = stored BY <3>1, MissedIs
      <4>5. QED BY <2>1, <3>1, <4>1, <4>3, <4>4, PageFacts
    <3>2. /\ LastOf(Missed(p)) <= stored
          /\ \A i \in DOMAIN Missed(p) : Missed(p)[i] <= LastOf(Missed(p))
          /\ \A i, j \in DOMAIN Missed(p) : i < j => Missed(p)[i] < Missed(p)[j]
      BY MissedIs
    <3>3. QED BY <1>1, <2>1, <2>3, <3>1, <3>2 DEF SentBefore, IsMessage
  <2>5. ASSUME p \notin lossy' PROVE NoHole(p)'
    <3>1. PICK n \in Nat : page'[p].shown = UpTo(n) /\ page'[p].after <= n /\ stored <= n
      BY <1>1, <1>4, <2>5
    <3>2. /\ (n + 1)..Published = {}
          /\ \A i \in DOMAIN channel[p] :
                IsMessage(channel[p][i]) => (n + 1)..(channel[p][i].seq - 1) = {}
      BY <1>1, <3>1, PageFacts, NothingIsMissing
    <3>3. LastOf(Missed(p)) <= n
      <4>1. LastOf(Missed(p)) \in Nat /\ LastOf(Missed(p)) <= stored BY MissedIs
      <4>2. QED BY <3>1, <4>1, PageFacts
    <3>4. Complete(p, n)' BY <1>1, <2>1, <2>3, <3>2, <3>3 DEF Complete, IsMessage
    <3>5. Len(page'[p].shown) = n BY <3>1, UpToIs
    <3>6. QED BY <3>1, <3>4, <3>5 DEF NoHole
  <2>6. QED BY <2>2, <2>4, <2>5 DEF PageSafe
<1>8. QED BY <1>1, <1>3, <1>4, <1>5, <1>6, <1>7, PageStep DEF debate

\* Sending an event keeps the invariant.
LEMMA SendLiveStep ==
    ASSUME StreamInvariant, NEW p \in Pages, SendLive(p) PROVE StreamInvariant'
<1> DEFINE event == Head(channel[p])
<1>1. /\ channel[p] # <<>> /\ stream[p].pc = "live" /\ UNCHANGED <<debate, writer, waiter>>
      /\ channel[p] \in Seq(Event) /\ event \in Event /\ event.seq \in Nat
  <2>1. event \in Event BY PageFacts, TailIs DEF SendLive
  <2>2. QED BY <2>1, PageFacts DEF SendLive, Event
<1>2. ASSUME event.type = "message", ~AlreadySent(p, event) PROVE StreamInvariant'
  <2>1. /\ stream' = [stream EXCEPT ![p].sent = Append(@, event.seq)]
        /\ page' = [page EXCEPT ![p].shown = Shown(@, event.seq)]
        /\ channel' = [channel EXCEPT ![p] = Tail(@)] /\ UNCHANGED <<subs, lossy>>
    BY <1>2 DEF SendLive
  <2>2. /\ stream'[p] = [stream[p] EXCEPT !.sent = Append(@, event.seq)]
        /\ page'[p] = [page[p] EXCEPT !.shown = Shown(@, event.seq)]
        /\ \A q \in Pages \ {p} : stream'[q] = stream[q] /\ page'[q] = page[q] /\ channel'[q] = channel[q]
    BY <2>1, PageFacts DEF ProcessTypes, HubFits, Subscribers
  <2>3. /\ stream'[p] \in StreamRecords /\ stream'[p].pc = "live" /\ page'[p] \in PageRecords
    <3>1. Append(stream[p].sent, event.seq) \in Seq(Nat) /\ Shown(page[p].shown, event.seq) \in Seq(Nat)
      <4>1. stream[p].sent \in Seq(Nat) /\ page[p].shown \in Seq(Nat)
        BY PageFacts DEF StreamRecords, PageRecords
      <4> HIDE DEF event
      <4>2. QED BY <1>1, <4>1 DEF Shown
    <3> HIDE DEF event
    <3>2. QED BY <1>1, <2>2, <3>1, PageFacts DEF StreamRecords, PageRecords
  <2>4. stream' \in [Pages -> StreamRecords] /\ page' \in [Pages -> PageRecords]
    <3>1. stream \in [Pages -> StreamRecords] /\ page \in [Pages -> PageRecords]
      BY PageFacts DEF ProcessTypes
    <3>2. stream' = [q \in Pages |-> stream'[q]] /\ page' = [q \in Pages |-> page'[q]]
      BY <2>1, <3>1
    <3>3. \A q \in Pages : stream'[q] \in StreamRecords /\ page'[q] \in PageRecords
      BY <2>2, <2>3, <3>1
    <3>4. QED BY <3>2, <3>3
  <2>5. ProcessTypes' BY <1>1, <2>4, PageFacts DEF ProcessTypes, debate
  <2>6. HubFits' BY <1>1, <2>1, PageFacts, TakeFits
  <2>7. Listening'
    <3>1. \A q \in Pages : stream'[q].pc \in {"subscribed", "live"} <=> stream[q].pc \in {"subscribed", "live"}
      BY <1>1, <2>2, <2>3
    <3>2. QED BY <1>1, <2>1, <3>1, PageFacts DEF Listening
  <2>8. QED BY <1>1, <2>1, <2>2, <2>5, <2>6, <2>7, PageStep, SendKeepsPage
<1>3. ASSUME event.type # "deleted", event.type = "message" => AlreadySent(p, event)
      PROVE  StreamInvariant'
  <2>1. channel' = [channel EXCEPT ![p] = Tail(@)] /\ UNCHANGED <<subs, lossy, stream, page>>
    BY <1>3 DEF SendLive
  <2>2. \A q \in Pages \ {p} : stream'[q] = stream[q] /\ page'[q] = page[q] /\ channel'[q] = channel[q]
    BY <2>1, PageFacts DEF HubFits, Subscribers
  <2>3. ProcessTypes' BY <1>1, <2>1, PageFacts DEF ProcessTypes, debate
  <2>4. HubFits' BY <1>1, <2>1, PageFacts, TakeFits
  <2>5. Listening' BY <1>1, <2>1, PageFacts DEF Listening
  <2>6. QED BY <1>1, <2>1, <2>2, <2>3, <2>4, <2>5, PageStep, SendKeepsPage
<1>4. ASSUME event.type = "deleted" PROVE StreamInvariant'
  <2>1. /\ page' = [page EXCEPT ![p].open = FALSE] /\ stream' = [stream EXCEPT ![p] = NoStream]
        /\ Unsubscribe(p)
    BY <1>4 DEF SendLive
  <2>2. /\ page'[p] = [page[p] EXCEPT !.open = FALSE] /\ page' \in [Pages -> PageRecords]
        /\ \A q \in Pages \ {p} : page'[q] = page[q]
    BY <2>1, PageFacts DEF ProcessTypes, PageRecords
  <2>3. page'[p].shown = page[p].shown /\ page'[p].after = page[p].after
    BY <2>2, PageFacts DEF PageRecords
  <2>4. PICK n \in Nat : n = Len(page[p].shown) BY PageFacts
  <2>5. p \notin lossy => page'[p].shown = UpTo(n) /\ page'[p].after <= n
    BY <2>3, <2>4, PageFacts DEF NoHole
  <2>6. QED BY <1>1, <2>1, <2>2, <2>5, NoStreamIs, QuietStep
<1>5. QED BY <1>2, <1>3, <1>4 DEF SendLive

-------------------------------------------------------------------------------
(* The steps of long polls and writers *)

\* A step that leaves streams and pages alone.
LEMMA PagesRest ==
    ASSUME StreamInvariant, StreamTypes', NEW p \in Pages, UNCHANGED <<stream, page, lossy>>,
           channel'[p] = channel[p],
           Exists' => Exists /\ Published' = Published /\ stored' >= stored
    PROVE  PageSafe(p)'
<1>1. StreamTypes /\ PageSafe(p) BY PageFacts
<1>2. Published \in Int BY <1>1 DEF StreamTypes, Published
<1>3. Exists' => Published' >= Published BY <1>2
<1>4. QED BY <1>1, <1>3, Untouched

\* The long poll keeps the invariant.
LEMMA WaiterStep ==
    ASSUME StreamInvariant, NEW w \in Waiters,
           StartWaiting(w) \/ CheckTurn(w) \/ GiveUp(w) \/ WakeByEvent(w) \/ WakeByTimer(w)
    PROVE  StreamInvariant'
<1>1. StreamTypes /\ ProcessTypes /\ HubFits /\ Listening /\ WriterFits /\ w \in Subscribers
  BY InvariantIs, TypesAre DEF Subscribers
<1>2. UNCHANGED <<status, turn, stored, writer, stream, page>> /\ lossy' = lossy
  BY DEF StartWaiting, CheckTurn, GiveUp, WakeByEvent, WakeByTimer, debate, hub, Subscribe, Unsubscribe
<1>3. /\ waiter' \in [Waiters -> {"idle", "checking", "waiting"}]
      /\ \A v \in Waiters \ {w} : waiter'[v] = waiter[v]
  BY <1>1 DEF StartWaiting, CheckTurn, GiveUp, WakeByEvent, WakeByTimer, ProcessTypes
<1>4. ProcessTypes' BY <1>1, <1>2, <1>3 DEF ProcessTypes
<1>5. \/ Subscribe(w) /\ waiter'[w] = "checking"
      \/ Unsubscribe(w) /\ waiter'[w] = "idle"
      \/ /\ UNCHANGED hub \/ (channel' = [channel EXCEPT ![w] = Tail(@)] /\ channel[w] # <<>>)
         /\ UNCHANGED <<subs, lossy>> /\ waiter[w] # "idle" /\ waiter'[w] # "idle"
  BY <1>1, <1>3 DEF StartWaiting, CheckTurn, GiveUp, WakeByEvent, WakeByTimer, ProcessTypes, hub
<1>6. HubFits'
  <2>1. CASE Subscribe(w) \/ Unsubscribe(w) BY <1>1, <2>1, SubscribeFits
  <2>2. CASE UNCHANGED hub BY <1>1, <2>2, HubUntouched
  <2>3. CASE /\ channel' = [channel EXCEPT ![w] = Tail(@)] /\ channel[w] # <<>>
             /\ UNCHANGED <<subs, lossy>>
    BY <1>1, <2>3, TakeFits
  <2>4. QED BY <1>5, <2>1, <2>2, <2>3
<1>7. Listening'
  <2>1. CASE Subscribe(w) /\ waiter'[w] = "checking"
    <3>1. subs' = subs \cup {w} BY <2>1 DEF Subscribe
    <3>2. QED BY <1>1, <1>2, <1>3, <2>1, <3>1 DEF Listening
  <2>2. CASE Unsubscribe(w) /\ waiter'[w] = "idle"
    <3>1. subs' = subs \ {w} BY <2>2 DEF Unsubscribe
    <3>2. QED BY <1>1, <1>2, <1>3, <2>2, <3>1, EventStreamAssumption DEF Listening
  <2>3. CASE subs' = subs /\ waiter[w] # "idle" /\ waiter'[w] # "idle"
    BY <1>1, <1>2, <1>3, <2>3 DEF Listening
  <2>4. QED BY <1>5, <2>1, <2>2, <2>3
<1>8. \A p \in Pages : channel'[p] = channel[p]
  BY <1>1, <1>5, EventStreamAssumption DEF Subscribe, Unsubscribe, HubFits, Subscribers, hub
<1>9. StreamTypes' BY <1>4, <1>6, TypesAre DEF HubFits, StreamTypes, ProcessTypes
<1>10. ASSUME NEW p \in Pages PROVE PageSafe(p)'
  <2>1. (Exists' <=> Exists) /\ Published' = Published /\ stored' >= stored
    BY <1>1, <1>2 DEF Exists, Published, ProcessTypes
  <2>2. QED BY <1>2, <1>8, <1>9, <2>1, PagesRest
<1>11. WriterFits' BY <1>1, <1>2 DEF WriterFits, Exists
<1>12. HubAgrees' BY <1>6, <1>7 DEF HubFits, Listening, HubAgrees
<1>13. QED BY <1>9, <1>10, <1>11, <1>12 DEF StreamInvariant

\* A step of a writer that announces nothing.
LEMMA SilentStep ==
    ASSUME StreamInvariant, UNCHANGED <<hub, stream, page, waiter>>,
           status' \in {"running", "concluded", "deleted"}, stored' \in Nat,
           writer' \in Seq(WriterSteps), WriterFits',
           Exists' => Exists /\ Published' = Published /\ stored' >= stored
    PROVE  StreamInvariant'
<1>1. StreamTypes' BY DEF StreamInvariant, StreamTypes, hub
<1>2. HubAgrees' BY DEF StreamInvariant, HubAgrees, hub
<1>3. \A p \in Pages : PageSafe(p)' BY <1>1, PagesRest DEF hub
<1>4. QED BY <1>1, <1>2, <1>3 DEF StreamInvariant

\* Taking the lock to write keeps the invariant.
LEMMA LockStep ==
    ASSUME StreamInvariant, Write \/ DeleteDebate
    PROVE  StreamInvariant'
<1>1. StreamTypes /\ WriterFits /\ writer = <<>> /\ Published = stored
  BY DEF StreamInvariant, Write, DeleteDebate, Lock, Published
<1>2. UNCHANGED <<status, turn, stored, hub, stream, page, waiter>> /\ UNCHANGED debate
  BY DEF Write, DeleteDebate, Lock, debate
<1>3. /\ writer' \in Seq(WriterSteps) /\ WriterFits'
      /\ writer' # <<>> /\ ~Announces(writer'[1])
  <2>1. CASE Write
    <3>1. PICK steps \in Handlers : writer' = steps BY <2>1 DEF Write, Lock
    <3>2. status = "running" BY <2>1 DEF Write
    <3>3. QED BY <1>1, <1>2, <3>1, <3>2, HandlersFit
  <2>2. CASE DeleteDebate
    <3>1. writer' = Removal /\ Removal \in Seq(WriterSteps) /\ Len(Removal) = 2
          /\ Removal[1] = [do |-> "delete"] /\ Removal[2] = Announce(Deleted)
      BY <2>2, RemovalIs DEF DeleteDebate, Lock
    <3>2. ~Announces(Removal[1]) /\ ~Announces(Removal[2])
      BY <3>1 DEF Announces, Announce, IsMessage, Deleted
    <3>3. \A i \in 1..2 : Removal[i].do \notin {"store", "conclude"} BY <3>1 DEF Announce
    <3>4. DOMAIN Removal = 1..2 /\ Removal # <<>> BY <3>1
    <3>5. WriterFits' BY <3>1, <3>2, <3>3, <3>4 DEF WriterFits
    <3>6. QED BY <3>1, <3>2, <3>4, <3>5
  <2>3. QED BY <2>1, <2>2
<1>4. Published' = stored' BY <1>3 DEF Published
<1>5. (Exists' <=> Exists) /\ stored' >= stored BY <1>1, <1>2 DEF Exists, StreamTypes
<1>6. QED BY <1>1, <1>2, <1>3, <1>4, <1>5, SilentStep DEF StreamTypes

\* A write that fails keeps the invariant.
LEMMA WriteFailsStep ==
    ASSUME StreamInvariant, WriteFails
    PROVE  StreamInvariant'
<1>1. /\ StreamTypes /\ WriterFits /\ writer # <<>> /\ Head(writer).do # "publish" /\ writer' = <<>>
      /\ UNCHANGED <<status, turn, stored, hub, stream, page, waiter>>
  BY DEF StreamInvariant, WriteFails, debate
<1>2. Head(writer) = writer[1] BY <1>1, NextStep
<1>3. Published = stored /\ Published' = stored' BY <1>1, <1>2 DEF Published, Announces
<1>4. writer' \in Seq(WriterSteps) /\ WriterFits' BY <1>1 DEF WriterFits
<1>5. (Exists' <=> Exists) /\ stored' >= stored BY <1>1 DEF Exists, StreamTypes
<1>6. QED BY <1>1, <1>3, <1>4, <1>5, SilentStep DEF StreamTypes

\* A step of a writer keeps the invariant.
LEMMA WriterStepStep ==
    ASSUME StreamInvariant, WriterStep
    PROVE  StreamInvariant'
<1> DEFINE step == writer[1]
<1>1. /\ StreamTypes /\ WriterFits /\ writer # <<>> /\ writer' = Tail(writer)
      /\ Head(writer) = step /\ step \in WriterSteps /\ 1 \in DOMAIN writer
      /\ writer' \in Seq(WriterSteps) /\ UNCHANGED <<stream, page, waiter>>
  BY NextStep DEF StreamInvariant, WriterStep
<1>2. stored \in Nat /\ status \in {"running", "concluded", "deleted"} BY <1>1 DEF StreamTypes
<1>3. ~Announces(step) => Published = stored BY <1>1 DEF Published
<1>4. CASE step.do = "publish"
  <2>1. Publish(step.event) /\ UNCHANGED debate BY <1>1, <1>4 DEF WriterStep
  <2>2. PICK event \in Event : step = Announce(event)
    BY <1>1, <1>4 DEF WriterSteps
  <2>3. Publish(event) BY <2>1, <2>2 DEF Announce
  <2>4. HubFits /\ ProcessTypes /\ Listening BY InvariantIs, TypesAre
  <2>5. HubFits' BY <2>3, <2>4, PublishFits
  <2>6. ProcessTypes' BY <1>1, <2>1, <2>4 DEF ProcessTypes, debate
  <2>7. StreamTypes' BY <2>5, <2>6 DEF StreamTypes, HubFits, ProcessTypes
  <2>8. WriterFits' BY <1>1, <1>4, <2>1, WriterFitsOn DEF Exists, debate
  <2>9. \A p \in Pages : PageSafe(p)' BY <1>1, <2>1, <2>2, <2>3, <2>7, PublishKeepsPages
  <2>10. Listening' BY <1>1, <2>3, <2>4 DEF Listening, Publish
  <2>11. HubAgrees' BY <2>5, <2>10 DEF HubFits, Listening, HubAgrees
  <2>12. QED BY <2>7, <2>8, <2>9, <2>11 DEF StreamInvariant
<1>5. CASE step.do # "publish"
  <2>1. UNCHANGED hub /\ ~Announces(step) BY <1>1, <1>5 DEF WriterStep, Announces
  <2>2. CASE step.do = "store"
    <3>1. stored' = stored + 1 /\ status' = status BY <1>1, <2>2 DEF WriterStep
    <3>2. Exists' /\ Exists BY <1>1, <2>2, <3>1 DEF WriterFits, Exists
    <3>3. WriterFits' BY <1>1, <3>1, <3>2, WriterFitsOn
    <3>4. Published' = stored' - 1 BY <1>1, <2>2, PublishedNext
    <3>5. QED BY <1>1, <1>2, <1>3, <2>1, <3>1, <3>2, <3>3, <3>4, SilentStep
  <2>3. CASE step.do # "store"
    <3>1. WriterFits'
      <4>1. Exists /\ step.do # "delete" => Exists' BY <1>1, <1>5, <2>3 DEF WriterStep, Exists
      <4>2. QED BY <1>1, <2>3, <4>1, WriterFitsOn
    <3>2. Published' = stored' BY <1>1, <2>3, PublishedNext
    <3>3. /\ status' \in {"running", "concluded", "deleted"} /\ stored' \in Nat
          /\ Exists' => Exists /\ stored' = stored
      <4>1. \/ step.do = "move" /\ status' = status /\ stored' = stored
            \/ /\ step.do = "conclude" /\ status' = "concluded" /\ stored' = stored
            \/ step.do = "delete" /\ status' = "deleted" /\ stored' = 0
        BY <1>1, <1>5, <2>3 DEF WriterStep
      <4>2. step.do = "conclude" => Exists BY <1>1 DEF WriterFits
      <4>3. QED BY <1>2, <4>1, <4>2 DEF Exists
    <3>4. QED BY <1>1, <1>2, <1>3, <2>1, <3>1, <3>2, <3>3, SilentStep
  <2>4. QED BY <2>2, <2>3
<1>6. QED BY <1>4, <1>5

-------------------------------------------------------------------------------
(* Theorems *)

\* The invariant holds at the start.
LEMMA StreamInvariantInit == Init => StreamInvariant
<1> SUFFICES ASSUME Init PROVE StreamInvariant
  OBVIOUS
<1>1. /\ status = "running" /\ stored = 0 /\ writer = <<>> /\ subs = {} /\ lossy = {}
      /\ channel = [s \in Subscribers |-> <<>>]
      /\ stream = [p \in Pages |-> NoStream] /\ page = [p \in Pages |-> NoPage]
      /\ waiter = [w \in Waiters |-> "idle"]
  BY DEF Init
<1>2. NoPage \in PageRecords /\ NoPage.after = 0 /\ NoPage.shown = <<>> BY DEF NoPage, PageRecords
<1>3. StreamTypes BY <1>1, <1>2, NoStreamIs DEF StreamTypes
<1>4. HubAgrees BY <1>1, NoStreamIs, EventStreamAssumption DEF HubAgrees
<1>5. WriterFits BY <1>1 DEF WriterFits
<1>6. ASSUME NEW p \in Pages PROVE PageSafe(p)
  <2>1. channel[p] = <<>> /\ stream[p] = NoStream /\ page[p] = NoPage BY <1>1 DEF Subscribers
  <2>2. Backlog(p) BY <2>1 DEF Backlog
  <2>3. SentBefore(p) BY <1>1, <2>1, NoStreamIs DEF SentBefore
  <2>4. UpTo(0) = <<>> BY DEF UpTo
  <2>5. NoHole(p) BY <1>2, <2>1, <2>4, NoStreamIs DEF NoHole
  <2>6. QED BY <2>2, <2>3, <2>5 DEF PageSafe
<1>7. QED BY <1>3, <1>4, <1>5, <1>6 DEF StreamInvariant

\* Every step keeps the invariant.
LEMMA StreamInvariantNext == StreamInvariant /\ [Next]_vars => StreamInvariant'
<1> SUFFICES ASSUME StreamInvariant, [Next]_vars PROVE StreamInvariant'
  OBVIOUS
<1>1. CASE Write \/ DeleteDebate BY <1>1, LockStep
<1>2. CASE WriterStep BY <1>2, WriterStepStep
<1>3. CASE WriteFails BY <1>3, WriteFailsStep
<1>4. ASSUME NEW p \in Pages, LoadPage(p) \/ StreamStep(p) \/ Cut(p) PROVE StreamInvariant'
  BY <1>4, LoadPageStep, OpenStreamStep, SubscribeStreamStep, ReplayStep, ReplayFailsStep,
     SendLiveStep, CutStep DEF StreamStep
<1>5. ASSUME NEW w \in Waiters,
             StartWaiting(w) \/ CheckTurn(w) \/ GiveUp(w) \/ WakeByEvent(w) \/ WakeByTimer(w)
      PROVE  StreamInvariant'
  BY <1>5, WaiterStep
<1>6. CASE UNCHANGED vars
  <2>1. UNCHANGED <<status, turn, stored, writer, hub, stream, page, waiter>>
    BY <1>6 DEF vars, debate
  <2>2. stored \in Nat BY DEF StreamInvariant, StreamTypes
  <2>3. (Exists' <=> Exists) /\ Published' = Published /\ stored' >= stored
    BY <2>1, <2>2 DEF Exists, Published
  <2>4. WriterFits' BY <2>1 DEF StreamInvariant, WriterFits, Exists
  <2>5. QED BY <2>1, <2>3, <2>4, SilentStep DEF StreamInvariant, StreamTypes
<1>7. QED BY <1>1, <1>2, <1>3, <1>4, <1>5, <1>6 DEF Next

\* What is stored, announced, waiting, sent and shown fits together at every moment.
THEOREM StreamInvariantHolds == Spec => []StreamInvariant
BY StreamInvariantInit, StreamInvariantNext, PTL DEF Spec

\* The hub (hub.go) keeps at most a channel for each who listens, and nothing for others.
THEOREM HubAgreesHolds == Spec => []HubAgrees
<1>1. StreamInvariant => HubAgrees BY DEF StreamInvariant
<1>2. QED BY <1>1, StreamInvariantHolds, PTL

\* handleEvents sends no message twice and none after a later one.
THEOREM SentInOrderHolds == Spec => []SentInOrder
<1>1. StreamInvariant => SentInOrder BY DEF StreamInvariant, PageSafe, SentBefore, SentInOrder
<1>2. QED BY <1>1, StreamInvariantHolds, PTL

\* A page whose channel has not overflowed shows the transcript without a hole.
THEOREM NoHolesHolds == Spec => []NoHoles
<1>1. StreamInvariant => NoHoles BY DEF StreamInvariant, PageSafe, NoHole, NoHoles
<1>2. QED BY <1>1, StreamInvariantHolds, PTL
===============================================================================
