------------------------------ MODULE Dispatch ------------------------------
(***************************************************************************)
(* One session of the control protocol (protocol/dispatch.rs): handshake,  *)
(* the loop that serialises control requests, drains the outbound queue    *)
(* and pings; the handler's event subscriptions (handler/subscription.rs), *)
(* their sequence numbers (authority.rs) and the fan-out tasks between the *)
(* authority and the queue.                                                *)
(***************************************************************************)
EXTENDS Naturals, Sequences, FiniteSets

CONSTANTS Subs,          \* subscription ids a session may open
          EventTopics,   \* topics events are emitted on; "*" subscribes to all
          MaxInbox,      \* bound on the messages of the host in flight
          MaxControl,    \* bound on the control requests
          MaxEvents,     \* bound on the events of a subscription
          DrainBatch     \* 64 in the code

VARIABLES
    phase,     \* the dispatch loop
    inbox,     \* what the host sent and recv has not returned yet
    outq,      \* the unbounded queue behind every ResponseSink
    received,  \* what the host has received
    drained,   \* messages sent in this priority pass
    sink,      \* the handler has a sink
    sub,       \* [Subs -> [topic, next_seq]], the authority's subscriptions
    chan,      \* [Subs -> the channel to the fan-out task]
    fan,       \* [Subs -> the fan-out task]
    hand,      \* [Subs -> the event the task holds between recv and send]
    about,     \* the subscription a handled request is about
    asks,      \* control requests sent by the host
    taken,     \* control requests recv returned
    host_up

dspVars == <<phase, inbox, outq, received, drained, sink, sub, chan, fan, hand, about, asks, taken, host_up>>

ASSUME DispatchAssumption ==
    /\ MaxControl \in Nat /\ MaxEvents \in Nat /\ DrainBatch \in Nat
    /\ "none" \notin Subs /\ "none" \notin EventTopics

Closed == [topic |-> "none", next_seq |-> 0]

\* ClientToRuntime, n is its correlation id; a control request is a Subscribe, an
\* Unsubscribe or any other
ClientMessage == [kind : {"hello", "old hello", "reply", "pong"}, n : {0}, arg : {"none"}]
    \cup [kind : {"subscribe"}, n : 1..MaxControl, arg : EventTopics \cup {"*"}]
    \cup [kind : {"unsubscribe"}, n : 1..MaxControl, arg : Subs]
    \cup [kind : {"control"}, n : 1..MaxControl, arg : {"none"}]
Controls == {"subscribe", "unsubscribe", "control"}

\* RuntimeToClient: n is a correlation id or a sequence number
RuntimeMessage == [kind : {"welcome", "goodbye", "ping"}, of : {"none"}, n : {0}]
    \cup [kind : {"response"}, of : Subs \cup {"none"}, n : 1..MaxControl]
    \cup [kind : {"event"}, of : Subs, n : 0..MaxEvents]
ToHost(kind, of, n) == [kind |-> kind, of |-> of, n |-> n]

DspTypeOK ==
    /\ phase \in {"handshake", "draining", "selecting", "handling", "answering", "leaving", "flushing", "over"}
    /\ inbox \in Seq(ClientMessage) /\ outq \in Seq(RuntimeMessage) /\ received \in Seq(RuntimeMessage)
    /\ drained \in 0..DrainBatch /\ sink \in BOOLEAN /\ host_up \in BOOLEAN
    /\ sub \in [Subs -> [topic : EventTopics \cup {"*", "none"}, next_seq : 0..(MaxEvents + 1)]]
    /\ chan \in [Subs -> Seq(0..MaxEvents)] /\ fan \in [Subs -> {"none", "running", "aborted", "ended"}]
    /\ hand \in [Subs -> 0..(MaxEvents + 1)]
    /\ about \in Subs \cup {"none"} /\ asks \in 0..MaxControl /\ taken \in 0..MaxControl

NoEvent == MaxEvents + 1

DspInit ==
    /\ phase = "handshake" /\ inbox = <<>> /\ outq = <<>> /\ received = <<>> /\ drained = 0
    /\ sink = FALSE /\ sub = [s \in Subs |-> Closed] /\ chan = [s \in Subs |-> <<>>]
    /\ fan = [s \in Subs |-> "none"] /\ hand = [s \in Subs |-> NoEvent]
    /\ about = "none" /\ asks = 0 /\ taken = 0 /\ host_up = TRUE

-----------------------------------------------------------------------------
(* The host (external).                                                    *)

HostSends ==
    /\ host_up /\ Len(inbox) < MaxInbox
    /\ \/ /\ \E k \in {"hello", "old hello", "reply", "pong"} :
                inbox' = Append(inbox, [kind |-> k, n |-> 0, arg |-> "none"])
          /\ UNCHANGED asks
       \/ /\ asks < MaxControl /\ asks' = asks + 1
          /\ \E m \in ClientMessage :
                /\ m.kind \in Controls /\ m.n = asks'
                /\ m.kind = "subscribe" =>
                     Cardinality({s \in Subs : fan[s] = "none"}) > Len(SelectSeq(inbox, LAMBDA x : x.kind = "subscribe"))
                /\ inbox' = Append(inbox, m)
    /\ UNCHANGED <<phase, outq, received, drained, sink, sub, chan, fan, hand, about, taken, host_up>>

HostCloses ==
    /\ host_up /\ host_up' = FALSE
    /\ UNCHANGED <<phase, inbox, outq, received, drained, sink, sub, chan, fan, hand, about, asks, taken>>

-----------------------------------------------------------------------------
(* run                                                                     *)

\* transport.send: what is sent to a host that is gone is lost
Delivered(m) == IF host_up THEN Append(received, m) ELSE received

\* The first message must be a compatible Hello; anything else is refused.
HandshakeStep ==
    /\ phase = "handshake" /\ inbox # <<>>
    /\ inbox' = Tail(inbox)
    /\ IF Head(inbox).kind = "hello"
       THEN /\ received' = Delivered(ToHost("welcome", "none", 0))
            /\ phase' = IF host_up THEN "draining" ELSE "over"
            /\ sink' = host_up
       ELSE /\ received' = Delivered(ToHost("goodbye", "none", 0))
            /\ phase' = "over" /\ UNCHANGED sink
    /\ taken' = IF Head(inbox).kind \in Controls THEN taken + 1 ELSE taken
    /\ UNCHANGED <<outq, drained, sub, chan, fan, hand, about, asks, host_up>>

NothingToRecv == inbox = <<>> /\ ~host_up

HandshakeEnds ==
    /\ phase = "handshake" /\ NothingToRecv
    /\ phase' = "over"
    /\ UNCHANGED <<inbox, outq, received, drained, sink, sub, chan, fan, hand, about, asks, taken, host_up>>

\* The priority pass at the head of the loop; a failed send ends the pass.
MDrain ==
    /\ phase = "draining"
    /\ IF outq = <<>> \/ drained = DrainBatch
       THEN phase' = "selecting" /\ drained' = 0 /\ UNCHANGED <<outq, received>>
       ELSE /\ outq' = SubSeq(outq, 1, Len(outq) - 1) /\ received' = Delivered(outq[Len(outq)])
            /\ IF host_up THEN drained' = drained + 1 /\ UNCHANGED phase
                          ELSE phase' = "selecting" /\ drained' = 0
    /\ UNCHANGED <<inbox, sink, sub, chan, fan, hand, about, asks, taken, host_up>>

MDrainLong ==
    /\ phase = "draining"
    /\ IF outq = <<>> \/ drained > DrainBatch
       THEN phase' = "selecting" /\ drained' = 0 /\ UNCHANGED <<outq, received>>
       ELSE /\ outq' = Tail(outq) /\ received' = Delivered(Head(outq))
            /\ IF host_up THEN drained' = drained + 1 /\ UNCHANGED phase
                          ELSE phase' = "selecting" /\ drained' = 0
    /\ UNCHANGED <<inbox, sink, sub, chan, fan, hand, about, asks, taken, host_up>>

Drain ==
    /\ phase = "draining"
    /\ IF outq = <<>> \/ drained = DrainBatch
       THEN phase' = "selecting" /\ drained' = 0 /\ UNCHANGED <<outq, received>>
       ELSE /\ outq' = Tail(outq) /\ received' = Delivered(Head(outq))
            /\ IF host_up THEN drained' = drained + 1 /\ UNCHANGED phase
                          ELSE phase' = "selecting" /\ drained' = 0
    /\ UNCHANGED <<inbox, sink, sub, chan, fan, hand, about, asks, taken, host_up>>

SelectOutbound ==
    /\ phase = "selecting" /\ outq # <<>>
    /\ outq' = Tail(outq) /\ received' = Delivered(Head(outq))
    /\ phase' = IF host_up THEN "draining" ELSE "leaving"
    /\ UNCHANGED <<inbox, drained, sink, sub, chan, fan, hand, about, asks, taken, host_up>>

SelectKeepalive ==
    /\ phase = "selecting" /\ outq = <<>>
    /\ \A i \in 1..Len(received) : received[i].kind # "ping"      \* bound: one ping
    /\ outq' = <<ToHost("ping", "none", 0)>> /\ phase' = "draining"
    /\ UNCHANGED <<inbox, received, drained, sink, sub, chan, fan, hand, about, asks, taken, host_up>>

\* recv: a second Hello ends the session; a capability reply without a pending
\* call is logged; a control request is awaited.
SelectInbound ==
    /\ phase = "selecting" /\ inbox # <<>>
    /\ LET m == Head(inbox) IN
       /\ \/ /\ m.kind \in Controls
             /\ phase' = "handling" /\ taken' = taken + 1 /\ UNCHANGED <<inbox, outq>>
          \/ /\ m.kind \in {"hello", "old hello"}
             /\ phase' = "leaving" /\ outq' = Append(outq, ToHost("goodbye", "none", 0))
             /\ inbox' = Tail(inbox) /\ UNCHANGED taken
          \/ /\ m.kind \in {"reply", "pong"}
             /\ phase' = "draining" /\ inbox' = Tail(inbox) /\ UNCHANGED <<outq, taken>>
    /\ UNCHANGED <<received, drained, sink, sub, chan, fan, hand, about, asks, host_up>>

SelectClosed ==
    /\ phase = "selecting" /\ NothingToRecv
    /\ phase' = "leaving"
    /\ UNCHANGED <<inbox, outq, received, drained, sink, sub, chan, fan, hand, about, asks, taken, host_up>>

-----------------------------------------------------------------------------
(* handle_control, awaited by the loop                                     *)

Request == Head(inbox)
Handling(kind) == phase = "handling" /\ Request.kind = kind /\ phase' = "answering"

\* handle_subscribe: the subscription is open and its task runs before the
\* answer is queued; its id is a new one.  (handle_start_run opens the one of
\* its run alike.)
HandleSubscribe ==
    /\ Handling("subscribe")
    /\ \E s \in Subs :
        /\ fan[s] = "none"
        /\ sub' = [sub EXCEPT ![s] = [topic |-> Request.arg, next_seq |-> 0]]
        /\ fan' = [fan EXCEPT ![s] = "running"] /\ about' = s
    /\ UNCHANGED <<inbox, outq, received, drained, sink, chan, hand, asks, taken, host_up>>

Aborted(f) == IF f = "running" THEN "aborted" ELSE f

\* handle_unsubscribe: an unknown id is an error, which the host is told
HandleUnsubscribe ==
    /\ Handling("unsubscribe")
    /\ sub' = [sub EXCEPT ![Request.arg] = Closed]
    /\ fan' = [fan EXCEPT ![Request.arg] = Aborted(@)]
    /\ UNCHANGED <<inbox, outq, received, drained, sink, chan, hand, about, asks, taken, host_up>>

HandleOther ==
    /\ Handling("control")
    /\ UNCHANGED <<inbox, outq, received, drained, sink, sub, chan, fan, hand, about, asks, taken, host_up>>

Answer ==
    /\ phase = "answering"
    /\ inbox' = Tail(inbox) /\ phase' = "draining" /\ about' = "none"
    /\ outq' = Append(outq, ToHost("response", about, Request.n))
    /\ UNCHANGED <<received, drained, sink, sub, chan, fan, hand, asks, taken, host_up>>

\* on_disconnected
Disconnect ==
    /\ phase = "leaving"
    /\ phase' = "flushing" /\ sink' = FALSE
    /\ fan' = [s \in Subs |-> Aborted(fan[s])]
    /\ UNCHANGED <<inbox, outq, received, drained, sub, chan, hand, about, asks, taken, host_up>>

Flush ==
    /\ phase = "flushing"
    /\ IF outq = <<>>
       THEN phase' = "over" /\ UNCHANGED <<outq, received>>
       ELSE outq' = Tail(outq) /\ received' = Delivered(Head(outq)) /\ UNCHANGED phase
    /\ UNCHANGED <<inbox, drained, sink, sub, chan, fan, hand, about, asks, taken, host_up>>

-----------------------------------------------------------------------------
(* The authority's events and the fan-out tasks.                           *)

Matches(s, t) == sub[s].topic \in {"*", t}
Listening(s) == fan[s] \in {"running", "aborted"}

\* emit_locked and emit_scoped: a subscription whose receiver is gone is reaped
Emit(t) ==
    /\ \E s \in Subs : Matches(s, t)
    /\ \A s \in Subs : Matches(s, t) => sub[s].next_seq <= MaxEvents
    /\ chan' = [s \in Subs |-> IF Matches(s, t) /\ Listening(s) THEN Append(chan[s], sub[s].next_seq) ELSE chan[s]]
    /\ sub' = [s \in Subs |-> IF ~Matches(s, t) THEN sub[s]
                              ELSE IF Listening(s) THEN [sub[s] EXCEPT !.next_seq = @ + 1] ELSE Closed]
    /\ UNCHANGED <<phase, inbox, outq, received, drained, sink, fan, hand, about, asks, taken, host_up>>

FanRecv(s) ==
    /\ Listening(s) /\ hand[s] = NoEvent /\ chan[s] # <<>>
    /\ hand' = [hand EXCEPT ![s] = Head(chan[s])] /\ chan' = [chan EXCEPT ![s] = Tail(@)]
    /\ UNCHANGED <<phase, inbox, outq, received, drained, sink, sub, fan, about, asks, taken, host_up>>

FanSend(s) ==
    /\ Listening(s) /\ hand[s] # NoEvent /\ phase # "over"
    /\ outq' = Append(outq, ToHost("event", s, hand[s]))
    /\ hand' = [hand EXCEPT ![s] = NoEvent]
    /\ UNCHANGED <<phase, inbox, received, drained, sink, sub, chan, fan, about, asks, taken, host_up>>

\* The abort takes effect when the task yields; the task also ends when its
\* sender or the queue is gone.
FanEnds(s) ==
    /\ \/ fan[s] = "aborted"
       \/ fan[s] = "running" /\ phase = "over"
       \/ fan[s] = "running" /\ sub[s] = Closed /\ chan[s] = <<>> /\ hand[s] = NoEvent
    /\ fan' = [fan EXCEPT ![s] = "ended"] /\ hand' = [hand EXCEPT ![s] = NoEvent]
    /\ chan' = [chan EXCEPT ![s] = <<>>]
    /\ UNCHANGED <<phase, inbox, outq, received, drained, sink, sub, about, asks, taken, host_up>>

-----------------------------------------------------------------------------
SessionStep ==
    \/ HandshakeStep \/ HandshakeEnds \/ Drain \/ SelectOutbound \/ SelectKeepalive \/ SelectInbound
    \/ SelectClosed \/ HandleSubscribe \/ HandleUnsubscribe \/ HandleOther \/ Answer \/ Disconnect \/ Flush

DspNext ==
    \/ HostSends \/ HostCloses \/ SessionStep
    \/ \E t \in EventTopics : Emit(t)
    \/ \E s \in Subs : FanRecv(s) \/ FanSend(s) \/ FanEnds(s)

DspSpec == DspInit /\ [][DspNext]_dspVars

-----------------------------------------------------------------------------
(* Properties                                                              *)

EventsOf(s) == [kind : {"event"}, of : {s}, n : 0..MaxEvents]
Responses == [kind : {"response"}, of : Subs \cup {"none"}, n : 1..MaxControl]
Requests == {m \in ClientMessage : m.kind \in Controls}

\* Those of the messages X that are in q have rising numbers, none twice; and
\* one of them has the number n.
Rising(q, X) == \A i, j \in 1..Len(q) : i < j /\ q[i] \in X /\ q[j] \in X => q[i].n < q[j].n
Has(q, X, n) == \E i \in 1..Len(q) : q[i] \in X /\ q[i].n = n

Carried(s) == IF hand[s] = NoEvent THEN 0 ELSE 1
Busy == IF phase \in {"handling", "answering"} THEN 1 ELSE 0

\* The host can trust the sequence numbers to detect gaps: the events of a
\* subscription reach it as 0, 1, 2, ... in order, and while the subscription
\* is open nothing it counted is missing between the authority and the host,
\* however emits, the fan-out tasks, the two ways out of the queue and other
\* subscriptions interleave (emit_locked, handle_subscribe, run).  Between them
\* control requests are answered once each, in the order they were sent: the
\* answers on their way are exactly those of the requests that were taken.
StreamsAreGapless ==
    host_up =>
        LET out == received \o outq IN
        /\ \A s \in Subs :
              /\ Rising(out, EventsOf(s))
              /\ \A n \in 0..MaxEvents : Has(out, EventsOf(s), n) => \A k \in 0..n : Has(out, EventsOf(s), k)
              /\ sub[s] # Closed /\ fan[s] = "running" =>
                   \A n \in 0..MaxEvents :
                       Has(out, EventsOf(s), n) <=> n + Carried(s) + Len(chan[s]) < sub[s].next_seq
        /\ Rising(out, Responses)
        /\ sink => \A n \in 1..MaxControl : Has(out, Responses, n) <=> n + Busy <= taken

=============================================================================
