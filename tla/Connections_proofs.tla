-------------------------- MODULE Connections_proofs ------------------------
(***************************************************************************)
(* The ways out of the process: the transport to the desktop shell, the    *)
(* protocol session that runs over it, the RPC connections to the          *)
(* extensions' hosts, and the completions of the model providers.          *)
(*                                                                         *)
(* The transport implements Mailbox for any number of frames and of        *)
(* messages of the host.  Every step of its two threads is a step of the   *)
(* mailbox or none, because a frame that waits is in one place only        *)
(* (Once): in the buffer, among the frames that are flushed, or in the     *)
(* hands of send; and because the next frame is a new one (Fresh).         *)
(*                                                                         *)
(* SlotsMatchCalls holds of a connection for any number of callers.  What  *)
(* makes it inductive is that msgids are handed out once: fewer than       *)
(* next_msgid are in use, no two calls have the same one, and a call that  *)
(* was answered or failed has no slot left that a later frame could        *)
(* resolve.                                                                *)
(*                                                                         *)
(* StreamsAreGapless holds for any number of subscriptions and events.  At *)
(* any time there is a b such that exactly the events below b of a         *)
(* subscription were sent; b itself is in the task's hands or first in the *)
(* channel, the following ones are behind it, and the authority's next     *)
(* number comes after them (Stream).  For the answers: the requests that   *)
(* wait are those sent and not taken, so the one that is handled is the    *)
(* last that was taken (Waiting, TakenIsLast).                             *)
(*                                                                         *)
(* CallsSurviveTranslation holds for any answers and conversations.  What  *)
(* the loop has put together, and after it every event that is still in    *)
(* the channel, make up exactly what the server has sent so far, and a     *)
(* Done stands only behind the whole answer (InStream); the pump has the   *)
(* block open that the server is in, with the input it has sent of it.     *)
(* The requests lose no call and no result (Faithful).                     *)
(***************************************************************************)
EXTENDS Transport, RpcConnection, Dispatch, LlmStream, RecursionLemmas, FiniteSetTheorems, SequenceTheorems, TLAPS

Distinct(q) == \A i, j \in 1..Len(q) : q[i] = q[j] => i = j

Once ==
    /\ Distinct(buffered) /\ Distinct(flush)
    /\ Elems(buffered) \cap Elems(flush) = {}
    /\ InHand \cap (Elems(buffered) \cup Elems(flush)) = {}

Handled == Elems(buffered) \cup Elems(flush) \cup InHand \cup Elems(mailed) \cup failed

Fresh == \A f \in Handled : f < next_frame

Held == sender.pc \in {"buffering", "replying"} => sender.frame # 0

GipsInv == GipsTypeOK /\ Once /\ Fresh /\ Held

-----------------------------------------------------------------------------
(* What the queues hold.  *)

\* A new frame at the end of a queue.
LEMMA ElemsAppend ==
    ASSUME NEW S, NEW q \in Seq(S), NEW e \in S
    PROVE  /\ Append(q, e) \in Seq(S) /\ Elems(Append(q, e)) = Elems(q) \cup {e}
           /\ Distinct(q) /\ e \notin Elems(q) => Distinct(Append(q, e))
<1>1. /\ Append(q, e) \in Seq(S) /\ Len(Append(q, e)) = Len(q) + 1 /\ Len(q) \in Nat
      /\ Append(q, e)[Len(q) + 1] = e
      /\ \A i \in 1..Len(q) : Append(q, e)[i] = q[i]
  OBVIOUS
<1>2. 1..(Len(q) + 1) = 1..Len(q) \cup {Len(q) + 1}
  BY <1>1
<1> DEFINE a == Append(q, e)
<1> HIDE DEF a
<1>3. Elems(a) = Elems(q) \cup {e}
  BY <1>1, <1>2 DEF Elems, a
<1>4. ASSUME Distinct(q), e \notin Elems(q) PROVE Distinct(a)
  BY <1>1, <1>2, <1>4 DEF Distinct, Elems, a
<1> QED BY <1>1, <1>3, <1>4 DEF a

\* Taking the first frame off a queue.
LEMMA ElemsTail ==
    ASSUME NEW S, NEW q \in Seq(S), q # <<>>, Distinct(q)
    PROVE  /\ Tail(q) \in Seq(S) /\ Head(q) \in S /\ Head(q) \in Elems(q)
           /\ Elems(Tail(q)) = Elems(q) \ {Head(q)} /\ Distinct(Tail(q))
<1>1. /\ Tail(q) \in Seq(S) /\ Head(q) \in S /\ Head(q) = q[1] /\ Len(q) \in Nat /\ Len(q) >= 1
      /\ Len(Tail(q)) = Len(q) - 1
      /\ \A i \in 1..(Len(q) - 1) : Tail(q)[i] = q[i + 1]
  OBVIOUS
<1> DEFINE u == Tail(q)
<1> HIDE DEF u
<1>2. Distinct(u)
  BY <1>1 DEF Distinct, u
<1>3. ASSUME NEW x \in Elems(u) PROVE x \in Elems(q) \ {Head(q)}
  <2>1. PICK i \in 1..(Len(q) - 1) : x = q[i + 1]
    BY <1>1, <1>3 DEF Elems, u
  <2>2. i + 1 \in 1..Len(q) /\ 1 \in 1..Len(q) /\ i + 1 # 1
    BY <1>1
  <2> QED BY <2>1, <2>2, <1>1 DEF Elems, Distinct
<1>4. ASSUME NEW x \in Elems(q) \ {Head(q)} PROVE x \in Elems(u)
  <2>1. PICK i \in 1..Len(q) : x = q[i]
    BY <1>4 DEF Elems
  <2>2. i - 1 \in 1..(Len(q) - 1) /\ (i - 1) + 1 = i
    BY <2>1, <1>1, <1>4
  <2>3. u[i - 1] = x
    BY <2>1, <2>2, <1>1 DEF u
  <2> QED BY <2>2, <2>3, <1>1 DEF Elems, u
<1>5. Elems(u) = Elems(q) \ {Head(q)}
  BY <1>3, <1>4
<1>6. Head(q) \in Elems(q)
  BY <1>1 DEF Elems
<1> QED BY <1>1, <1>2, <1>5, <1>6 DEF u

\* Putting a frame back at the front of a queue.
LEMMA ElemsCons ==
    ASSUME NEW S, NEW q \in Seq(S), NEW e \in S
    PROVE  /\ <<e>> \o q \in Seq(S) /\ Elems(<<e>> \o q) = {e} \cup Elems(q)
           /\ Distinct(q) /\ e \notin Elems(q) => Distinct(<<e>> \o q)
<1>1. /\ <<e>> \o q \in Seq(S) /\ Len(<<e>> \o q) = Len(q) + 1 /\ Len(q) \in Nat
      /\ (<<e>> \o q)[1] = e
      /\ \A i \in 2..(Len(q) + 1) : (<<e>> \o q)[i] = q[i - 1]
  OBVIOUS
<1> DEFINE a == <<e>> \o q
<1> HIDE DEF a
<1>2. ASSUME NEW x \in Elems(a) PROVE x \in {e} \cup Elems(q)
  <2>1. PICK i \in 1..(Len(q) + 1) : x = a[i]
    BY <1>1, <1>2 DEF Elems, a
  <2>2. CASE i = 1
    BY <2>1, <2>2, <1>1 DEF a
  <2>3. CASE i # 1
    <3>1. i - 1 \in 1..Len(q) /\ x = q[i - 1]
      BY <2>1, <2>3, <1>1 DEF a
    <3> QED BY <3>1 DEF Elems
  <2> QED BY <2>2, <2>3
<1>3. ASSUME NEW x \in {e} \cup Elems(q) PROVE x \in Elems(a)
  <2>1. CASE x = e
    BY <2>1, <1>1 DEF Elems, a
  <2>2. CASE x \in Elems(q)
    <3>1. PICK i \in 1..Len(q) : x = q[i]
      BY <2>2 DEF Elems
    <3>2. i + 1 \in 2..(Len(q) + 1) /\ i + 1 \in 1..(Len(q) + 1) /\ (i + 1) - 1 = i
      BY <1>1
    <3>3. a[i + 1] = x
      BY <3>1, <3>2, <1>1 DEF a
    <3> QED BY <3>2, <3>3, <1>1 DEF Elems, a
  <2> QED BY <2>1, <2>2
<1>4. ASSUME Distinct(q), e \notin Elems(q) PROVE Distinct(a)
  <2> SUFFICES ASSUME NEW i \in 1..(Len(q) + 1), NEW j \in 1..(Len(q) + 1), a[i] = a[j] PROVE i = j
    BY <1>1 DEF Distinct, a
  <2>1. \A k \in 1..(Len(q) + 1) : k # 1 => k - 1 \in 1..Len(q) /\ a[k] = q[k - 1] /\ a[k] \in Elems(q)
    BY <1>1 DEF a, Elems
  <2>2. a[1] = e
    BY <1>1 DEF a
  <2>3. CASE i = 1 \/ j = 1
    BY <2>1, <2>2, <2>3, <1>4
  <2>4. CASE i # 1 /\ j # 1
    BY <2>1, <2>4, <1>4 DEF Distinct
  <2> QED BY <2>3, <2>4
<1> QED BY <1>1, <1>2, <1>3, <1>4 DEF a

\* A queue holds what its type allows.
LEMMA ElemsType == ASSUME NEW S, NEW q \in Seq(S) PROVE Elems(q) \subseteq S
BY DEF Elems

\* The empty queue holds nothing.
LEMMA ElemsEmpty == Elems(<<>>) = {} /\ Distinct(<<>>)
BY DEF Elems, Distinct

-----------------------------------------------------------------------------
(* The invariant.  *)

\* A sender at rest has no frame.
LEMMA NotSendingType == NotSending \in [pc : {"idle", "buffering", "replying", "recaching"}, frame : 0..MaxFrames]
BY TransportAssumption DEF NotSending

\* Nothing was sent at the start.
LEMMA InitGips == GipsInit => GipsInv
<1> SUFFICES ASSUME GipsInit PROVE GipsInv
  OBVIOUS
<1>1. buffered = <<>> /\ flush = <<>> /\ mailed = <<>> /\ failed = {} /\ sender = NotSending
  BY DEF GipsInit
<1>2. Elems(buffered) = {} /\ Elems(flush) = {} /\ Elems(mailed) = {} /\ Distinct(buffered) /\ Distinct(flush)
  BY <1>1, ElemsEmpty
<1>3. InHand = {}
  BY <1>1 DEF InHand, NotSending
<1>5. GipsTypeOK
  <2>1. next_frame \in 1..(MaxFrames + 1) /\ host_sends \in 0..MaxHostSends /\ inbound \in 0..MaxHostSends
    BY TransportAssumption DEF GipsInit
  <2>2. buffered \in Seq(Postings) /\ flush \in Seq(Postings) /\ mailed \in Seq(Postings) /\ failed \subseteq Postings
    BY <1>1
  <2>3. cached \in BOOLEAN /\ closed \in BOOLEAN /\ still_alive \in BOOLEAN
    BY DEF GipsInit
  <2> QED BY <1>1, NotSendingType, <2>1, <2>2, <2>3 DEF GipsInit, GipsTypeOK
<1> QED BY <1>1, <1>2, <1>3, <1>5 DEF GipsInv, Once, Fresh, Handled, Held, NotSending

\* Only frames are handled.
LEMMA HandledFrames == ASSUME GipsInv PROVE Handled \subseteq Nat /\ Handled \subseteq 0..MaxFrames
<1>1. Elems(buffered) \subseteq Postings /\ Elems(flush) \subseteq Postings /\ Elems(mailed) \subseteq Postings
  BY ElemsType DEF GipsInv, GipsTypeOK
<1>2. failed \subseteq Postings /\ InHand \subseteq 0..MaxFrames
  BY DEF GipsInv, GipsTypeOK, InHand
<1>3. Postings \subseteq 0..MaxFrames /\ 0..MaxFrames \subseteq Nat
  BY TransportAssumption DEF Postings
<1> QED BY <1>1, <1>2, <1>3 DEF Handled

\* A frame in the hands of send is one of the frames.
LEMMA Holding ==
    ASSUME GipsInv, sender.pc \in {"buffering", "replying"}
    PROVE  sender.frame \in Postings /\ InHand = {sender.frame}
BY TransportAssumption DEF GipsInv, GipsTypeOK, Held, Postings, InHand

\* A step that leaves the queues, the sender and what became of the frames alone.
LEMMA Elsewhere ==
    ASSUME GipsInv, UNCHANGED <<buffered, closed, sender, next_frame, flush, mailed, failed>>
    PROVE  /\ Once' /\ Fresh' /\ Held'
           /\ UNCHANGED <<Elems(buffered) \cup Elems(flush) \cup InHand, Elems(mailed), failed, closed>>
BY DEF GipsInv, Once, Fresh, Held, Handled, InHand, Elems, Distinct

-----------------------------------------------------------------------------
(* One lemma per step: it keeps the invariant and is a step of the mailbox *)
(* or leaves the mailbox alone.                                            *)

Step == GipsInv' /\ [Mail!MailNext]_(Mail!mailVars)

\* A new frame is posted.
LEMMA TakeStep == ASSUME GipsInv, SendTake PROVE Step
<1>0. /\ sender.pc = "idle" /\ next_frame \in Postings /\ next_frame' = next_frame + 1 /\ next_frame \in Nat
      /\ sender' = [pc |-> IF cached THEN "replying" ELSE "buffering", frame |-> next_frame]
      /\ UNCHANGED <<buffered, closed, flush, mailed, failed>>
  BY TransportAssumption DEF SendTake, GipsInv, GipsTypeOK, Postings
<1>1. sender'.pc \in {"replying", "buffering"} /\ sender'.frame = next_frame
  BY <1>0
<1>2. InHand = {} /\ InHand' = {next_frame}
  BY <1>0, <1>1 DEF InHand
<1>3. next_frame \notin Handled /\ Handled' = Handled \cup {next_frame}
  <2>1. next_frame \notin Handled
    BY <1>0 DEF GipsInv, Fresh
  <2> QED BY <2>1, <1>0, <1>2 DEF Handled
<1>4. Fresh'
  <2> SUFFICES ASSUME NEW f \in Handled' PROVE f < next_frame'
    BY DEF Fresh
  <2>1. CASE f = next_frame
    BY <2>1, <1>0
  <2>2. CASE f \in Handled
    <3>1. f < next_frame /\ f \in Nat
      BY <2>2, HandledFrames DEF GipsInv, Fresh
    <3> QED BY <3>1, <1>0
  <2> QED BY <2>1, <2>2, <1>3
<1>5. Once' /\ Held'
  BY <1>0, <1>1, <1>2, <1>3 DEF GipsInv, Once, Held, Handled, Postings
<1>6. GipsTypeOK'
  <2>1. sender' \in [pc : {"idle", "buffering", "replying", "recaching"}, frame : 0..MaxFrames]
    BY <1>0, TransportAssumption DEF Postings
  <2>2. next_frame' \in 1..(MaxFrames + 1)
    BY <1>0, TransportAssumption DEF Postings
  <2> QED BY <1>0, <2>1, <2>2 DEF SendTake, GipsInv, GipsTypeOK
<1>7. Mail!Post(next_frame)
  BY <1>0, <1>2, <1>3 DEF Mail!Post, Handled
<1> QED BY <1>0, <1>4, <1>5, <1>6, <1>7 DEF Step, GipsInv, Mail!MailNext

\* The frame moves from the hands of send to the buffer.
LEMMA BufferStep == ASSUME GipsInv, SendBuffer PROVE Step
<1>0. /\ sender.pc = "buffering" /\ buffered' = Append(buffered, sender.frame) /\ sender' = NotSending
      /\ UNCHANGED <<closed, flush, mailed, failed, next_frame>>
  BY DEF SendBuffer
<1>1. sender.frame \in Postings /\ InHand = {sender.frame} /\ InHand' = {} /\ buffered \in Seq(Postings)
  BY <1>0, Holding DEF InHand, NotSending, GipsInv, GipsTypeOK
<1>2. sender.frame \notin Elems(buffered) /\ sender.frame \notin Elems(flush) /\ Distinct(buffered)
  BY <1>1 DEF GipsInv, Once
<1>3. buffered' \in Seq(Postings) /\ Elems(buffered') = Elems(buffered) \cup {sender.frame} /\ Distinct(buffered')
  BY <1>0, <1>1, <1>2, ElemsAppend
<1>4. Once'
  BY <1>0, <1>1, <1>2, <1>3 DEF GipsInv, Once
<1>5. Handled' = Handled
  BY <1>0, <1>1, <1>3 DEF Handled
<1>6. Fresh' /\ Held'
  BY <1>0, <1>5 DEF GipsInv, Fresh, Held, NotSending
<1>7. GipsTypeOK'
  BY <1>0, <1>3, NotSendingType DEF SendBuffer, GipsInv, GipsTypeOK
<1>8. UNCHANGED Mail!mailVars
  BY <1>0, <1>1, <1>3 DEF Mail!mailVars
<1> QED BY <1>4, <1>6, <1>7, <1>8 DEF Step, GipsInv

\* The frame reached the host.
LEMMA ReplyStep == ASSUME GipsInv, SendReply PROVE Step
<1>0. /\ sender.pc = "replying" /\ mailed' = Append(mailed, sender.frame) /\ sender' = [sender EXCEPT !.pc = "recaching"]
      /\ UNCHANGED <<closed, flush, buffered, failed, next_frame>>
      /\ sender \in [pc : {"idle", "buffering", "replying", "recaching"}, frame : 0..MaxFrames]
  BY DEF SendReply, GipsInv, GipsTypeOK
<1>1. /\ sender.frame \in Postings /\ InHand = {sender.frame} /\ InHand' = {} /\ mailed \in Seq(Postings)
      /\ sender' \in [pc : {"idle", "buffering", "replying", "recaching"}, frame : 0..MaxFrames]
  BY <1>0, Holding DEF InHand, GipsInv, GipsTypeOK
<1>2. sender.frame \notin Elems(buffered) /\ sender.frame \notin Elems(flush)
  BY <1>1 DEF GipsInv, Once
<1>3. mailed' \in Seq(Postings) /\ Elems(mailed') = Elems(mailed) \cup {sender.frame}
  BY <1>0, <1>1, ElemsAppend
<1>4. Once'
  BY <1>0, <1>1 DEF GipsInv, Once
<1>5. Handled' = Handled
  BY <1>0, <1>1, <1>3 DEF Handled
<1>6. Fresh' /\ Held'
  BY <1>0, <1>5 DEF GipsInv, Fresh, Held
<1>7. GipsTypeOK'
  BY <1>0, <1>1, <1>3 DEF SendReply, GipsInv, GipsTypeOK
<1>8. Mail!Arrive(sender.frame)
  BY <1>0, <1>1, <1>2, <1>3 DEF Mail!Arrive
<1> QED BY <1>1, <1>4, <1>6, <1>7, <1>8 DEF Step, GipsInv, Mail!MailNext

\* The sender is told that the frame did not reach the host.
LEMMA FailStep == ASSUME GipsInv, SendFails PROVE Step
<1>0. /\ sender.pc = "replying" /\ failed' = failed \cup {sender.frame} /\ sender' = NotSending
      /\ UNCHANGED <<closed, flush, buffered, mailed, next_frame>>
  BY DEF SendFails
<1>1. sender.frame \in Postings /\ InHand = {sender.frame} /\ InHand' = {}
  BY <1>0, Holding DEF InHand, NotSending
<1>2. sender.frame \notin Elems(buffered) /\ sender.frame \notin Elems(flush)
  BY <1>1 DEF GipsInv, Once
<1>4. Once'
  BY <1>0, <1>1 DEF GipsInv, Once
<1>5. Handled' = Handled
  BY <1>0, <1>1 DEF Handled
<1>6. Fresh' /\ Held'
  BY <1>0, <1>5 DEF GipsInv, Fresh, Held, NotSending
<1>7. GipsTypeOK'
  BY <1>0, <1>1, NotSendingType DEF SendFails, GipsInv, GipsTypeOK
<1>8. Mail!Refuse(sender.frame)
  BY <1>0, <1>1, <1>2 DEF Mail!Refuse
<1> QED BY <1>1, <1>4, <1>6, <1>7, <1>8 DEF Step, GipsInv, Mail!MailNext

\* Closing gives up the buffer; what is being flushed still waits.
LEMMA CloseStep == ASSUME GipsInv, Close PROVE Step
<1>0. /\ sender.pc = "idle" /\ closed' = TRUE /\ buffered' = <<>>
      /\ UNCHANGED <<sender, flush, mailed, failed, next_frame>>
  BY DEF Close
<1>1. InHand = {} /\ InHand' = {}
  BY <1>0 DEF InHand
<1>2. Elems(buffered') = {} /\ Distinct(buffered') /\ buffered' \in Seq(Postings)
  BY <1>0, ElemsEmpty
<1>3. Elems(buffered) \subseteq Postings /\ Elems(buffered) \cap Elems(flush) = {}
  BY ElemsType DEF GipsInv, GipsTypeOK, Once
<1>4. Once'
  BY <1>0, <1>1, <1>2 DEF GipsInv, Once
<1>5. Handled' \subseteq Handled
  BY <1>0, <1>1, <1>2 DEF Handled
<1>6. Fresh' /\ Held'
  BY <1>0, <1>5 DEF GipsInv, Fresh, Held
<1>7. GipsTypeOK'
  BY <1>0, <1>2 DEF Close, GipsInv, GipsTypeOK
<1>8. Mail!Shut(Elems(buffered))
  BY <1>0, <1>1, <1>2, <1>3 DEF Mail!Shut
<1> QED BY <1>3, <1>4, <1>6, <1>7, <1>8 DEF Step, GipsInv, Mail!MailNext

\* What was buffered is taken out to be flushed.
LEMMA FlushTakeStep == ASSUME GipsInv, FlushTake PROVE Step
<1>0. /\ flush = <<>> /\ UNCHANGED <<closed, sender, mailed, failed, next_frame>>
      /\ \/ UNCHANGED <<buffered, flush>>
         \/ flush' = buffered /\ buffered' = <<>>
  BY DEF FlushTake
<1>1. InHand' = InHand
  BY <1>0 DEF InHand
<1>2. Elems(<<>>) = {} /\ Distinct(<<>>) /\ <<>> \in Seq(Postings)
  BY ElemsEmpty
<1>3. /\ Elems(buffered') \cup Elems(flush') = Elems(buffered) \cup Elems(flush)
      /\ Elems(buffered') \cap Elems(flush') = {} /\ Distinct(buffered') /\ Distinct(flush')
      /\ buffered' \in Seq(Postings) /\ flush' \in Seq(Postings)
  BY <1>0, <1>2 DEF GipsInv, Once, GipsTypeOK
<1>4. Once'
  BY <1>1, <1>3 DEF GipsInv, Once
<1>5. Handled' = Handled
  BY <1>0, <1>1, <1>3 DEF Handled
<1>6. Fresh' /\ Held'
  BY <1>0, <1>5 DEF GipsInv, Fresh, Held
<1>7. GipsTypeOK'
  BY <1>3 DEF FlushTake, GipsInv, GipsTypeOK
<1>8. UNCHANGED Mail!mailVars
  BY <1>0, <1>1, <1>3 DEF Mail!mailVars
<1> QED BY <1>4, <1>6, <1>7, <1>8 DEF Step, GipsInv

\* The first frame of the flush reached the host.
LEMMA FlushSendStep == ASSUME GipsInv, FlushSends PROVE Step
<1>0. /\ flush # <<>> /\ mailed' = Append(mailed, Head(flush)) /\ flush' = Tail(flush)
      /\ UNCHANGED <<closed, sender, buffered, failed, next_frame>>
      /\ flush \in Seq(Postings) /\ mailed \in Seq(Postings) /\ Distinct(flush)
  BY DEF FlushSends, GipsInv, GipsTypeOK, Once
<1>1. InHand' = InHand
  BY <1>0 DEF InHand
<1>2. /\ flush' \in Seq(Postings) /\ Head(flush) \in Postings /\ Head(flush) \in Elems(flush)
      /\ Elems(flush') = Elems(flush) \ {Head(flush)} /\ Distinct(flush')
  BY <1>0, ElemsTail
<1>3. mailed' \in Seq(Postings) /\ Elems(mailed') = Elems(mailed) \cup {Head(flush)}
  BY <1>0, <1>2, ElemsAppend
<1>4. Head(flush) \notin Elems(buffered) /\ Head(flush) \notin InHand
  BY <1>2 DEF GipsInv, Once
<1>5. Once'
  BY <1>0, <1>1, <1>2 DEF GipsInv, Once
<1>6. Handled' = Handled
  BY <1>0, <1>1, <1>2, <1>3 DEF Handled
<1>7. Fresh' /\ Held'
  BY <1>0, <1>6 DEF GipsInv, Fresh, Held
<1>8. GipsTypeOK'
  BY <1>0, <1>2, <1>3 DEF FlushSends, FlushNext, GipsInv, GipsTypeOK
<1>9. Mail!Arrive(Head(flush))
  BY <1>0, <1>1, <1>2, <1>3, <1>4 DEF Mail!Arrive
<1> QED BY <1>2, <1>5, <1>7, <1>8, <1>9 DEF Step, GipsInv, Mail!MailNext

\* The first frame of the flush goes back to the buffer, or is given up when
\* the transport was closed meanwhile.
LEMMA RequeueStep == ASSUME GipsInv, FlushRequeues PROVE Step
<1>0. /\ flush # <<>> /\ flush' = Tail(flush) /\ UNCHANGED <<closed, sender, mailed, failed, next_frame>>
      /\ buffered' = IF closed THEN buffered ELSE <<Head(flush)>> \o buffered
      /\ flush \in Seq(Postings) /\ buffered \in Seq(Postings) /\ Distinct(flush) /\ closed \in BOOLEAN
  BY DEF FlushRequeues, GipsInv, GipsTypeOK, Once
<1>1. InHand' = InHand
  BY <1>0 DEF InHand
<1>2. /\ flush' \in Seq(Postings) /\ Head(flush) \in Postings /\ Head(flush) \in Elems(flush)
      /\ Elems(flush') = Elems(flush) \ {Head(flush)} /\ Distinct(flush')
  BY <1>0, ElemsTail
<1>3. /\ Head(flush) \notin Elems(buffered) /\ Head(flush) \notin InHand /\ Distinct(buffered)
  BY <1>2 DEF GipsInv, Once
<1>4. CASE closed
  <2>1. Once'
    BY <1>0, <1>1, <1>2, <1>4 DEF GipsInv, Once
  <2>2. Handled' \subseteq Handled
    BY <1>0, <1>1, <1>2, <1>4 DEF Handled
  <2>3. Fresh' /\ Held'
    BY <1>0, <2>2 DEF GipsInv, Fresh, Held
  <2>4. GipsTypeOK'
    BY <1>0, <1>2, <1>4 DEF FlushRequeues, FlushNext, GipsInv, GipsTypeOK
  <2>5. Mail!Shut({Head(flush)})
    BY <1>0, <1>1, <1>2, <1>3, <1>4 DEF Mail!Shut
  <2> QED BY <1>2, <2>1, <2>3, <2>4, <2>5 DEF Step, GipsInv, Mail!MailNext
<1>5. CASE ~closed
  <2>0. /\ buffered' \in Seq(Postings) /\ Elems(buffered') = {Head(flush)} \cup Elems(buffered)
        /\ Distinct(buffered')
    BY <1>0, <1>2, <1>3, <1>5, ElemsCons
  <2>1. Once'
    BY <1>0, <1>1, <1>2, <1>3, <2>0 DEF GipsInv, Once
  <2>2. Handled' = Handled
    BY <1>0, <1>1, <1>2, <2>0 DEF Handled
  <2>3. Fresh' /\ Held'
    BY <1>0, <2>2 DEF GipsInv, Fresh, Held
  <2>4. GipsTypeOK'
    BY <1>0, <1>2, <2>0 DEF FlushRequeues, FlushNext, GipsInv, GipsTypeOK
  <2>5. UNCHANGED Mail!mailVars
    BY <1>0, <1>1, <1>2, <2>0 DEF Mail!mailVars
  <2> QED BY <2>1, <2>3, <2>4, <2>5 DEF Step, GipsInv
<1> QED BY <1>0, <1>4, <1>5

\* The steps that touch no frame.
LEMMA QuietStep ==
    ASSUME GipsInv, UNCHANGED <<buffered, closed, sender, next_frame, flush, mailed, failed>>, GipsTypeOK'
    PROVE  Step
BY Elsewhere DEF Step, GipsInv, Mail!mailVars

\* send puts the connection back.
LEMMA RecacheStep == ASSUME GipsInv, SendRecache PROVE Step
<1>0. /\ sender.pc = "recaching" /\ sender' = NotSending
      /\ UNCHANGED <<buffered, closed, next_frame, flush, mailed, failed>>
  BY DEF SendRecache
<1>1. InHand = {} /\ InHand' = {}
  BY <1>0 DEF InHand, NotSending
<1>2. Once'
  BY <1>0, <1>1 DEF GipsInv, Once
<1>3. Handled' = Handled
  BY <1>0, <1>1 DEF Handled
<1>4. Fresh' /\ Held'
  BY <1>0, <1>3 DEF GipsInv, Fresh, Held, NotSending
<1>5. GipsTypeOK'
  BY <1>0, NotSendingType DEF SendRecache, GipsInv, GipsTypeOK
<1>6. UNCHANGED Mail!mailVars
  BY <1>0, <1>1 DEF Mail!mailVars
<1> QED BY <1>2, <1>4, <1>5, <1>6 DEF Step, GipsInv

-----------------------------------------------------------------------------
(* The accept thread forwards what it accepted, once.  *)

Counted ==
    inbound + (IF accepting \in {"accepted", "flushing", "forwarding"} THEN 1 ELSE 0) <= host_sends

\* No connection comes out of nowhere: each one that waits or is being served
\* was opened by the host.
LEMMA NextCounted == GipsTypeOK /\ Counted /\ [GipsNext]_gipsVars => Counted'
<1> SUFFICES ASSUME GipsTypeOK, Counted, [GipsNext]_gipsVars PROVE Counted'
  OBVIOUS
<1>0. inbound \in Nat /\ host_sends \in Nat
  BY TransportAssumption DEF GipsTypeOK
<1>1. CASE UNCHANGED <<inbound, host_sends, accepting>>
  BY <1>1 DEF Counted
<1>2. CASE SendTake \/ SendBuffer \/ SendReply \/ SendRecache \/ SendFails \/ Close \/ UNCHANGED gipsVars
  BY <1>1, <1>2 DEF SendTake, SendBuffer, SendReply, SendRecache, SendFails, Close, gipsVars
<1>3. ASSUME NEW parses \in BOOLEAN, TryAccept(parses) PROVE Counted'
  BY <1>0, <1>3 DEF TryAccept, Counted
<1>4. CASE AcceptEnds \/ CacheConnection \/ FlushTake
  BY <1>0, <1>4 DEF AcceptEnds, CacheConnection, FlushTake, Counted
<1>5. CASE FlushSends \/ FlushRequeues
  BY <1>0, <1>5 DEF FlushSends, FlushRequeues, FlushNext, Counted
<1>6. CASE Forward
  BY <1>0, <1>6 DEF Forward, Counted
<1> QED BY <1>2, <1>3, <1>4, <1>5, <1>6 DEF GipsNext

\* Every step of the two threads is a step of the mailbox or none.
LEMMA NextGips == GipsInv /\ Counted /\ [GipsNext]_gipsVars => Step
<1> SUFFICES ASSUME GipsInv, Counted, [GipsNext]_gipsVars PROVE Step
  OBVIOUS
<1>1. CASE SendTake
  BY <1>1, TakeStep
<1>2. CASE SendBuffer
  BY <1>2, BufferStep
<1>3. CASE SendReply
  BY <1>3, ReplyStep
<1>4. CASE SendRecache
  BY <1>4, RecacheStep
<1>5. CASE SendFails
  BY <1>5, FailStep
<1>6. CASE Close
  BY <1>6, CloseStep
<1>7. ASSUME NEW parses \in BOOLEAN, TryAccept(parses) PROVE Step
  <2>1. GipsTypeOK'
    <3>1. host_sends' \in 0..MaxHostSends
      BY <1>7, TransportAssumption DEF TryAccept, GipsInv, GipsTypeOK
    <3> QED BY <1>7, <3>1 DEF TryAccept, GipsInv, GipsTypeOK
  <2> QED BY <1>7, <2>1, QuietStep DEF TryAccept
<1>8. CASE AcceptEnds
  <2>1. GipsTypeOK'
    BY <1>8 DEF AcceptEnds, GipsInv, GipsTypeOK
  <2> QED BY <1>8, <2>1, QuietStep DEF AcceptEnds
<1>9. CASE CacheConnection
  <2>1. GipsTypeOK'
    BY <1>9 DEF CacheConnection, GipsInv, GipsTypeOK
  <2> QED BY <1>9, <2>1, QuietStep DEF CacheConnection
<1>10. CASE FlushTake
  BY <1>10, FlushTakeStep
<1>11. CASE FlushSends
  BY <1>11, FlushSendStep
<1>12. CASE FlushRequeues
  BY <1>12, RequeueStep
<1>13. CASE UNCHANGED gipsVars
  <2>1. GipsTypeOK'
    BY <1>13 DEF gipsVars, GipsInv, GipsTypeOK
  <2> QED BY <1>13, <2>1, QuietStep DEF gipsVars
<1>14. CASE Forward
  <2>1. inbound' \in 0..MaxHostSends
    BY <1>14, TransportAssumption DEF Forward, Counted, GipsInv, GipsTypeOK
  <2>2. GipsTypeOK'
    BY <1>14, <2>1 DEF Forward, GipsInv, GipsTypeOK
  <2> QED BY <1>14, <2>2, QuietStep DEF Forward
<1> QED
  BY <1>1, <1>2, <1>3, <1>4, <1>5, <1>6, <1>7, <1>8, <1>9, <1>10, <1>11, <1>12, <1>13, <1>14 DEF GipsNext

-----------------------------------------------------------------------------
\* The type invariant of the transport.
THEOREM GipsTypeCorrect == GipsSpec => []GipsTypeOK
<1>1. GipsInit => GipsInv /\ Counted
  BY InitGips DEF GipsInit, Counted
<1>2. GipsInv /\ Counted /\ [GipsNext]_gipsVars => GipsInv' /\ Counted'
  BY NextGips, NextCounted DEF Step, GipsInv
<1>3. GipsInv => GipsTypeOK
  BY DEF GipsInv
<1> QED BY <1>1, <1>2, <1>3, PTL DEF GipsSpec

\* The transport implements the mailbox for any number of frames: none reaches
\* the host twice and none disappears while the transport is open (send,
\* flush_pending).
THEOREM TransportKeepsMail == GipsSpec => KeepsMail
<1>1. GipsInit => GipsInv /\ Counted
  BY InitGips DEF GipsInit, Counted
<1>2. GipsInv /\ Counted /\ [GipsNext]_gipsVars => GipsInv' /\ Counted'
  BY NextGips, NextCounted DEF Step, GipsInv
<1>3. GipsInit => Mail!MailInit
  <2> SUFFICES ASSUME GipsInit PROVE Mail!MailInit
    OBVIOUS
  <2>1. buffered = <<>> /\ flush = <<>> /\ mailed = <<>> /\ failed = {} /\ closed = FALSE /\ sender.pc = "idle"
    BY DEF GipsInit, NotSending
  <2>2. InHand = {}
    BY <2>1 DEF InHand
  <2> QED BY <2>1, <2>2, ElemsEmpty DEF Mail!MailInit
<1>4. GipsInv /\ Counted /\ [GipsNext]_gipsVars => [Mail!MailNext]_(Mail!mailVars)
  BY NextGips DEF Step
<1> QED BY <1>1, <1>2, <1>3, <1>4, PTL DEF GipsSpec, KeepsMail, Mail!MailSpec

-----------------------------------------------------------------------------
(* The RPC connection.                                                     *)

Begun == {c \in Callers : call[c].pc # "idle"}

\* fetch_add gives every call a number of its own.
Numbered ==
    /\ Cardinality(Begun) = next_msgid - 1
    /\ \A c \in Callers : call[c].msgid < next_msgid /\ (call[c].msgid = 0 <=> call[c].pc = "idle")
    /\ \A c, d \in Callers : c # d /\ call[c].msgid # 0 => call[c].msgid # call[d].msgid

\* A call has a slot from its registration to its outcome at most.
Slots ==
    \A c \in Callers : 
        /\ call[c].pc \in {"idle", "numbered"} => call[c].got = "none" /\ \A i \in Msgids : pending[i] # c
        /\ call[c].got # "none" => \A i \in Msgids : pending[i] # c
        /\ call[c].pc = "done" => call[c].got # "none"

RpcInv == RpcTypeOK /\ Numbered /\ Slots /\ SlotsMatchCalls

Calls == [pc : {"idle", "numbered", "registered", "unsent", "sent", "done"},
          msgid : Msgids \cup {0}, got : Outcomes, from : Msgids \cup {0}]

-----------------------------------------------------------------------------
\* The number of callers is a number.
LEMMA CallersCount == Cardinality(Callers) \in Nat /\ Msgids \subseteq Nat \ {0}
BY RpcAssumption, FS_CardinalityType DEF Msgids

\* What two assignments make of a call.
LEMMA CallFields ==
    ASSUME NEW q \in Calls, NEW p, NEW g
    PROVE  [q EXCEPT !.pc = p, !.got = g] = [pc |-> p, msgid |-> q.msgid, got |-> g, from |-> q.from]
<1> DEFINE s == [q EXCEPT !.pc = p]
<1>1. q = [pc |-> q.pc, msgid |-> q.msgid, got |-> q.got, from |-> q.from]
  BY DEF Calls
<1>2. s = [pc |-> p, msgid |-> q.msgid, got |-> q.got, from |-> q.from]
  BY <1>1
<1>3. [q EXCEPT !.pc = p, !.got = g] = [s EXCEPT !.got = g]
  OBVIOUS
<1> HIDE DEF s
<1>4. [s EXCEPT !.got = g] = [pc |-> p, msgid |-> q.msgid, got |-> g, from |-> q.from]
  BY <1>2
<1> QED BY <1>3, <1>4

\* Nobody has called yet.
LEMMA InitRpc == RpcInit => RpcInv
<1> SUFFICES ASSUME RpcInit PROVE RpcInv
  OBVIOUS
<1>1. RpcTypeOK
  BY CallersCount, RpcAssumption DEF RpcInit, RpcTypeOK, Outcomes, Msgids
<1>2. Begun = {}
  BY DEF RpcInit, Begun
<1>3. Numbered
  BY <1>2, FS_EmptySet DEF RpcInit, Numbered
<1>4. Slots /\ SlotsMatchCalls
  BY RpcAssumption DEF RpcInit, Slots, SlotsMatchCalls
<1> QED BY <1>1, <1>3, <1>4 DEF RpcInv

\* While a call has not begun there is a number left for it.
LEMMA NumberLeft ==
    ASSUME RpcInv, NEW c \in Callers, call[c].pc = "idle"
    PROVE  /\ next_msgid \in Msgids
           /\ Cardinality(Begun \cup {c}) = Cardinality(Begun) + 1
<1>1. IsFiniteSet(Begun) /\ c \notin Begun /\ Begun \subseteq Callers \ {c}
  BY RpcAssumption, FS_Subset DEF Begun
<1>2. IsFiniteSet(Callers \ {c}) /\ Cardinality(Callers \ {c}) = Cardinality(Callers) - 1
  BY RpcAssumption, FS_RemoveElement
<1>3. Cardinality(Begun) <= Cardinality(Callers) - 1
  BY <1>1, <1>2, FS_Subset
<1>4. Cardinality(Begun \cup {c}) = Cardinality(Begun) + 1
  BY <1>1, FS_AddElement
<1>5. next_msgid \in Msgids
  BY <1>3, CallersCount DEF RpcInv, Numbered, RpcTypeOK, Msgids
<1> QED BY <1>4, <1>5

-----------------------------------------------------------------------------
(* The caller                                                              *)

\* The number is new, and nobody waits under it.
LEMMA TakeKeeps == ASSUME RpcInv, NEW c \in Callers, TakeMsgid(c) PROVE RpcInv'
<1>0. next_msgid \in Msgids /\ next_msgid \in Nat \ {0} /\ call \in [Callers -> Calls]
  BY NumberLeft, CallersCount DEF TakeMsgid, RpcInv, RpcTypeOK, Calls
<1>1. /\ call'[c] = [call[c] EXCEPT !.pc = "numbered", !.msgid = next_msgid]
      /\ \A d \in Callers \ {c} : call'[d] = call[d]
  BY <1>0 DEF TakeMsgid
<1>2. call' \in [Callers -> Calls]
  <2>1. call'[c] \in Calls
    BY <1>0, <1>1 DEF Calls
  <2>2. call' = [d \in Callers |-> call'[d]]
    BY <1>0 DEF TakeMsgid
  <2> QED BY <1>0, <1>1, <2>1, <2>2
<1>3. RpcTypeOK'
  <2>1. next_msgid' \in 1..(Cardinality(Callers) + 1)
    BY <1>0, CallersCount DEF TakeMsgid, Msgids
  <2> QED BY <1>2, <2>1 DEF RpcInv, RpcTypeOK, TakeMsgid, Calls
<1> DEFINE r == call'[c]
<1>r. /\ r.pc = "numbered" /\ r.msgid = next_msgid /\ r.got = call[c].got /\ r.from = call[c].from
  BY <1>0, <1>1 DEF Calls
<1>s. \A d \in Callers \ {c} : call'[d] = call[d]
  BY <1>1
<1> HIDE DEF r
<1>c. call'[c] = r
  BY DEF r
<1>4. Begun' = Begun \cup {c}
  BY <1>r, <1>s, <1>c DEF Begun
<1>5. Numbered'
  <2>1. Cardinality(Begun') = next_msgid' - 1
    BY <1>0, <1>4, NumberLeft DEF TakeMsgid, RpcInv, Numbered
  <2>2. \A d \in Callers : call'[d].msgid < next_msgid' /\ (call'[d].msgid = 0 <=> call'[d].pc = "idle")
    <3>1. next_msgid' = next_msgid + 1 /\ \A d \in Callers : call[d].msgid \in Nat
      BY <1>0, CallersCount DEF TakeMsgid, Calls
    <3> QED BY <1>0, <1>r, <1>s, <1>c, <3>1 DEF RpcInv, Numbered
  <2>3. \A d \in Callers : call[d].msgid # next_msgid
    BY <1>0, CallersCount DEF RpcInv, Numbered
  <2>4. \A d, e \in Callers : d # e /\ call'[d].msgid # 0 => call'[d].msgid # call'[e].msgid
    BY <1>0, <1>r, <1>s, <1>c, <2>3 DEF RpcInv, Numbered
  <2> QED BY <2>1, <2>2, <2>4 DEF Numbered
<1>6. Slots'
  BY <1>0, <1>r, <1>s, <1>c DEF TakeMsgid, RpcInv, Slots
<1>7. SlotsMatchCalls'
  <2>1. \A i \in Msgids : pending[i] # c
    BY DEF RpcInv, Slots, TakeMsgid
  <2>2. pending' = pending /\ \A i \in Msgids : pending[i] # NoCaller => pending[i] \in Callers \ {c}
    BY <2>1 DEF TakeMsgid, RpcInv, RpcTypeOK
  <2>3. call[c].got = "none"
    BY DEF RpcInv, Slots, TakeMsgid
  <2> QED BY <1>0, <1>r, <1>s, <1>c, <2>2, <2>3 DEF RpcInv, SlotsMatchCalls
<1> QED BY <1>3, <1>5, <1>6, <1>7 DEF RpcInv

\* A step of one call that keeps its number.
LEMMA CallMoves ==
    ASSUME RpcInv, NEW c \in Callers, call[c].pc # "idle",
           NEW r \in Calls, r.msgid = call[c].msgid, r.pc # "idle",
           call' = [d \in Callers |-> IF d = c THEN r ELSE call[d]],
           next_msgid' = next_msgid
    PROVE  call' \in [Callers -> Calls] /\ Numbered'
<1>0. call \in [Callers -> Calls]
  BY DEF RpcInv, RpcTypeOK, Calls
<1>1. call' \in [Callers -> Calls] /\ call'[c] = r /\ \A d \in Callers \ {c} : call'[d] = call[d]
  BY <1>0
<1>2. \A d \in Callers : call'[d].msgid = call[d].msgid /\ (call'[d].pc = "idle" <=> call[d].pc = "idle")
  BY <1>1
<1>3. Begun' = Begun
  BY <1>2 DEF Begun
<1>4. Numbered'
  BY <1>2, <1>3 DEF RpcInv, Numbered
<1> QED BY <1>1, <1>4

\* The slot of a new number is the caller's.
LEMMA AddKeeps == ASSUME RpcInv, NEW c \in Callers, AddPending(c) PROVE RpcInv'
<1> DEFINE r == [pc |-> "registered", msgid |-> call[c].msgid, got |-> call[c].got, from |-> call[c].from]
           id == call[c].msgid
<1>0. call \in [Callers -> Calls] /\ pending \in [Msgids -> Callers \cup {NoCaller}]
  BY DEF RpcInv, RpcTypeOK, Calls
<1>1. id \in Msgids /\ call[c].got = "none" /\ \A i \in Msgids : pending[i] # c
  BY <1>0 DEF AddPending, RpcInv, Numbered, Slots, Calls
<1>2. call' = [d \in Callers |-> IF d = c THEN r ELSE call[d]]
  <2>1. [call[c] EXCEPT !.pc = "registered"] = r
    BY <1>0 DEF Calls
  <2>2. call' = [call EXCEPT ![c] = [call[c] EXCEPT !.pc = "registered"]]
    BY <1>0 DEF AddPending
  <2> QED BY <1>0, <2>1, <2>2
<1>3. r \in Calls /\ r.msgid = id /\ r.pc = "registered" /\ r.got = "none" /\ r.from = call[c].from
  BY <1>0, <1>1 DEF Calls
<1>4. pending' = [i \in Msgids |-> IF i = id THEN c ELSE pending[i]]
  BY <1>0, <1>1 DEF AddPending
<1>5. call[c].pc = "numbered" /\ next_msgid' = next_msgid
  BY DEF AddPending
<1> HIDE DEF r, id
<1>6. call' \in [Callers -> Calls] /\ Numbered'
  BY <1>2, <1>3, <1>5, CallMoves DEF id
<1>7. RpcTypeOK'
  <2>1. pending' \in [Msgids -> Callers \cup {NoCaller}]
    BY <1>0, <1>4
  <2> QED BY <1>6, <2>1 DEF RpcInv, RpcTypeOK, AddPending, Calls
<1>8. call'[c] = r /\ \A d \in Callers \ {c} : call'[d] = call[d]
  BY <1>2
<1>9. pending'[id] = c /\ \A i \in Msgids \ {id} : pending'[i] = pending[i]
  BY <1>1, <1>4
<1>10. \A d \in Callers \ {c}, i \in Msgids : pending[i] # d => pending'[i] # d
  BY <1>9
<1>11. Slots'
  BY <1>3, <1>8, <1>10 DEF RpcInv, Slots
<1>12. SlotsMatchCalls'
  <2>1. \A d \in Callers \ {c} : call[d].msgid # id
    BY <1>0, <1>1, CallersCount DEF RpcInv, Numbered, id
  <2>2. \A d \in Callers \ {c} :
            /\ call[d].got \in {"answer", "refused"} => call[d].from = call[d].msgid
            /\ call[d].pc = "done" => \A i \in Msgids : pending'[i] # d
    BY <1>10 DEF RpcInv, SlotsMatchCalls
  <2>3. \A d \in Callers \ {c} : call[d].pc \in {"registered", "sent"} /\ call[d].got = "none" => pending'[call[d].msgid] = d
    <3>1. \A d \in Callers : call[d].pc \in {"registered", "sent"} => call[d].msgid \in Msgids
      BY <1>0 DEF RpcInv, Numbered, Calls
    <3> QED BY <1>9, <2>1, <3>1 DEF RpcInv, SlotsMatchCalls
  <2>4. \A i \in Msgids : pending'[i] # NoCaller => call'[pending'[i]].msgid = i
    <3>1. ASSUME NEW i \in Msgids \ {id}, pending[i] # NoCaller PROVE call'[pending[i]].msgid = i
      BY <1>0, <1>1, <1>8, <3>1 DEF RpcInv, SlotsMatchCalls
    <3> QED BY <1>3, <1>8, <1>9, <3>1
  <2> QED BY <1>3, <1>8, <1>9, <2>2, <2>3, <2>4 DEF SlotsMatchCalls
<1> QED BY <1>6, <1>7, <1>11, <1>12 DEF RpcInv

\* A call goes on without a change of its slot, or ends when it has none.
LEMMA CallGoesOn ==
    ASSUME RpcInv, NEW c \in Callers, NEW r \in Calls,
           call[c].pc = "registered",
           r.msgid = call[c].msgid, r.got = call[c].got, r.from = call[c].from,
           r.pc \in {"sent", "unsent", "done"}, r.pc = "done" => r.got # "none",
           call' = [d \in Callers |-> IF d = c THEN r ELSE call[d]],
           next_msgid' = next_msgid, pending' = pending
    PROVE  call' \in [Callers -> Calls] /\ Numbered' /\ Slots' /\ SlotsMatchCalls'
<1>0. call \in [Callers -> Calls] /\ pending \in [Msgids -> Callers \cup {NoCaller}]
  BY DEF RpcInv, RpcTypeOK, Calls
<1>1. call' \in [Callers -> Calls] /\ Numbered'
  BY CallMoves
<1>2. call'[c] = r /\ \A d \in Callers \ {c} : call'[d] = call[d]
  OBVIOUS
<1>3. Slots'
  BY <1>2 DEF RpcInv, Slots
<1>4. \A i \in Msgids : pending[i] # NoCaller => call'[pending[i]].msgid = i
  <2>1. ASSUME NEW i \in Msgids, pending[i] # NoCaller PROVE call'[pending[i]].msgid = call[pending[i]].msgid
    BY <1>0, <1>2, <2>1
  <2> QED BY <2>1 DEF RpcInv, SlotsMatchCalls
<1>5. r.got # "none" => \A i \in Msgids : pending[i] # c
  BY DEF RpcInv, Slots
<1>6. SlotsMatchCalls'
  BY <1>2, <1>4, <1>5 DEF RpcInv, SlotsMatchCalls
<1> QED BY <1>1, <1>3, <1>6

\* Writing the request: the slot stays, or was failed already.
LEMMA WriteKeeps == ASSUME RpcInv, NEW c \in Callers, WriteRequest(c) PROVE RpcInv'
<1> DEFINE r(p) == [pc |-> p, msgid |-> call[c].msgid, got |-> call[c].got, from |-> call[c].from]
<1>0. call \in [Callers -> Calls] /\ call[c].msgid \in Msgids /\ call[c].pc = "registered"
  BY DEF RpcInv, RpcTypeOK, Calls, WriteRequest, Numbered
<1>1. PICK p \in {"sent", "unsent", "done"} :
        /\ call' = [call EXCEPT ![c].pc = p]
        /\ p = "done" => call[c].got # "none"
  BY DEF WriteRequest
<1>2. asked' \subseteq Msgids
  BY <1>0 DEF RpcInv, RpcTypeOK, WriteRequest
<1>3. call' = [d \in Callers |-> IF d = c THEN r(p) ELSE call[d]]
  <2>1. [call[c] EXCEPT !.pc = p] = r(p)
    BY <1>0 DEF Calls
  <2>2. call' = [call EXCEPT ![c] = [call[c] EXCEPT !.pc = p]]
    BY <1>0, <1>1
  <2> QED BY <1>0, <2>1, <2>2
<1>4. r(p) \in Calls /\ r(p).msgid = call[c].msgid /\ r(p).got = call[c].got /\ r(p).from = call[c].from /\ r(p).pc = p
  BY <1>0 DEF Calls
<1>5. next_msgid' = next_msgid /\ pending' = pending
  BY DEF WriteRequest
<1> HIDE DEF r
<1>6. call' \in [Callers -> Calls] /\ Numbered' /\ Slots' /\ SlotsMatchCalls'
  BY <1>0, <1>1, <1>3, <1>4, <1>5, CallGoesOn
<1>7. RpcTypeOK'
  BY <1>2, <1>6 DEF RpcInv, RpcTypeOK, WriteRequest, Calls
<1> QED BY <1>6, <1>7 DEF RpcInv

\* A call ends and its slot is cleared, if it was there still.
LEMMA CallEnds ==
    ASSUME RpcInv, NEW c \in Callers, NEW r \in Calls,
           call[c].pc # "idle", r.msgid = call[c].msgid, r.pc = "done", r.got # "none",
           r.got \in {"answer", "refused"} => r.from = r.msgid,
           call' = [d \in Callers |-> IF d = c THEN r ELSE call[d]],
           next_msgid' = next_msgid, pending' = [pending EXCEPT ![call[c].msgid] = NoCaller]
    PROVE  /\ call' \in [Callers -> Calls] /\ pending' \in [Msgids -> Callers \cup {NoCaller}]
           /\ Numbered' /\ Slots' /\ SlotsMatchCalls'
<1> DEFINE id == call[c].msgid
<1>0. call \in [Callers -> Calls] /\ pending \in [Msgids -> Callers \cup {NoCaller}] /\ id \in Msgids
  BY DEF RpcInv, RpcTypeOK, Calls, Numbered
<1>1. call' \in [Callers -> Calls] /\ Numbered'
  BY CallMoves
<1>2. call'[c] = r /\ \A d \in Callers \ {c} : call'[d] = call[d]
  OBVIOUS
<1>3. /\ pending' \in [Msgids -> Callers \cup {NoCaller}] /\ pending'[id] = NoCaller
      /\ \A i \in Msgids \ {id} : pending'[i] = pending[i]
  BY <1>0
<1>4. \A i \in Msgids : pending'[i] # c
  BY <1>0, <1>3, RpcAssumption DEF RpcInv, SlotsMatchCalls
<1>5. \A d \in Callers, i \in Msgids : pending[i] # d => pending'[i] # d
  BY <1>3, RpcAssumption
<1>6. Slots'
  BY <1>2, <1>4, <1>5 DEF RpcInv, Slots
<1>7. \A i \in Msgids : pending'[i] # NoCaller => call'[pending'[i]].msgid = i
  <2>1. ASSUME NEW i \in Msgids, pending'[i] # NoCaller PROVE call'[pending'[i]].msgid = i
    <3>1. pending'[i] = pending[i] /\ pending[i] \in Callers \ {c}
      BY <1>0, <1>3, <1>4, <2>1
    <3> QED BY <1>2, <2>1, <3>1 DEF RpcInv, SlotsMatchCalls
  <2> QED BY <2>1
<1>8. \A d \in Callers \ {c} : call[d].msgid # id /\ (call[d].pc # "idle" => call[d].msgid \in Msgids)
  BY <1>0, CallersCount DEF RpcInv, Numbered, Calls
<1>9. SlotsMatchCalls'
  <2>1. \A d \in Callers \ {c} : call[d].pc \in {"registered", "sent"} /\ call[d].got = "none" => pending'[call[d].msgid] = d
    BY <1>3, <1>8 DEF RpcInv, SlotsMatchCalls
  <2>2. \A d \in Callers \ {c} :
            /\ call[d].got \in {"answer", "refused"} => call[d].from = call[d].msgid
            /\ call[d].pc = "done" => \A i \in Msgids : pending'[i] # d
    BY <1>5 DEF RpcInv, SlotsMatchCalls
  <2> QED BY <1>2, <1>4, <1>7, <2>1, <2>2 DEF SlotsMatchCalls
<1> QED BY <1>1, <1>3, <1>6, <1>9

\* The write failed.
LEMMA DropKeeps == ASSUME RpcInv, NEW c \in Callers, DropSlot(c) PROVE RpcInv'
<1> DEFINE r == [pc |-> "done", msgid |-> call[c].msgid, got |-> "write error", from |-> call[c].from]
<1>0. call \in [Callers -> Calls] /\ call[c].pc = "unsent"
  BY DEF RpcInv, RpcTypeOK, Calls, DropSlot
<1>1. call' = [d \in Callers |-> IF d = c THEN r ELSE call[d]]
  <2>1. [call[c] EXCEPT !.pc = "done", !.got = "write error"] = r
    BY <1>0, CallFields
  <2>2. call' = [call EXCEPT ![c] = [call[c] EXCEPT !.pc = "done", !.got = "write error"]]
    BY <1>0 DEF DropSlot
  <2> QED BY <1>0, <2>1, <2>2
<1>2. r \in Calls /\ r.msgid = call[c].msgid /\ r.pc = "done" /\ r.got = "write error"
  BY <1>0 DEF Calls, Outcomes
<1>3. next_msgid' = next_msgid /\ pending' = [pending EXCEPT ![call[c].msgid] = NoCaller]
  BY DEF DropSlot
<1> HIDE DEF r
<1>4. /\ call' \in [Callers -> Calls] /\ pending' \in [Msgids -> Callers \cup {NoCaller}]
      /\ Numbered' /\ Slots' /\ SlotsMatchCalls'
  BY <1>0, <1>1, <1>2, <1>3, CallEnds
<1>5. RpcTypeOK'
  BY <1>4 DEF RpcInv, RpcTypeOK, DropSlot, Calls
<1> QED BY <1>4, <1>5 DEF RpcInv

-----------------------------------------------------------------------------
(* The read loop                                                           *)

\* Reading a frame shortens the wire.
LEMMA FrameRead ==
    ASSUME wire \in Seq(Frames), Len(wire) <= MaxWire, wire # <<>>
    PROVE  Tail(wire) \in Seq(Frames) /\ Len(Tail(wire)) <= MaxWire /\ Head(wire) \in Frames
BY RpcAssumption

\* A step that leaves the calls and the slots alone.
LEMMA OtherSlots ==
    ASSUME RpcInv, UNCHANGED <<next_msgid, pending, call>>
    PROVE  Numbered' /\ Slots' /\ SlotsMatchCalls'
BY DEF RpcInv, Numbered, Begun, Slots, SlotsMatchCalls

\* A response ends the call whose slot it finds, which is the call that sent
\* its number.
LEMMA ResponseKeeps == ASSUME RpcInv, DispatchResponse PROVE RpcInv'
<1> DEFINE id == Head(wire).msgid
<1>0. /\ call \in [Callers -> Calls] /\ pending \in [Msgids -> Callers \cup {NoCaller}]
      /\ wire \in Seq(Frames) /\ Len(wire) <= MaxWire /\ wire # <<>>
      /\ Head(wire).kind \in {"response", "refusal"} /\ wire' = Tail(wire)
  BY DEF RpcInv, RpcTypeOK, Calls, DispatchResponse, NextFrame
<1>1. wire' \in Seq(Frames) /\ Len(wire') <= MaxWire /\ id \in Msgids \cup {0}
  BY <1>0, FrameRead DEF Frames
<1>2. CASE id = 0 \/ pending[id] = NoCaller
  <2>1. UNCHANGED <<next_msgid, pending, call>>
    BY <1>2 DEF DispatchResponse
  <2>2. RpcTypeOK'
    BY <1>1, <2>1 DEF RpcInv, RpcTypeOK, DispatchResponse
  <2> QED BY <2>1, <2>2, OtherSlots DEF RpcInv
<1>3. CASE id # 0 /\ pending[id] # NoCaller
  <2> DEFINE c == pending[id]
             g == IF Head(wire).kind = "response" THEN "answer" ELSE "refused"
             r == [pc |-> "done", msgid |-> call[c].msgid, got |-> g, from |-> id]
  <2>1. c \in Callers /\ call[c].msgid = id /\ id \in Msgids
    BY <1>0, <1>1, <1>3 DEF RpcInv, SlotsMatchCalls
  <2>2. call[c].pc # "idle"
    BY <1>3, <2>1 DEF RpcInv, Numbered
  <2>3. /\ pending' = [pending EXCEPT ![call[c].msgid] = NoCaller]
        /\ call' = [call EXCEPT ![c] = r]
        /\ next_msgid' = next_msgid
    BY <1>3, <2>1 DEF DispatchResponse
  <2>4. g \in {"answer", "refused"}
    OBVIOUS
  <2> HIDE DEF g, c
  <2>5. call' = [d \in Callers |-> IF d = c THEN r ELSE call[d]]
    BY <1>0, <2>1, <2>3
  <2>6. r \in Calls /\ r.msgid = call[c].msgid /\ r.pc = "done" /\ r.got = g /\ r.from = r.msgid
    BY <2>1, <2>4 DEF Calls, Outcomes
  <2> HIDE DEF r
  <2>7. /\ call' \in [Callers -> Calls] /\ pending' \in [Msgids -> Callers \cup {NoCaller}]
        /\ Numbered' /\ Slots' /\ SlotsMatchCalls'
    <3>1. r.got \in {"answer", "refused"} /\ r.got # "none"
      BY <2>4, <2>6
    <3> QED BY <2>1, <2>2, <2>3, <2>5, <2>6, <3>1, CallEnds
  <2>8. RpcTypeOK'
    BY <1>1, <2>7 DEF RpcInv, RpcTypeOK, DispatchResponse, Calls
  <2> QED BY <2>7, <2>8 DEF RpcInv
<1> QED BY <1>2, <1>3

\* At the end of the stream every call with a slot fails, and no slot is left.
LEMMA EndOfStreamKeeps == ASSUME RpcInv, EndOfStream PROVE RpcInv'
<1> DEFINE Waits(c) == \E i \in Msgids : pending[i] = c
           r(c) == [pc |-> IF call[c].pc = "sent" THEN "done" ELSE call[c].pc, msgid |-> call[c].msgid,
                    got |-> "closed", from |-> call[c].from]
<1>0. call \in [Callers -> Calls] /\ pending \in [Msgids -> Callers \cup {NoCaller}]
  BY DEF RpcInv, RpcTypeOK, Calls
<1>1. call' = [c \in Callers |-> IF Waits(c) THEN r(c) ELSE call[c]]
  <2>1. ASSUME NEW c \in Callers
        PROVE  [call[c] EXCEPT !.pc = IF @ = "sent" THEN "done" ELSE @, !.got = "closed"] = r(c)
    BY <1>0, CallFields
  <2>2. call' = [c \in Callers |-> IF Waits(c)
                    THEN [call[c] EXCEPT !.pc = IF @ = "sent" THEN "done" ELSE @, !.got = "closed"] ELSE call[c]]
    BY DEF EndOfStream, FailAllPending
  <2> HIDE DEF Waits, r
  <2> QED BY <2>1, <2>2
<1>2. pending' = [i \in Msgids |-> NoCaller] /\ next_msgid' = next_msgid
  BY DEF EndOfStream, FailAllPending
<1>3. \A c \in Callers : r(c) \in Calls /\ r(c).msgid = call[c].msgid /\ r(c).got = "closed" /\ r(c).from = call[c].from
                          /\ r(c).pc = IF call[c].pc = "sent" THEN "done" ELSE call[c].pc
  BY <1>0 DEF Calls, Outcomes
<1>4. \A c \in Callers : Waits(c) => call[c].pc \notin {"idle", "numbered", "done"}
  BY DEF RpcInv, Slots, SlotsMatchCalls
<1>5. \A c \in Callers : ~Waits(c) /\ call[c].pc \in {"registered", "sent"} => call[c].got # "none"
  BY <1>0 DEF RpcInv, SlotsMatchCalls, Numbered, Calls
<1> HIDE DEF Waits, r
<1>6. \A c \in Callers : call'[c] = IF Waits(c) THEN r(c) ELSE call[c]
  BY <1>1
<1>7. call' \in [Callers -> Calls]
  BY <1>0, <1>1, <1>3
<1>8. RpcTypeOK'
  BY <1>2, <1>7 DEF RpcInv, RpcTypeOK, EndOfStream, Calls
<1>9. \A c \in Callers : call'[c].msgid = call[c].msgid /\ (call'[c].pc = "idle" <=> call[c].pc = "idle")
  BY <1>3, <1>4, <1>6
<1>10. Begun' = Begun
  BY <1>9 DEF Begun
<1>11. Numbered'
  BY <1>2, <1>9, <1>10 DEF RpcInv, Numbered
<1>12. \A i \in Msgids : pending'[i] = NoCaller
  BY <1>2
<1>13. Slots'
  BY <1>3, <1>4, <1>6, <1>12, RpcAssumption DEF RpcInv, Slots
<1>14. SlotsMatchCalls'
  BY <1>3, <1>4, <1>5, <1>6, <1>12, RpcAssumption DEF RpcInv, SlotsMatchCalls
<1> QED BY <1>8, <1>11, <1>13, <1>14 DEF RpcInv

-----------------------------------------------------------------------------
\* Every step of the callers, of the read loop and of the peer keeps the slots
\* with their calls.
LEMMA NextRpc == RpcInv /\ [RpcNext]_rpcVars => RpcInv'
<1> SUFFICES ASSUME RpcInv, [RpcNext]_rpcVars PROVE RpcInv'
  OBVIOUS
<1>1. ASSUME NEW c \in Callers, TakeMsgid(c) PROVE RpcInv'
  BY <1>1, TakeKeeps
<1>2. ASSUME NEW c \in Callers, AddPending(c) PROVE RpcInv'
  BY <1>2, AddKeeps
<1>3. ASSUME NEW c \in Callers, WriteRequest(c) PROVE RpcInv'
  BY <1>3, WriteKeeps
<1>4. ASSUME NEW c \in Callers, DropSlot(c) PROVE RpcInv'
  BY <1>4, DropKeeps
<1>5. CASE PeerWrites
  <2>1. wire' \in Seq(Frames) /\ Len(wire') <= MaxWire
    <3>1. PICK f \in Frames : wire' = Append(wire, f)
      BY <1>5 DEF PeerWrites
    <3>2. wire \in Seq(Frames) /\ Len(wire) < MaxWire
      BY <1>5 DEF RpcInv, RpcTypeOK, PeerWrites
    <3> QED BY <3>1, <3>2, RpcAssumption
  <2>2. RpcTypeOK'
    BY <1>5, <2>1 DEF RpcInv, RpcTypeOK, PeerWrites
  <2> QED BY <1>5, <2>2, OtherSlots DEF RpcInv, PeerWrites
<1>6. CASE PeerCloses
  <2>1. RpcTypeOK'
    BY <1>6 DEF RpcInv, RpcTypeOK, PeerCloses
  <2> QED BY <1>6, <2>1, OtherSlots DEF RpcInv, PeerCloses
<1>7. CASE DispatchResponse
  BY <1>7, ResponseKeeps
<1>8. CASE DispatchRequest
  <2>1. Head(wire) \in Frames /\ Tail(wire) \in Seq(Frames) /\ Len(Tail(wire)) <= MaxWire
    BY <1>8, FrameRead DEF RpcInv, RpcTypeOK, DispatchRequest, NextFrame
  <2>2. Head(wire).msgid \in Inbound
    BY <1>8, <2>1 DEF DispatchRequest, NextFrame, Frames
  <2>3. RpcTypeOK'
    BY <1>8, <2>1, <2>2 DEF RpcInv, RpcTypeOK, DispatchRequest
  <2> QED BY <1>8, <2>3, OtherSlots DEF RpcInv, DispatchRequest
<1>9. CASE DispatchCancel
  <2>1. Tail(wire) \in Seq(Frames) /\ Len(Tail(wire)) <= MaxWire
    BY <1>9, FrameRead DEF RpcInv, RpcTypeOK, DispatchCancel, NextFrame
  <2>2. RpcTypeOK'
    BY <1>9, <2>1 DEF RpcInv, RpcTypeOK, DispatchCancel
  <2> QED BY <1>9, <2>2, OtherSlots DEF RpcInv, DispatchCancel
<1>10. CASE EndOfStream
  BY <1>10, EndOfStreamKeeps
<1>11. CASE AbortReader
  <2>1. RpcTypeOK'
    BY <1>11 DEF RpcInv, RpcTypeOK, AbortReader
  <2> QED BY <1>11, <2>1, OtherSlots DEF RpcInv, AbortReader
<1>12. ASSUME NEW i \in Inbound, HandlerReturns(i) PROVE RpcInv'
  <2>1. RpcTypeOK'
    BY <1>12 DEF RpcInv, RpcTypeOK, HandlerReturns
  <2> QED BY <1>12, <2>1, OtherSlots DEF RpcInv, HandlerReturns
<1>13. ASSUME NEW i \in Inbound, WriteResponse(i) PROVE RpcInv'
  <2>1. RpcTypeOK'
    BY <1>13 DEF RpcInv, RpcTypeOK, WriteResponse
  <2> QED BY <1>13, <2>1, OtherSlots DEF RpcInv, WriteResponse
<1>14. CASE UNCHANGED rpcVars
  BY <1>14, OtherSlots DEF RpcInv, RpcTypeOK, rpcVars
<1> QED BY <1>1, <1>2, <1>3, <1>4, <1>5, <1>6, <1>7, <1>8, <1>9, <1>10, <1>11, <1>12, <1>13, <1>14 DEF RpcNext

\* The type invariant of the connection; in particular the callers never need
\* more msgids than there are of them.
THEOREM RpcTypeCorrect == RpcSpec => []RpcTypeOK
<1>1. RpcInv => RpcTypeOK
  BY DEF RpcInv
<1> QED BY <1>1, InitRpc, NextRpc, PTL DEF RpcSpec

\* For any number of concurrent callers, however responses are ordered,
\* repeated or invented, and however the connection ends: a call takes the
\* answer to its own msgid, has its slot while it waits and none afterwards
\* (request, dispatch, fail_all_pending).
THEOREM RpcCorrect == RpcSpec => []SlotsMatchCalls
<1>1. RpcInv => SlotsMatchCalls
  BY DEF RpcInv
<1> QED BY <1>1, InitRpc, NextRpc, PTL DEF RpcSpec

-----------------------------------------------------------------------------
(* The protocol session: queues of messages.                               *)

\* One more message in a queue: its number is one more that the queue has, and
\* the numbers keep rising when it is above all of them.
LEMMA HasAppend ==
    ASSUME NEW S, NEW q \in Seq(S), NEW e \in S, NEW X, NEW n
    PROVE  Has(Append(q, e), X, n) <=> Has(q, X, n) \/ (e \in X /\ e.n = n)
<1> DEFINE a == Append(q, e)
<1>1. /\ Len(a) = Len(q) + 1 /\ Len(q) \in Nat /\ a[Len(q) + 1] = e
      /\ \A i \in 1..Len(q) : a[i] = q[i]
  OBVIOUS
<1>2. 1..(Len(q) + 1) = 1..Len(q) \cup {Len(q) + 1}
  BY <1>1
<1> HIDE DEF a
<1>3. Has(a, X, n) <=> Has(q, X, n) \/ (e \in X /\ e.n = n)
  BY <1>1, <1>2 DEF Has
<1> QED BY <1>3 DEF a

LEMMA RisingAppend ==
    ASSUME NEW S, NEW q \in Seq(S), NEW e \in S, NEW X, Rising(q, X),
           e \in X => \A i \in 1..Len(q) : q[i] \in X => q[i].n < e.n
    PROVE  Rising(Append(q, e), X)
<1> DEFINE a == Append(q, e)
<1>1. /\ Len(a) = Len(q) + 1 /\ Len(q) \in Nat /\ a[Len(q) + 1] = e
      /\ \A i \in 1..Len(q) : a[i] = q[i]
  OBVIOUS
<1> HIDE DEF a
<1>2. ASSUME NEW i \in 1..Len(a), NEW j \in 1..Len(a), i < j, a[i] \in X, a[j] \in X PROVE a[i].n < a[j].n
  <2>1. i \in 1..Len(q) /\ a[i] = q[i]
    BY <1>1, <1>2
  <2>2. CASE j = Len(q) + 1
    BY <2>1, <2>2, <1>1, <1>2
  <2>3. CASE j # Len(q) + 1
    <3>1. j \in 1..Len(q) /\ a[j] = q[j]
      BY <2>3, <1>1, <1>2
    <3> QED BY <2>1, <3>1, <1>2 DEF Rising
  <2> QED BY <2>2, <2>3
<1> QED BY <1>2 DEF Rising, a

LEMMA FirstOf ==
    ASSUME NEW S, NEW q \in Seq(S), q # <<>>
    PROVE  /\ Len(q) \in Nat /\ Len(q) >= 1 /\ Head(q) = q[1] /\ q[1] \in S /\ \A i \in 1..Len(q) : q[i] \in S
           /\ Len(Tail(q)) = Len(q) - 1 /\ \A i \in 1..(Len(q) - 1) : Tail(q)[i] = q[i + 1]
OBVIOUS

\* The first message of a queue is taken: the others keep rising, and its own
\* number is gone.
LEMMA TakenFirst ==
    ASSUME NEW S, NEW q \in Seq(S), q # <<>>, NEW X, Rising(q, X), \A x \in X : x.n \in Nat
    PROVE  /\ Rising(Tail(q), X)
           /\ \A n : Has(Tail(q), X, n) <=> Has(q, X, n) /\ ~(Head(q) \in X /\ Head(q).n = n)
<1> DEFINE u == Tail(q)
<1>1. /\ Head(q) = q[1] /\ Len(q) \in Nat /\ Len(q) >= 1 /\ Len(u) = Len(q) - 1
      /\ \A i \in 1..(Len(q) - 1) : u[i] = q[i + 1]
  OBVIOUS
<1> HIDE DEF u
<1>2. ASSUME NEW i \in 1..Len(u) PROVE i + 1 \in 1..Len(q) /\ u[i] = q[i + 1] /\ 1 < i + 1 /\ 1 \in 1..Len(q)
  BY <1>1
<1>3. Rising(u, X)
  <2> SUFFICES ASSUME NEW i \in 1..Len(u), NEW j \in 1..Len(u), i < j, u[i] \in X, u[j] \in X PROVE u[i].n < u[j].n
    BY DEF Rising
  <2>1. i + 1 < j + 1
    OBVIOUS
  <2> QED BY <2>1, <1>2 DEF Rising
<1>4. ASSUME NEW n, Has(u, X, n) PROVE Has(q, X, n) /\ ~(Head(q) \in X /\ Head(q).n = n)
  <2>1. PICK i \in 1..Len(u) : u[i] \in X /\ u[i].n = n
    BY <1>4 DEF Has
  <2>2. Has(q, X, n)
    BY <2>1, <1>2 DEF Has
  <2>3. Head(q) \in X => Head(q).n < n
    BY <2>1, <1>1, <1>2 DEF Rising
  <2> QED BY <2>1, <2>2, <2>3
<1>5. ASSUME NEW n, Has(q, X, n), ~(Head(q) \in X /\ Head(q).n = n) PROVE Has(u, X, n)
  <2>1. PICK i \in 1..Len(q) : q[i] \in X /\ q[i].n = n
    BY <1>5 DEF Has
  <2>2. i # 1
    BY <2>1, <1>1, <1>5
  <2>3. i - 1 \in 1..Len(u) /\ (i - 1) + 1 = i
    BY <2>2, <1>1
  <2>4. u[i - 1] = q[i]
    BY <2>3, <1>2
  <2> QED BY <2>1, <2>3, <2>4 DEF Has
<1> QED BY <1>3, <1>4, <1>5 DEF u

\* A message that moves from the queue to the host is still on its way.
LEMMA MovedOn ==
    ASSUME NEW S, NEW p \in Seq(S), NEW q \in Seq(S), q # <<>>
    PROVE  Append(p, Head(q)) \o Tail(q) = p \o q
<1>1. /\ Head(q) = q[1] /\ Len(q) \in Nat /\ Len(p) \in Nat /\ Len(q) >= 1 /\ Head(q) \in S
      /\ Tail(q) \in Seq(S) /\ Len(Tail(q)) = Len(q) - 1
      /\ \A i \in 1..(Len(q) - 1) : Tail(q)[i] = q[i + 1]
  OBVIOUS
<1>2. /\ Append(p, Head(q)) \in Seq(S) /\ Len(Append(p, Head(q))) = Len(p) + 1
      /\ Append(p, Head(q))[Len(p) + 1] = Head(q)
      /\ \A i \in 1..Len(p) : Append(p, Head(q))[i] = p[i]
  BY <1>1
<1> DEFINE a == Append(p, Head(q))
           u == Tail(q)
<1> HIDE DEF a, u
<1>3. /\ a \o u \in Seq(S) /\ Len(a \o u) = Len(a) + Len(u)
      /\ \A i \in 1..(Len(a) + Len(u)) : (a \o u)[i] = IF i <= Len(a) THEN a[i] ELSE u[i - Len(a)]
  BY <1>1, <1>2, ConcatProperties DEF a, u
<1>4. /\ p \o q \in Seq(S) /\ Len(p \o q) = Len(p) + Len(q)
      /\ \A i \in 1..(Len(p) + Len(q)) : (p \o q)[i] = IF i <= Len(p) THEN p[i] ELSE q[i - Len(p)]
  BY ConcatProperties
<1>5. Len(a) + Len(u) = Len(p) + Len(q) /\ Len(a) = Len(p) + 1 /\ Len(u) = Len(q) - 1
  BY <1>1, <1>2 DEF a, u
<1>6. ASSUME NEW i \in 1..(Len(p) + Len(q)) PROVE (a \o u)[i] = (p \o q)[i]
  <2>1. CASE i <= Len(p)
    <3>1. i \in 1..Len(p) /\ i <= Len(a)
      BY <2>1, <1>1, <1>5
    <3> QED BY <3>1, <2>1, <1>2, <1>3, <1>4, <1>5 DEF a
  <2>2. CASE i = Len(p) + 1
    <3>1. i <= Len(a) /\ ~(i <= Len(p)) /\ i - Len(p) = 1
      BY <2>2, <1>1, <1>5
    <3>2. (a \o u)[i] = a[i] /\ (p \o q)[i] = q[1]
      BY <3>1, <1>3, <1>4, <1>5
    <3> QED BY <3>2, <2>2, <1>1, <1>2 DEF a
  <2>3. CASE i > Len(p) + 1
    <3>1. ~(i <= Len(a)) /\ ~(i <= Len(p)) /\ i - Len(a) \in 1..(Len(q) - 1) /\ (i - Len(a)) + 1 = i - Len(p)
      BY <2>3, <1>1, <1>5
    <3>2. (a \o u)[i] = u[i - Len(a)] /\ (p \o q)[i] = q[i - Len(p)]
      BY <3>1, <1>3, <1>4, <1>5
    <3> QED BY <3>1, <3>2, <1>1 DEF u
  <2>4. i <= Len(p) \/ i = Len(p) + 1 \/ i > Len(p) + 1
    BY <1>1
  <2> QED BY <2>1, <2>2, <2>3, <2>4
<1>7. a \o u = p \o q
  BY <1>3, <1>4, <1>5, <1>6, SeqEqual
<1> QED BY <1>7 DEF a, u

\* A message that joins the queue is the last one on its way.
LEMMA QueuedLast ==
    ASSUME NEW S, NEW p \in Seq(S), NEW q \in Seq(S), NEW e \in S
    PROVE  p \o Append(q, e) = Append(p \o q, e)
<1> DEFINE r == p \o q
           a == Append(q, e)
           c == p \o a
           d == Append(r, e)
<1>1. /\ Len(q) \in Nat /\ Len(p) \in Nat /\ a \in Seq(S) /\ Len(a) = Len(q) + 1
      /\ a[Len(q) + 1] = e /\ \A i \in 1..Len(q) : a[i] = q[i]
  OBVIOUS
<1>2. /\ r \in Seq(S) /\ Len(r) = Len(p) + Len(q)
      /\ \A i \in 1..(Len(p) + Len(q)) : r[i] = IF i <= Len(p) THEN p[i] ELSE q[i - Len(p)]
  BY ConcatProperties
<1> HIDE DEF r, a
<1>3. /\ c \in Seq(S) /\ Len(c) = Len(p) + Len(a)
      /\ \A i \in 1..(Len(p) + Len(a)) : c[i] = IF i <= Len(p) THEN p[i] ELSE a[i - Len(p)]
  BY <1>1, ConcatProperties
<1>4. /\ d \in Seq(S) /\ Len(d) = Len(r) + 1 /\ d[Len(r) + 1] = e
      /\ \A i \in 1..Len(r) : d[i] = r[i]
  BY <1>2
<1> HIDE DEF c, d
<1>5. ASSUME NEW i \in 1..(Len(p) + Len(q) + 1) PROVE c[i] = d[i]
  <2>1. CASE i <= Len(p)
    <3>1. i \in 1..(Len(p) + Len(q)) /\ i \in 1..(Len(p) + Len(a)) /\ i \in 1..Len(r)
      BY <2>1, <1>1, <1>2
    <3> QED BY <3>1, <2>1, <1>2, <1>3, <1>4
  <2>2. CASE i = Len(p) + Len(q) + 1
    <3>1. i \in 1..(Len(p) + Len(a)) /\ i - Len(p) = Len(q) + 1 /\ ~(i <= Len(p)) /\ i = Len(r) + 1
      BY <2>2, <1>1, <1>2
    <3> QED BY <3>1, <1>1, <1>3, <1>4
  <2>3. CASE i > Len(p) /\ i < Len(p) + Len(q) + 1
    <3>1. /\ i \in 1..(Len(p) + Len(q)) /\ i \in 1..(Len(p) + Len(a)) /\ i \in 1..Len(r)
          /\ i - Len(p) \in 1..Len(q) /\ ~(i <= Len(p))
      BY <2>3, <1>1, <1>2
    <3>2. c[i] = a[i - Len(p)] /\ d[i] = q[i - Len(p)]
      BY <3>1, <1>2, <1>3, <1>4
    <3> QED BY <3>1, <3>2, <1>1
  <2> QED BY <2>1, <2>2, <2>3, <1>1, SMTT(30)
<1>6. Len(c) = Len(p) + Len(q) + 1 /\ Len(d) = Len(p) + Len(q) + 1
  BY <1>1, <1>2, <1>3, <1>4
<1>7. c = d
  BY <1>3, <1>4, <1>5, <1>6, SeqEqual
<1> QED BY <1>7 DEF c, d, r, a
-----------------------------------------------------------------------------
\* What the host has received and what is queued for it.
OnTheWay == received \o outq

\* The events of s below b were sent, in order, and no others.
Sent(s, b) ==
    /\ Rising(OnTheWay, EventsOf(s))
    /\ \A n \in 0..MaxEvents : Has(OnTheWay, EventsOf(s), n) <=> n < b

Stream(s, b) ==
    /\ Sent(s, b)
    /\ fan[s] = "none" => b = 0
    /\ hand[s] # NoEvent => hand[s] = b
    /\ \A i \in 1..Len(chan[s]) : chan[s][i] + 1 = b + Carried(s) + i
    /\ sub[s] # Closed /\ Listening(s) => sub[s].next_seq = b + Carried(s) + Len(chan[s])

Streams == host_up => \A s \in Subs : \E b \in 0..(MaxEvents + 1) : Stream(s, b)

\* A subscription without a task has nothing in its channel.
Idle == \A s \in Subs :
    /\ fan[s] \in {"none", "ended"} => chan[s] = <<>> /\ hand[s] = NoEvent
    /\ fan[s] = "none" => sub[s] = Closed

\* The loop has not begun to leave.
Serving == sink \/ phase = "handshake"

\* The requests in the inbox are those that were sent and not taken, and the one
\* at work.
Waiting == Serving =>
    /\ taken <= asks /\ Rising(inbox, Requests)
    /\ \A n \in 1..MaxControl : Has(inbox, Requests, n) <=> taken < n + Busy /\ n <= asks

\* The answers on their way are those of the other requests that were taken.
Answered == host_up =>
    /\ Rising(OnTheWay, Responses)
    /\ Serving => \A n \in 1..MaxControl : Has(OnTheWay, Responses, n) <=> n + Busy <= taken

\* What the phases of the loop go with.
Loop ==
    /\ phase = "handshake" =>
          outq = <<>> /\ received = <<>> /\ taken = 0 /\ \A s \in Subs : fan[s] = "none"
    /\ sink <=> phase \in {"draining", "selecting", "handling", "answering", "leaving"}
    /\ Busy = 1 => inbox # <<>> /\ Head(inbox) \in Requests /\ taken > 0

DspInv == DspTypeOK /\ Idle /\ Streams /\ Waiting /\ Answered /\ Loop

-----------------------------------------------------------------------------
\* What the queues of a session are made of.
LEMMA MessageParts ==
    /\ \A m \in Requests : m \in ClientMessage /\ m.n \in 1..MaxControl /\ m.n \in Nat
                             /\ m.kind \in Controls
                             /\ (m.kind = "subscribe" => m.arg \in EventTopics \cup {"*"})
                             /\ (m.kind = "unsubscribe" => m.arg \in Subs)
    /\ \A m \in Responses : m.n \in Nat /\ m \in RuntimeMessage
    /\ \A s \in Subs : \A m \in EventsOf(s) : m.n \in Nat /\ m \in RuntimeMessage
    /\ \A m \in ClientMessage : m.kind \in Controls <=> m \in Requests
    /\ \A m \in ClientMessage : m.kind \notin Controls => m.kind \in {"hello", "old hello", "reply", "pong"}
<1>1. ASSUME NEW m \in Requests
      PROVE  /\ m \in ClientMessage /\ m.kind \in Controls /\ m.n \in 1..MaxControl
             /\ (m.kind = "subscribe" => m.arg \in EventTopics \cup {"*"})
             /\ (m.kind = "unsubscribe" => m.arg \in Subs)
  <2>1. m \in ClientMessage /\ m.kind \in Controls
    BY DEF Requests
  <2>2. CASE m \in [kind : {"hello", "old hello", "reply", "pong"}, n : {0}, arg : {"none"}]
    BY <2>1, <2>2 DEF Controls
  <2>3. CASE m \in [kind : {"subscribe"}, n : 1..MaxControl, arg : EventTopics \cup {"*"}]
    BY <2>1, <2>3
  <2>4. CASE m \in [kind : {"unsubscribe"}, n : 1..MaxControl, arg : Subs]
    BY <2>1, <2>4
  <2>5. CASE m \in [kind : {"control"}, n : 1..MaxControl, arg : {"none"}]
    BY <2>1, <2>5
  <2> QED BY <2>1, <2>2, <2>3, <2>4, <2>5 DEF ClientMessage
<1>2. \A m \in Responses : m.n \in Nat /\ m \in RuntimeMessage
  BY DispatchAssumption DEF Responses, RuntimeMessage
<1>3. \A s \in Subs : \A m \in EventsOf(s) : m.n \in Nat /\ m \in RuntimeMessage
  BY DispatchAssumption DEF EventsOf, RuntimeMessage
<1>4. \A m \in ClientMessage : m.kind \in Controls <=> m \in Requests
  BY DEF Requests
<1>5. \A m \in ClientMessage : m.kind \notin Controls => m.kind \in {"hello", "old hello", "reply", "pong"}
  BY DEF ClientMessage, Controls
<1>6. \A m \in Requests : m.n \in Nat
  BY <1>1, DispatchAssumption
<1> QED BY <1>1, <1>2, <1>3, <1>4, <1>5, <1>6

\* The messages the loop, the handlers and the tasks make.
LEMMA MadeMessages ==
    /\ \A k \in {"welcome", "goodbye", "ping"} :
          /\ ToHost(k, "none", 0) \in RuntimeMessage /\ ToHost(k, "none", 0) \notin Responses
          /\ \A s \in Subs : ToHost(k, "none", 0) \notin EventsOf(s)
    /\ \A a \in Subs \cup {"none"}, n \in 1..MaxControl :
          /\ ToHost("response", a, n) \in RuntimeMessage /\ ToHost("response", a, n) \in Responses
          /\ ToHost("response", a, n).n = n /\ \A s \in Subs : ToHost("response", a, n) \notin EventsOf(s)
    /\ \A r \in Subs, n \in 0..MaxEvents :
          /\ ToHost("event", r, n) \in RuntimeMessage /\ ToHost("event", r, n) \notin Responses
          /\ ToHost("event", r, n) \in EventsOf(r) /\ ToHost("event", r, n).n = n
          /\ \A s \in Subs \ {r} : ToHost("event", r, n) \notin EventsOf(s)
<1>1. ASSUME NEW k \in {"welcome", "goodbye", "ping"}
      PROVE  /\ ToHost(k, "none", 0) \in RuntimeMessage /\ ToHost(k, "none", 0) \notin Responses
             /\ \A s \in Subs : ToHost(k, "none", 0) \notin EventsOf(s)
  BY DEF ToHost, RuntimeMessage, Responses, EventsOf
<1>2. ASSUME NEW a \in Subs \cup {"none"}, NEW n \in 1..MaxControl
      PROVE  /\ ToHost("response", a, n) \in RuntimeMessage /\ ToHost("response", a, n) \in Responses
             /\ ToHost("response", a, n).n = n /\ \A s \in Subs : ToHost("response", a, n) \notin EventsOf(s)
  BY DEF ToHost, RuntimeMessage, Responses, EventsOf
<1>3. ASSUME NEW r \in Subs, NEW n \in 0..MaxEvents
      PROVE  /\ ToHost("event", r, n) \in RuntimeMessage /\ ToHost("event", r, n) \notin Responses
             /\ ToHost("event", r, n) \in EventsOf(r) /\ ToHost("event", r, n).n = n
             /\ \A s \in Subs \ {r} : ToHost("event", r, n) \notin EventsOf(s)
  BY DEF ToHost, RuntimeMessage, Responses, EventsOf
<1> QED BY <1>1, <1>2, <1>3

LEMMA InitDsp == DspInit => DspInv
<1> SUFFICES ASSUME DspInit PROVE DspInv
  OBVIOUS
<1>1. DspTypeOK
  <2>1. Closed \in [topic : EventTopics \cup {"*", "none"}, next_seq : 0..(MaxEvents + 1)]
    BY DispatchAssumption DEF Closed
  <2>2. sub \in [Subs -> [topic : EventTopics \cup {"*", "none"}, next_seq : 0..(MaxEvents + 1)]]
    BY <2>1 DEF DspInit
  <2>3. chan \in [Subs -> Seq(0..MaxEvents)] /\ fan \in [Subs -> {"none", "running", "aborted", "ended"}]
    BY DEF DspInit
  <2>4. hand \in [Subs -> 0..(MaxEvents + 1)]
    BY DispatchAssumption DEF DspInit, NoEvent
  <2>5. inbox \in Seq(ClientMessage) /\ outq \in Seq(RuntimeMessage) /\ received \in Seq(RuntimeMessage)
    <3>1. \A S : <<>> \in Seq(S)
      OBVIOUS
    <3> QED BY <3>1 DEF DspInit
  <2>6. drained \in 0..DrainBatch /\ asks \in 0..MaxControl /\ taken \in 0..MaxControl
    BY DispatchAssumption DEF DspInit
  <2> QED BY <2>2, <2>3, <2>4, <2>5, <2>6 DEF DspInit, DspTypeOK
<1>2. \A X, n : ~Has(<<>>, X, n) /\ Rising(<<>>, X)
  BY DEF Has, Rising
<1>3. OnTheWay = <<>>
  BY DEF DspInit, OnTheWay
<1>4. Idle /\ Loop /\ Waiting
  BY <1>2, DispatchAssumption DEF DspInit, Idle, Loop, Waiting, Busy, Serving
<1>5. Answered
  BY <1>2, <1>3, DispatchAssumption DEF DspInit, Answered, Busy, Serving
<1>6. ASSUME NEW s \in Subs PROVE Stream(s, 0)
  <2>1. Sent(s, 0)
    BY <1>2, <1>3, DispatchAssumption DEF Sent
  <2>2. fan[s] = "none" /\ hand[s] = NoEvent /\ chan[s] = <<>> /\ sub[s] = Closed
    BY DEF DspInit
  <2> QED BY <2>1, <2>2 DEF Stream, Listening
<1> QED BY <1>1, <1>4, <1>5, <1>6, DispatchAssumption DEF DspInv, Streams

\* A step after which what was on its way still is, with at most a message
\* behind it that is neither an event nor an answer.
Kept == \/ OnTheWay' = OnTheWay
        \/ \E k \in {"welcome", "goodbye", "ping"} : OnTheWay' = Append(OnTheWay, ToHost(k, "none", 0))

LEMMA OnTheWayType == DspTypeOK => OnTheWay \in Seq(RuntimeMessage)
BY ConcatProperties DEF DspTypeOK, OnTheWay

LEMMA KeptMessages ==
    ASSUME DspTypeOK, Kept
    PROVE  /\ \A s \in Subs : Rising(OnTheWay, EventsOf(s)) => Rising(OnTheWay, EventsOf(s))'
           /\ \A s \in Subs, n \in 0..MaxEvents : Has(OnTheWay, EventsOf(s), n)' <=> Has(OnTheWay, EventsOf(s), n)
           /\ Rising(OnTheWay, Responses) => Rising(OnTheWay, Responses)'
           /\ \A n \in 1..MaxControl : Has(OnTheWay, Responses, n)' <=> Has(OnTheWay, Responses, n)
<1>1. CASE OnTheWay' = OnTheWay
  BY <1>1 DEF Rising, Has, EventsOf, Responses
<1>2. ASSUME NEW k \in {"welcome", "goodbye", "ping"}, OnTheWay' = Append(OnTheWay, ToHost(k, "none", 0))
      PROVE  /\ \A s \in Subs : Rising(OnTheWay, EventsOf(s)) => Rising(OnTheWay', EventsOf(s))
             /\ \A s \in Subs, n \in 0..MaxEvents : Has(OnTheWay', EventsOf(s), n) <=> Has(OnTheWay, EventsOf(s), n)
             /\ Rising(OnTheWay, Responses) => Rising(OnTheWay', Responses)
             /\ \A n \in 1..MaxControl : Has(OnTheWay', Responses, n) <=> Has(OnTheWay, Responses, n)
  <2> DEFINE e == ToHost(k, "none", 0)
  <2>1. /\ e \in RuntimeMessage /\ e \notin Responses /\ \A s \in Subs : e \notin EventsOf(s)
        /\ OnTheWay \in Seq(RuntimeMessage)
    BY MadeMessages, OnTheWayType
  <2> HIDE DEF e
  <2>2. OnTheWay' = Append(OnTheWay, e)
    BY <1>2 DEF e
  <2>3. ASSUME NEW X, e \notin X
        PROVE  /\ Rising(OnTheWay, X) => Rising(OnTheWay', X)
               /\ \A n : Has(OnTheWay', X, n) <=> Has(OnTheWay, X, n)
    BY <2>1, <2>2, <2>3, HasAppend, RisingAppend
  <2> QED BY <2>1, <2>3
<1>3. CASE \E k \in {"welcome", "goodbye", "ping"} : OnTheWay' = Append(OnTheWay, ToHost(k, "none", 0))
  BY <1>2, <1>3 DEF Rising, Has, EventsOf, Responses
<1> QED BY <1>1, <1>3 DEF Kept

-----------------------------------------------------------------------------
\* The steps, and the parts of the invariant they leave alone.

LEMMA QueueHeads ==
    ASSUME DspTypeOK
    PROVE  /\ inbox # <<>> => Head(inbox) \in ClientMessage /\ Tail(inbox) \in Seq(ClientMessage)
           /\ outq # <<>> => Head(outq) \in RuntimeMessage /\ Tail(outq) \in Seq(RuntimeMessage)
           /\ \A m \in RuntimeMessage :
                 Append(outq, m) \in Seq(RuntimeMessage) /\ Delivered(m) \in Seq(RuntimeMessage)
           /\ \A m \in ClientMessage : Append(inbox, m) \in Seq(ClientMessage)
<1>1. inbox # <<>> => Head(inbox) \in ClientMessage /\ Tail(inbox) \in Seq(ClientMessage)
  BY HeadTailProperties DEF DspTypeOK
<1>2. outq # <<>> => Head(outq) \in RuntimeMessage /\ Tail(outq) \in Seq(RuntimeMessage)
  BY HeadTailProperties DEF DspTypeOK
<1>3. \A S : \A q \in Seq(S), m \in S : Append(q, m) \in Seq(S)
  OBVIOUS
<1> QED BY <1>1, <1>2, <1>3 DEF DspTypeOK, Delivered

\* A request that is taken is one of those that were sent.
LEMMA TakenWasSent ==
    ASSUME DspInv, Serving, inbox # <<>>, Head(inbox).kind \in Controls
    PROVE  /\ Head(inbox) \in Requests /\ taken < Head(inbox).n + Busy /\ Head(inbox).n <= asks
           /\ taken + 1 \in 0..MaxControl \/ Busy = 1
<1>1. Head(inbox) \in Requests
  BY QueueHeads, MessageParts DEF DspInv
<1>2. Head(inbox) = inbox[1] /\ 1 \in 1..Len(inbox)
  BY DEF DspInv, DspTypeOK
<1>3. Has(inbox, Requests, Head(inbox).n)
  BY <1>1, <1>2 DEF Has
<1>4. Head(inbox).n \in 1..MaxControl
  BY <1>1, MessageParts
<1>5. taken < Head(inbox).n + Busy /\ Head(inbox).n <= asks
  BY <1>3, <1>4 DEF DspInv, Waiting
<1>6. taken \in 0..MaxControl /\ Busy \in {0, 1}
  BY DEF DspInv, DspTypeOK, Busy
<1> QED BY <1>1, <1>4, <1>5, <1>6, DispatchAssumption

\* The request being handled is the last that was taken.
LEMMA TakenIsLast ==
    ASSUME DspInv, phase \in {"handling", "answering"}
    PROVE  /\ inbox # <<>> /\ Request \in Requests /\ Request.n = taken
           /\ taken \in 1..MaxControl /\ Busy = 1 /\ Serving
<1>1. Busy = 1 /\ Serving /\ inbox # <<>> /\ Head(inbox) \in Requests /\ taken > 0
  BY DEF DspInv, Busy, Loop, Serving
<1>2. taken \in 1..MaxControl /\ asks \in 0..MaxControl
  BY <1>1 DEF DspInv, DspTypeOK
<1>3. /\ taken <= asks /\ Rising(inbox, Requests)
      /\ \A n \in 1..MaxControl : Has(inbox, Requests, n) <=> taken < n + Busy /\ n <= asks
  BY <1>1 DEF DspInv, Waiting
<1>4. Head(inbox) = inbox[1] /\ 1 \in 1..Len(inbox)
  BY <1>1 DEF DspInv, DspTypeOK
<1>5. Head(inbox).n \in 1..MaxControl /\ taken <= Head(inbox).n
  <2>1. Head(inbox).n \in 1..MaxControl
    BY <1>1, MessageParts
  <2>2. Has(inbox, Requests, Head(inbox).n)
    BY <1>1, <1>4 DEF Has
  <2> QED BY <2>1, <2>2, <1>1, <1>2, <1>3
<1>6. Has(inbox, Requests, taken)
  BY <1>1, <1>2, <1>3
<1>7. PICK i \in 1..Len(inbox) : inbox[i] \in Requests /\ inbox[i].n = taken
  BY <1>6 DEF Has
<1>8. i # 1 => Head(inbox).n < taken
  BY <1>7, <1>1, <1>3, <1>4 DEF Rising
<1>9. Head(inbox).n = taken
  BY <1>7, <1>8, <1>4, <1>5, <1>2
<1> QED BY <1>1, <1>2, <1>9 DEF Request

\* The number of requests that were answered stays the same.
Pace == taken' - Busy' = taken - Busy

LEMMA PaceKept ==
    ASSUME NEW b \in {0, 1}, NEW c \in {0, 1}, NEW t \in Nat, NEW u \in Nat, NEW n \in Nat, u - c = t - b
    PROVE  (n + c <= u <=> n + b <= t) /\ (u < n + c <=> t < n + b)
OBVIOUS

LEMMA StreamsStay ==
    ASSUME DspInv, host_up' => host_up /\ Kept, UNCHANGED <<sub, chan, fan, hand>>
    PROVE  Idle' /\ Streams'
<1>1. Idle'
  BY DEF DspInv, Idle, NoEvent, Closed
<1>2. ASSUME host_up', NEW s \in Subs, NEW b \in 0..(MaxEvents + 1), Stream(s, b) PROVE Stream(s, b)'
  <2>1. Sent(s, b)'
    <3>1. Sent(s, b) /\ Kept /\ DspTypeOK
      BY <1>2 DEF Stream, DspInv
    <3> QED BY <3>1, KeptMessages DEF Sent
  <2>2. Carried(s)' = Carried(s)
    BY DEF Carried, NoEvent
  <2> QED BY <1>2, <2>1, <2>2 DEF Stream, Listening, Closed, NoEvent
<1> QED BY <1>1, <1>2 DEF DspInv, Streams

LEMMA AnswersStay ==
    ASSUME DspInv, host_up' => host_up /\ Kept, Serving' => Serving /\ Pace, taken' \in Nat
    PROVE  Answered'
<1>1. Busy \in {0, 1} /\ Busy' \in {0, 1} /\ taken \in Nat
  BY DEF Busy, DspInv, DspTypeOK
<1>2. ASSUME Serving', NEW n \in 1..MaxControl PROVE n + Busy' <= taken' <=> n + Busy <= taken
  <2>1. n \in Nat /\ taken' - Busy' = taken - Busy
    BY <1>2, DispatchAssumption DEF Pace
  <2> QED BY <2>1, <1>1, PaceKept
<1>3. host_up' => host_up /\ Kept /\ DspTypeOK
  BY DEF DspInv
<1> QED BY <1>2, <1>3, KeptMessages DEF DspInv, Answered

LEMMA RequestsStay ==
    ASSUME DspInv, Serving' => Serving /\ Pace /\ UNCHANGED <<inbox, asks>> /\ taken' <= asks, taken' \in Nat
    PROVE  Waiting'
<1>1. Busy \in {0, 1} /\ Busy' \in {0, 1} /\ taken \in Nat
  BY DEF Busy, DspInv, DspTypeOK
<1>2. ASSUME Serving', NEW n \in 1..MaxControl PROVE taken' < n + Busy' <=> taken < n + Busy
  <2>1. n \in Nat /\ taken' - Busy' = taken - Busy
    BY <1>2, DispatchAssumption DEF Pace
  <2> QED BY <2>1, <1>1, PaceKept
<1>3. Serving' => Rising(inbox, Requests)' /\ \A n \in 1..MaxControl : Has(inbox, Requests, n)' <=> Has(inbox, Requests, n)
  <2>1. Requests' = Requests
    BY DEF Requests, ClientMessage
  <2>2. Serving' => inbox' = inbox /\ Rising(inbox, Requests)
    BY DEF DspInv, Waiting
  <2> QED BY <2>1, <2>2 DEF Rising, Has
<1> QED BY <1>2, <1>3 DEF DspInv, Waiting

\* A message leaves the queue for the host, which is there to receive it.
LEMMA Transmitted ==
    ASSUME DspInv, host_up, outq # <<>>, outq' = Tail(outq), received' = Delivered(Head(outq))
    PROVE  Kept
<1>1. received' = Append(received, Head(outq))
  BY DEF Delivered
<1>2. OnTheWay' = OnTheWay
  BY <1>1, MovedOn DEF DspInv, DspTypeOK, OnTheWay
<1> QED BY <1>2 DEF Kept

LEMMA Untouched == ASSUME UNCHANGED <<outq, received>> PROVE Kept
BY DEF Kept, OnTheWay

LEMMA Behind ==
    ASSUME DspInv, NEW m \in RuntimeMessage, outq' = Append(outq, m), UNCHANGED received
    PROVE  OnTheWay' = Append(OnTheWay, m)
BY QueuedLast DEF DspInv, DspTypeOK, OnTheWay

-----------------------------------------------------------------------------
\* What recv can return to the loop.
LEMMA InboundCases ==
    ASSUME SelectInbound
    PROVE  /\ phase = "selecting" /\ inbox # <<>>
           /\ UNCHANGED <<received, drained, sink, sub, chan, fan, hand, about, asks, host_up>>
           /\ \/ /\ Head(inbox).kind \in Controls /\ phase' = "handling" /\ taken' = taken + 1
                 /\ inbox' = inbox /\ outq' = outq
              \/ /\ Head(inbox).kind \notin Controls /\ phase' = "leaving" /\ taken' = taken
                 /\ inbox' = Tail(inbox) /\ outq' = Append(outq, ToHost("goodbye", "none", 0))
              \/ /\ Head(inbox).kind \notin Controls /\ phase' = "draining" /\ taken' = taken
                 /\ inbox' = Tail(inbox) /\ outq' = outq
BY DEF SelectInbound, Controls

\* The values of a session stay in their types.
LEMMA TypeStays ==
    ASSUME DspInv, DspNext
    PROVE  DspTypeOK'
<1> DEFINE Counters == [topic : EventTopics \cup {"*", "none"}, next_seq : 0..(MaxEvents + 1)]
<1>0. /\ DspTypeOK /\ taken \in 0..MaxControl /\ asks \in 0..MaxControl /\ drained \in 0..DrainBatch
      /\ inbox \in Seq(ClientMessage) /\ outq \in Seq(RuntimeMessage) /\ received \in Seq(RuntimeMessage)
      /\ sub \in [Subs -> Counters] /\ fan \in [Subs -> {"none", "running", "aborted", "ended"}]
      /\ chan \in [Subs -> Seq(0..MaxEvents)] /\ hand \in [Subs -> 0..(MaxEvents + 1)]
  BY DEF DspInv, DspTypeOK
<1>1. CASE HostSends
  <2>1. inbox' \in Seq(ClientMessage)
    <3>1. ASSUME NEW k \in {"hello", "old hello", "reply", "pong"}
          PROVE  [kind |-> k, n |-> 0, arg |-> "none"] \in ClientMessage
      BY DEF ClientMessage
    <3> QED BY <3>1, <1>0, <1>1, QueueHeads DEF HostSends
  <2>2. asks' \in 0..MaxControl
    <3>1. asks' = asks \/ (asks < MaxControl /\ asks' = asks + 1)
      BY <1>1 DEF HostSends
    <3> QED BY <3>1, <1>0, DispatchAssumption
  <2> QED BY <2>1, <2>2, <1>1 DEF HostSends, DspInv, DspTypeOK
<1>2. CASE HostCloses
  BY <1>2 DEF HostCloses, DspInv, DspTypeOK
<1>3. CASE HandshakeStep
  <2>1. inbox' \in Seq(ClientMessage)
    <3>1. inbox # <<>> /\ inbox' = Tail(inbox)
      BY <1>3 DEF HandshakeStep
    <3> QED BY <3>1, <1>0, QueueHeads
  <2>2. received' \in Seq(RuntimeMessage)
    BY <1>0, <1>3, QueueHeads, MadeMessages DEF HandshakeStep
  <2>3. taken' \in 0..MaxControl
    <3>1. Serving /\ Busy = 0
      BY <1>3 DEF HandshakeStep, Serving, Busy
    <3>2. /\ inbox # <<>>
          /\ taken' = taken \/ (Head(inbox).kind \in Controls /\ taken' = taken + 1)
      BY <1>3 DEF HandshakeStep
    <3>3. Head(inbox).kind \in Controls => taken + 1 \in 0..MaxControl
      BY <3>1, <3>2, TakenWasSent
    <3> QED BY <3>2, <3>3, <1>0
  <2> QED BY <2>1, <2>2, <2>3, <1>3 DEF HandshakeStep, DspInv, DspTypeOK
<1>4. CASE HandshakeEnds
  BY <1>4 DEF HandshakeEnds, DspInv, DspTypeOK
<1>5. CASE Drain
  <2>1. outq' \in Seq(RuntimeMessage) /\ received' \in Seq(RuntimeMessage)
    BY <1>0, <1>5, QueueHeads DEF Drain
  <2>2. drained' \in 0..DrainBatch
    BY <1>0, <1>5, DispatchAssumption DEF Drain
  <2> QED BY <2>1, <2>2, <1>5 DEF Drain, DspInv, DspTypeOK
<1>6. CASE SelectOutbound
  <2>1. outq' \in Seq(RuntimeMessage) /\ received' \in Seq(RuntimeMessage)
    BY <1>0, <1>6, QueueHeads DEF SelectOutbound
  <2> QED BY <2>1, <1>6 DEF SelectOutbound, DspInv, DspTypeOK
<1>7. CASE SelectKeepalive
  <2>1. outq' \in Seq(RuntimeMessage)
    BY <1>0, <1>7, MadeMessages DEF SelectKeepalive
  <2> QED BY <2>1, <1>7 DEF SelectKeepalive, DspInv, DspTypeOK
<1>8. CASE SelectInbound
  <2>1. inbox' \in Seq(ClientMessage) /\ outq' \in Seq(RuntimeMessage)
    <3>1. inbox # <<>> /\ (inbox' = inbox \/ inbox' = Tail(inbox))
      BY <1>8, InboundCases
    <3>2. outq' = outq \/ outq' = Append(outq, ToHost("goodbye", "none", 0))
      BY <1>8, InboundCases
    <3>3. ToHost("goodbye", "none", 0) \in RuntimeMessage
      BY MadeMessages
    <3> QED BY <3>1, <3>2, <3>3, <1>0, QueueHeads
  <2>2. taken' \in 0..MaxControl
    <3>1. Serving /\ Busy = 0
      BY <1>8 DEF SelectInbound, DspInv, Loop, Serving, Busy
    <3>2. /\ inbox # <<>>
          /\ taken' = taken \/ (Head(inbox).kind \in Controls /\ taken' = taken + 1)
      BY <1>8, InboundCases
    <3>3. Head(inbox).kind \in Controls => taken + 1 \in 0..MaxControl
      BY <3>1, <3>2, TakenWasSent
    <3> QED BY <3>2, <3>3, <1>0
  <2> QED BY <2>1, <2>2, <1>8 DEF SelectInbound, DspInv, DspTypeOK
<1>9. CASE SelectClosed
  BY <1>9 DEF SelectClosed, DspInv, DspTypeOK
<1>10. CASE HandleSubscribe
  <2>1. Request.arg \in EventTopics \cup {"*"}
    BY <1>10, TakenIsLast, MessageParts DEF HandleSubscribe, Handling
  <2>2. PICK s \in Subs :
          /\ sub' = [sub EXCEPT ![s] = [topic |-> Request.arg, next_seq |-> 0]]
          /\ fan' = [fan EXCEPT ![s] = "running"] /\ about' = s
    BY <1>10 DEF HandleSubscribe
  <2>3. [topic |-> Request.arg, next_seq |-> 0] \in Counters
    BY <2>1, DispatchAssumption
  <2>4. sub' \in [Subs -> Counters] /\ fan' \in [Subs -> {"none", "running", "aborted", "ended"}]
    BY <2>2, <2>3, <1>0
  <2> QED BY <2>2, <2>4, <1>0, <1>10 DEF HandleSubscribe, Handling, DspTypeOK
<1>11. CASE HandleUnsubscribe
  <2>1. Closed \in Counters
    BY DispatchAssumption DEF Closed
  <2>2. sub' \in [Subs -> Counters] /\ fan' \in [Subs -> {"none", "running", "aborted", "ended"}]
    BY <2>1, <1>0, <1>11 DEF HandleUnsubscribe, Aborted
  <2> QED BY <2>2, <1>0, <1>11 DEF HandleUnsubscribe, Handling, DspTypeOK
<1>12. CASE HandleOther
  BY <1>12 DEF HandleOther, Handling, DspInv, DspTypeOK
<1>13. CASE Answer
  <2>1. inbox # <<>> /\ Request.n \in 1..MaxControl
    BY <1>13, TakenIsLast DEF Answer
  <2>2. inbox' \in Seq(ClientMessage) /\ outq' \in Seq(RuntimeMessage)
    <3>1. ToHost("response", about, Request.n) \in RuntimeMessage
      BY <2>1, MadeMessages DEF DspInv, DspTypeOK
    <3> QED BY <3>1, <2>1, <1>0, <1>13, QueueHeads DEF Answer
  <2> QED BY <2>2, <1>13 DEF Answer, DspInv, DspTypeOK
<1>14. CASE Disconnect
  <2>1. fan' \in [Subs -> {"none", "running", "aborted", "ended"}]
    BY <1>0, <1>14 DEF Disconnect, Aborted
  <2> QED BY <2>1, <1>14 DEF Disconnect, DspInv, DspTypeOK
<1>15. CASE Flush
  <2>1. outq' \in Seq(RuntimeMessage) /\ received' \in Seq(RuntimeMessage)
    BY <1>0, <1>15, QueueHeads DEF Flush
  <2> QED BY <2>1, <1>15 DEF Flush, DspInv, DspTypeOK
<1>16. ASSUME NEW t \in EventTopics, Emit(t) PROVE DspTypeOK'
  <2>1. ASSUME NEW s \in Subs, Matches(s, t)
        PROVE  sub[s].next_seq \in 0..MaxEvents /\ [sub[s] EXCEPT !.next_seq = @ + 1] \in Counters
    <3>1. sub[s] \in Counters /\ sub[s].next_seq <= MaxEvents
      BY <1>0, <1>16, <2>1 DEF Emit
    <3>2. sub[s].next_seq + 1 \in 0..(MaxEvents + 1)
      BY <3>1, DispatchAssumption
    <3> QED BY <3>1, <3>2, DispatchAssumption
  <2>2. Closed \in Counters
    BY DispatchAssumption DEF Closed
  <2>3. sub' \in [Subs -> Counters]
    BY <2>1, <2>2, <1>0, <1>16 DEF Emit
  <2>4. chan' \in [Subs -> Seq(0..MaxEvents)]
    <3>1. \A S : \A q \in Seq(S), x \in S : Append(q, x) \in Seq(S)
      OBVIOUS
    <3> QED BY <3>1, <2>1, <1>0, <1>16 DEF Emit
  <2> QED BY <2>3, <2>4, <1>0, <1>16 DEF Emit, DspTypeOK
<1>17. ASSUME NEW s \in Subs, FanRecv(s) PROVE DspTypeOK'
  <2>1. Head(chan[s]) \in 0..MaxEvents /\ Tail(chan[s]) \in Seq(0..MaxEvents)
    BY <1>0, <1>17, HeadTailProperties DEF FanRecv
  <2>2. hand' \in [Subs -> 0..(MaxEvents + 1)] /\ chan' \in [Subs -> Seq(0..MaxEvents)]
    BY <2>1, <1>0, <1>17, DispatchAssumption DEF FanRecv
  <2> QED BY <2>2, <1>17 DEF FanRecv, DspInv, DspTypeOK
<1>18. ASSUME NEW s \in Subs, FanSend(s) PROVE DspTypeOK'
  <2>1. hand[s] \in 0..MaxEvents
    BY <1>0, <1>18, DispatchAssumption DEF FanSend, NoEvent
  <2>2. outq' \in Seq(RuntimeMessage)
    BY <2>1, <1>0, <1>18, QueueHeads, MadeMessages DEF FanSend
  <2>3. hand' \in [Subs -> 0..(MaxEvents + 1)]
    BY <1>0, <1>18, DispatchAssumption DEF FanSend, NoEvent
  <2> QED BY <2>2, <2>3, <1>18 DEF FanSend, DspInv, DspTypeOK
<1>19. ASSUME NEW s \in Subs, FanEnds(s) PROVE DspTypeOK'
  <2>1. fan' \in [Subs -> {"none", "running", "aborted", "ended"}]
    BY <1>0, <1>19 DEF FanEnds
  <2>2. hand' \in [Subs -> 0..(MaxEvents + 1)]
    BY <1>0, <1>19, DispatchAssumption DEF FanEnds, NoEvent
  <2>3. chan' \in [Subs -> Seq(0..MaxEvents)]
    <3>1. \A S : <<>> \in Seq(S)
      OBVIOUS
    <3> QED BY <3>1, <1>0, <1>19 DEF FanEnds
  <2> QED BY <2>1, <2>2, <2>3, <1>19 DEF FanEnds, DspInv, DspTypeOK
<1> QED BY <1>1, <1>2, <1>3, <1>4, <1>5, <1>6, <1>7, <1>8, <1>9, <1>10, <1>11, <1>12, <1>13, <1>14,
           <1>15, <1>16, <1>17, <1>18, <1>19 DEF DspNext, SessionStep

-----------------------------------------------------------------------------
\* What was on its way to a host that is still there after the step.
LEMMA KeptBySteps ==
    ASSUME DspInv, DspNext, ~Answer, \A s \in Subs : ~FanSend(s), host_up'
    PROVE  host_up /\ Kept
<1>0. DspTypeOK
  BY DEF DspInv
<1>1. CASE HostSends
  BY <1>1, Untouched DEF HostSends
<1>2. CASE HostCloses
  BY <1>2 DEF HostCloses
<1>3. CASE HandshakeStep
  <2>1. host_up /\ outq = <<>> /\ received = <<>> /\ outq' = <<>>
    BY <1>3 DEF HandshakeStep, DspInv, Loop
  <2>2. PICK k \in {"welcome", "goodbye"} : received' = Append(received, ToHost(k, "none", 0))
    BY <1>3, <2>1 DEF HandshakeStep, Delivered
  <2>3. \A m \in RuntimeMessage : Append(<<>>, m) \o <<>> = Append(<<>> \o <<>>, m)
    OBVIOUS
  <2>4. OnTheWay' = Append(OnTheWay, ToHost(k, "none", 0))
    BY <2>1, <2>2, <2>3, MadeMessages DEF OnTheWay
  <2> QED BY <2>1, <2>4 DEF Kept
<1>4. CASE HandshakeEnds
  BY <1>4, Untouched DEF HandshakeEnds
<1>5. CASE Drain
  <2>1. CASE outq = <<>> \/ drained = DrainBatch
    BY <2>1, <1>5, Untouched DEF Drain
  <2>2. CASE ~(outq = <<>> \/ drained = DrainBatch)
    BY <2>2, <1>5, Transmitted DEF Drain
  <2> QED BY <2>1, <2>2
<1>6. CASE SelectOutbound
  BY <1>6, Transmitted DEF SelectOutbound
<1>7. CASE SelectKeepalive
  <2>1. outq' = Append(outq, ToHost("ping", "none", 0)) /\ UNCHANGED received /\ host_up
    <3>1. \A m : Append(<<>>, m) = <<m>>
      OBVIOUS
    <3> QED BY <3>1, <1>7 DEF SelectKeepalive
  <2> QED BY <2>1, Behind, MadeMessages DEF Kept
<1>8. CASE SelectInbound
  <2>1. host_up /\ UNCHANGED received /\ (outq' = outq \/ outq' = Append(outq, ToHost("goodbye", "none", 0)))
    BY <1>8, InboundCases
  <2> QED BY <2>1, Untouched, Behind, MadeMessages DEF Kept
<1>9. CASE SelectClosed
  BY <1>9, Untouched DEF SelectClosed
<1>10. CASE HandleSubscribe
  BY <1>10, Untouched DEF HandleSubscribe
<1>11. CASE HandleUnsubscribe
  BY <1>11, Untouched DEF HandleUnsubscribe
<1>12. CASE HandleOther
  BY <1>12, Untouched DEF HandleOther
<1>13. CASE Disconnect
  BY <1>13, Untouched DEF Disconnect
<1>14. CASE Flush
  <2>1. CASE outq = <<>>
    BY <2>1, <1>14, Untouched DEF Flush
  <2>2. CASE outq # <<>>
    BY <2>2, <1>14, Transmitted DEF Flush
  <2> QED BY <2>1, <2>2
<1>15. ASSUME NEW t \in EventTopics, Emit(t) PROVE host_up /\ Kept
  BY <1>15, Untouched DEF Emit
<1>16. ASSUME NEW s \in Subs, FanRecv(s) PROVE host_up /\ Kept
  BY <1>16, Untouched DEF FanRecv
<1>17. ASSUME NEW s \in Subs, FanEnds(s) PROVE host_up /\ Kept
  BY <1>17, Untouched DEF FanEnds
<1> QED BY <1>1, <1>2, <1>3, <1>4, <1>5, <1>6, <1>7, <1>8, <1>9, <1>10, <1>11, <1>12, <1>13, <1>14,
           <1>15, <1>16, <1>17 DEF DspNext, SessionStep

LEMMA SentStays ==
    ASSUME DspInv, NEW s \in Subs, NEW b \in 0..(MaxEvents + 1), Sent(s, b),
           Kept \/ \E m \in RuntimeMessage : m \notin EventsOf(s) /\ OnTheWay' = Append(OnTheWay, m)
    PROVE  Sent(s, b)'
<1>1. CASE Kept
  BY <1>1, KeptMessages DEF Sent, DspInv
<1>2. ASSUME NEW m \in RuntimeMessage, m \notin EventsOf(s), OnTheWay' = Append(OnTheWay, m) PROVE Sent(s, b)'
  <2> DEFINE X == EventsOf(s)
  <2>0. OnTheWay \in Seq(RuntimeMessage) /\ Rising(OnTheWay, X) /\ EventsOf(s)' = X
    BY OnTheWayType DEF DspInv, Sent, EventsOf
  <2>1. m \notin X
    BY <1>2
  <2> HIDE DEF X
  <2>2. Rising(OnTheWay', X)
    BY <2>0, <2>1, <1>2, RisingAppend
  <2>3. \A n : Has(OnTheWay', X, n) <=> Has(OnTheWay, X, n)
    BY <2>0, <2>1, <1>2, HasAppend
  <2>4. \A n \in 0..MaxEvents : Has(OnTheWay, X, n) <=> n < b
    BY DEF Sent, X
  <2> QED BY <2>0, <2>2, <2>3, <2>4 DEF Sent, Rising, Has
<1> QED BY <1>1, <1>2

\* A subscription whose number, channel, task and event in hand stay what
\* they were.
LEMMA StreamStays ==
    ASSUME DspInv, NEW s \in Subs, NEW b \in 0..(MaxEvents + 1), Stream(s, b),
           Kept \/ \E m \in RuntimeMessage : m \notin EventsOf(s) /\ OnTheWay' = Append(OnTheWay, m),
           sub'[s] = sub[s], chan'[s] = chan[s], fan'[s] = fan[s], hand'[s] = hand[s]
    PROVE  Stream(s, b)'
<1>1. Sent(s, b)'
  BY SentStays DEF Stream
<1>2. Carried(s)' = Carried(s)
  BY DEF Carried, NoEvent
<1> QED BY <1>1, <1>2 DEF Stream, Listening, Closed, NoEvent

LEMMA SubscribeStreams ==
    ASSUME DspInv, HandleSubscribe
    PROVE  Idle' /\ Streams'
<1>1. PICK r \in Subs :
        /\ fan[r] = "none" /\ sub' = [sub EXCEPT ![r] = [topic |-> Request.arg, next_seq |-> 0]]
        /\ fan' = [fan EXCEPT ![r] = "running"]
  BY DEF HandleSubscribe
<1>2. chan' = chan /\ hand' = hand /\ host_up' = host_up /\ Kept
  BY Untouched DEF HandleSubscribe
<1>3. /\ sub'[r] = [topic |-> Request.arg, next_seq |-> 0] /\ fan'[r] = "running"
      /\ \A s \in Subs : s # r => sub'[s] = sub[s] /\ fan'[s] = fan[s]
      /\ chan[r] = <<>> /\ hand[r] = NoEvent
  BY <1>1 DEF DspInv, DspTypeOK, Idle
<1>4. Idle'
  BY <1>2, <1>3 DEF DspInv, Idle, Closed, NoEvent
<1>5. ASSUME NEW s \in Subs, NEW b \in 0..(MaxEvents + 1), Stream(s, b) PROVE Stream(s, b)'
  <2>1. CASE s # r
    BY <2>1, <1>2, <1>3, <1>5, StreamStays
  <2>2. CASE s = r
    <3>1. Sent(r, b)' /\ b = 0
      BY <1>1, <1>2, <1>5, <2>2, SentStays DEF Stream
    <3>2. Carried(r)' = 0 /\ chan'[r] = <<>> /\ hand'[r] = NoEvent' /\ sub'[r].next_seq = 0
      BY <1>2, <1>3 DEF Carried, NoEvent
    <3> QED BY <3>1, <3>2, <2>2, <1>3 DEF Stream, Listening
  <2> QED BY <2>1, <2>2
<1> QED BY <1>2, <1>4, <1>5 DEF DspInv, Streams

\* The tasks of r are told to stop, or those of all subscriptions; nothing is
\* taken from them.
LEMMA AbortStreams ==
    ASSUME DspInv, UNCHANGED <<chan, hand, host_up, outq, received>>,
           \A s \in Subs : fan'[s] \in {fan[s], Aborted(fan[s])} /\ sub'[s] \in {sub[s], Closed}
    PROVE  Idle' /\ Streams'
<1>1. ASSUME NEW s \in Subs
      PROVE  /\ fan'[s] = "none" <=> fan[s] = "none"
             /\ fan'[s] \in {"none", "ended"} <=> fan[s] \in {"none", "ended"}
             /\ Listening(s)' <=> Listening(s)
  BY DEF Aborted, Listening, DspInv, DspTypeOK
<1>2. Idle'
  BY <1>1 DEF DspInv, Idle, Closed, NoEvent
<1>3. ASSUME NEW s \in Subs, NEW b \in 0..(MaxEvents + 1), Stream(s, b) PROVE Stream(s, b)'
  <2>1. Sent(s, b)'
    BY <1>3, SentStays, Untouched DEF Stream
  <2>2. Carried(s)' = Carried(s)
    BY DEF Carried, NoEvent
  <2> QED BY <1>1, <1>3, <2>1, <2>2 DEF Stream, Closed, NoEvent
<1> QED BY <1>2, <1>3 DEF DspInv, Streams

\* Counting the events on their way.
LEMMA Sums ==
    ASSUME NEW b \in Nat, NEW c \in {0, 1}, NEW k \in Nat
    PROVE  /\ (b + c + k) + 1 = b + c + (k + 1)
           /\ k >= 1 => b + 0 + k = b + 1 + (k - 1)
           /\ \A x \in Nat : x + 1 = b + 0 + (k + 1) => x + 1 = b + 1 + k
OBVIOUS

LEMMA EmitStreams ==
    ASSUME DspInv, NEW t \in EventTopics, Emit(t)
    PROVE  Idle' /\ Streams'
<1>1. ASSUME NEW s \in Subs
      PROVE  /\ chan'[s] = IF Matches(s, t) /\ Listening(s) THEN Append(chan[s], sub[s].next_seq) ELSE chan[s]
             /\ sub'[s] = IF ~Matches(s, t) THEN sub[s]
                          ELSE IF Listening(s) THEN [sub[s] EXCEPT !.next_seq = @ + 1] ELSE Closed
             /\ fan'[s] = fan[s] /\ hand'[s] = hand[s]
  BY DEF Emit, DspInv, DspTypeOK
<1>2. \A s \in Subs : Matches(s, t) => sub[s] # Closed
  BY DispatchAssumption DEF Matches, Closed
<1>3. host_up' = host_up /\ Kept
  BY Untouched DEF Emit
<1>4. Idle'
  BY <1>1, <1>2 DEF DspInv, Idle, Listening, Closed, NoEvent
<1>5. ASSUME NEW s \in Subs, NEW b \in 0..(MaxEvents + 1), Stream(s, b) PROVE Stream(s, b)'
  <2>1. CASE ~Matches(s, t)
    BY <2>1, <1>1, <1>3, <1>5, StreamStays
  <2>2. CASE Matches(s, t) /\ ~Listening(s)
    <3>1. Sent(s, b)'
      BY <1>3, <1>5, SentStays DEF Stream
    <3>2. Carried(s)' = Carried(s) /\ chan'[s] = chan[s] /\ sub'[s] = Closed
      BY <2>2, <1>1 DEF Carried, NoEvent
    <3> QED BY <3>1, <3>2, <1>1, <1>5 DEF Stream, Closed, NoEvent
  <2>3. CASE Matches(s, t) /\ Listening(s)
    <3>1. Sent(s, b)'
      BY <1>3, <1>5, SentStays DEF Stream
    <3>2. /\ Carried(s)' = Carried(s) /\ Carried(s) \in {0, 1} /\ b \in Nat
          /\ chan'[s] = Append(chan[s], sub[s].next_seq) /\ chan[s] \in Seq(0..MaxEvents)
      <4>1. Carried(s)' = Carried(s) /\ Carried(s) \in {0, 1}
        BY <1>1 DEF Carried, NoEvent
      <4>2. b \in Nat
        BY DispatchAssumption
      <4> QED BY <4>1, <4>2, <2>3, <1>1 DEF DspInv, DspTypeOK
    <3>3. sub[s].next_seq \in 0..MaxEvents /\ sub'[s].next_seq = sub[s].next_seq + 1
      <4>1. sub[s] \in [topic : EventTopics \cup {"*", "none"}, next_seq : 0..(MaxEvents + 1)] /\ sub[s].next_seq <= MaxEvents
        BY <2>3 DEF Emit, DspInv, DspTypeOK
      <4>2. sub'[s] = [sub[s] EXCEPT !.next_seq = @ + 1]
        BY <2>3, <1>1
      <4>3. sub'[s].next_seq = sub[s].next_seq + 1
        BY <4>1, <4>2
      <4> QED BY <4>1, <4>3, DispatchAssumption
    <3>4. sub[s].next_seq = b + Carried(s) + Len(chan[s])
      BY <2>3, <1>2, <1>5 DEF Stream
    <3>5. /\ Len(chan'[s]) = Len(chan[s]) + 1 /\ Len(chan[s]) \in Nat /\ chan'[s][Len(chan[s]) + 1] = sub[s].next_seq
          /\ \A i \in 1..Len(chan[s]) : chan'[s][i] = chan[s][i]
      BY <3>2, <3>3
    <3>6. \A i \in 1..Len(chan'[s]) : chan'[s][i] + 1 = b + Carried(s) + i
      <4> TAKE i \in 1..Len(chan'[s])
      <4>1. CASE i = Len(chan[s]) + 1
        <5>1. chan'[s][i] = b + Carried(s) + Len(chan[s])
          BY <4>1, <3>4, <3>5
        <5>2. (b + Carried(s) + Len(chan[s])) + 1 = b + Carried(s) + (Len(chan[s]) + 1)
          BY <3>2, <3>5, Sums
        <5> QED BY <4>1, <5>1, <5>2
      <4>2. CASE i # Len(chan[s]) + 1
        <5>1. i \in 1..Len(chan[s])
          BY <4>2, <3>5
        <5> QED BY <5>1, <3>5, <1>5 DEF Stream
      <4> QED BY <4>1, <4>2
    <3>7. sub'[s].next_seq = b + Carried(s)' + Len(chan'[s])
      <4>1. (b + Carried(s) + Len(chan[s])) + 1 = b + Carried(s) + (Len(chan[s]) + 1)
        BY <3>2, <3>5, Sums
      <4> QED BY <4>1, <3>2, <3>3, <3>4, <3>5
    <3> QED BY <3>1, <3>2, <3>6, <3>7, <1>1, <1>5 DEF Stream, NoEvent
  <2> QED BY <2>1, <2>2, <2>3
<1> QED BY <1>3, <1>4, <1>5 DEF DspInv, Streams

LEMMA RecvStreams ==
    ASSUME DspInv, NEW r \in Subs, FanRecv(r)
    PROVE  Idle' /\ Streams'
<1>1. /\ hand'[r] = Head(chan[r]) /\ chan'[r] = Tail(chan[r]) /\ UNCHANGED <<sub, fan>>
      /\ \A s \in Subs : s # r => hand'[s] = hand[s] /\ chan'[s] = chan[s]
      /\ hand[r] = NoEvent /\ Listening(r) /\ chan[r] # <<>> /\ chan[r] \in Seq(0..MaxEvents)
  BY DEF FanRecv, DspInv, DspTypeOK
<1>2. host_up' = host_up /\ Kept
  BY Untouched DEF FanRecv
<1>3. Idle'
  BY <1>1 DEF DspInv, Idle, Listening, Closed, NoEvent
<1>4. ASSUME NEW s \in Subs, NEW b \in 0..(MaxEvents + 1), Stream(s, b) PROVE Stream(s, b)'
  <2>1. CASE s # r
    BY <2>1, <1>1, <1>2, <1>4, StreamStays
  <2>2. CASE s = r
    <3>1. Sent(r, b)'
      BY <1>2, <1>4, <2>2, SentStays DEF Stream
    <3>2. /\ Len(chan[r]) \in Nat /\ Len(chan[r]) >= 1 /\ Head(chan[r]) = chan[r][1] /\ Head(chan[r]) \in 0..MaxEvents
          /\ Len(chan'[r]) = Len(chan[r]) - 1
          /\ \A i \in 1..(Len(chan[r]) - 1) : chan'[r][i] = chan[r][i + 1]
      <4> DEFINE q == chan[r]
      <4>1. q \in Seq(0..MaxEvents) /\ q # <<>> /\ chan'[r] = Tail(q)
        BY <1>1
      <4> HIDE DEF q
      <4>2. /\ Len(q) \in Nat /\ Len(q) >= 1 /\ Head(q) = q[1] /\ q[1] \in 0..MaxEvents
            /\ Len(Tail(q)) = Len(q) - 1 /\ \A i \in 1..(Len(q) - 1) : Tail(q)[i] = q[i + 1]
        BY <4>1, FirstOf
      <4> QED BY <4>1, <4>2 DEF q
    <3>3. Carried(r) = 0 /\ Carried(r)' = 1 /\ b \in Nat
      BY <1>1, <3>2, DispatchAssumption DEF Carried, NoEvent
    <3>4. /\ \A i \in 1..Len(chan[r]) : chan[r][i] + 1 = b + 0 + i
          /\ sub[r] # Closed => sub[r].next_seq = b + 0 + Len(chan[r])
      BY <3>3, <1>1, <1>4, <2>2 DEF Stream
    <3>5. hand'[r] = b
      BY <3>2, <3>3, <3>4, <1>1
    <3>6. \A i \in 1..Len(chan'[r]) : chan'[r][i] + 1 = b + 1 + i
      <4> TAKE i \in 1..Len(chan'[r])
      <4>1. i \in 1..(Len(chan[r]) - 1) /\ i + 1 \in 1..Len(chan[r])
        BY <3>2
      <4>2. chan[r][i + 1] + 1 = b + 0 + (i + 1)
        BY <4>1, <3>4
      <4>3. chan'[r][i] = chan[r][i + 1] /\ chan[r][i + 1] \in Nat /\ i \in Nat
        <5>1. chan[r][i + 1] \in 0..MaxEvents
          BY <4>1, <1>1, FirstOf
        <5> QED BY <5>1, <4>1, <3>2, DispatchAssumption, SMTT(30)
      <4> QED BY <4>2, <4>3, <3>3, Sums
    <3>7. sub[r] # Closed => sub[r].next_seq = b + 1 + Len(chan'[r])
      <4>1. b + 0 + Len(chan[r]) = b + 1 + (Len(chan[r]) - 1)
        BY <3>2, <3>3, Sums
      <4> QED BY <4>1, <3>2, <3>4
    <3>8. fan'[r] = "none" => b = 0
      BY <1>1, <1>4, <2>2 DEF Stream
    <3> QED BY <3>1, <3>3, <3>5, <3>6, <3>7, <3>8, <2>2, <1>1 DEF Stream, Closed
  <2> QED BY <2>1, <2>2
<1> QED BY <1>2, <1>3, <1>4 DEF DspInv, Streams

LEMMA SendStreams ==
    ASSUME DspInv, NEW r \in Subs, FanSend(r)
    PROVE  Idle' /\ Streams'
<1> DEFINE m == ToHost("event", r, hand[r])
<1>1. /\ hand'[r] = NoEvent /\ UNCHANGED <<sub, fan, chan, host_up>>
      /\ \A s \in Subs : s # r => hand'[s] = hand[s]
      /\ hand[r] # NoEvent /\ Listening(r) /\ hand[r] \in 0..(MaxEvents + 1)
  BY DEF FanSend, DspInv, DspTypeOK
<1>2. hand[r] \in 0..MaxEvents /\ hand[r] \in Nat
  BY <1>1, DispatchAssumption DEF NoEvent
<1>3. /\ m \in RuntimeMessage /\ m \in EventsOf(r) /\ m.n = hand[r]
      /\ \A s \in Subs : s # r => m \notin EventsOf(s)
  BY <1>2, MadeMessages
<1>4. OnTheWay' = Append(OnTheWay, m)
  BY <1>3, Behind DEF FanSend
<1> HIDE DEF m
<1>5. Idle'
  BY <1>1 DEF DspInv, Idle, Listening, Closed, NoEvent
<1>6. ASSUME NEW s \in Subs, NEW b \in 0..(MaxEvents + 1), Stream(s, b), s # r PROVE Stream(s, b)'
  BY <1>1, <1>3, <1>4, <1>6, StreamStays
<1>7. ASSUME NEW b \in 0..(MaxEvents + 1), Stream(r, b) PROVE b + 1 \in 0..(MaxEvents + 1) /\ Stream(r, b + 1)'
  <2>1. hand[r] = b /\ Carried(r) = 1 /\ Carried(r)' = 0 /\ b \in Nat
    BY <1>1, <1>7, DispatchAssumption DEF Stream, Carried, NoEvent
  <2>2. b + 1 \in 0..(MaxEvents + 1)
    BY <2>1, <1>2, DispatchAssumption
  <2> DEFINE X == EventsOf(r)
  <2>3. /\ OnTheWay \in Seq(RuntimeMessage) /\ Rising(OnTheWay, X) /\ EventsOf(r)' = X
        /\ \A n \in 0..MaxEvents : Has(OnTheWay, X, n) <=> n < b
        /\ \A x \in X : x.n \in 0..MaxEvents
        /\ m \in X /\ m.n = b
    BY <1>3, <1>7, <2>1, OnTheWayType DEF DspInv, Stream, Sent, EventsOf
  <2> HIDE DEF X
  <2>4. \A i \in 1..Len(OnTheWay) : OnTheWay[i] \in X => OnTheWay[i].n < m.n
    BY <2>3 DEF Has
  <2>5. Rising(OnTheWay', X)
    BY <2>3, <2>4, <1>3, <1>4, RisingAppend
  <2>6. ASSUME NEW n \in 0..MaxEvents PROVE Has(OnTheWay', X, n) <=> n < b + 1
    <3>1. Has(OnTheWay', X, n) <=> Has(OnTheWay, X, n) \/ b = n
      BY <2>3, <1>3, <1>4, HasAppend
    <3> QED BY <3>1, <2>1, <2>3
  <2>7. Sent(r, b + 1)'
    BY <2>3, <2>5, <2>6 DEF Sent, Rising, Has
  <2>8. /\ \A i \in 1..Len(chan[r]) : chan[r][i] + 1 = b + 1 + i
        /\ sub[r] # Closed => sub[r].next_seq = b + 1 + Len(chan[r])
    BY <2>1, <1>1, <1>7 DEF Stream
  <2>9. fan'[r] # "none"
    BY <1>1 DEF Listening
  <2>10. Len(chan[r]) \in Nat
    BY DEF DspInv, DspTypeOK
  <2>11. /\ \A i \in 1..Len(chan[r]) : b + 1 + i = (b + 1) + 0 + i
         /\ b + 1 + Len(chan[r]) = (b + 1) + 0 + Len(chan[r])
    BY <2>1, <2>10
  <2> QED BY <2>1, <2>2, <2>7, <2>8, <2>9, <2>11, <1>1 DEF Stream, Closed, NoEvent
<1> QED BY <1>1, <1>5, <1>6, <1>7 DEF DspInv, Streams

LEMMA EndStreams ==
    ASSUME DspInv, NEW r \in Subs, FanEnds(r)
    PROVE  Idle' /\ Streams'
<1>1. /\ hand'[r] = NoEvent /\ chan'[r] = <<>> /\ fan'[r] = "ended" /\ fan[r] # "none" /\ UNCHANGED <<sub, host_up>>
      /\ \A s \in Subs : s # r => hand'[s] = hand[s] /\ chan'[s] = chan[s] /\ fan'[s] = fan[s]
  BY DEF FanEnds, DspInv, DspTypeOK
<1>2. Kept
  BY Untouched DEF FanEnds
<1>3. Idle'
  BY <1>1 DEF DspInv, Idle, Closed, NoEvent
<1>4. ASSUME NEW s \in Subs, NEW b \in 0..(MaxEvents + 1), Stream(s, b) PROVE Stream(s, b)'
  <2>1. CASE s # r
    BY <2>1, <1>1, <1>2, <1>4, StreamStays
  <2>2. CASE s = r
    <3>1. Sent(r, b)'
      BY <1>2, <1>4, <2>2, SentStays DEF Stream
    <3> QED BY <3>1, <2>2, <1>1 DEF Stream, Listening, NoEvent
  <2> QED BY <2>1, <2>2
<1> QED BY <1>1, <1>3, <1>4 DEF DspInv, Streams

LEMMA AnswerKeeps ==
    ASSUME DspInv, Answer
    PROVE  Idle' /\ Streams' /\ Waiting' /\ Answered'
<1> DEFINE m == ToHost("response", about, Request.n)
<1>1. /\ inbox # <<>> /\ Request \in Requests /\ Request.n = taken /\ taken \in 1..MaxControl
      /\ Busy = 1 /\ Serving /\ taken \in Nat
  BY TakenIsLast, DispatchAssumption DEF Answer
<1>2. /\ inbox' = Tail(inbox) /\ Busy' = 0 /\ Serving' /\ UNCHANGED <<taken, asks, host_up>>
      /\ UNCHANGED <<sub, chan, fan, hand>>
  BY DEF Answer, Busy, Serving, DspInv, Loop
<1>3. /\ m \in RuntimeMessage /\ m \in Responses /\ m.n = taken /\ \A s \in Subs : m \notin EventsOf(s)
  BY <1>1, MadeMessages DEF DspInv, DspTypeOK
<1>4. OnTheWay' = Append(OnTheWay, m)
  BY <1>3, Behind DEF Answer
<1> HIDE DEF m
<1>5. Idle'
  BY <1>2 DEF DspInv, Idle, Closed, NoEvent
<1>6. ASSUME NEW s \in Subs, NEW b \in 0..(MaxEvents + 1), Stream(s, b) PROVE Stream(s, b)'
  BY <1>2, <1>3, <1>4, <1>6, StreamStays
<1>7. Waiting'
  <2>1. /\ taken <= asks /\ Rising(inbox, Requests)
        /\ \A n \in 1..MaxControl : Has(inbox, Requests, n) <=> taken < n + 1 /\ n <= asks
    BY <1>1 DEF DspInv, Waiting
  <2>2. inbox \in Seq(ClientMessage) /\ (\A x \in Requests : x.n \in Nat) /\ Requests' = Requests
    BY MessageParts DEF DspInv, DspTypeOK, Requests, ClientMessage
  <2>3. /\ Rising(Tail(inbox), Requests)
        /\ \A n : Has(Tail(inbox), Requests, n) <=> Has(inbox, Requests, n) /\ ~(Head(inbox) \in Requests /\ Head(inbox).n = n)
    BY <1>1, <2>1, <2>2, TakenFirst
  <2>4. ASSUME NEW n \in 1..MaxControl PROVE Has(Tail(inbox), Requests, n) <=> taken < n + 0 /\ n <= asks
    <3>1. Has(Tail(inbox), Requests, n) <=> (taken < n + 1 /\ n <= asks) /\ taken # n
      BY <1>1, <2>1, <2>3 DEF Request
    <3> QED BY <3>1, <1>1
  <2> QED BY <1>2, <2>1, <2>2, <2>3, <2>4 DEF Waiting, Rising, Has
<1>8. Answered'
  <2>1. SUFFICES ASSUME host_up PROVE Answered'
    BY <1>2 DEF Answered
  <2>2. /\ OnTheWay \in Seq(RuntimeMessage) /\ Rising(OnTheWay, Responses) /\ Responses' = Responses
        /\ \A n \in 1..MaxControl : Has(OnTheWay, Responses, n) <=> n + 1 <= taken
        /\ \A x \in Responses : x.n \in 1..MaxControl
    BY <1>1, <2>1, OnTheWayType DEF DspInv, Answered, Responses
  <2>3. \A i \in 1..Len(OnTheWay) : OnTheWay[i] \in Responses => OnTheWay[i].n < m.n
    <3> SUFFICES ASSUME NEW i \in 1..Len(OnTheWay), OnTheWay[i] \in Responses PROVE OnTheWay[i].n < m.n
      OBVIOUS
    <3>1. OnTheWay[i].n \in 1..MaxControl /\ Has(OnTheWay, Responses, OnTheWay[i].n)
      BY <2>2 DEF Has
    <3> QED BY <3>1, <2>2, <1>1, <1>3
  <2>4. Rising(OnTheWay', Responses)
    BY <2>2, <2>3, <1>3, <1>4, RisingAppend
  <2>5. ASSUME NEW n \in 1..MaxControl PROVE Has(OnTheWay', Responses, n) <=> n + 0 <= taken
    <3>1. Has(OnTheWay', Responses, n) <=> Has(OnTheWay, Responses, n) \/ taken = n
      BY <2>2, <1>3, <1>4, HasAppend
    <3> QED BY <3>1, <2>2, <1>1
  <2> QED BY <1>2, <2>2, <2>4, <2>5 DEF Answered, Rising, Has
<1> QED BY <1>2, <1>5, <1>6, <1>7, <1>8 DEF DspInv, Streams

-----------------------------------------------------------------------------
\* Requests are taken and answered in step.
LEMMA KeepsPace ==
    ASSUME DspInv, DspNext, ~Answer
    PROVE  Serving' => Serving /\ Pace
<1> SUFFICES ASSUME Serving' PROVE Serving /\ Pace
  OBVIOUS
<1>0. taken \in Nat
  BY DEF DspInv, DspTypeOK
<1>a. ASSUME UNCHANGED <<phase, sink, taken>> PROVE Serving /\ Pace
  BY <1>a DEF Serving, Pace, Busy
<1>b. ASSUME sink' = sink, taken' = taken, sink, Busy' = Busy PROVE Serving /\ Pace
  BY <1>b DEF Serving, Pace
<1>1. CASE HostSends
  BY <1>1, <1>a DEF HostSends
<1>2. CASE HostCloses
  BY <1>2, <1>a DEF HostCloses
<1>3. CASE HandshakeStep
  <2>1. Head(inbox).kind = "hello"
    BY <1>3 DEF HandshakeStep, Serving, DspInv, Loop
  <2>2. taken' = taken /\ Busy' = 0 /\ Busy = 0
    BY <2>1, <1>3 DEF HandshakeStep, Controls, Busy
  <2> QED BY <2>2, <1>0, <1>3 DEF Pace, HandshakeStep, Serving
<1>4. CASE HandshakeEnds
  BY <1>4 DEF HandshakeEnds, Serving, DspInv, Loop
<1>5. CASE Drain
  BY <1>5, <1>b DEF Drain, Busy, DspInv, Loop
<1>6. CASE SelectOutbound
  BY <1>6, <1>b DEF SelectOutbound, Busy, DspInv, Loop
<1>7. CASE SelectKeepalive
  BY <1>7, <1>b DEF SelectKeepalive, Busy, DspInv, Loop
<1>8. CASE SelectInbound
  <2>1. Serving /\ Busy = 0
    BY <1>8 DEF SelectInbound, Serving, Busy, DspInv, Loop
  <2>2. (taken' = taken /\ Busy' = 0) \/ (taken' = taken + 1 /\ Busy' = 1)
    BY <1>8, InboundCases DEF Busy
  <2> QED BY <2>1, <2>2, <1>0 DEF Pace
<1>9. CASE SelectClosed
  BY <1>9, <1>b DEF SelectClosed, Busy, DspInv, Loop
<1>10. CASE HandleSubscribe
  BY <1>10, <1>b DEF HandleSubscribe, Handling, Busy, DspInv, Loop
<1>11. CASE HandleUnsubscribe
  BY <1>11, <1>b DEF HandleUnsubscribe, Handling, Busy, DspInv, Loop
<1>12. CASE HandleOther
  BY <1>12, <1>b DEF HandleOther, Handling, Busy, DspInv, Loop
<1>13. CASE Disconnect
  BY <1>13 DEF Disconnect, Serving
<1>14. CASE Flush
  BY <1>14 DEF Flush, Serving, DspInv, Loop
<1>15. CASE \E t \in EventTopics : Emit(t)
  BY <1>15, <1>a DEF Emit
<1>16. CASE \E s \in Subs : FanRecv(s) \/ FanSend(s) \/ FanEnds(s)
  BY <1>16, <1>a DEF FanRecv, FanSend, FanEnds
<1> QED BY <1>1, <1>2, <1>3, <1>4, <1>5, <1>6, <1>7, <1>8, <1>9, <1>10, <1>11, <1>12, <1>13, <1>14,
           <1>15, <1>16 DEF DspNext, SessionStep

\* A message that is no request is taken.
LEMMA OtherTaken ==
    ASSUME DspInv, inbox # <<>>, Head(inbox) \notin Requests, inbox' = Tail(inbox), asks' = asks, taken' = taken,
           Serving' => Serving /\ Busy' = Busy
    PROVE  Waiting'
<1>1. inbox \in Seq(ClientMessage) /\ (\A x \in Requests : x.n \in Nat) /\ Requests' = Requests
  BY MessageParts DEF DspInv, DspTypeOK, Requests, ClientMessage
<1> SUFFICES ASSUME Serving' PROVE Waiting'
  BY DEF Waiting
<1>2. /\ taken <= asks /\ Rising(inbox, Requests)
      /\ \A n \in 1..MaxControl : Has(inbox, Requests, n) <=> taken < n + Busy /\ n <= asks
  BY DEF DspInv, Waiting
<1>3. /\ Rising(Tail(inbox), Requests)
      /\ \A n : Has(Tail(inbox), Requests, n) <=> Has(inbox, Requests, n) /\ ~(Head(inbox) \in Requests /\ Head(inbox).n = n)
  BY <1>1, <1>2, TakenFirst
<1>4. \A n \in 1..MaxControl : Has(Tail(inbox), Requests, n) <=> taken < n + Busy /\ n <= asks
  BY <1>2, <1>3
<1> QED BY <1>1, <1>2, <1>3, <1>4 DEF Waiting, Rising, Has

LEMMA SendsKeep ==
    ASSUME DspInv, HostSends
    PROVE  Waiting'
<1>0. /\ inbox \in Seq(ClientMessage) /\ (\A x \in Requests : x.n \in 1..MaxControl) /\ Requests' = Requests
      /\ UNCHANGED <<taken>> /\ Busy' = Busy /\ (Serving' <=> Serving)
      /\ taken \in Nat /\ asks \in Nat /\ Busy \in {0, 1}
  <2>1. inbox \in Seq(ClientMessage) /\ taken \in Nat /\ asks \in Nat
    BY DEF DspInv, DspTypeOK
  <2>2. Requests' = Requests
    BY DEF Requests, ClientMessage
  <2>3. taken' = taken /\ phase' = phase /\ sink' = sink
    BY DEF HostSends
  <2>4. Busy' = Busy /\ (Serving' <=> Serving) /\ Busy \in {0, 1}
    BY <2>3 DEF Busy, Serving
  <2> QED BY <2>1, <2>2, <2>3, <2>4, MessageParts
<1> SUFFICES ASSUME Serving' PROVE Waiting'
  BY DEF Waiting
<1>1. /\ taken <= asks /\ Rising(inbox, Requests)
      /\ \A n \in 1..MaxControl : Has(inbox, Requests, n) <=> taken < n + Busy /\ n <= asks
  BY <1>0 DEF DspInv, Waiting
<1>2. CASE \E k \in {"hello", "old hello", "reply", "pong"} :
             inbox' = Append(inbox, [kind |-> k, n |-> 0, arg |-> "none"]) /\ asks' = asks
  <2>1. PICK k \in {"hello", "old hello", "reply", "pong"} :
               inbox' = Append(inbox, [kind |-> k, n |-> 0, arg |-> "none"]) /\ asks' = asks
    BY <1>2
  <2> DEFINE m == [kind |-> k, n |-> 0, arg |-> "none"]
  <2>2. m \in ClientMessage /\ m \notin Requests
    BY DEF Requests, ClientMessage, Controls
  <2> HIDE DEF m
  <2>3. inbox' = Append(inbox, m) /\ asks' = asks
    BY <2>1 DEF m
  <2>4. /\ Rising(inbox', Requests) /\ \A n : Has(inbox', Requests, n) <=> Has(inbox, Requests, n)
    BY <2>2, <2>3, <1>0, <1>1, HasAppend, RisingAppend
  <2> QED BY <2>3, <2>4, <1>0, <1>1 DEF Waiting, Rising, Has
<1>3. CASE asks' = asks + 1 /\ \E m \in ClientMessage : m.kind \in Controls /\ m.n = asks' /\ inbox' = Append(inbox, m)
  <2>1. PICK m \in ClientMessage : m.kind \in Controls /\ m.n = asks' /\ inbox' = Append(inbox, m)
    BY <1>3
  <2>2. m \in Requests /\ m.n = asks + 1
    BY <2>1, <1>3, MessageParts
  <2>3. \A i \in 1..Len(inbox) : inbox[i] \in Requests => inbox[i].n < m.n
    <3> SUFFICES ASSUME NEW i \in 1..Len(inbox), inbox[i] \in Requests PROVE inbox[i].n < m.n
      OBVIOUS
    <3>1. inbox[i].n \in 1..MaxControl /\ Has(inbox, Requests, inbox[i].n)
      BY <1>0 DEF Has
    <3>2. inbox[i].n <= asks /\ inbox[i].n \in Nat
      BY <3>1, <1>1, DispatchAssumption
    <3> QED BY <3>2, <2>2, <1>0
  <2>4. Rising(inbox', Requests)
    BY <2>1, <2>3, <1>0, <1>1, RisingAppend
  <2>5. ASSUME NEW n \in 1..MaxControl PROVE Has(inbox', Requests, n) <=> taken < n + Busy /\ n <= asks + 1
    <3>1. Has(inbox', Requests, n) <=> Has(inbox, Requests, n) \/ asks + 1 = n
      BY <2>1, <2>2, <1>0, HasAppend
    <3>2. Has(inbox', Requests, n) <=> (taken < n + Busy /\ n <= asks) \/ asks + 1 = n
      BY <3>1, <1>1
    <3>3. n \in Nat
      BY DispatchAssumption
    <3> QED BY <3>2, <3>3, <1>0, <1>1
  <2>6. taken <= asks + 1
    BY <1>0, <1>1
  <2> QED BY <2>4, <2>5, <2>6, <1>0, <1>3 DEF Waiting, Rising, Has
<1> QED BY <1>2, <1>3 DEF HostSends

\* The requests that wait are those that were sent and not taken.
LEMMA WaitingStays ==
    ASSUME DspInv, DspNext, ~Answer
    PROVE  Waiting'
<1>0. taken' \in Nat /\ DspTypeOK /\ (Serving' => Serving /\ Pace)
  <2>1. DspTypeOK' /\ DspTypeOK
    BY TypeStays DEF DspInv
  <2>2. taken' \in Nat
    BY <2>1 DEF DspTypeOK
  <2>3. Serving' => Serving /\ Pace
    BY KeepsPace
  <2> QED BY <2>1, <2>2, <2>3
<1>a. ASSUME UNCHANGED <<inbox, asks, taken>> PROVE Waiting'
  <2>1. Serving' => taken' <= asks
    BY <1>0, <1>a DEF DspInv, Waiting
  <2> QED BY <2>1, <1>0, <1>a, RequestsStay
<1>1. CASE HostSends
  BY <1>1, SendsKeep
<1>2. CASE HostCloses
  BY <1>2, <1>a DEF HostCloses
<1>3. CASE HandshakeStep
  <2>1. CASE Serving'
    <3>1. Head(inbox).kind = "hello" /\ inbox # <<>>
      BY <1>3, <2>1 DEF HandshakeStep, Serving, DspInv, Loop
    <3>2. Head(inbox) \notin Requests
      BY <3>1 DEF Requests, Controls
    <3>3. taken' = taken /\ Busy' = Busy /\ inbox' = Tail(inbox) /\ asks' = asks
      BY <3>1, <1>3 DEF HandshakeStep, Controls, Busy
    <3> QED BY <3>1, <3>2, <3>3, <1>0, OtherTaken
  <2>2. CASE ~Serving'
    BY <2>2 DEF Waiting
  <2> QED BY <2>1, <2>2
<1>4. CASE HandshakeEnds
  BY <1>4, <1>a DEF HandshakeEnds
<1>5. CASE Drain
  BY <1>5, <1>a DEF Drain
<1>6. CASE SelectOutbound
  BY <1>6, <1>a DEF SelectOutbound
<1>7. CASE SelectKeepalive
  BY <1>7, <1>a DEF SelectKeepalive
<1>8. CASE SelectInbound
  <2>1. Serving /\ Busy = 0
    BY <1>8 DEF SelectInbound, Serving, Busy, DspInv, Loop
  <2>2. CASE Head(inbox).kind \in Controls /\ taken' = taken + 1 /\ inbox' = inbox
    <3>1. asks' = asks /\ inbox # <<>> /\ taken \in Nat /\ asks \in Nat
      BY <1>8, InboundCases DEF DspInv, DspTypeOK
    <3>2. Head(inbox) \in Requests /\ taken < Head(inbox).n + 0 /\ Head(inbox).n <= asks
      BY <2>1, <2>2, <3>1, TakenWasSent
    <3>3. Head(inbox).n \in Nat
      BY <3>2, MessageParts
    <3>4. taken' <= asks
      BY <2>2, <3>1, <3>2, <3>3
    <3> QED BY <2>2, <3>1, <3>4, <1>0, RequestsStay
  <2>3. CASE Head(inbox).kind \notin Controls /\ taken' = taken /\ inbox' = Tail(inbox)
    <3>1. Head(inbox) \notin Requests /\ inbox # <<>> /\ asks' = asks
      BY <1>8, <2>3, InboundCases DEF Requests
    <3>2. Busy' = Busy
      BY <2>1, <2>3, <1>8, InboundCases DEF Busy, DspInv, DspTypeOK
    <3> QED BY <2>3, <3>1, <3>2, <1>0, OtherTaken
  <2> QED BY <1>8, <2>2, <2>3, InboundCases
<1>9. CASE SelectClosed
  BY <1>9, <1>a DEF SelectClosed
<1>10. CASE HandleSubscribe
  BY <1>10, <1>a DEF HandleSubscribe
<1>11. CASE HandleUnsubscribe
  BY <1>11, <1>a DEF HandleUnsubscribe
<1>12. CASE HandleOther
  BY <1>12, <1>a DEF HandleOther
<1>13. CASE Disconnect
  BY <1>13, <1>a DEF Disconnect
<1>14. CASE Flush
  BY <1>14, <1>a DEF Flush
<1>15. CASE \E t \in EventTopics : Emit(t)
  BY <1>15, <1>a DEF Emit
<1>16. CASE \E s \in Subs : FanRecv(s) \/ FanSend(s) \/ FanEnds(s)
  BY <1>16, <1>a DEF FanRecv, FanSend, FanEnds
<1> QED BY <1>1, <1>2, <1>3, <1>4, <1>5, <1>6, <1>7, <1>8, <1>9, <1>10, <1>11, <1>12, <1>13, <1>14,
           <1>15, <1>16 DEF DspNext, SessionStep

LEMMA LoopStays ==
    ASSUME DspInv, DspNext
    PROVE  Loop'
<1>0. /\ DspTypeOK /\ inbox \in Seq(ClientMessage) /\ taken \in Nat /\ sink \in BOOLEAN
      /\ phase \in {"handshake", "draining", "selecting", "handling", "answering", "leaving", "flushing", "over"}
      /\ phase = "handshake" => outq = <<>> /\ received = <<>> /\ taken = 0 /\ \A s \in Subs : fan[s] = "none"
      /\ sink <=> phase \in {"draining", "selecting", "handling", "answering", "leaving"}
      /\ phase \in {"handling", "answering"} => inbox # <<>> /\ Head(inbox) \in Requests /\ taken > 0
  BY DEF DspInv, DspTypeOK, Loop, Busy
<1>a. Requests' = Requests
  BY DEF Requests, ClientMessage
<1>b. ASSUME phase' \notin {"handshake", "handling", "answering"},
             sink' <=> phase' \in {"draining", "selecting", "handling", "answering", "leaving"} PROVE Loop'
  BY <1>b DEF Loop, Busy
<1>c. ASSUME UNCHANGED <<phase, inbox, outq, received, sink, fan, taken>> PROVE Loop'
  BY <1>0, <1>a, <1>c DEF Loop, Busy
<1>1. CASE HostSends
  <2>1. \E m \in ClientMessage : inbox' = Append(inbox, m)
    <3>1. \A k \in {"hello", "old hello", "reply", "pong"} : [kind |-> k, n |-> 0, arg |-> "none"] \in ClientMessage
      BY DEF ClientMessage
    <3> QED BY <3>1, <1>1 DEF HostSends
  <2>2. inbox # <<>> => inbox' # <<>> /\ Head(inbox') = Head(inbox)
    <3>1. \A S : \A q \in Seq(S), m \in S : q # <<>> => Append(q, m) # <<>> /\ Head(Append(q, m)) = Head(q)
      OBVIOUS
    <3> QED BY <3>1, <2>1, <1>0
  <2>3. UNCHANGED <<phase, outq, received, sink, fan, taken>>
    BY <1>1 DEF HostSends
  <2> QED BY <2>2, <2>3, <1>0, <1>a DEF Loop, Busy
<1>2. CASE HostCloses
  BY <1>2, <1>c DEF HostCloses
<1>3. CASE HandshakeStep
  BY <1>0, <1>3, <1>b DEF HandshakeStep
<1>4. CASE HandshakeEnds
  BY <1>0, <1>4, <1>b DEF HandshakeEnds
<1>5. CASE Drain
  BY <1>0, <1>5, <1>b DEF Drain
<1>6. CASE SelectOutbound
  BY <1>0, <1>6, <1>b DEF SelectOutbound
<1>7. CASE SelectKeepalive
  BY <1>0, <1>7, <1>b DEF SelectKeepalive
<1>8. CASE SelectInbound
  <2>1. CASE phase' = "handling"
    <3>1. inbox # <<>> /\ Head(inbox) \in Requests /\ inbox' = inbox /\ taken' = taken + 1 /\ sink' = sink /\ sink
      BY <2>1, <1>0, <1>8, InboundCases, QueueHeads, MessageParts
    <3>2. taken + 1 > 0
      BY <1>0
    <3>3. phase' # "handshake" /\ sink' /\ inbox' # <<>> /\ Head(inbox') \in Requests' /\ taken' > 0
      BY <3>1, <3>2, <2>1, <1>a
    <3> QED BY <3>3, <2>1 DEF Loop, Busy
  <2>2. CASE phase' # "handling"
    BY <2>2, <1>0, <1>8, <1>b, InboundCases
  <2> QED BY <2>1, <2>2
<1>9. CASE SelectClosed
  BY <1>0, <1>9, <1>b DEF SelectClosed
<1>10. CASE phase = "handling" /\ phase' = "answering" /\ UNCHANGED <<inbox, outq, received, sink, taken>>
  BY <1>0, <1>10, <1>a DEF Loop, Busy
<1>11. CASE Answer
  BY <1>0, <1>11, <1>b DEF Answer
<1>12. CASE Disconnect
  BY <1>0, <1>12, <1>b DEF Disconnect
<1>13. CASE Flush
  BY <1>0, <1>13, <1>b DEF Flush
<1>14. ASSUME NEW t \in EventTopics, Emit(t) PROVE Loop'
  BY <1>14, <1>c DEF Emit
<1>15. ASSUME NEW s \in Subs, FanRecv(s) PROVE Loop'
  BY <1>15, <1>c DEF FanRecv
<1>16. ASSUME NEW s \in Subs, FanSend(s) \/ FanEnds(s) PROVE Loop'
  <2>1. fan[s] # "none" \/ phase = "over"
    BY <1>16 DEF FanSend, FanEnds, Listening
  <2>2. phase # "handshake"
    BY <2>1, <1>0
  <2> QED BY <2>2, <1>0, <1>16, <1>a DEF FanSend, FanEnds, Loop, Busy
<1> QED BY <1>1, <1>2, <1>3, <1>4, <1>5, <1>6, <1>7, <1>8, <1>9, <1>10, <1>11, <1>12, <1>13, <1>14, <1>15, <1>16
        DEF DspNext, SessionStep, HandleSubscribe, HandleUnsubscribe, HandleOther, Handling

\* The answers on their way are those of the requests that were taken.
LEMMA AnsweredStays ==
    ASSUME DspInv, DspNext, ~Answer
    PROVE  Answered'
<1>0. taken' \in Nat
  BY TypeStays DEF DspTypeOK
<1>1. CASE \E s \in Subs : FanSend(s)
  <2>1. PICK r \in Subs : FanSend(r)
    BY <1>1
  <2> DEFINE m == ToHost("event", r, hand[r])
  <2>2. hand[r] \in 0..MaxEvents
    BY <2>1, DispatchAssumption DEF FanSend, NoEvent, DspInv, DspTypeOK
  <2>3. m \in RuntimeMessage /\ m \notin Responses
    BY <2>2, MadeMessages
  <2>4. OnTheWay' = Append(OnTheWay, m)
    BY <2>1, <2>3, Behind DEF FanSend
  <2> HIDE DEF m
  <2>5. /\ UNCHANGED <<phase, sink, taken, host_up>> /\ Responses' = Responses /\ OnTheWay \in Seq(RuntimeMessage)
    BY <2>1, OnTheWayType DEF FanSend, Responses, DspInv
  <2>6. Busy' = Busy /\ (Serving' <=> Serving)
    BY <2>5 DEF Busy, Serving
  <2>7. /\ Rising(OnTheWay, Responses) => Rising(OnTheWay', Responses)
        /\ \A n : Has(OnTheWay', Responses, n) <=> Has(OnTheWay, Responses, n)
    BY <2>3, <2>4, <2>5, HasAppend, RisingAppend
  <2> QED BY <2>5, <2>6, <2>7 DEF DspInv, Answered, Rising, Has
<1>2. CASE ~\E s \in Subs : FanSend(s)
  <2>1. host_up' => host_up /\ Kept
    BY <1>2, KeptBySteps
  <2> QED BY <2>1, <1>0, KeepsPace, AnswersStay
<1> QED BY <1>1, <1>2

LEMMA StreamsKeep ==
    ASSUME DspInv, DspNext, ~Answer
    PROVE  Idle' /\ Streams'
<1>1. CASE HandleSubscribe
  BY <1>1, SubscribeStreams
<1>2. CASE HandleUnsubscribe
  <2>1. \A s \in Subs : fan'[s] \in {fan[s], Aborted(fan[s])} /\ sub'[s] \in {sub[s], Closed}
    BY <1>2 DEF HandleUnsubscribe, DspInv, DspTypeOK
  <2> QED BY <2>1, <1>2, AbortStreams DEF HandleUnsubscribe
<1>3. CASE Disconnect
  BY <1>3, AbortStreams DEF Disconnect
<1>4. CASE \E t \in EventTopics : Emit(t)
  BY <1>4, EmitStreams
<1>5. CASE \E s \in Subs : FanRecv(s) \/ FanSend(s) \/ FanEnds(s)
  BY <1>5, RecvStreams, SendStreams, EndStreams
<1>6. CASE UNCHANGED <<sub, chan, fan, hand>> /\ ~\E s \in Subs : FanSend(s)
  <2>1. host_up' => host_up /\ Kept
    BY <1>6, KeptBySteps
  <2> QED BY <2>1, <1>6, StreamsStay
<1>7. CASE HostSends \/ HostCloses \/ HandshakeStep \/ HandshakeEnds \/ Drain
  BY <1>5, <1>6, <1>7 DEF HostSends, HostCloses, HandshakeStep, HandshakeEnds, Drain
<1>8. CASE SelectOutbound \/ SelectKeepalive \/ SelectInbound \/ SelectClosed \/ HandleOther \/ Flush
  BY <1>5, <1>6, <1>8 DEF SelectOutbound, SelectKeepalive, SelectInbound, SelectClosed, HandleOther, Flush
<1> QED BY <1>1, <1>2, <1>3, <1>4, <1>5, <1>7, <1>8 DEF DspNext, SessionStep

LEMMA NextDsp == DspInv /\ [DspNext]_dspVars => DspInv'
<1> SUFFICES ASSUME DspInv, [DspNext]_dspVars PROVE DspInv'
  OBVIOUS
<1>1. CASE DspNext /\ Answer
  BY <1>1, TypeStays, LoopStays, AnswerKeeps DEF DspInv
<1>2. CASE DspNext /\ ~Answer
  BY <1>2, TypeStays, LoopStays, StreamsKeep, WaitingStays, AnsweredStays DEF DspInv
<1>3. CASE UNCHANGED dspVars
  <2>1. UNCHANGED <<phase, inbox, outq, received, drained, sink, sub, chan, fan, hand, about, asks, taken, host_up>>
    BY <1>3 DEF dspVars
  <2>2. DspTypeOK'
    BY <2>1 DEF DspInv, DspTypeOK
  <2>3. Idle' /\ Streams'
    BY <2>1, Untouched, StreamsStay
  <2>4. taken' \in Nat /\ Pace /\ (Serving' => Serving)
    BY <2>1 DEF Pace, Busy, Serving, DspInv, DspTypeOK
  <2>5. Answered'
    BY <2>1, <2>4, Untouched, AnswersStay
  <2>6. Serving' => taken' <= asks
    BY <2>1, <2>4 DEF DspInv, Waiting
  <2>7. Waiting'
    BY <2>1, <2>4, <2>6, RequestsStay
  <2>8. Loop'
    <3>1. Requests' = Requests
      BY DEF Requests, ClientMessage
    <3> QED BY <3>1, <2>1 DEF DspInv, Loop, Busy
  <2> QED BY <2>2, <2>3, <2>5, <2>7, <2>8 DEF DspInv
<1> QED BY <1>1, <1>2, <1>3

LEMMA InvGapless == DspInv => StreamsAreGapless
<1> SUFFICES ASSUME DspInv, host_up PROVE StreamsAreGapless
  BY DEF StreamsAreGapless
<1>1. ASSUME NEW s \in Subs
      PROVE  /\ Rising(OnTheWay, EventsOf(s))
             /\ \A n \in 0..MaxEvents : Has(OnTheWay, EventsOf(s), n) => \A k \in 0..n : Has(OnTheWay, EventsOf(s), k)
             /\ sub[s] # Closed /\ fan[s] = "running" =>
                  \A n \in 0..MaxEvents :
                      Has(OnTheWay, EventsOf(s), n) <=> n + Carried(s) + Len(chan[s]) < sub[s].next_seq
  <2>1. PICK b \in 0..(MaxEvents + 1) : Stream(s, b)
    BY DEF DspInv, Streams
  <2>2. /\ Rising(OnTheWay, EventsOf(s)) /\ b \in Nat
        /\ \A n \in 0..MaxEvents : Has(OnTheWay, EventsOf(s), n) <=> n < b
    BY <2>1, DispatchAssumption DEF Stream, Sent
  <2>3. ASSUME NEW n \in 0..MaxEvents, Has(OnTheWay, EventsOf(s), n), NEW k \in 0..n
        PROVE  Has(OnTheWay, EventsOf(s), k)
    <3>1. n \in Nat /\ k \in 0..MaxEvents /\ k <= n
      BY <2>3, DispatchAssumption
    <3> QED BY <3>1, <2>2, <2>3
  <2>4. ASSUME sub[s] # Closed, fan[s] = "running", NEW n \in 0..MaxEvents
        PROVE  Has(OnTheWay, EventsOf(s), n) <=> n + Carried(s) + Len(chan[s]) < sub[s].next_seq
    <3>1. sub[s].next_seq = b + Carried(s) + Len(chan[s])
      BY <2>1, <2>4 DEF Stream, Listening
    <3>2. Carried(s) \in {0, 1} /\ Len(chan[s]) \in Nat /\ n \in Nat
      BY DispatchAssumption DEF Carried, DspInv, DspTypeOK
    <3>3. n + Carried(s) + Len(chan[s]) < b + Carried(s) + Len(chan[s]) <=> n < b
      BY <3>2, <2>2
    <3> QED BY <3>1, <3>3, <2>2
  <2> QED BY <2>2, <2>3, <2>4
<1>2. Rising(OnTheWay, Responses) /\ (sink => \A n \in 1..MaxControl : Has(OnTheWay, Responses, n) <=> n + Busy <= taken)
  BY DEF DspInv, Answered, Serving
<1> QED BY <1>1, <1>2 DEF StreamsAreGapless, OnTheWay

\* The queues, numbers and tasks of a session stay what the loop and the
\* handlers take them for; in particular no more requests are taken than the
\* host sent.
THEOREM DspTypeCorrect == DspSpec => []DspTypeOK
<1>1. DspInv => DspTypeOK
  BY DEF DspInv
<1> QED BY <1>1, InitDsp, NextDsp, PTL DEF DspSpec

\* For any number of subscriptions, events and requests, whatever the size of
\* a drained batch: the host gets the events of a subscription as 0, 1, 2, ...,
\* none of an open one is lost behind the authority, and the requests that were
\* taken are answered once each and in their order (emit_locked,
\* handle_subscribe, the fan-out tasks, run).
THEOREM StreamsCorrect == DspSpec => []StreamsAreGapless
<1> QED BY InvGapless, InitDsp, NextDsp, PTL DEF DspSpec

-----------------------------------------------------------------------------
(* LlmStream: requests                                                     *)

\* The messages of a conversation, those that are not system messages, and the
\* values of NoSystem's recursion.
Fit == {m \in Messages : m.role = "tool" => m.calls = <<>>}
Spoken == {m \in Fit : m.role # "system"}
Keeps(g, h) ==
    g[0] = <<>> /\ \A i \in 1..Len(h) : g[i] = IF h[i].role = "system" THEN g[i - 1] ELSE Append(g[i - 1], h[i])

LEMMA NoSystemCourse ==
    ASSUME NEW h \in Seq(Fit)
    PROVE  \E g \in [0..Len(h) -> Seq(Spoken)] : Keeps(g, h) /\ NoSystem(h) = g[Len(h)]
<1> DEFINE n == Len(h)
           Next(x, i) == IF h[i].role = "system" THEN x ELSE Append(x, h[i])
           f == [x \in Seq(Spoken) \X (1..n) |-> Next(x[1], x[2])]
           Fix(k) == k = [i \in 0..n |-> IF i = 0 THEN <<>>
                            ELSE IF h[i].role = "system" THEN k[i - 1] ELSE Append(k[i - 1], h[i])]
           u == CHOOSE k : Fix(k)
<1>1. n \in Nat
  OBVIOUS
<1>2. \A i \in 1..n : h[i] \in Fit
  OBVIOUS
<1>3. \A x \in Seq(Spoken), i \in 1..n : Next(x, i) \in Seq(Spoken)
  <2> TAKE x \in Seq(Spoken), i \in 1..n
  <2>1. CASE h[i].role = "system"
    BY <2>1
  <2>2. CASE h[i].role # "system"
    <3>1. h[i] \in Spoken
      BY <1>2, <2>2 DEF Spoken
    <3> QED BY <2>2, <3>1
  <2> QED BY <2>1, <2>2
<1> HIDE DEF Next
<1>4. f \in [Seq(Spoken) \X (1..n) -> Seq(Spoken)]
  BY <1>3
<1>5. \A x \in Seq(Spoken), i \in 1..n : f[<<x, i>>] = Next(x, i)
  OBVIOUS
<1>6. <<>> \in Seq(Spoken)
  OBVIOUS
<1>7. NoSystem(h) = u[n]
  BY DEF NoSystem
<1> HIDE DEF f, u, n
<1>8. \E g : Follows(g, n, Seq(Spoken), <<>>, f)
  BY <1>1, <1>4, <1>6, Recursion
<1>9. PICK g \in [0..n -> Seq(Spoken)] : g[0] = <<>> /\ \A i \in 1..n : g[i] = f[<<g[i - 1], i>>]
  BY <1>8 DEF Follows
<1>10. \A i \in 1..n : g[i] = Next(g[i - 1], i)
  <2> TAKE i \in 1..n
  <2>1. i - 1 \in 0..n
    BY <1>1
  <2>2. g[i] = f[<<g[i - 1], i>>]
    BY <1>9
  <2>3. f[<<g[i - 1], i>>] = Next(g[i - 1], i)
    BY <1>5, <1>9, <2>1
  <2> QED BY <2>2, <2>3
<1>11. Fix(g)
  <2>1. g = [i \in 0..n |-> IF i = 0 THEN <<>> ELSE Next(g[i - 1], i)]
    BY <1>1, <1>9, <1>10
  <2> QED BY <2>1 DEF Next
<1>12. Fix(u)
  BY <1>11 DEF u
<1>13. u[0] = <<>> /\ \A i \in 1..n : u[i] = Next(u[i - 1], i)
  <2>1. u = [i \in 0..n |-> IF i = 0 THEN <<>> ELSE Next(u[i - 1], i)]
    BY <1>12 DEF Next
  <2> HIDE DEF Fix
  <2> QED BY <1>1, <2>1
<1> HIDE DEF Fix
<1>14. \A m \in 0..n : m < n /\ u[m] = g[m] => u[m + 1] = g[m + 1]
  <2> SUFFICES ASSUME NEW m \in 0..n, m < n, u[m] = g[m] PROVE u[m + 1] = g[m + 1]
    OBVIOUS
  <2> DEFINE i == m + 1
  <2>1. i \in 1..n /\ i - 1 = m
    BY <1>1
  <2> HIDE DEF i
  <2>2. u[i] = Next(u[m], i) /\ g[i] = Next(g[m], i)
    BY <1>10, <1>13, <2>1
  <2>3. u[i] = g[i]
    BY <2>2
  <2> QED BY <2>3 DEF i
<1>15. u[0] = g[0]
  BY <1>9, <1>13
<1>16. \A m \in 0..n : u[m] = g[m]
  <2> HIDE DEF n
  <2> QED BY <1>1, <1>14, <1>15, SameCourse, ZenonT(40)
<1>17. NoSystem(h) = g[n]
  BY <1>1, <1>7, <1>16
<1>18. Keeps(g, h)
  <2>1. \A i \in 1..n : g[i] = IF h[i].role = "system" THEN g[i - 1] ELSE Append(g[i - 1], h[i])
    BY <1>10 DEF Next
  <2> QED BY <1>9, <2>1 DEF Keeps, n
<1> QED BY <1>9, <1>17, <1>18 DEF n

LEMMA NoSystemType ==
    ASSUME NEW h \in Seq(Fit)
    PROVE  NoSystem(h) \in Seq(Spoken)
<1>1. PICK g \in [0..Len(h) -> Seq(Spoken)] : NoSystem(h) = g[Len(h)]
  BY NoSystemCourse
<1>2. Len(h) \in 0..Len(h)
  OBVIOUS
<1> QED BY <1>1, <1>2

\* System messages before a conversation without one are all that NoSystem
\* takes away.
LEMMA NoSystemPrefix ==
    ASSUME NEW q \in Seq(Fit), NEW t \in Seq(Spoken), NEW k \in Nat, Len(q) = k + Len(t),
           \A i \in 1..Len(q) : IF i <= k THEN q[i].role = "system" ELSE q[i] = t[i - k]
    PROVE  NoSystem(q) = t
<1> DEFINE n == Len(q)
           Up(m) == IF m <= k THEN <<>> ELSE SubSeq(t, 1, m - k)
           G(g) == {m \in 0..n : g[m] = Up(m)}
<1>1. n \in Nat /\ Len(t) \in Nat
  OBVIOUS
<1>2. PICK g \in [0..n -> Seq(Spoken)] : Keeps(g, q) /\ NoSystem(q) = g[n]
  BY NoSystemCourse
<1>3. 0 \in G(g)
  BY <1>1, <1>2 DEF Keeps
<1>4. \A m \in 0..n : m < n /\ m \in G(g) => m + 1 \in G(g)
  <2> SUFFICES ASSUME NEW m \in 0..n, m < n, m \in G(g) PROVE m + 1 \in G(g)
    OBVIOUS
  <2> DEFINE i == m + 1
  <2>1. i \in 1..n /\ i - 1 = m /\ i \in 0..n /\ m \in Nat
    BY <1>1, Successor, Zenon
  <2>2. g[i] = IF q[i].role = "system" THEN g[m] ELSE Append(g[m], q[i])
    BY <1>2, <2>1 DEF Keeps
  <2>3. CASE i <= k
    <3>1. Up(m) = <<>> /\ Up(i) = <<>>
      BY <2>1, <2>3
    <3>2. q[i].role = "system"
      BY <2>1, <2>3
    <3>3. g[m] = Up(m)
      OBVIOUS
    <3> HIDE DEF Up, i
    <3>4. g[i] = Up(i)
      BY <2>2, <3>1, <3>2, <3>3
    <3> QED BY <2>1, <3>4
  <2>4. CASE ~(i <= k)
    <3> DEFINE d == i - k
    <3>1. d \in 1..Len(t) /\ d - 1 \in Nat /\ d - 1 <= Len(t)
      BY <1>1, <2>1, <2>4
    <3>2. q[i] = t[d] /\ t[d] \in Spoken
      BY <2>1, <2>4, <3>1
    <3>3. g[i] = Append(g[m], t[d])
      BY <2>2, <3>2 DEF Spoken
    <3>4. g[m] = SubSeq(t, 1, d - 1)
      <4>1. CASE m <= k
        <5>1. d = 1 /\ d - 1 = 0 /\ g[m] = <<>>
          BY <2>1, <2>4, <4>1
        <5>2. SubSeq(t, 1, 0) = <<>>
          OBVIOUS
        <5> QED BY <5>1, <5>2
      <4>2. CASE ~(m <= k)
        <5>1. m - k = d - 1 /\ g[m] = SubSeq(t, 1, m - k)
          BY <2>1, <4>2
        <5> QED BY <5>1
      <4> QED BY <4>1, <4>2
    <3> HIDE DEF d
    <3>5. SubSeq(t, 1, d) = Append(SubSeq(t, 1, d - 1), t[d])
      BY <3>1
    <3>6. g[i] = SubSeq(t, 1, d)
      BY <3>3, <3>4, <3>5
    <3>7. Up(i) = SubSeq(t, 1, d)
      BY <2>4 DEF d
    <3> QED BY <2>1, <3>6, <3>7
  <2> QED BY <2>3, <2>4
<1>5. n \in G(g)
  <2> HIDE DEF G, n
  <2>1. \A m \in 0..n : m \in G(g)
    BY <1>1, <1>3, <1>4, UpTo
  <2> QED BY <1>1, <2>1
<1>6. g[n] = Up(n)
  BY <1>5
<1>7. Up(n) = t
  <2>1. CASE n <= k
    <3>1. Len(t) = 0
      BY <1>1, <2>1
    <3> QED BY <2>1, <3>1
  <2>2. CASE ~(n <= k)
    <3>1. n - k = Len(t)
      BY <1>1
    <3>2. SubSeq(t, 1, Len(t)) = t
      OBVIOUS
    <3> QED BY <2>2, <3>1, <3>2
  <2> QED BY <2>1, <2>2
<1> QED BY <1>2, <1>6, <1>7

\* The system field is the conversation's first system message.
LEMMA SystemFirst ==
    ASSUME NEW h \in Seq(Fit), Systems(h) # {}
    PROVE  Min(Systems(h)) \in Systems(h) /\ SystemText(h) = <<h[Min(Systems(h))]>>
<1>1. Systems(h) \in SUBSET Nat
  BY DEF Systems
<1>2. \E x \in Systems(h) : \A y \in Systems(h) : x <= y
  BY <1>1, Least
<1>3. Min(Systems(h)) \in Systems(h)
  BY <1>2 DEF Min
<1> QED BY <1>3 DEF SystemText

LEMMA Translated ==
    ASSUME NEW m \in Spoken
    PROVE  /\ AnthropicMessage(m) \in Spoken
           /\ AnthropicMessage(m).calls = m.calls /\ AnthropicMessage(m).result = m.result
<1>1. m \in Messages /\ m.role # "system" /\ (m.role = "tool" => m.calls = <<>>)
  BY DEF Spoken, Fit
<1>2. CASE m.role = "tool"
  <2>1. AnthropicMessage(m) = [role |-> "user", text |-> m.text, calls |-> <<>>, result |-> m.result]
    BY <1>2 DEF AnthropicMessage
  <2>2. <<>> \in Seq(Strings) /\ m.text \in Strings /\ m.result \in Strings
    BY <1>1 DEF Messages
  <2>3. AnthropicMessage(m) \in Messages
    BY <2>1, <2>2 DEF Messages
  <2> QED BY <1>1, <1>2, <2>1, <2>3 DEF Spoken, Fit
<1>3. CASE m.role = "assistant" /\ m.calls # <<>>
  <2> DEFINE v == ""
  <2>1. AnthropicMessage(m) = [role |-> m.role, text |-> v, calls |-> m.calls, result |-> m.result]
    BY <1>3 DEF AnthropicMessage
  <2>2. v \in Strings /\ m.role \in {"system", "user", "assistant", "tool"} /\ m.calls \in Seq(Strings) /\ m.result \in Strings
    BY <1>1, LlmAssumption DEF Messages
  <2> HIDE DEF v
  <2> DEFINE x == [role |-> m.role, text |-> v, calls |-> m.calls, result |-> m.result]
  <2>3. x \in Messages
    BY <2>2 DEF Messages
  <2>4. x.role = m.role /\ x.calls = m.calls /\ x.result = m.result
    OBVIOUS
  <2> HIDE DEF x
  <2>5. x \in Spoken
    BY <1>1, <1>3, <2>3, <2>4 DEF Spoken, Fit
  <2>6. AnthropicMessage(m) = x
    BY <2>1 DEF x
  <2> QED BY <2>4, <2>5, <2>6
<1>4. CASE m.role # "tool" /\ ~(m.role = "assistant" /\ m.calls # <<>>)
  <2>1. AnthropicMessage(m) = m
    BY <1>4 DEF AnthropicMessage
  <2> QED BY <2>1
<1> QED BY <1>2, <1>3, <1>4

\* The request of either provider keeps the calls and results of the
\* conversation in order, and its first system message.
Faithful(q, h) == q \in Seq(Messages) /\ Ids(NoSystem(q)) = Ids(NoSystem(h)) /\ SystemText(q) = SystemText(h)

LEMMA RequestsAreFaithful ==
    ASSUME NEW h \in Histories
    PROVE  Faithful(WireRequest(h), h) /\ Faithful(build_wire_request(h), h)
<1>1. h \in Seq(Messages) /\ h \in Seq(Fit)
  <2>1. h \in Seq(Messages) /\ \A i \in DOMAIN h : h[i].role = "tool" => h[i].calls = <<>>
    BY LlmAssumption
  <2>2. \A i \in 1..Len(h) : h[i] \in Fit
    BY <2>1 DEF Fit
  <2>3. h \in [1..Len(h) -> Fit] /\ Len(h) \in Nat
    BY <2>1, <2>2
  <2> QED BY <2>1, <2>3
<1>2. Faithful(WireRequest(h), h)
  BY <1>1 DEF Faithful, WireRequest
<1> DEFINE s == NoSystem(h)
           t == translate_messages(h)
           x == SystemText(h)
           q == x \o t
           k == Len(x)
<1>3. s \in Seq(Spoken)
  BY <1>1, NoSystemType
<1>4. /\ t \in Seq(Spoken) /\ Len(t) = Len(s)
      /\ \A i \in 1..Len(s) : t[i].calls = s[i].calls /\ t[i].result = s[i].result
  <2>1. t = [i \in 1..Len(s) |-> AnthropicMessage(s[i])] /\ Len(s) \in Nat
    BY <1>3 DEF translate_messages
  <2>2. \A i \in 1..Len(s) : s[i] \in Spoken
    BY <1>3
  <2> HIDE DEF s, t
  <2>3. \A i \in 1..Len(s) : t[i] \in Spoken /\ t[i].calls = s[i].calls /\ t[i].result = s[i].result
    BY <2>1, <2>2, Translated
  <2>4. t \in [1..Len(s) -> Spoken]
    BY <2>1, <2>3
  <2>5. t \in Seq(Spoken) /\ Len(t) = Len(s)
    BY <2>1, <2>4
  <2> QED BY <2>3, <2>5
<1>5. Ids(t) = Ids(s)
  <2>1. DOMAIN t = 1..Len(s) /\ DOMAIN s = 1..Len(s)
    BY <1>3, <1>4
  <2> HIDE DEF s, t
  <2> QED BY <1>4, <2>1 DEF Ids
<1>6. x \in Seq(Fit) /\ k \in {0, 1} /\ (\A i \in 1..k : x[i].role = "system") /\ (k = 0 <=> Systems(h) = {})
  <2>1. CASE Systems(h) = {}
    <3>1. x = <<>>
      BY <2>1 DEF SystemText
    <3> QED BY <2>1, <3>1
  <2>2. CASE Systems(h) # {}
    <3> DEFINE m == h[Min(Systems(h))]
    <3>1. Min(Systems(h)) \in Systems(h) /\ x = <<m>>
      BY <1>1, <2>2, SystemFirst
    <3>2. m \in Fit /\ m.role = "system"
      BY <1>1, <3>1 DEF Systems
    <3> HIDE DEF m
    <3>3. x \in Seq(Fit) /\ k = 1 /\ x[1].role = "system"
      BY <3>1, <3>2
    <3> QED BY <2>2, <3>3
  <2> QED BY <2>1, <2>2
<1> HIDE DEF s, t, x
<1>7. \A m \in Spoken : m \in Fit /\ m.role # "system"
  BY DEF Spoken
<1>8. t \in Seq(Fit)
  BY <1>4, <1>7
<1>9. /\ q \in Seq(Fit) /\ Len(q) = k + Len(t) /\ Len(t) \in Nat
      /\ \A i \in 1..Len(q) : IF i <= k THEN q[i] = x[i] /\ i \in 1..k ELSE q[i] = t[i - k] /\ i - k \in 1..Len(t)
  BY <1>6, <1>8
<1> HIDE DEF k, q
<1>10. \A i \in 1..Len(q) : IF i <= k THEN q[i].role = "system" ELSE q[i] = t[i - k]
  BY <1>6, <1>9
<1>11. NoSystem(q) = t
  <2>1. k \in Nat
    BY <1>6
  <2> QED BY <1>4, <1>9, <1>10, <2>1, NoSystemPrefix
<1>12. SystemText(q) = x
  <2>1. \A i \in 1..Len(q) : ~(i <= k) => q[i].role # "system"
    BY <1>4, <1>7, <1>9
  <2>2. CASE k = 0
    <3>1. Systems(q) = {}
      BY <1>9, <2>1, <2>2 DEF Systems
    <3>2. x = <<>>
      BY <1>6, <2>2 DEF k
    <3> QED BY <3>1, <3>2 DEF SystemText
  <2>3. CASE k = 1
    <3>1. 1 \in 1..Len(q) /\ q[1] = x[1] /\ x = <<x[1]>>
      BY <1>6, <1>9, <2>3 DEF k
    <3>2. Systems(q) = {1}
      BY <1>9, <1>10, <2>1, <2>3, <3>1 DEF Systems
    <3>3. Min(Systems(q)) = 1
      BY <1>9, <3>2, SystemFirst
    <3> QED BY <1>9, <3>1, <3>2, <3>3, SystemFirst
  <2> QED BY <1>6, <2>2, <2>3
<1>13. q \in Seq(Messages)
  <2>1. \A m \in Fit : m \in Messages
    BY DEF Fit
  <2> QED BY <1>9, <2>1
<1>14. build_wire_request(h) = q
  BY DEF build_wire_request, q, x, t
<1> QED BY <1>2, <1>5, <1>11, <1>12, <1>13, <1>14 DEF Faithful, s, x

-----------------------------------------------------------------------------
(* LlmStream: the answer                                                   *)

\* How far the server is in answer a at position p: the chunks of block i it
\* has sent, whether it has named a call (pr is the provider), and the text and
\* the calls that whoever has read all of it so far must have.
Blks(a) == 1..Len(a.blocks)
SentOf(a, p, i) ==
    IF i < p.block THEN Len(a.blocks[i].chunks) ELSE IF i = p.block /\ p.part > 0 THEN p.part - 1 ELSE 0
Lead(pr) == IF pr = "anthropic" THEN 1 ELSE 0
NamedAt(pr, p, i) == i < p.block \/ (i = p.block /\ p.part > Lead(pr))
Input(a, p, i) == FlattenSeq(SubSeq(a.blocks[i].chunks, 1, SentOf(a, p, i)))
Is(a, i, k) == i \in Blks(a) /\ a.blocks[i].kind = k
Named(a, pr, p) == {i \in Blks(a) : Is(a, i, "tool") /\ NamedAt(pr, p, i)}
CallsAt(a, pr, p) ==
    [i \in Named(a, pr, p) |-> [id |-> a.blocks[i].id, name |-> a.blocks[i].id, arguments |-> Input(a, p, i)]]
Texts(a) == [i \in Blks(a) |-> IF a.blocks[i].kind = "text" THEN FlattenSeq(a.blocks[i].chunks) ELSE <<>>]
TextBefore(a, i) == IF i = 0 THEN <<>> ELSE FlattenSeq(SubSeq(Texts(a), 1, i - 1))
TextAt(a, p) == TextBefore(a, p.block) \o (IF Is(a, p.block, "text") THEN Input(a, p, p.block) ELSE <<>>)
Reached(a, pr, p) == [text |-> TextAt(a, p), calls |-> CallsAt(a, pr, p)]
Tools(a) == {i \in Blks(a) : Is(a, i, "tool")}
Everything(a) == [text |-> FlattenSeq(Texts(a)), calls |-> [i \in Tools(a) |-> Whole(a.blocks[i])]]

\* The last part of the block at p, and the position after p.
PartsAt(a, pr, p) ==
    CASE p.block = 0 -> 0
      [] p.block \in Blks(a) -> Len(a.blocks[p.block].chunks) + Lead(pr)
      [] OTHER -> 2
After(a, pr, p) ==
    IF p.part < PartsAt(a, pr, p) THEN [block |-> p.block, part |-> p.part + 1] ELSE [block |-> p.block + 1, part |-> 0]
Place(a, pr, p) == p \in [block : 0..(Len(a.blocks) + 1), part : 0..PartsAt(a, pr, p)]
Providers == {"anthropic", "openai"}

LEMMA AnswerType ==
    ASSUME NEW a \in Answers
    PROVE  /\ a.blocks \in Seq(Blocks) /\ a.stop \in Strings /\ Len(a.blocks) \in Nat /\ DOMAIN a.blocks = Blks(a)
           /\ \A i \in Blks(a) :
                 /\ a.blocks[i].kind \in {"text", "thinking", "tool"} /\ a.blocks[i].id \in Strings
                 /\ a.blocks[i].chunks \in Seq(Seq(Tokens)) /\ Len(a.blocks[i].chunks) \in Nat
                 /\ a.blocks[i].kind = "tool" => a.blocks[i].id # "" /\ Len(a.blocks[i].chunks) > 0
<1>1. a \in [blocks : Seq(Blocks), stop : Strings]
  BY LlmAssumption
<1>2. \A i \in DOMAIN a.blocks : a.blocks[i].kind = "tool" => a.blocks[i].id # "" /\ a.blocks[i].chunks # <<>>
  BY LlmAssumption
<1>3. a.blocks \in Seq(Blocks) /\ a.stop \in Strings
  BY <1>1
<1>4. Len(a.blocks) \in Nat /\ DOMAIN a.blocks = Blks(a)
  BY <1>3 DEF Blks
<1>5. ASSUME NEW i \in Blks(a)
      PROVE  /\ a.blocks[i].kind \in {"text", "thinking", "tool"} /\ a.blocks[i].id \in Strings
             /\ a.blocks[i].chunks \in Seq(Seq(Tokens)) /\ Len(a.blocks[i].chunks) \in Nat
             /\ a.blocks[i].kind = "tool" => a.blocks[i].id # "" /\ Len(a.blocks[i].chunks) > 0
  <2>1. a.blocks[i] \in Blocks
    BY <1>3, <1>4, <1>5
  <2>2. /\ a.blocks[i].kind \in {"text", "thinking", "tool"} /\ a.blocks[i].id \in Strings
        /\ a.blocks[i].chunks \in Seq(Seq(Tokens))
    BY <2>1 DEF Blocks
  <2>3. a.blocks[i].kind = "tool" => a.blocks[i].id # "" /\ a.blocks[i].chunks # <<>>
    BY <1>2, <1>4, <1>5
  <2> DEFINE s == a.blocks[i].chunks
  <2>4. s \in Seq(Seq(Tokens)) => Len(s) \in Nat /\ (s # <<>> => Len(s) > 0)
    OBVIOUS
  <2> QED BY <2>2, <2>3, <2>4
<1> QED BY <1>3, <1>4, <1>5

\* Of every block at most all of its chunks have been sent, and what has been
\* sent is text.
LEMMA SentType ==
    ASSUME NEW a \in Answers, NEW pr \in Providers, NEW p, Place(a, pr, p), NEW i \in Blks(a)
    PROVE  SentOf(a, p, i) \in 0..Len(a.blocks[i].chunks) /\ Input(a, p, i) \in Seq(Tokens)
<1> DEFINE s == a.blocks[i].chunks
           k == SentOf(a, p, i)
<1>1. s \in Seq(Seq(Tokens)) /\ Len(s) \in Nat
  BY AnswerType
<1>2. p.block \in Nat /\ p.part \in 0..PartsAt(a, pr, p) /\ i \in Nat /\ i # 0
  BY DEF Place, Blks
<1>3. k \in 0..Len(s)
  <2>1. CASE i = p.block
    <3>1. PartsAt(a, pr, p) = Len(s) + Lead(pr) /\ Lead(pr) \in {0, 1}
      BY <1>2, <2>1 DEF PartsAt, Lead
    <3>2. p.part \in Nat /\ p.part - 1 <= Len(s)
      BY <1>1, <1>2, <3>1
    <3>3. k = IF p.part > 0 THEN p.part - 1 ELSE 0
      BY <1>2, <2>1 DEF SentOf
    <3> HIDE DEF k, s
    <3> QED BY <1>1, <3>2, <3>3
  <2>2. CASE i # p.block
    BY <1>1, <2>2 DEF SentOf
  <2> QED BY <2>1, <2>2
<1> HIDE DEF s, k
<1>4. SubSeq(s, 1, k) \in Seq(Seq(Tokens))
  BY <1>1, <1>3
<1>5. FlattenSeq(SubSeq(s, 1, k)) \in Seq(Tokens)
  BY <1>4, FlattenType
<1> QED BY <1>3, <1>5 DEF Input, s, k

LEMMA TextType ==
    ASSUME NEW a \in Answers, NEW pr \in Providers, NEW p, Place(a, pr, p)
    PROVE  /\ Texts(a) \in Seq(Seq(Tokens)) /\ Len(Texts(a)) = Len(a.blocks)
           /\ TextBefore(a, p.block) \in Seq(Tokens) /\ TextAt(a, p) \in Seq(Tokens)
<1> DEFINE L == Len(a.blocks)
           T == Texts(a)
           b == p.block
<1>1. L \in Nat /\ Blks(a) = 1..L
  BY AnswerType DEF Blks
<1>2. <<>> \in Seq(Tokens)
  OBVIOUS
<1>3. \A i \in 1..L : T[i] \in Seq(Tokens)
  <2> TAKE i \in 1..L
  <2>1. i \in Blks(a)
    BY <1>1
  <2>2. FlattenSeq(a.blocks[i].chunks) \in Seq(Tokens)
    BY <2>1, AnswerType, FlattenType
  <2>3. T[i] = IF a.blocks[i].kind = "text" THEN FlattenSeq(a.blocks[i].chunks) ELSE <<>>
    BY <2>1 DEF Texts
  <2> HIDE DEF T
  <2> QED BY <1>2, <2>2, <2>3
<1>4. T = [i \in 1..L |-> T[i]]
  BY <1>1 DEF Texts
<1>5. b \in 0..(L + 1)
  BY DEF Place
<1> HIDE DEF T, L, b
<1>6. T \in Seq(Seq(Tokens)) /\ Len(T) = L
  <2>1. T \in [1..L -> Seq(Tokens)]
    BY <1>3, <1>4
  <2> QED BY <1>1, <2>1
<1>7. TextBefore(a, b) \in Seq(Tokens)
  <2>1. CASE b = 0
    BY <1>2, <2>1 DEF TextBefore
  <2>2. CASE b # 0
    <3>1. b - 1 \in 0..L
      BY <1>1, <1>5, <2>2
    <3>2. SubSeq(T, 1, b - 1) \in Seq(Seq(Tokens))
      BY <1>1, <1>6, <3>1
    <3>3. FlattenSeq(SubSeq(T, 1, b - 1)) \in Seq(Tokens)
      BY <3>2, FlattenType
    <3> QED BY <2>2, <3>3 DEF TextBefore, T
  <2> QED BY <2>1, <2>2
<1>8. TextAt(a, p) \in Seq(Tokens)
  <2> DEFINE y == IF Is(a, b, "text") THEN Input(a, p, b) ELSE <<>>
  <2>1. y \in Seq(Tokens)
    <3>1. CASE Is(a, b, "text")
      <4>1. b \in Blks(a)
        BY <3>1 DEF Is
      <4>2. Input(a, p, b) \in Seq(Tokens)
        BY <4>1, SentType
      <4> QED BY <3>1, <4>2
    <3>2. CASE ~Is(a, b, "text")
      BY <1>2, <3>2
    <3> QED BY <3>1, <3>2
  <2>2. TextAt(a, p) = TextBefore(a, b) \o y
    BY DEF TextAt, b
  <2> HIDE DEF y
  <2> QED BY <1>7, <2>1, <2>2
<1> QED BY <1>6, <1>7, <1>8 DEF T, L, b

\* Part k of block i: a chunk, or the event that opens or closes the block.
Chunk(a, i, k) == IF k \in 1..Len(a.blocks[i].chunks) THEN a.blocks[i].chunks[k] ELSE <<>>

\* A step within block i brings its chunk k, names its call when k is Lead, and
\* leaves the other blocks alone.
Brought(a, pr, p, q, i) ==
    /\ Chunk(a, i, p.part) \in Seq(Tokens)
    /\ Place(a, pr, q) /\ q.block \in {i, i + 1} /\ (q.block = i + 1 => q.part = 0)
    /\ SentOf(a, p, i) = 0 \/ p.part > 1
    /\ Input(a, q, i) = Input(a, p, i) \o Chunk(a, i, p.part)
    /\ q.block = i + 1 => Input(a, q, i) = FlattenSeq(a.blocks[i].chunks)
    /\ NamedAt(pr, q, i) <=> p.part >= Lead(pr)
    /\ NamedAt(pr, p, i) <=> p.part > Lead(pr)
    /\ \A j \in Blks(a) : j # i => SentOf(a, q, j) = SentOf(a, p, j) /\ (NamedAt(pr, q, j) <=> NamedAt(pr, p, j))

LEMMA StepBrings ==
    ASSUME NEW a \in Answers, NEW pr \in Providers, NEW p, Place(a, pr, p), p.block \in Blks(a)
    PROVE  Brought(a, pr, p, After(a, pr, p), p.block)
<1> DEFINE i == p.block
           k == p.part
           s == a.blocks[i].chunks
           n == Len(s)
           d == Lead(pr)
           q == After(a, pr, p)
           c == Chunk(a, i, k)
<1>1. s \in Seq(Seq(Tokens)) /\ n \in Nat /\ Len(a.blocks) \in Nat
  BY AnswerType
<1>2. i \in Nat /\ i # 0 /\ i <= Len(a.blocks) /\ Blks(a) = 1..Len(a.blocks)
  BY <1>1 DEF Blks
<1>3. PartsAt(a, pr, p) = n + d /\ d \in {0, 1}
  BY <1>2 DEF PartsAt, Lead
<1>4. k \in 0..(n + d)
  BY <1>3 DEF Place
<1>5. q = IF k < n + d THEN [block |-> i, part |-> k + 1] ELSE [block |-> i + 1, part |-> 0]
  BY <1>3 DEF After
<1>6. \/ k < n + d /\ q = [block |-> i, part |-> k + 1] /\ q.block = i /\ q.part = k + 1
      \/ k = n + d /\ q = [block |-> i + 1, part |-> 0] /\ q.block = i + 1 /\ q.part = 0
  <2> HIDE DEF i, k, n, d, q
  <2>1. k < n + d \/ k = n + d
    BY <1>1, <1>3, <1>4
  <2>2. CASE k < n + d
    BY <1>5, <2>2
  <2>3. CASE k = n + d
    BY <1>1, <1>3, <1>5, <2>3
  <2> QED BY <2>1, <2>2, <2>3
<1>7. c \in Seq(Tokens)
  <2>1. c = IF k \in 1..n THEN s[k] ELSE <<>>
    BY DEF Chunk
  <2> HIDE DEF c, s
  <2>2. CASE k \in 1..n
    BY <1>1, <2>1, <2>2
  <2>3. CASE k \notin 1..n
    BY <2>1, <2>3
  <2> QED BY <2>2, <2>3
<1>8. Place(a, pr, q)
  <2>1. CASE q = [block |-> i, part |-> k + 1] /\ k < n + d
    <3>1. PartsAt(a, pr, q) = PartsAt(a, pr, p)
      BY <2>1 DEF PartsAt
    <3> HIDE DEF i, k, n, d, q
    <3>3. i \in 0..(Len(a.blocks) + 1)
      BY <1>1, <1>2
    <3>2. i \in 0..(Len(a.blocks) + 1) /\ k + 1 \in 0..(n + d)
      BY <1>1, <1>3, <1>4, <2>1, <3>3
    <3> QED BY <1>3, <2>1, <3>1, <3>2 DEF Place
  <2>2. CASE q = [block |-> i + 1, part |-> 0]
    <3>1. PartsAt(a, pr, q) \in Nat
      <4>1. CASE i + 1 \in Blks(a)
        <5>1. Len(a.blocks[i + 1].chunks) \in Nat
          BY <4>1, AnswerType
        <5>2. q.block = i + 1 /\ q.block # 0
          BY <1>2, <2>2
        <5>3. PartsAt(a, pr, q) = Len(a.blocks[i + 1].chunks) + d
          BY <4>1, <5>2 DEF PartsAt
        <5> HIDE DEF d
        <5> QED BY <1>3, <5>1, <5>3
      <4>2. CASE i + 1 \notin Blks(a)
        BY <1>2, <2>2, <4>2 DEF PartsAt
      <4> QED BY <4>1, <4>2
    <3>2. i + 1 \in 0..(Len(a.blocks) + 1)
      BY <1>1, <1>2
    <3>3. 0 \in 0..PartsAt(a, pr, q)
      BY <3>1
    <3> HIDE DEF i, q
    <3> QED BY <2>2, <3>2, <3>3 DEF Place
  <2> QED BY <1>6, <2>1, <2>2
<1>9. SentOf(a, p, i) = IF k > 0 THEN k - 1 ELSE 0
  BY <1>2 DEF SentOf
<1>10. SentOf(a, q, i) = IF q.block = i THEN k ELSE n
  <2>1. CASE q.block = i /\ q.part = k + 1
    <3>1. k + 1 > 0 /\ (k + 1) - 1 = k
      BY <1>3, <1>4, <1>1
    <3> HIDE DEF i, k, q
    <3> QED BY <1>2, <2>1, <3>1 DEF SentOf
  <2>2. CASE q.block = i + 1
    BY <1>2, <2>2 DEF SentOf
  <2> QED BY <1>6, <2>1, <2>2
<1> HIDE DEF i, k, n, d, q, c, s
<1>11. Input(a, q, i) = Input(a, p, i) \o c
  <2> DEFINE x == SentOf(a, p, i)
             y == SentOf(a, q, i)
  <2>1. Input(a, p, i) = FlattenSeq(SubSeq(s, 1, x)) /\ Input(a, q, i) = FlattenSeq(SubSeq(s, 1, y))
    BY DEF Input, s
  <2>2. CASE k \in 1..n
    <3>1. x = k - 1 /\ y = k
      BY <1>1, <1>2, <1>3, <1>4, <1>6, <1>9, <1>10, <2>2
    <3>2. c = s[k]
      BY <2>2 DEF c, Chunk, s, n
    <3> HIDE DEF x, y
    <3>3. k \in 1..Len(s)
      BY <2>2 DEF n
    <3> QED BY <1>1, <2>1, <3>1, <3>2, <3>3, FlattenNext
  <2>3. CASE k \notin 1..n
    <3>1. x = y
      BY <1>1, <1>2, <1>3, <1>4, <1>6, <1>9, <1>10, <2>3
    <3>2. c = <<>>
      BY <2>3 DEF c, Chunk, s, n
    <3>3. Input(a, p, i) \in Seq(Tokens)
      BY SentType DEF i
    <3> QED BY <2>1, <3>1, <3>2, <3>3
  <2> QED BY <2>2, <2>3
<1>12. q.block = i + 1 => Input(a, q, i) = FlattenSeq(s)
  <2> SUFFICES ASSUME q.block = i + 1 PROVE Input(a, q, i) = FlattenSeq(s)
    OBVIOUS
  <2>1. SentOf(a, q, i) = Len(s)
    BY <1>2, <1>10 DEF n
  <2>2. SubSeq(s, 1, Len(s)) = s
    BY <1>1
  <2> QED BY <2>1, <2>2 DEF Input, s
<1>13. (NamedAt(pr, q, i) <=> k >= d) /\ (NamedAt(pr, p, i) <=> k > d)
  <2>1. NamedAt(pr, p, i) <=> k > d
    BY <1>2 DEF NamedAt, i, k, d
  <2>2. NamedAt(pr, q, i) <=> q.block # i \/ k + 1 > d
    BY <1>2, <1>6 DEF NamedAt, d
  <2> QED BY <1>1, <1>3, <1>4, <1>6, <2>1, <2>2
<1>14. ASSUME NEW j \in Blks(a), j # i
       PROVE  SentOf(a, q, j) = SentOf(a, p, j) /\ (NamedAt(pr, q, j) <=> NamedAt(pr, p, j))
  <2>1. j \in Nat /\ (j < q.block <=> j < p.block) /\ (j = q.block => q.part = 0) /\ j # p.block
    BY <1>2, <1>6, <1>14 DEF i
  <2>2. ~(q.part > 0) \/ j # q.block
    BY <2>1
  <2>3. ~(q.part > d) \/ j # q.block
    BY <1>3, <2>1
  <2> QED BY <2>1, <2>2, <2>3 DEF SentOf, NamedAt, d
<1>15. SentOf(a, p, i) = 0 \/ k > 1
  BY <1>1, <1>3, <1>4, <1>9
<1>16. q.block \in {i, i + 1} /\ (q.block = i + 1 => q.part = 0)
  BY <1>2, <1>6
<1> QED BY <1>7, <1>8, <1>11, <1>12, <1>13, <1>14, <1>15, <1>16 DEF Brought, i, k, d, q, c, s

\* The text grows by the chunk when the block is text.
LEMMA TextMoves ==
    ASSUME NEW a \in Answers, NEW pr \in Providers, NEW p, Place(a, pr, p), p.block \in Blks(a)
    PROVE  TextAt(a, After(a, pr, p))
             = TextAt(a, p) \o (IF a.blocks[p.block].kind = "text" THEN Chunk(a, p.block, p.part) ELSE <<>>)
<1> DEFINE i == p.block
           q == After(a, pr, p)
           c == Chunk(a, i, p.part)
           T == Texts(a)
           B == TextBefore(a, i)
           s == a.blocks[i].chunks
<1>1. Brought(a, pr, p, q, i)
  BY StepBrings
<1>2. c \in Seq(Tokens) /\ Place(a, pr, q) /\ Input(a, q, i) = Input(a, p, i) \o c
  BY <1>1 DEF Brought
<1>3. /\ q.block \in {i, i + 1} /\ (q.block = i + 1 => q.part = 0)
      /\ (q.block = i + 1 => Input(a, q, i) = FlattenSeq(s))
  BY <1>1 DEF Brought
<1>4. i \in 1..Len(a.blocks) /\ Len(a.blocks) \in Nat
  BY AnswerType DEF Blks
<1>5. B \in Seq(Tokens) /\ T \in Seq(Seq(Tokens)) /\ Len(T) = Len(a.blocks) /\ Input(a, p, i) \in Seq(Tokens)
  BY TextType, SentType
<1>6. T[i] = IF a.blocks[i].kind = "text" THEN FlattenSeq(s) ELSE <<>>
  BY DEF Texts
<1>7. Is(a, i, "text") <=> a.blocks[i].kind = "text"
  BY DEF Is
<1>8. TextAt(a, p) = B \o (IF a.blocks[i].kind = "text" THEN Input(a, p, i) ELSE <<>>)
  BY <1>7 DEF TextAt
<1>9. TextAt(a, q) = B \o (IF a.blocks[i].kind = "text" THEN Input(a, q, i) ELSE <<>>)
  <2>1. CASE q.block = i
    BY <1>7, <2>1 DEF TextAt
  <2>2. CASE q.block = i + 1
    <3> DEFINE j == i + 1
    <3>1. j # 0 /\ j - 1 = i /\ q.block = j /\ q.part = 0 /\ ~(j < j)
      BY <1>3, <1>4, <2>2
    <3>2. TextBefore(a, j) = FlattenSeq(SubSeq(T, 1, i)) /\ B = FlattenSeq(SubSeq(T, 1, i - 1))
      BY <1>4, <3>1 DEF TextBefore
    <3>3. FlattenSeq(SubSeq(T, 1, i)) = FlattenSeq(SubSeq(T, 1, i - 1)) \o T[i]
      <4> HIDE DEF T, i
      <4> QED BY <1>4, <1>5, FlattenNext
    <3>4. Input(a, q, j) = <<>>
      <4>1. SentOf(a, q, j) = 0
        BY <3>1 DEF SentOf
      <4>2. SubSeq(a.blocks[j].chunks, 1, 0) = <<>>
        OBVIOUS
      <4> QED BY <4>1, <4>2, FlattenNone DEF Input
    <3>5. TextAt(a, q) = TextBefore(a, j) \o <<>>
      BY <3>1, <3>4 DEF TextAt
    <3>6. TextBefore(a, j) \in Seq(Tokens)
      BY <1>2, <3>1, TextType
    <3>7. TextAt(a, q) = TextBefore(a, j)
      <4> HIDE DEF j, q
      <4> QED BY <3>5, <3>6
    <3>8. T[i] = IF a.blocks[i].kind = "text" THEN Input(a, q, i) ELSE <<>>
      BY <1>3, <1>6, <2>2
    <3> QED BY <3>2, <3>3, <3>7, <3>8
  <2> QED BY <1>3, <2>1, <2>2
<1> HIDE DEF i, q, c, T, B, s
<1>10. CASE a.blocks[i].kind = "text"
  <2> PICK x \in Seq(Tokens) : x = Input(a, p, i)
    BY <1>5
  <2>1. B \o (x \o c) = (B \o x) \o c
    BY <1>2, <1>5, SMTT(30)
  <2> QED BY <1>2, <1>8, <1>9, <1>10, <2>1 DEF i, q, c
<1>11. CASE a.blocks[i].kind # "text"
  <2>1. TextAt(a, q) = B \o <<>> /\ TextAt(a, p) = B \o <<>>
    BY <1>8, <1>9, <1>11
  <2>2. (B \o <<>>) \o <<>> = B \o <<>>
    BY <1>5
  <2> QED BY <1>11, <2>1, <2>2 DEF i, q
<1> QED BY <1>10, <1>11

\* The pieces of a call that carry its chunk: the first of them names it.
Piece(a, pr, p, e) ==
    /\ e.index = p.block /\ e.chunk = Chunk(a, p.block, p.part)
    /\ e.id = e.name /\ e.id \in {"", a.blocks[p.block].id}
    /\ p.part >= Lead(pr) /\ (p.part = Lead(pr) => e.id = a.blocks[p.block].id)

\* The calls grow by what a piece of the block's call puts into them.
LEMMA CallGrows ==
    ASSUME NEW a \in Answers, NEW pr \in Providers, NEW p, Place(a, pr, p), Is(a, p.block, "tool"),
           NEW e, Piece(a, pr, p, e)
    PROVE  CallsAt(a, pr, After(a, pr, p)) = Accumulate(CallsAt(a, pr, p), e)
<1> DEFINE i == p.block
           k == p.part
           d == Lead(pr)
           q == After(a, pr, p)
           c == Chunk(a, i, k)
           id == a.blocks[i].id
           X == CallsAt(a, pr, p)
           Y == CallsAt(a, pr, q)
           old == IF i \in DOMAIN X THEN X[i] ELSE NoCall
           new == [id |-> Unless(e.id, old.id), name |-> Unless(e.name, old.name), arguments |-> old.arguments \o e.chunk]
           full == [id |-> id, name |-> id, arguments |-> Input(a, q, i)]
<1>0. i \in Blks(a) /\ a.blocks[i].kind = "tool" /\ id # ""
  BY AnswerType DEF Is
<1>1. Brought(a, pr, p, q, i)
  BY <1>0, StepBrings
<1>2. /\ c \in Seq(Tokens) /\ Input(a, q, i) = Input(a, p, i) \o c /\ (SentOf(a, p, i) = 0 \/ k > 1)
      /\ (NamedAt(pr, q, i) <=> k >= d) /\ (NamedAt(pr, p, i) <=> k > d)
  BY <1>1 DEF Brought
<1>3. \A j \in Blks(a) : j # i => Input(a, q, j) = Input(a, p, j) /\ (NamedAt(pr, q, j) <=> NamedAt(pr, p, j))
  BY <1>1 DEF Brought, Input
<1>4. k \in Nat /\ d \in {0, 1} /\ k >= d /\ Input(a, p, i) \in Seq(Tokens)
  <2>1. Input(a, p, i) \in Seq(Tokens)
    BY <1>0, SentType
  <2>2. k \in Nat /\ d \in {0, 1}
    BY DEF Place, Lead
  <2> QED BY <2>1, <2>2 DEF Piece
<1>5. DOMAIN X = Named(a, pr, p) /\ DOMAIN Y = Named(a, pr, q)
  BY DEF CallsAt
<1>6. i \in DOMAIN X <=> k > d
  BY <1>0, <1>2, <1>5 DEF Named, Is
<1>7. DOMAIN Y = DOMAIN X \cup {i}
  BY <1>0, <1>2, <1>3, <1>4, <1>5 DEF Named, Is
<1>8. \A j \in DOMAIN X : j # i => Y[j] = X[j]
  BY <1>3, <1>7 DEF CallsAt, Named
<1>9. Y[i] = full
  BY <1>5, <1>7 DEF CallsAt
<1>10. new = full
  <2>1. e.index = i /\ e.chunk = c /\ e.id = e.name /\ e.id \in {"", id} /\ (k = d => e.id = id)
    BY DEF Piece
  <2>2. CASE k > d
    <3>1. X[i] = [id |-> id, name |-> id, arguments |-> Input(a, p, i)] /\ i \in DOMAIN X
      BY <1>5, <1>6, <2>2 DEF CallsAt
    <3>2. old.id = id /\ old.name = id /\ old.arguments = Input(a, p, i)
      BY <3>1
    <3> HIDE DEF id, c, old, X, q, i
    <3> QED BY <1>2, <2>1, <3>2 DEF Unless
  <2>3. CASE k = d
    <3>1. i \notin DOMAIN X
      BY <1>4, <1>6, <2>3
    <3>2. old = NoCall
      BY <3>1
    <3>3. SentOf(a, p, i) = 0
      BY <1>2, <1>4, <2>3
    <3>4. Input(a, p, i) = <<>>
      <4>1. SubSeq(a.blocks[i].chunks, 1, 0) = <<>>
        OBVIOUS
      <4> QED BY <3>3, <4>1, FlattenNone DEF Input
    <3>5. old.arguments = Input(a, p, i)
      <4> HIDE DEF old
      <4> QED BY <3>2, <3>4 DEF NoCall
    <3> HIDE DEF id, c, old, X, q, i
    <3> QED BY <1>0, <1>2, <2>1, <2>3, <3>5 DEF Unless
  <2> QED BY <1>4, <2>2, <2>3
<1>11. Accumulate(X, e) = [x \in DOMAIN X \cup {i} |-> IF x # i THEN X[x] ELSE new]
  <2>1. e.index = i
    BY DEF Piece
  <2> HIDE DEF X, i
  <2> QED BY <2>1 DEF Accumulate
<1>12. Y = [x \in DOMAIN Y |-> Y[x]]
  BY DEF CallsAt
<1> HIDE DEF X, Y, new, full, i
<1>13. Y = Accumulate(X, e)
  BY <1>7, <1>8, <1>9, <1>10, <1>11, <1>12
<1> QED BY <1>13 DEF X, Y

\* Otherwise the calls stay as they are.
LEMMA CallsStay ==
    ASSUME NEW a \in Answers, NEW pr \in Providers, NEW p, Place(a, pr, p), p.block \in Blks(a),
           Is(a, p.block, "tool") => p.part < Lead(pr) \/ (p.part > Lead(pr) /\ Chunk(a, p.block, p.part) = <<>>)
    PROVE  CallsAt(a, pr, After(a, pr, p)) = CallsAt(a, pr, p)
<1> DEFINE i == p.block
           k == p.part
           d == Lead(pr)
           q == After(a, pr, p)
           c == Chunk(a, i, k)
           X == CallsAt(a, pr, p)
           Y == CallsAt(a, pr, q)
<1>1. Brought(a, pr, p, q, i)
  BY StepBrings
<1>2. Input(a, q, i) = Input(a, p, i) \o c /\ (NamedAt(pr, q, i) <=> k >= d) /\ (NamedAt(pr, p, i) <=> k > d)
  BY <1>1 DEF Brought
<1>3. \A j \in Blks(a) : j # i => Input(a, q, j) = Input(a, p, j) /\ (NamedAt(pr, q, j) <=> NamedAt(pr, p, j))
  BY <1>1 DEF Brought, Input
<1>4. k \in Nat /\ d \in {0, 1} /\ Input(a, p, i) \in Seq(Tokens)
  <2>1. Input(a, p, i) \in Seq(Tokens)
    BY SentType
  <2> QED BY <2>1 DEF Place, Lead
<1>5. Is(a, i, "tool") => (NamedAt(pr, q, i) <=> NamedAt(pr, p, i)) /\ (NamedAt(pr, p, i) => Input(a, q, i) = Input(a, p, i))
  BY <1>2, <1>4
<1>6. Named(a, pr, q) = Named(a, pr, p)
  BY <1>3, <1>5 DEF Named
<1>7. \A j \in Named(a, pr, p) : Input(a, q, j) = Input(a, p, j)
  BY <1>3, <1>5 DEF Named
<1> QED BY <1>6, <1>7 DEF CallsAt

\* Before the first block there is nothing, and after the last there is all.
LEMMA StartMoves ==
    ASSUME NEW a \in Answers, NEW pr \in Providers, NEW p, p = [block |-> 0, part |-> 0]
    PROVE  /\ Place(a, pr, p) /\ Place(a, pr, After(a, pr, p)) /\ After(a, pr, p).part = 0
           /\ Reached(a, pr, p) = [text |-> <<>>, calls |-> <<>>]
           /\ Reached(a, pr, After(a, pr, p)) = Reached(a, pr, p)
<1> DEFINE q == After(a, pr, p)
<1>1. Len(a.blocks) \in Nat /\ Blks(a) = 1..Len(a.blocks)
  BY AnswerType DEF Blks
<1>2. p.block = 0 /\ p.part = 0 /\ PartsAt(a, pr, p) = 0
  <2>1. p.block = 0 /\ p.part = 0
    OBVIOUS
  <2>2. p.block \notin Blks(a)
    BY <1>1, <2>1
  <2> QED BY <2>1, <2>2 DEF PartsAt
<1>3. q = [block |-> 1, part |-> 0] /\ q.block = 1 /\ q.part = 0
  BY <1>2 DEF After
<1>4. Place(a, pr, p)
  BY <1>1, <1>2 DEF Place
<1>5. PartsAt(a, pr, q) \in Nat
  <2>1. CASE 1 \in Blks(a)
    <3>1. Len(a.blocks[1].chunks) \in Nat
      BY <2>1, AnswerType
    <3>2. PartsAt(a, pr, q) = Len(a.blocks[1].chunks) + Lead(pr)
      BY <1>3, <2>1 DEF PartsAt
    <3>3. Lead(pr) \in Nat
      BY DEF Lead
    <3>4. \A x, y \in Nat : x + y \in Nat
      OBVIOUS
    <3> HIDE DEF q
    <3> QED BY <3>1, <3>2, <3>3, <3>4, Zenon
  <2>2. CASE 1 \notin Blks(a)
    BY <1>3, <2>2 DEF PartsAt
  <2> QED BY <2>1, <2>2
<1> HIDE DEF q
<1>6. Place(a, pr, q)
  <2>1. 0 \in 0..PartsAt(a, pr, q) /\ 1 \in 0..(Len(a.blocks) + 1)
    BY <1>1, <1>5
  <2> QED BY <1>3, <2>1 DEF Place
<1>7. \A j \in Blks(a) : j \in Nat /\ j # 0
  BY <1>1
<1>8. Named(a, pr, p) = {} /\ Named(a, pr, q) = {}
  <2>1. \A j \in Blks(a) : ~NamedAt(pr, p, j) /\ ~NamedAt(pr, q, j)
    BY <1>2, <1>3, <1>7 DEF NamedAt, Lead
  <2> QED BY <2>1 DEF Named
<1>9. CallsAt(a, pr, p) = <<>> /\ CallsAt(a, pr, q) = <<>>
  BY <1>8 DEF CallsAt
<1>10. TextAt(a, p) = <<>>
  <2>1. TextBefore(a, 0) = <<>> /\ ~Is(a, 0, "text")
    BY <1>7 DEF TextBefore, Is
  <2>2. TextAt(a, p) = <<>> \o <<>>
    BY <1>2, <2>1 DEF TextAt
  <2>3. <<>> \o <<>> = <<>>
    OBVIOUS
  <2> QED BY <2>2, <2>3
<1>11. TextAt(a, q) = <<>>
  <2>1. TextBefore(a, 1) = FlattenSeq(SubSeq(Texts(a), 1, 0))
    BY DEF TextBefore
  <2>2. SubSeq(Texts(a), 1, 0) = <<>> /\ SubSeq(a.blocks[1].chunks, 1, 0) = <<>>
    OBVIOUS
  <2>3. Input(a, q, 1) = <<>>
    <3>1. SentOf(a, q, 1) = 0
      BY <1>3 DEF SentOf
    <3> QED BY <2>2, <3>1, FlattenNone DEF Input
  <2>4. TextAt(a, q) = <<>> \o <<>>
    BY <1>3, <2>1, <2>2, <2>3, FlattenNone DEF TextAt
  <2>5. <<>> \o <<>> = <<>>
    OBVIOUS
  <2> QED BY <2>4, <2>5
<1> QED BY <1>3, <1>4, <1>6, <1>9, <1>10, <1>11 DEF Reached, q

LEMMA EndMoves ==
    ASSUME NEW a \in Answers, NEW pr \in Providers, NEW p, Place(a, pr, p), p.block \notin Blks(a), p.block # 0
    PROVE  /\ p.block = Len(a.blocks) + 1 /\ Reached(a, pr, p) = Everything(a) /\ p.part \in {0, 1, 2}
           /\ p.part # 2 => /\ After(a, pr, p) = [block |-> p.block, part |-> p.part + 1]
                            /\ Place(a, pr, After(a, pr, p))
<1> DEFINE L == Len(a.blocks)
           T == Texts(a)
<1>1. L \in Nat /\ Blks(a) = 1..L
  BY AnswerType DEF Blks
<1>2. p.block = L + 1 /\ PartsAt(a, pr, p) = 2 /\ p.part \in 0..2 /\ p = [block |-> p.block, part |-> p.part]
  <2>1. p.block \in 0..(L + 1) /\ p.part \in 0..PartsAt(a, pr, p) /\ p = [block |-> p.block, part |-> p.part]
    BY DEF Place
  <2> QED BY <1>1, <2>1 DEF PartsAt
<1>3. \A j \in Blks(a) : NamedAt(pr, p, j) /\ SentOf(a, p, j) = Len(a.blocks[j].chunks)
  BY <1>1, <1>2 DEF NamedAt, SentOf
<1>4. \A j \in Blks(a) : Input(a, p, j) = FlattenSeq(a.blocks[j].chunks)
  <2> TAKE j \in Blks(a)
  <2> DEFINE s == a.blocks[j].chunks
  <2>1. s \in Seq(Seq(Tokens))
    BY AnswerType
  <2>2. SubSeq(s, 1, Len(s)) = s
    BY <2>1
  <2> QED BY <1>3, <2>2 DEF Input
<1>5. Named(a, pr, p) = Tools(a)
  BY <1>3 DEF Named, Tools
<1>6. CallsAt(a, pr, p) = [i \in Tools(a) |-> Whole(a.blocks[i])]
  BY <1>4, <1>5 DEF CallsAt, Whole, Tools
<1>7. TextAt(a, p) = FlattenSeq(T)
  <2>1. T \in Seq(Seq(Tokens)) /\ Len(T) = L
    BY TextType
  <2>2. (L + 1) - 1 = L /\ L + 1 # 0
    BY <1>1
  <2>3. SubSeq(T, 1, L) = T
    <3> HIDE DEF T, L
    <3> QED BY <2>1
  <2>4. TextBefore(a, L + 1) = FlattenSeq(T)
    BY <2>2, <2>3 DEF TextBefore
  <2>5. FlattenSeq(T) \in Seq(Tokens)
    BY <2>1, FlattenType
  <2>6. TextAt(a, p) = FlattenSeq(T) \o <<>>
    BY <1>2, <2>4 DEF TextAt, Is
  <2> HIDE DEF T
  <2> QED BY <2>5, <2>6
<1>8. ASSUME p.part # 2
      PROVE  /\ After(a, pr, p) = [block |-> p.block, part |-> p.part + 1]
             /\ Place(a, pr, After(a, pr, p))
  <2> DEFINE q == [block |-> p.block, part |-> p.part + 1]
  <2>1. p.part < 2 /\ p.part + 1 \in 0..2 /\ p.block \in 0..(L + 1)
    BY <1>1, <1>2, <1>8
  <2>2. After(a, pr, p) = q
    BY <1>2, <2>1 DEF After
  <2>3. PartsAt(a, pr, q) = 2
    BY <1>2 DEF PartsAt
  <2>4. Place(a, pr, q)
    BY <2>1, <2>3 DEF Place
  <2> QED BY <2>2, <2>4
<1>9. p.part \in {0, 1, 2}
  BY <1>2
<1> QED BY <1>2, <1>6, <1>7, <1>8, <1>9 DEF Reached, Everything

-----------------------------------------------------------------------------
(* LlmStream: the loop                                                     *)

\* What the loop makes of an event, and of the events es after it has c: the
\* values g of the fold reach x, and at a Done they have reached all.
Put(c, e) ==
    CASE e.type = "Delta" -> [text |-> c.text \o e.chunk, calls |-> c.calls]
      [] e.type = "ToolCallDelta" -> [text |-> c.text, calls |-> Accumulate(c.calls, e)]
      [] OTHER -> c
Reads(g, c, es) == g[0] = c /\ \A j \in 1..Len(es) : g[j] = Put(g[j - 1], es[j])
Makes(g, c, es, x, all) ==
    Reads(g, c, es) /\ g[Len(es)] = x /\ \A j \in 1..Len(es) : es[j].type = "Done" => g[j - 1] = all
Delivers(c, es, x, all) == \E g : Makes(g, c, es, x, all)

LEMMA DeliversNone ==
    ASSUME NEW c, NEW all
    PROVE  Delivers(c, <<>>, c, all)
<1> DEFINE g == [j \in {0} |-> c]
<1>1. g[0] = c /\ Len(<<>>) = 0
  OBVIOUS
<1> HIDE DEF g
<1>2. Makes(g, c, <<>>, c, all)
  BY <1>1 DEF Makes, Reads
<1> QED BY <1>2 DEF Delivers

LEMMA DeliversMore ==
    ASSUME NEW c, NEW E, NEW es \in Seq(E), NEW x, NEW all, Delivers(c, es, x, all),
           NEW e \in E, e.type = "Done" => x = all
    PROVE  Delivers(c, Append(es, e), Put(x, e), all)
<1> DEFINE n == Len(es)
           fs == Append(es, e)
<1>1. n \in Nat /\ Len(fs) = n + 1 /\ fs[n + 1] = e /\ \A j \in 1..n : fs[j] = es[j]
  OBVIOUS
<1>2. PICK g : Makes(g, c, es, x, all)
  BY DEF Delivers
<1>3. /\ g[0] = c /\ (\A j \in 1..n : g[j] = Put(g[j - 1], es[j])) /\ g[n] = x
      /\ \A j \in 1..n : es[j].type = "Done" => g[j - 1] = all
  BY <1>2 DEF Makes, Reads
<1> DEFINE y == Put(x, e)
           h == [j \in 0..(n + 1) |-> IF j = n + 1 THEN y ELSE g[j]]
<1> HIDE DEF y
<1>4. h[n + 1] = y /\ \A j \in 0..n : h[j] = g[j]
  BY <1>1
<1> HIDE DEF h, n, fs
<1>5. ASSUME NEW j \in 1..(n + 1)
      PROVE  h[j] = Put(h[j - 1], fs[j]) /\ (fs[j].type = "Done" => h[j - 1] = all)
  <2>1. CASE j = n + 1
    <3>1. j - 1 = n /\ n \in 0..n
      BY <1>1, <2>1
    <3>2. h[j - 1] = x /\ h[j] = y /\ fs[j] = e
      BY <1>1, <1>3, <1>4, <2>1, <3>1
    <3> QED BY <3>2 DEF y
  <2>2. CASE j # n + 1
    <3>1. j \in 1..n /\ j - 1 \in 0..n /\ j \in 0..n
      BY <1>1, <2>2
    <3> QED BY <1>1, <1>3, <1>4, <3>1
  <2> QED BY <2>1, <2>2
<1>6. h[0] = c
  BY <1>1, <1>3, <1>4
<1>7. Makes(h, c, fs, y, all)
  BY <1>1, <1>4, <1>5, <1>6 DEF Makes, Reads
<1> QED BY <1>7 DEF Delivers, y, fs

LEMMA DeliversHead ==
    ASSUME NEW c, NEW E, NEW es \in Seq(E), es # <<>>, NEW x, NEW all, Delivers(c, es, x, all)
    PROVE  Delivers(Put(c, Head(es)), Tail(es), x, all) /\ (Head(es).type = "Done" => c = all)
<1> DEFINE n == Len(Tail(es))
           fs == Tail(es)
           e == Head(es)
<1>1. n \in Nat /\ Len(es) = n + 1 /\ es[1] = e /\ \A j \in 1..n : fs[j] = es[j + 1]
  OBVIOUS
<1>2. PICK g : Makes(g, c, es, x, all)
  BY DEF Delivers
<1> HIDE DEF n, fs, e
<1>3. /\ g[0] = c /\ (\A j \in 1..(n + 1) : g[j] = Put(g[j - 1], es[j])) /\ g[n + 1] = x
      /\ \A j \in 1..(n + 1) : es[j].type = "Done" => g[j - 1] = all
  BY <1>1, <1>2 DEF Makes, Reads
<1>4. 1 \in 1..(n + 1) /\ 1 - 1 = 0
  BY <1>1
<1>5. g[1] = Put(c, e) /\ (e.type = "Done" => c = all)
  BY <1>1, <1>3, <1>4
<1> DEFINE h == [j \in 0..n |-> g[j + 1]]
<1>6. \A j \in 0..n : h[j] = g[j + 1]
  OBVIOUS
<1> HIDE DEF h
<1>7. ASSUME NEW j \in 1..n
      PROVE  h[j] = Put(h[j - 1], fs[j]) /\ (fs[j].type = "Done" => h[j - 1] = all)
  <2> DEFINE m == j + 1
  <2>1. m \in 1..(n + 1) /\ m - 1 = j /\ j \in 0..n /\ j - 1 \in 0..n /\ (j - 1) + 1 = j
    BY <1>1
  <2>2. h[j] = g[m] /\ h[j - 1] = g[j] /\ fs[j] = es[m]
    BY <1>1, <1>6, <2>1
  <2> HIDE DEF m
  <2> QED BY <1>3, <2>1, <2>2
<1>8. h[0] = Put(c, e) /\ h[n] = x
  BY <1>1, <1>3, <1>5, <1>6
<1>9. Makes(h, Put(c, e), fs, x, all)
  BY <1>7, <1>8 DEF Makes, Reads, n, fs
<1>10. Delivers(Put(c, e), fs, x, all)
  BY <1>9 DEF Delivers
<1> QED BY <1>5, <1>10 DEF e, fs

-----------------------------------------------------------------------------
(* LlmStream: the pump                                                     *)

\* The pump's open block at position p.
OpenKinds(a, p) ==
    [i \in {j \in Blks(a) : j = p.block /\ p.part > 0} |->
        [kind |-> a.blocks[i].kind, id |-> a.blocks[i].id, name |-> a.blocks[i].id,
         input |-> IF a.blocks[i].kind = "tool" THEN Input(a, p, i) ELSE <<>>]]
Content(t) == [text |-> t.text, calls |-> t.calls]
InStream(a, pr, p, es, t) == Delivers(Content(t), es, Reached(a, pr, p), Everything(a))

\* What the loop has and what is in the channel make up exactly what the server
\* has sent, a Done stands only behind the whole answer, and the pump knows the
\* open block.
LlmInv ==
    /\ LlmTypeOK
    /\ request # <<>> => Faithful(request, history)
    /\ InStream(answer, provider, at, events, turn)
    /\ turn.finish = "ToolCalls" => Content(turn) = Everything(answer)
    /\ turn.finish # "none" => turn.outcome \in {"none", Outcome(turn)}
    /\ turn.outcome \in {"end", "tools"} => turn.finish # "none"
    /\ provider = "anthropic" /\ pump # "ended" =>
          kinds = OpenKinds(answer, at) /\ (at.block \notin Blks(answer) => at.part = 0)
    /\ pump = "idle" => turn.finish = "none" /\ events = <<>>

LEMMA Positions ==
    ASSUME LlmTypeOK
    PROVE  /\ answer \in Answers /\ provider \in Providers /\ Place(answer, provider, at)
           /\ LastPart = PartsAt(answer, provider, at) /\ Onward = After(answer, provider, at)
           /\ DOMAIN answer.blocks = Blks(answer) /\ Blks(answer) = 1..Len(answer.blocks)
<1>1. /\ answer \in Answers /\ provider \in Providers
      /\ at \in [block : 0..(Len(answer.blocks) + 1), part : 0..LastPart]
  BY DEF LlmTypeOK, Providers
<1>2. DOMAIN answer.blocks = Blks(answer)
  BY <1>1, AnswerType
<1>3. LastPart = PartsAt(answer, provider, at)
  BY <1>2 DEF LastPart, PartsAt, Current, Lead
<1>4. Onward = After(answer, provider, at)
  <2>1. [at EXCEPT !.part = @ + 1] = [block |-> at.block, part |-> at.part + 1]
    BY <1>1
  <2> QED BY <1>3, <2>1 DEF Onward, After
<1> QED BY <1>1, <1>2, <1>3, <1>4 DEF Place, Blks

\* A step of the pump.
PumpMakes ==
    /\ answer' = answer /\ provider' = provider /\ history' = history /\ request' = request /\ turn' = turn
    /\ pump = "on" /\ pump' \in {"on", "ended"} /\ cut' \in {"no", "eof", "error"}
    /\ Place(answer, provider, at') /\ events' \in Seq(LlmEvents(Len(answer.blocks)))
    /\ InStream(answer, provider, at', events', turn)
    /\ DOMAIN kinds' \subseteq Blks(answer)
    /\ provider = "anthropic" /\ pump' # "ended" =>
          kinds' = OpenKinds(answer, at') /\ (at'.block \notin Blks(answer) => at'.part = 0)

LEMMA PumpStep ==
    ASSUME LlmInv, PumpMakes
    PROVE  LlmInv'
<1>1. answer \in Answers /\ DOMAIN answer.blocks = Blks(answer) /\ LlmTypeOK
  BY Positions DEF LlmInv
<1>2. LastPart' = PartsAt(answer, provider, at')
  BY <1>1 DEF LastPart, PartsAt, Current, Lead, PumpMakes
<1>3. at' \in [block : 0..(Len(answer'.blocks) + 1), part : 0..LastPart']
  BY <1>2 DEF Place, PumpMakes
<1>4. LlmTypeOK'
  <2>1. DOMAIN kinds' \subseteq DOMAIN answer'.blocks /\ events' \in Seq(LlmEvents(Len(answer'.blocks)))
    BY <1>1 DEF PumpMakes
  <2> QED BY <1>1, <1>3, <2>1 DEF LlmTypeOK, PumpMakes
<1>5. pump' # "idle"
  BY DEF PumpMakes
<1>6. InStream(answer, provider, at, events, turn)' <=> InStream(answer, provider, at', events', turn)
  BY DEF InStream, PumpMakes
<1>7. Outcome(turn)' = Outcome(turn)
  BY DEF PumpMakes, Outcome
<1>8. /\ (request # <<>> => Faithful(request, history))'
      /\ (turn.finish = "ToolCalls" => Content(turn) = Everything(answer))'
      /\ (turn.outcome \in {"end", "tools"} => turn.finish # "none")'
  BY DEF LlmInv, PumpMakes
<1>9. (turn.finish # "none" => turn.outcome \in {"none", Outcome(turn)})'
  BY <1>7 DEF LlmInv, PumpMakes
<1>10. (InStream(answer, provider, at, events, turn))'
  BY <1>6 DEF PumpMakes
<1>11. (provider = "anthropic" /\ pump # "ended" =>
          kinds = OpenKinds(answer, at) /\ (at.block \notin Blks(answer) => at.part = 0))'
  BY DEF PumpMakes
<1> QED BY <1>4, <1>5, <1>8, <1>9, <1>10, <1>11 DEF LlmInv

LEMMA JoinOne ==
    ASSUME NEW E, NEW es \in Seq(E), NEW e
    PROVE  es \o <<e>> = Append(es, e) /\ es \o <<>> = es
<1>1. es \o <<e>> = Append(es, e)
  OBVIOUS
<1>2. es \o <<>> = es
  OBVIOUS
<1> QED BY <1>1, <1>2

\* A part of a block that is no call.
LEMMA DeltaMoves ==
    ASSUME NEW a \in Answers, NEW pr \in Providers, NEW p, Place(a, pr, p), p.block \in Blks(a),
           ~Is(a, p.block, "tool"), NEW n, NEW es \in Seq(LlmEvents(n)), NEW t, InStream(a, pr, p, es, t)
    PROVE  /\ es \o Delta(a.blocks[p.block].kind, Chunk(a, p.block, p.part)) \in Seq(LlmEvents(n))
           /\ InStream(a, pr, After(a, pr, p), es \o Delta(a.blocks[p.block].kind, Chunk(a, p.block, p.part)), t)
<1> DEFINE i == p.block
           k == a.blocks[i].kind
           c == Chunk(a, i, p.part)
           q == After(a, pr, p)
           x == Reached(a, pr, p)
           y == Reached(a, pr, q)
           all == Everything(a)
           e == [type |-> IF k = "thinking" THEN "ThinkingDelta" ELSE "Delta", chunk |-> c]
<1>1. c \in Seq(Tokens)
  BY StepBrings DEF Brought
<1>2. x.text \in Seq(Tokens) /\ x = [text |-> x.text, calls |-> x.calls]
  BY TextType DEF Reached
<1>3. y = [text |-> x.text \o (IF k = "text" THEN c ELSE <<>>), calls |-> x.calls]
  BY TextMoves, CallsStay DEF Reached
<1>4. k \in {"text", "thinking"}
  BY AnswerType DEF Is
<1>5. Delivers(Content(t), es, x, all)
  BY DEF InStream
<1> HIDE DEF k, c, x, y, all
<1>6. CASE c = <<>>
  <2>1. Delta(k, c) = <<>>
    BY <1>6 DEF Delta
  <2>2. es \o Delta(k, c) = es
    BY <2>1, JoinOne
  <2>3. x.text \o <<>> = x.text
    BY <1>2
  <2>4. y = x
    BY <1>2, <1>3, <1>6, <2>3
  <2> QED BY <1>5, <2>2, <2>4 DEF InStream, k, c, x, y, all
<1>7. CASE c # <<>>
  <2>1. Delta(k, c) = <<e>>
    BY <1>7 DEF Delta
  <2>2. e \in LlmEvents(n) /\ e.type # "Done"
    BY <1>1 DEF LlmEvents
  <2>3. Put(x, e) = y
    <3>1. CASE k = "text"
      BY <1>3, <3>1 DEF Put
    <3>2. CASE k = "thinking"
      <4>1. Put(x, e) = x
        BY <3>2 DEF Put
      <4>2. x.text \o <<>> = x.text
        BY <1>2
      <4> QED BY <1>2, <1>3, <3>2, <4>1, <4>2
    <3> QED BY <1>4, <3>1, <3>2
  <2> HIDE DEF e
  <2>4. es \o Delta(k, c) = Append(es, e)
    BY <2>1, JoinOne
  <2>5. Delivers(Content(t), Append(es, e), y, all)
    BY <1>5, <2>2, <2>3, DeliversMore
  <2>6. Append(es, e) \in Seq(LlmEvents(n))
    BY <2>2
  <2> QED BY <2>4, <2>5, <2>6 DEF InStream, k, c, x, y, all
<1> QED BY <1>6, <1>7

\* A part of a call that brings a piece of it.
LEMMA PieceMoves ==
    ASSUME NEW a \in Answers, NEW pr \in Providers, NEW p, Place(a, pr, p), Is(a, p.block, "tool"),
           NEW n, NEW es \in Seq(LlmEvents(n)), NEW t, InStream(a, pr, p, es, t),
           NEW e \in LlmEvents(n), e.type = "ToolCallDelta", Piece(a, pr, p, e)
    PROVE  Append(es, e) \in Seq(LlmEvents(n)) /\ InStream(a, pr, After(a, pr, p), Append(es, e), t)
<1> DEFINE i == p.block
           q == After(a, pr, p)
           x == Reached(a, pr, p)
           y == Reached(a, pr, q)
           all == Everything(a)
<1>1. i \in Blks(a) /\ a.blocks[i].kind = "tool"
  BY DEF Is
<1>2. y = [text |-> x.text, calls |-> Accumulate(x.calls, e)]
  <2>1. CallsAt(a, pr, q) = Accumulate(CallsAt(a, pr, p), e)
    BY CallGrows
  <2>2. TextAt(a, q) = TextAt(a, p) \o <<>>
    BY <1>1, TextMoves
  <2>3. TextAt(a, p) \o <<>> = TextAt(a, p)
    BY TextType
  <2> HIDE DEF i, q
  <2> QED BY <2>1, <2>2, <2>3 DEF Reached
<1>3. Delivers(Content(t), es, x, all)
  BY DEF InStream
<1>4. e.type # "Done" /\ Put(x, e) = [text |-> x.text, calls |-> Accumulate(x.calls, e)]
  BY DEF Put
<1> HIDE DEF x, y, all
<1>5. Delivers(Content(t), Append(es, e), y, all)
  <2>1. Delivers(Content(t), Append(es, e), Put(x, e), all)
    BY <1>3, <1>4, DeliversMore
  <2> QED BY <1>2, <1>4, <2>1
<1>6. Append(es, e) \in Seq(LlmEvents(n))
  OBVIOUS
<1> QED BY <1>5, <1>6 DEF InStream, y, all

\* A part that brings nothing.
LEMMA NothingMoves ==
    ASSUME NEW a \in Answers, NEW pr \in Providers, NEW p, Place(a, pr, p), p.block \in Blks(a),
           Chunk(a, p.block, p.part) = <<>>, Is(a, p.block, "tool") => p.part # Lead(pr)
    PROVE  Reached(a, pr, After(a, pr, p)) = Reached(a, pr, p)
<1>1. p.part \in Nat /\ Lead(pr) \in {0, 1}
  BY DEF Place, Lead
<1>2. Is(a, p.block, "tool") => p.part < Lead(pr) \/ p.part > Lead(pr)
  BY <1>1
<1>3. CallsAt(a, pr, After(a, pr, p)) = CallsAt(a, pr, p)
  BY <1>2, CallsStay
<1>4. TextAt(a, p) \o <<>> = TextAt(a, p)
  BY TextType
<1>5. TextAt(a, After(a, pr, p)) = TextAt(a, p)
  BY <1>4, TextMoves
<1> QED BY <1>3, <1>5 DEF Reached

\* A message's own event puts nothing into the turn; a Done comes last.
LEMMA MessageMoves ==
    ASSUME NEW a, NEW pr, NEW p, NEW q, Reached(a, pr, q) = Reached(a, pr, p),
           NEW n, NEW es \in Seq(LlmEvents(n)), NEW t, InStream(a, pr, p, es, t),
           NEW e \in LlmEvents(n), e.type \notin {"Delta", "ToolCallDelta"},
           e.type = "Done" => Reached(a, pr, p) = Everything(a)
    PROVE  Append(es, e) \in Seq(LlmEvents(n)) /\ InStream(a, pr, q, Append(es, e), t)
<1> DEFINE x == Reached(a, pr, p)
           all == Everything(a)
<1>1. Delivers(Content(t), es, x, all)
  BY DEF InStream
<1>2. Put(x, e) = x
  BY DEF Put
<1> HIDE DEF x, all
<1>3. Delivers(Content(t), Append(es, e), x, all)
  <2>1. e.type = "Done" => x = all
    BY DEF x, all
  <2>2. Delivers(Content(t), Append(es, e), Put(x, e), all)
    BY <1>1, <2>1, DeliversMore
  <2> QED BY <1>2, <2>2
<1>4. Append(es, e) \in Seq(LlmEvents(n))
  OBVIOUS
<1> QED BY <1>3, <1>4 DEF InStream, x, all

-----------------------------------------------------------------------------
(* LlmStream: the steps                                                    *)

\* What either server sends at its position.
Opens(f, b) == f.block = b.kind /\ f.id = b.id /\ f.name = b.id

LEMMA AnthropicSays ==
    ASSUME LlmTypeOK, provider = "anthropic"
    PROVE  /\ at.block = 0 => AnthropicFrame.kind = "message_start"
           /\ at.block \in Blks(answer) =>
                 /\ AnthropicFrame.index = at.block /\ AnthropicFrame.chunk = Chunk(answer, at.block, at.part)
                 /\ at.part = 0 => AnthropicFrame.kind = "start" /\ Opens(AnthropicFrame, answer.blocks[at.block])
                 /\ at.part # 0 /\ at.part = LastPart => AnthropicFrame.kind = "stop"
                 /\ at.part # 0 /\ at.part # LastPart => AnthropicFrame.kind = "delta"
           /\ at.block # 0 /\ at.block \notin Blks(answer) => AnthropicFrame.kind = "message_delta"
<1> DEFINE i == at.block
           k == at.part
           b == answer.blocks[i]
           n == Len(b.chunks)
<1>1. /\ answer \in Answers /\ Place(answer, provider, at) /\ DOMAIN answer.blocks = Blks(answer)
      /\ LastPart = PartsAt(answer, provider, at) /\ 0 \notin Blks(answer)
  BY Positions
<1>2. CASE i = 0
  <2>1. AnthropicFrame = Frame("message_start", 0, <<>>)
    BY <1>1, <1>2 DEF AnthropicFrame
  <2> QED BY <1>1, <1>2, <2>1 DEF Frame
<1>3. CASE i \in Blks(answer)
  <2>1. n \in Nat /\ k \in 0..LastPart
    BY <1>1, <1>3, AnswerType DEF Place
  <2>2. i # 0 /\ LastPart = n + 1
    BY <1>1, <1>3 DEF PartsAt, Lead
  <2>3. AnthropicFrame = IF k = 0 THEN OpenFrame("start", i, b)
                         ELSE IF k = LastPart THEN Frame("stop", i, <<>>) ELSE Frame("delta", i, b.chunks[k])
    BY <1>1, <1>3, <2>2 DEF AnthropicFrame, Current
  <2> HIDE DEF i, k, n
  <2>4. CASE k = 0
    <3>1. Chunk(answer, i, k) = <<>>
      BY <2>1, <2>4 DEF Chunk, n
    <3>2. AnthropicFrame = OpenFrame("start", i, b)
      BY <2>3, <2>4
    <3>3. /\ OpenFrame("start", i, b).index = i /\ OpenFrame("start", i, b).chunk = <<>>
          /\ OpenFrame("start", i, b).kind = "start" /\ Opens(OpenFrame("start", i, b), b)
      BY DEF OpenFrame, Frame, Opens
    <3> QED BY <2>2, <2>4, <3>1, <3>2, <3>3, <1>3 DEF i, k
  <2>5. CASE k # 0 /\ k = LastPart
    <3>1. Chunk(answer, i, k) = <<>>
      BY <2>1, <2>2, <2>5 DEF Chunk, n
    <3>2. AnthropicFrame = Frame("stop", i, <<>>)
      BY <2>3, <2>5
    <3> QED BY <2>2, <2>5, <3>1, <3>2, <1>3 DEF Frame, i, k
  <2>6. CASE k # 0 /\ k # LastPart
    <3>1. Chunk(answer, i, k) = b.chunks[k]
      BY <2>1, <2>2, <2>6 DEF Chunk, n
    <3>2. AnthropicFrame = Frame("delta", i, b.chunks[k])
      BY <2>3, <2>6
    <3> HIDE DEF b
    <3> QED BY <2>2, <2>6, <3>1, <3>2, <1>3 DEF Frame, i, k
  <2> QED BY <2>4, <2>5, <2>6
<1>4. CASE i # 0 /\ i \notin Blks(answer)
  <2>1. AnthropicFrame = StopFrame("message_delta", answer)
    BY <1>1, <1>4 DEF AnthropicFrame
  <2> QED BY <1>4, <2>1 DEF StopFrame, Frame
<1> QED BY <1>2, <1>3, <1>4

LEMMA OpenAiSays ==
    ASSUME LlmTypeOK, provider = "openai"
    PROVE  /\ at.block = 0 => OpenAiFrame.kind = "content" /\ OpenAiFrame.chunk = <<>>
           /\ at.block \in Blks(answer) =>
                 /\ OpenAiFrame.chunk = Chunk(answer, at.block, at.part)
                 /\ answer.blocks[at.block].kind # "tool" =>
                       OpenAiFrame.kind = "content" /\ OpenAiFrame.block = answer.blocks[at.block].kind
                 /\ answer.blocks[at.block].kind = "tool" =>
                       /\ OpenAiFrame.kind \in {"call_open", "call_delta"} /\ OpenAiFrame.index = at.block
                       /\ OpenAiFrame.id = (IF at.part = 0 THEN answer.blocks[at.block].id ELSE "")
                       /\ OpenAiFrame.name = OpenAiFrame.id
           /\ at.block # 0 /\ at.block \notin Blks(answer) =>
                 OpenAiFrame.kind = CASE at.part = 0 -> "finish" [] at.part = 1 -> "usage" [] OTHER -> "done"
<1> DEFINE i == at.block
           k == at.part
           b == answer.blocks[i]
           n == Len(b.chunks)
           c == IF k = 0 THEN <<>> ELSE b.chunks[k]
<1>1. /\ answer \in Answers /\ Place(answer, provider, at) /\ DOMAIN answer.blocks = Blks(answer)
      /\ LastPart = PartsAt(answer, provider, at) /\ 0 \notin Blks(answer)
  BY Positions
<1>2. CASE i = 0
  <2>1. OpenAiFrame = Frame("content", 0, <<>>)
    BY <1>1, <1>2 DEF OpenAiFrame
  <2> QED BY <1>1, <1>2, <2>1 DEF Frame
<1>3. CASE i \in Blks(answer)
  <2>1. n \in Nat /\ k \in 0..LastPart
    BY <1>1, <1>3, AnswerType DEF Place
  <2>2. i # 0 /\ LastPart = n
    <3>1. LastPart = n + 0
      BY <1>1, <1>3 DEF PartsAt, Lead
    <3> QED BY <1>1, <1>3, <2>1, <3>1
  <2>3. OpenAiFrame = IF b.kind # "tool" THEN [Frame("content", i, c) EXCEPT !.block = b.kind]
                      ELSE IF k = 0 THEN OpenFrame("call_open", i, b) ELSE Frame("call_delta", i, c)
    BY <1>1, <1>3, <2>2 DEF OpenAiFrame, Current
  <2>4. c = Chunk(answer, i, k)
    <3>1. CASE k = 0
      BY <2>1, <3>1 DEF Chunk
    <3>2. CASE k # 0
      BY <2>1, <2>2, <3>2 DEF Chunk
    <3> QED BY <3>1, <3>2
  <2> HIDE DEF i, k, n, c
  <2>5. CASE b.kind # "tool"
    <3>1. OpenAiFrame = [Frame("content", i, c) EXCEPT !.block = b.kind]
      BY <2>3, <2>5
    <3>2. OpenAiFrame.chunk = c /\ OpenAiFrame.kind = "content" /\ OpenAiFrame.block = b.kind
      BY <3>1 DEF Frame
    <3> QED BY <1>3, <2>2, <2>4, <2>5, <3>2 DEF i, k
  <2>6. CASE b.kind = "tool" /\ k = 0
    <3>1. OpenAiFrame = OpenFrame("call_open", i, b)
      BY <2>3, <2>6
    <3>2. OpenAiFrame.chunk = <<>> /\ OpenAiFrame.kind = "call_open" /\ OpenAiFrame.index = i
          /\ OpenAiFrame.id = b.id /\ OpenAiFrame.name = b.id
      BY <3>1 DEF OpenFrame, Frame
    <3>3. c = <<>>
      BY <2>6 DEF c
    <3> QED BY <1>3, <2>2, <2>4, <2>6, <3>2, <3>3 DEF i, k
  <2>7. CASE b.kind = "tool" /\ k # 0
    <3>1. OpenAiFrame = Frame("call_delta", i, c)
      BY <2>3, <2>7
    <3>2. OpenAiFrame.chunk = c /\ OpenAiFrame.kind = "call_delta" /\ OpenAiFrame.index = i
          /\ OpenAiFrame.id = "" /\ OpenAiFrame.name = ""
      BY <3>1 DEF Frame
    <3> QED BY <1>3, <2>2, <2>4, <2>7, <3>2 DEF i, k
  <2> QED BY <2>5, <2>6, <2>7
<1>4. CASE i # 0 /\ i \notin Blks(answer)
  <2> DEFINE u == StopFrame("finish", answer)
             v == Frame("usage", 0, <<>>)
             w == Frame("done", 0, <<>>)
  <2>1. OpenAiFrame = <<u, v, w>>[k + 1]
    BY <1>1, <1>4 DEF OpenAiFrame
  <2>2. k \in {0, 1, 2}
    <3>1. provider \in Providers
      BY Positions
    <3> QED BY <1>1, <1>4, <3>1, EndMoves
  <2>3. u.kind = "finish" /\ v.kind = "usage" /\ w.kind = "done"
    BY DEF StopFrame, Frame
  <2> HIDE DEF u, v, w, i, k
  <2>4. CASE k = 0
    BY <2>1, <2>3, <2>4, <1>1, <1>4 DEF i, k
  <2>5. CASE k = 1
    <3>1. k + 1 = 2 /\ k # 0
      BY <2>5
    <3>2. OpenAiFrame.kind = "usage"
      BY <2>1, <2>3, <3>1
    <3> QED BY <2>5, <3>1, <3>2, <1>1, <1>4 DEF i, k
  <2>6. CASE k = 2
    <3>1. k + 1 = 3 /\ k # 0 /\ k # 1
      BY <2>6
    <3>2. OpenAiFrame.kind = "done"
      BY <2>1, <2>3, <3>1
    <3> QED BY <2>6, <3>1, <3>2, <1>1, <1>4 DEF i, k
  <2> QED BY <2>2, <2>4, <2>5, <2>6
<1> QED BY <1>2, <1>3, <1>4

\* What the invariant says of the pump.
LEMMA PumpFacts ==
    ASSUME LlmInv
    PROVE  /\ LlmTypeOK /\ events \in Seq(LlmEvents(Len(answer.blocks))) /\ DOMAIN kinds \subseteq Blks(answer)
           /\ InStream(answer, provider, at, events, turn) /\ cut \in {"no", "eof", "error"}
           /\ provider = "anthropic" /\ pump # "ended" =>
                 kinds = OpenKinds(answer, at) /\ (at.block \notin Blks(answer) => at.part = 0)
<1>1. LlmTypeOK /\ DOMAIN answer.blocks = Blks(answer)
  BY Positions DEF LlmInv
<1> QED BY <1>1 DEF LlmInv, LlmTypeOK

\* The pump's block at the position after a part of it.
LEMMA KindsMove ==
    ASSUME NEW a \in Answers, NEW p, Place(a, "anthropic", p), p.block \in Blks(a)
    PROVE  /\ p.part = PartsAt(a, "anthropic", p) => OpenKinds(a, After(a, "anthropic", p)) = <<>>
           /\ p.part # PartsAt(a, "anthropic", p) =>
                 OpenKinds(a, After(a, "anthropic", p)) =
                    [i \in {p.block} |->
                       [kind |-> a.blocks[p.block].kind, id |-> a.blocks[p.block].id, name |-> a.blocks[p.block].id,
                        input |-> IF a.blocks[p.block].kind = "tool"
                                  THEN Input(a, p, p.block) \o Chunk(a, p.block, p.part) ELSE <<>>]]
           /\ p.part > 0 => OpenKinds(a, p) =
                    [i \in {p.block} |->
                       [kind |-> a.blocks[p.block].kind, id |-> a.blocks[p.block].id, name |-> a.blocks[p.block].id,
                        input |-> IF a.blocks[p.block].kind = "tool" THEN Input(a, p, p.block) ELSE <<>>]]
           /\ p.part = 0 => OpenKinds(a, p) = <<>> /\ Input(a, p, p.block) = <<>>
<1> DEFINE i == p.block
           k == p.part
           n == PartsAt(a, "anthropic", p)
           q == After(a, "anthropic", p)
           D(r) == {j \in Blks(a) : j = r.block /\ r.part > 0}
           V(r, j) == [kind |-> a.blocks[j].kind, id |-> a.blocks[j].id, name |-> a.blocks[j].id,
                       input |-> IF a.blocks[j].kind = "tool" THEN Input(a, r, j) ELSE <<>>]
<1>1. \A r : OpenKinds(a, r) = [j \in D(r) |-> V(r, j)]
  BY DEF OpenKinds
<1>2. "anthropic" \in Providers
  BY DEF Providers
<1>3. Input(a, q, i) = Input(a, p, i) \o Chunk(a, i, k) /\ (SentOf(a, p, i) = 0 \/ k > 1)
  BY <1>2, StepBrings DEF Brought
<1>4. k \in 0..n /\ i \in Nat /\ n \in Nat
  <2>1. Len(a.blocks[i].chunks) \in Nat /\ Len(a.blocks) \in Nat
    BY AnswerType
  <2>2. k \in 0..n /\ i \in 1..Len(a.blocks)
    BY DEF Place, Blks
  <2>3. n = Len(a.blocks[i].chunks) + 1
    BY <2>2 DEF PartsAt, Lead
  <2> HIDE DEF n, k, i
  <2> QED BY <2>1, <2>2, <2>3
<1>5. q = IF k < n THEN [block |-> i, part |-> k + 1] ELSE [block |-> i + 1, part |-> 0]
  BY DEF After
<1> HIDE DEF i, k, n, q, D, V
<1>6. ASSUME k = n
      PROVE  OpenKinds(a, q) = <<>>
  <2>1. q.part = 0
    BY <1>4, <1>5, <1>6
  <2>2. D(q) = {}
    BY <2>1 DEF D
  <2> QED BY <1>1, <2>2
<1>7. ASSUME k # n
      PROVE  OpenKinds(a, q) = [j \in {i} |-> [kind |-> a.blocks[i].kind, id |-> a.blocks[i].id, name |-> a.blocks[i].id,
               input |-> IF a.blocks[i].kind = "tool" THEN Input(a, p, i) \o Chunk(a, i, k) ELSE <<>>]]
  <2>1. q.block = i /\ q.part > 0
    BY <1>4, <1>5, <1>7
  <2>2. D(q) = {i}
    BY <2>1 DEF D, i
  <2>3. OpenKinds(a, q) = [j \in {i} |-> V(q, j)]
    BY <1>1, <2>2
  <2> QED BY <1>3, <2>3 DEF V
<1>8. ASSUME k > 0
      PROVE  OpenKinds(a, p) = [j \in {i} |-> [kind |-> a.blocks[i].kind, id |-> a.blocks[i].id, name |-> a.blocks[i].id,
               input |-> IF a.blocks[i].kind = "tool" THEN Input(a, p, i) ELSE <<>>]]
  <2>1. D(p) = {i}
    BY <1>8 DEF D, i, k
  <2>2. OpenKinds(a, p) = [j \in {i} |-> V(p, j)]
    BY <1>1, <2>1
  <2> QED BY <2>2 DEF V
<1>9. ASSUME k = 0
      PROVE  OpenKinds(a, p) = <<>> /\ Input(a, p, i) = <<>>
  <2>1. D(p) = {}
    BY <1>9 DEF D, k
  <2>2. OpenKinds(a, p) = <<>>
    <3>1. OpenKinds(a, p) = [j \in {} |-> V(p, j)]
      BY <1>1, <2>1
    <3> QED BY <3>1
  <2>3. SentOf(a, p, i) = 0
    BY <1>3, <1>4, <1>9
  <2>4. SubSeq(a.blocks[i].chunks, 1, 0) = <<>>
    OBVIOUS
  <2>5. Input(a, p, i) = <<>>
    BY <2>3, <2>4, FlattenNone DEF Input
  <2> QED BY <2>2, <2>5
<1> QED BY <1>6, <1>7, <1>8, <1>9 DEF i, k, n, q

LEMMA BlockEventKeeps ==
    ASSUME LlmInv, AnthropicBlockEvent
    PROVE  LlmInv'
<1> DEFINE i == at.block
           k == at.part
           b == answer.blocks[i]
           c == Chunk(answer, i, k)
           f == AnthropicFrame
           q == After(answer, provider, at)
           N == Len(answer.blocks)
           n == Len(b.chunks)
           d == Lead(provider)
           ev == [type |-> "ToolCallDelta", index |-> i, id |-> IF kinds[i].input = <<>> THEN b.id ELSE "",
                  name |-> IF kinds[i].input = <<>> THEN b.id ELSE "", chunk |-> c]
<1>1. /\ LlmTypeOK /\ events \in Seq(LlmEvents(N)) /\ DOMAIN kinds \subseteq Blks(answer)
      /\ InStream(answer, provider, at, events, turn) /\ cut \in {"no", "eof", "error"}
      /\ pump = "on" /\ provider = "anthropic" /\ at' = Onward /\ f.kind \in {"start", "delta", "stop"}
      /\ kinds = OpenKinds(answer, at)
  BY PumpFacts DEF AnthropicBlockEvent, BlockFrames
<1>2. /\ answer \in Answers /\ provider \in Providers /\ Place(answer, provider, at)
      /\ LastPart = PartsAt(answer, provider, at) /\ at' = q /\ Blks(answer) = 1..N
  BY <1>1, Positions
<1>3. i \in Blks(answer)
  <2>1. i = 0 => f.kind = "message_start"
    BY <1>1, AnthropicSays
  <2>2. i # 0 /\ i \notin Blks(answer) => f.kind = "message_delta"
    BY <1>1, AnthropicSays
  <2> HIDE DEF i, f
  <2> QED BY <1>1, <2>1, <2>2
<1>4. /\ f.index = i /\ f.chunk = c
      /\ k = 0 => f.kind = "start" /\ Opens(f, b)
      /\ k # 0 /\ k = LastPart => f.kind = "stop"
      /\ k # 0 /\ k # LastPart => f.kind = "delta"
  BY <1>1, <1>3, AnthropicSays
<1>5. Brought(answer, provider, at, q, i)
  BY <1>2, <1>3, StepBrings
<1>6. /\ Place(answer, provider, q) /\ q.block \in {i, i + 1} /\ (q.block = i + 1 => q.part = 0) /\ c \in Seq(Tokens)
      /\ (SentOf(answer, at, i) = 0 \/ k > 1)
  BY <1>5 DEF Brought
<1>17. N \in Nat /\ n \in Nat /\ b.id \in Strings
  BY <1>2, <1>3, AnswerType
<1>18. b.kind = "tool" => n > 0
  BY <1>2, <1>3, AnswerType
<1>7. k \in Nat /\ k <= n + 1 /\ LastPart = n + 1 /\ n \in Nat /\ d = 1
  <2>1. i # 0 /\ LastPart = n + d /\ d = 1
    <3>1. d = 1
      BY <1>1 DEF Lead
    <3>2. i # 0
      BY <1>2, <1>3, <1>17
    <3> QED BY <1>2, <1>3, <3>1, <3>2 DEF PartsAt
  <2>2. k \in 0..LastPart
    BY <1>2 DEF Place
  <2> HIDE DEF k, n, d
  <2> QED BY <1>17, <2>1, <2>2
<1>8. /\ k = LastPart => OpenKinds(answer, q) = <<>>
      /\ k # LastPart => OpenKinds(answer, q) =
            [j \in {i} |-> [kind |-> b.kind, id |-> b.id, name |-> b.id,
                            input |-> IF b.kind = "tool" THEN Input(answer, at, i) \o c ELSE <<>>]]
      /\ k > 0 => kinds =
            [j \in {i} |-> [kind |-> b.kind, id |-> b.id, name |-> b.id,
                            input |-> IF b.kind = "tool" THEN Input(answer, at, i) ELSE <<>>]]
      /\ k = 0 => kinds = <<>> /\ Input(answer, at, i) = <<>>
  BY <1>1, <1>2, <1>3, KindsMove
<1>9. q.block \notin Blks(answer) => q.part = 0
  BY <1>3, <1>6
<1>10. Is(answer, i, "tool") <=> b.kind = "tool"
  BY <1>3 DEF Is
<1>11. /\ answer' = answer /\ provider' = provider /\ history' = history /\ request' = request /\ turn' = turn
       /\ cut' = cut /\ pump' = pump
  BY DEF AnthropicBlockEvent
<1>12. ASSUME DOMAIN kinds' \subseteq Blks(answer), kinds' = OpenKinds(answer, q), events' \in Seq(LlmEvents(N)),
              InStream(answer, provider, q, events', turn)
       PROVE  LlmInv'
  <2> HIDE DEF f, c, b, k, i, q
  <2>1. PumpMakes
    BY <1>1, <1>2, <1>6, <1>9, <1>11, <1>12 DEF PumpMakes
  <2> QED BY <2>1, PumpStep
<1> HIDE DEF k, n, d
<1>13. CASE k = 0
  <2>1. c = <<>>
    BY <1>7, <1>13 DEF Chunk, k
  <2>2. kinds' = BlockOpened(f) /\ events' = events
    <3> HIDE DEF f, k
    <3> QED BY <1>4, <1>13 DEF AnthropicBlockEvent, f, k
  <2>3. kinds' = [j \in {i} |-> [kind |-> b.kind, id |-> b.id, name |-> b.id, input |-> <<>>]]
    <3>1. DOMAIN kinds = {} /\ f.index = i /\ f.block = b.kind /\ f.id = b.id /\ f.name = b.id
      BY <1>4, <1>8, <1>13 DEF Opens
    <3> HIDE DEF f, i, b
    <3> QED BY <2>2, <3>1 DEF BlockOpened
  <2>4. <<>> \o <<>> = <<>> /\ k # LastPart
    BY <1>7, <1>13
  <2>5. kinds' = OpenKinds(answer, q)
    BY <1>8, <1>13, <2>1, <2>3, <2>4
  <2>6. Reached(answer, provider, q) = Reached(answer, provider, at)
    <3>1. k # d
      BY <1>7, <1>13
    <3> QED BY <1>2, <1>3, <2>1, <3>1, NothingMoves DEF k, d
  <2>7. InStream(answer, provider, q, events, turn)
    BY <1>1, <2>6 DEF InStream
  <2>8. DOMAIN kinds' \subseteq Blks(answer)
    BY <1>3, <2>3
  <2> QED BY <1>1, <1>12, <2>2, <2>5, <2>7, <2>8
<1>14. CASE k # 0 /\ k = LastPart
  <2>1. c = <<>>
    <3>1. k \notin 1..n
      BY <1>7, <1>14
    <3> QED BY <3>1 DEF Chunk, k, n
  <2>2. kinds' = BlockClosed(i) /\ events' = events
    <3> HIDE DEF f, k, i
    <3> QED BY <1>4, <1>14 DEF AnthropicBlockEvent, f, k
  <2>3. kinds' = <<>> /\ DOMAIN kinds' = {}
    <3>1. DOMAIN kinds \ {i} = {}
      <4>1. k > 0
        BY <1>7, <1>14
      <4>2. DOMAIN kinds = {i}
        BY <1>8, <4>1
      <4> QED BY <4>2
    <3> HIDE DEF i
    <3> QED BY <2>2, <3>1 DEF BlockClosed
  <2>4. b.kind = "tool" => k # d
    BY <1>7, <1>14, <1>18
  <2>5. Reached(answer, provider, q) = Reached(answer, provider, at)
    BY <1>2, <1>3, <1>10, <2>1, <2>4, NothingMoves DEF k, d
  <2>6. InStream(answer, provider, q, events, turn)
    BY <1>1, <2>5 DEF InStream
  <2> QED BY <1>1, <1>8, <1>12, <1>14, <2>2, <2>3, <2>6
<1>15. CASE k # 0 /\ k # LastPart
  <2>1. f.kind = "delta" /\ k > 0 /\ k # LastPart
    BY <1>4, <1>7, <1>15
  <2>2. /\ DOMAIN kinds = {i} /\ kinds[i].kind = b.kind /\ kinds[i].id = b.id /\ kinds[i].name = b.id
        /\ kinds[i].input = IF b.kind = "tool" THEN Input(answer, at, i) ELSE <<>>
    <3> HIDE DEF i, b, c
    <3> QED BY <1>8, <2>1
  <2>3. CASE b.kind # "tool"
    <3>1. events' = events \o Delta(b.kind, c) /\ kinds' = kinds
      <4> HIDE DEF f, i, c, b
      <4> QED BY <1>4, <2>1, <2>2, <2>3 DEF AnthropicBlockEvent, f, k
    <3>2. events' \in Seq(LlmEvents(N)) /\ InStream(answer, provider, q, events', turn)
      BY <1>1, <1>2, <1>3, <1>10, <2>3, <3>1, DeltaMoves DEF k
    <3>3. kinds' = OpenKinds(answer, q)
      BY <1>8, <2>1, <2>3, <3>1
    <3> QED BY <1>1, <1>12, <3>1, <3>2, <3>3
  <2>4. CASE b.kind = "tool"
    <3>1. events' = events \o ToolDelta(kinds[i], f) /\ kinds' = [kinds EXCEPT ![i].input = @ \o c]
      <4> HIDE DEF f, i, c, b
      <4> QED BY <1>4, <2>1, <2>2, <2>4 DEF AnthropicBlockEvent, f, k
    <3>2. ToolDelta(kinds[i], f) = <<ev>>
      <4> HIDE DEF f, i, c, b
      <4> QED BY <1>4, <2>2 DEF ToolDelta, ToolCallDelta
    <3>3. events' = Append(events, ev)
      <4> HIDE DEF ev
      <4> QED BY <1>1, <3>1, <3>2, JoinOne
    <3>4. Piece(answer, provider, at, ev)
      <4>1. k >= d
        BY <1>7, <2>1
      <4>2. k = d => kinds[i].input = <<>>
        <5> SUFFICES ASSUME k = d PROVE kinds[i].input = <<>>
          OBVIOUS
        <5>1. SentOf(answer, at, i) = 0
          BY <1>6, <1>7
        <5>2. SubSeq(b.chunks, 1, 0) = <<>>
          OBVIOUS
        <5>3. Input(answer, at, i) = <<>>
          BY <5>1, <5>2, FlattenNone DEF Input
        <5> QED BY <2>2, <2>4, <5>3
      <4> QED BY <4>1, <4>2 DEF Piece, k, d
    <3>5. ev \in LlmEvents(N) /\ ev.type = "ToolCallDelta"
      <4> DEFINE id == IF kinds[i].input = <<>> THEN b.id ELSE ""
      <4>1. id \in Strings
        BY <1>17, LlmAssumption
      <4>2. ev = [type |-> "ToolCallDelta", index |-> i, id |-> id, name |-> id, chunk |-> c]
        OBVIOUS
      <4>3. i \in 1..N
        BY <1>2, <1>3
      <4> HIDE DEF id, ev, i, c, N
      <4> QED BY <1>6, <4>1, <4>2, <4>3 DEF LlmEvents
    <3>6. Is(answer, at.block, "tool")
      BY <1>10, <2>4
    <3>7. events' \in Seq(LlmEvents(N)) /\ InStream(answer, provider, q, events', turn)
      <4> HIDE DEF ev
      <4> QED BY <1>1, <1>2, <3>3, <3>4, <3>5, <3>6, PieceMoves
    <3>8. kinds' = OpenKinds(answer, q)
      <4> HIDE DEF i, c, b
      <4>1. kinds = [j \in {i} |-> [kind |-> b.kind, id |-> b.id, name |-> b.id, input |-> Input(answer, at, i)]]
        BY <1>8, <2>1, <2>4
      <4> DEFINE x == Input(answer, at, i)
                 v == [kind |-> b.kind, id |-> b.id, name |-> b.id, input |-> x]
                 w == [kind |-> b.kind, id |-> b.id, name |-> b.id, input |-> x \o c]
      <4>3. v.input = x /\ [v EXCEPT !.input = x \o c] = w
        <5> DEFINE y == x \o c
        <5> HIDE DEF x, y
        <5>1. v.input = x /\ [v EXCEPT !.input = y] = [kind |-> b.kind, id |-> b.id, name |-> b.id, input |-> y]
          OBVIOUS
        <5> QED BY <5>1 DEF y
      <4>4. kinds = [j \in {i} |-> v]
        BY <4>1
      <4> HIDE DEF v, w
      <4>5. kinds' = [j \in {i} |-> [v EXCEPT !.input = v.input \o c]]
        BY <3>1, <4>4
      <4>2. kinds' = [j \in {i} |-> w]
        BY <4>3, <4>5
      <4> QED BY <1>8, <2>1, <2>4, <4>2 DEF w
    <3>9. DOMAIN kinds' \subseteq Blks(answer)
      BY <1>3, <2>2, <3>1
    <3> QED BY <1>12, <3>7, <3>8, <3>9
  <2> QED BY <2>3, <2>4
<1> QED BY <1>13, <1>14, <1>15

LEMMA PlainEvents ==
    ASSUME NEW n
    PROVE  /\ [type |-> "Usage"] \in LlmEvents(n) /\ [type |-> "Error"] \in LlmEvents(n)
           /\ \A r : [type |-> "Done", finish |-> StopReason(r)] \in LlmEvents(n)
<1>1. \A r : StopReason(r) \in {"Stop", "ToolCalls", "Length"}
  BY DEF StopReason
<1> QED BY <1>1 DEF LlmEvents

LEMMA MessageEventKeeps ==
    ASSUME LlmInv, AnthropicMessageEvent
    PROVE  LlmInv'
<1> DEFINE f == AnthropicFrame
           q == After(answer, provider, at)
           n == Len(answer.blocks)
           u == [type |-> "Usage"]
           d == [type |-> "Done", finish |-> StopReason(f.stop)]
<1>1. /\ LlmTypeOK /\ events \in Seq(LlmEvents(n)) /\ DOMAIN kinds \subseteq Blks(answer)
      /\ InStream(answer, provider, at, events, turn) /\ cut \in {"no", "eof", "error"}
      /\ kinds = OpenKinds(answer, at) /\ (at.block \notin Blks(answer) => at.part = 0)
  BY PumpFacts DEF AnthropicMessageEvent
<1>2. /\ pump = "on" /\ provider = "anthropic" /\ at' = Onward /\ f.kind \notin {"start", "delta", "stop"}
      /\ IF f.kind = "message_start" THEN events' = events \o <<u>> /\ pump' = pump
         ELSE events' = (events \o <<u>>) \o <<d>> /\ pump' = "ended"
  BY DEF AnthropicMessageEvent, BlockFrames, Usage, Done
<1>3. /\ answer' = answer /\ provider' = provider /\ history' = history /\ request' = request /\ turn' = turn
      /\ cut' = cut /\ kinds' = kinds
  BY DEF AnthropicMessageEvent
<1>4. answer \in Answers /\ provider \in Providers /\ Place(answer, provider, at) /\ at' = q
  BY <1>1, <1>2, Positions
<1>5. u \in LlmEvents(n) /\ d \in LlmEvents(n) /\ u.type = "Usage" /\ d.type = "Done"
  BY PlainEvents
<1> HIDE DEF u, d, n
<1>6. at.block \notin Blks(answer)
  <2>1. at.block \in Blks(answer) => f.kind \in {"start", "delta", "stop"}
    BY <1>1, <1>2, AnthropicSays
  <2> QED BY <1>2, <2>1
<1>7. events \o <<u>> = Append(events, u) /\ Append(events, u) \in Seq(LlmEvents(n))
  <2>1. events \o <<u>> = Append(events, u)
    BY <1>1, JoinOne
  <2>2. Append(events, u) \in Seq(LlmEvents(n))
    BY <1>1, <1>5
  <2> QED BY <2>1, <2>2
<1>8. CASE at.block = 0
  <2>1. at = [block |-> 0, part |-> 0]
    <3>1. at \in [block : Nat, part : Nat] /\ at.part = 0
      BY <1>1, <1>4, <1>6 DEF Place
    <3> QED BY <1>8, <3>1
  <2>2. Place(answer, provider, q) /\ q.part = 0 /\ Reached(answer, provider, q) = Reached(answer, provider, at)
    BY <1>4, <2>1, StartMoves
  <2>3. InStream(answer, provider, q, Append(events, u), turn)
    BY <1>1, <1>5, <2>2, MessageMoves
  <2>4. f.kind = "message_start"
    BY <1>1, <1>2, <1>8, AnthropicSays
  <2>5. events' = Append(events, u) /\ pump' = "on"
    BY <1>2, <1>7, <2>4
  <2>6. OpenKinds(answer, q) = OpenKinds(answer, at)
    <3>1. {j \in Blks(answer) : j = q.block /\ q.part > 0} = {} /\ {j \in Blks(answer) : j = at.block /\ at.part > 0} = {}
      BY <1>1, <1>6, <2>2
    <3> QED BY <3>1 DEF OpenKinds
  <2> HIDE DEF q
  <2>7. PumpMakes
    BY <1>1, <1>2, <1>3, <1>4, <1>7, <2>2, <2>3, <2>5, <2>6 DEF PumpMakes, n
  <2> QED BY <2>7, PumpStep
<1>9. CASE at.block # 0
  <2>1. at.block = n + 1 /\ Reached(answer, provider, at) = Everything(answer) /\ at.part # 2
    BY <1>1, <1>4, <1>6, <1>9, EndMoves DEF n
  <2>2. q = [block |-> at.block, part |-> at.part + 1] /\ Place(answer, provider, q) /\ q.block = at.block
    BY <1>4, <1>6, <1>9, <2>1, EndMoves
  <2>3. Reached(answer, provider, q) = Reached(answer, provider, at)
    <3>1. q.block \notin Blks(answer) /\ q.block # 0
      BY <1>6, <1>9, <2>2
    <3> HIDE DEF q
    <3>2. Reached(answer, provider, q) = Everything(answer)
      BY <1>4, <2>2, <3>1, EndMoves
    <3> QED BY <2>1, <3>2
  <2>4. InStream(answer, provider, at, Append(events, u), turn)
    BY <1>1, <1>5, MessageMoves
  <2>5. Append(Append(events, u), d) \in Seq(LlmEvents(n)) /\ InStream(answer, provider, q, Append(Append(events, u), d), turn)
    BY <1>5, <1>7, <2>1, <2>3, <2>4, MessageMoves
  <2>6. f.kind = "message_delta"
    BY <1>1, <1>2, <1>6, <1>9, AnthropicSays
  <2>7. events' = Append(Append(events, u), d) /\ pump' = "ended"
    <3>1. Append(events, u) \o <<d>> = Append(Append(events, u), d)
      BY <1>7, JoinOne
    <3> QED BY <1>2, <1>7, <2>6, <3>1
  <2> HIDE DEF q
  <2>8. PumpMakes
    BY <1>1, <1>2, <1>3, <1>4, <2>2, <2>5, <2>7 DEF PumpMakes, n
  <2> QED BY <2>8, PumpStep
<1> QED BY <1>8, <1>9

LEMMA CutsKeep ==
    ASSUME LlmInv, ConnectionCut \/ PumpCut \/ AnthropicErrorEvent
    PROVE  LlmInv'
<1> DEFINE n == Len(answer.blocks)
           u == [type |-> "Error"]
<1>1. /\ LlmTypeOK /\ events \in Seq(LlmEvents(n)) /\ DOMAIN kinds \subseteq Blks(answer)
      /\ InStream(answer, provider, at, events, turn) /\ cut \in {"no", "eof", "error"}
      /\ provider = "anthropic" /\ pump # "ended" =>
            kinds = OpenKinds(answer, at) /\ (at.block \notin Blks(answer) => at.part = 0)
  BY PumpFacts
<1>2. answer \in Answers /\ provider \in Providers /\ Place(answer, provider, at)
  BY <1>1, Positions
<1>3. u \in LlmEvents(n) /\ u.type = "Error"
  BY PlainEvents
<1>4. /\ answer' = answer /\ provider' = provider /\ history' = history /\ request' = request /\ turn' = turn
      /\ kinds' = kinds /\ at' = at /\ pump = "on" /\ cut' \in {"no", "eof", "error"} /\ pump' \in {"on", "ended"}
      /\ events' \in {events, Append(events, u)}
  BY <1>1 DEF ConnectionCut, PumpCut, AnthropicErrorEvent
<1> HIDE DEF u
<1>5. InStream(answer, provider, at, Append(events, u), turn) /\ Append(events, u) \in Seq(LlmEvents(n))
  <2>1. u.type \notin {"Delta", "ToolCallDelta"} /\ u.type # "Done"
    BY <1>3
  <2> HIDE DEF n
  <2> QED BY <1>1, <1>3, <2>1, MessageMoves
<1>6. PumpMakes
  BY <1>1, <1>2, <1>4, <1>5 DEF PumpMakes
<1> QED BY <1>6, PumpStep

LEMMA ChunkKeeps ==
    ASSUME LlmInv, parse_chunk
    PROVE  LlmInv'
<1> DEFINE i == at.block
           k == at.part
           b == answer.blocks[i]
           c == Chunk(answer, i, k)
           f == OpenAiFrame
           q == After(answer, provider, at)
           n == Len(answer.blocks)
           id == IF k = 0 THEN b.id ELSE ""
           ev == [type |-> "ToolCallDelta", index |-> i, id |-> id, name |-> id, chunk |-> c]
           u == [type |-> "Usage"]
           d == [type |-> "Done", finish |-> StopReason(f.stop)]
<1>1. /\ LlmTypeOK /\ events \in Seq(LlmEvents(n)) /\ DOMAIN kinds \subseteq Blks(answer)
      /\ InStream(answer, provider, at, events, turn) /\ cut \in {"no", "eof", "error"}
  BY PumpFacts
<1>2. /\ pump = "on" /\ provider = "openai"
      /\ IF f.kind = "done" THEN pump' = "ended" /\ at' = at /\ events' = events
         ELSE at' = Onward /\ events' = events \o OpenAiEvents(f) /\ pump' = pump
      /\ answer' = answer /\ provider' = provider /\ history' = history /\ request' = request /\ turn' = turn
      /\ cut' = cut /\ kinds' = kinds
  BY DEF parse_chunk
<1>3. /\ answer \in Answers /\ provider \in Providers /\ Place(answer, provider, at) /\ Onward = q
      /\ LastPart = PartsAt(answer, provider, at) /\ Blks(answer) = 1..n
  BY <1>1, Positions
<1>4. Lead(provider) = 0
  BY <1>2 DEF Lead
<1>5. u \in LlmEvents(n) /\ d \in LlmEvents(n) /\ u.type = "Usage" /\ d.type = "Done"
  BY PlainEvents
<1>6. ASSUME Place(answer, provider, at'), events' \in Seq(LlmEvents(n)), InStream(answer, provider, at', events', turn)
      PROVE  LlmInv'
  <2> HIDE DEF f, c, b, k, i, q, n, u, d
  <2>1. PumpMakes
    BY <1>1, <1>2, <1>3, <1>6 DEF PumpMakes, n
  <2> QED BY <2>1, PumpStep
<1>7. CASE i = 0
  <2>1. at = [block |-> 0, part |-> 0]
    <3>1. PartsAt(answer, provider, at) = 0
      BY <1>3, <1>7 DEF PartsAt
    <3>2. at \in [block : Nat, part : 0..0]
      BY <1>3, <3>1 DEF Place
    <3> QED BY <1>7, <3>2
  <2>2. Place(answer, provider, q) /\ Reached(answer, provider, q) = Reached(answer, provider, at)
    BY <1>3, <2>1, StartMoves
  <2>3. f.kind = "content" /\ f.chunk = <<>>
    BY <1>1, <1>2, <1>7, OpenAiSays
  <2>4. at' = q /\ events' = events
    <3>1. OpenAiEvents(f) = <<>>
      BY <2>3 DEF OpenAiEvents, Delta
    <3>2. events \o <<>> = events
      BY <1>1, JoinOne
    <3> HIDE DEF f, q
    <3> QED BY <1>2, <1>3, <2>3, <3>1, <3>2
  <2>5. InStream(answer, provider, q, events, turn)
    BY <1>1, <2>2 DEF InStream
  <2> HIDE DEF q
  <2> QED BY <1>1, <1>6, <2>2, <2>4, <2>5
<1>8. CASE i \in Blks(answer)
  <2>1. Brought(answer, provider, at, q, i)
    BY <1>3, <1>8, StepBrings
  <2>2. Place(answer, provider, q) /\ c \in Seq(Tokens)
    BY <2>1 DEF Brought
  <2>3. /\ f.chunk = c
        /\ b.kind # "tool" => f.kind = "content" /\ f.block = b.kind
        /\ b.kind = "tool" => f.kind \in {"call_open", "call_delta"} /\ f.index = i /\ f.id = id /\ f.name = f.id
    BY <1>1, <1>2, <1>8, OpenAiSays
  <2>4. Is(answer, i, "tool") <=> b.kind = "tool"
    BY <1>8 DEF Is
  <2>5. CASE b.kind # "tool"
    <3>1. at' = q /\ events' = events \o Delta(b.kind, c)
      <4> HIDE DEF f, q, c, b
      <4>1. OpenAiEvents(f) = Delta(b.kind, c)
        BY <2>3, <2>5 DEF OpenAiEvents
      <4> QED BY <1>2, <1>3, <2>3, <2>5, <4>1
    <3>2. events' \in Seq(LlmEvents(n)) /\ InStream(answer, provider, q, events', turn)
      BY <1>1, <1>3, <1>8, <2>4, <2>5, <3>1, DeltaMoves
    <3> HIDE DEF q
    <3> QED BY <1>6, <2>2, <3>1, <3>2
  <2>6. CASE b.kind = "tool"
    <3>1. OpenAiEvents(f) = <<ev>>
      <4> HIDE DEF f, c, b, i, id
      <4> QED BY <2>3, <2>6 DEF OpenAiEvents, ToolCallDelta
    <3>2. at' = q /\ events' = Append(events, ev)
      <4>1. events \o <<ev>> = Append(events, ev)
        <5> HIDE DEF ev
        <5> QED BY <1>1, JoinOne
      <4> HIDE DEF f, q, ev
      <4> QED BY <1>2, <1>3, <2>3, <2>6, <3>1, <4>1
    <3>3. b.id \in Strings /\ k \in Nat
      <4>1. b.id \in Strings
        BY <1>3, <1>8, AnswerType
      <4>2. k \in Nat
        BY <1>3 DEF Place
      <4> QED BY <4>1, <4>2
    <3>4. Piece(answer, provider, at, ev)
      <4>1. k >= 0
        BY <3>3
      <4>2. (k = 0 => id = b.id) /\ id \in {"", b.id}
        <5> HIDE DEF k, b
        <5> QED OBVIOUS
      <4> HIDE DEF id
      <4> QED BY <1>4, <4>1, <4>2 DEF Piece
    <3>5. ev \in LlmEvents(n) /\ ev.type = "ToolCallDelta"
      <4>1. id \in Strings /\ i \in 1..n
        BY <1>3, <1>8, <3>3, LlmAssumption
      <4> HIDE DEF id, i, c, n
      <4> QED BY <2>2, <4>1 DEF LlmEvents
    <3>6. Is(answer, at.block, "tool")
      BY <2>4, <2>6
    <3>7. events' \in Seq(LlmEvents(n)) /\ InStream(answer, provider, q, events', turn)
      <4> HIDE DEF ev
      <4> QED BY <1>1, <1>3, <3>2, <3>4, <3>5, <3>6, PieceMoves
    <3> HIDE DEF q
    <3> QED BY <1>6, <2>2, <3>2, <3>7
  <2> QED BY <2>5, <2>6
<1>9. CASE i # 0 /\ i \notin Blks(answer)
  <2>1. k \in {0, 1, 2} /\ Reached(answer, provider, at) = Everything(answer)
    BY <1>3, <1>9, EndMoves
  <2>2. f.kind = CASE k = 0 -> "finish" [] k = 1 -> "usage" [] OTHER -> "done"
    BY <1>1, <1>2, <1>9, OpenAiSays
  <2>3. CASE k = 2
    <3>1. f.kind = "done"
      BY <2>2, <2>3
    <3>2. at' = at /\ events' = events
      BY <1>2, <3>1
    <3> QED BY <1>1, <1>3, <1>6, <3>2
  <2>4. CASE k # 2
    <3>1. /\ q = [block |-> at.block, part |-> at.part + 1] /\ Place(answer, provider, q)
      BY <1>3, <1>9, <2>4, EndMoves
    <3>2. Reached(answer, provider, q) = Reached(answer, provider, at)
      <4>1. q.block \notin Blks(answer) /\ q.block # 0
        BY <1>9, <3>1
      <4> HIDE DEF q
      <4>2. Reached(answer, provider, q) = Everything(answer)
        BY <1>3, <3>1, <4>1, EndMoves
      <4> QED BY <2>1, <4>2
    <3>3. \E e \in {u, d} : OpenAiEvents(f) = <<e>> /\ f.kind # "done"
      <4>1. CASE k = 0
        <5>1. f.kind = "finish"
          BY <2>2, <4>1
        <5> QED BY <5>1 DEF OpenAiEvents, Done
      <4>2. CASE k = 1
        <5>1. f.kind = "usage"
          BY <2>2, <4>2
        <5> QED BY <5>1 DEF OpenAiEvents, Usage
      <4> QED BY <2>1, <2>4, <4>1, <4>2
    <3>4. PICK e \in {u, d} : OpenAiEvents(f) = <<e>> /\ f.kind # "done"
      BY <3>3
    <3>5. e \in LlmEvents(n) /\ e.type \notin {"Delta", "ToolCallDelta"}
      BY <1>5, <3>4
    <3>6. at' = q /\ events' = Append(events, e)
      <4>1. events \o <<e>> = Append(events, e)
        BY <1>1, JoinOne
      <4> HIDE DEF f, q
      <4> QED BY <1>2, <1>3, <3>4, <4>1
    <3>7. Append(events, e) \in Seq(LlmEvents(n)) /\ InStream(answer, provider, q, Append(events, e), turn)
      BY <1>1, <2>1, <3>2, <3>5, MessageMoves
    <3> HIDE DEF q
    <3> QED BY <1>6, <3>1, <3>6, <3>7
  <2> QED BY <2>3, <2>4
<1> QED BY <1>7, <1>8, <1>9

\* The calls of a turn, with one more piece.
LEMMA CallsType ==
    ASSUME NEW n, NEW D \in SUBSET (1..n), NEW calls \in [D -> LlmCalls], NEW e \in LlmEvents(n), e.type = "ToolCallDelta"
    PROVE  Accumulate(calls, e) \in [D \cup {e.index} -> LlmCalls] /\ e.index \in 1..n
<1> DEFINE v == ""
           old == [x \in D \cup {e.index} |-> IF x \in D THEN calls[x] ELSE NoCall]
<1>1. e.index \in 1..n /\ e.id \in Strings /\ e.name \in Strings /\ e.chunk \in Seq(Tokens)
  BY DEF LlmEvents
<1>2. NoCall \in LlmCalls
  <2>1. v \in Strings
    BY LlmAssumption
  <2>3. <<>> \in Seq(Tokens)
    OBVIOUS
  <2>2. NoCall = [id |-> v, name |-> v, arguments |-> <<>>]
    BY DEF NoCall
  <2> HIDE DEF v
  <2> QED BY <2>1, <2>2, <2>3 DEF LlmCalls
<1>3. \A x \in D \cup {e.index} : old[x] \in LlmCalls /\ old[x] = IF x \in D THEN calls[x] ELSE NoCall
  BY <1>2
<1>4. Accumulate(calls, e) = [x \in D \cup {e.index} |->
         IF x # e.index THEN old[x]
         ELSE [id |-> Unless(e.id, old[x].id), name |-> Unless(e.name, old[x].name), arguments |-> old[x].arguments \o e.chunk]]
  BY <1>3 DEF Accumulate
<1> HIDE DEF old
<1> DEFINE new(x) == [id |-> Unless(e.id, old[x].id), name |-> Unless(e.name, old[x].name),
              arguments |-> old[x].arguments \o e.chunk]
<1>5. ASSUME NEW x \in D \cup {e.index}
      PROVE  new(x) \in LlmCalls
  <2>1. old[x].id \in Strings /\ old[x].name \in Strings /\ old[x].arguments \in Seq(Tokens)
    BY <1>3 DEF LlmCalls
  <2>2. Unless(e.id, old[x].id) \in Strings /\ Unless(e.name, old[x].name) \in Strings
    BY <1>1, <2>1 DEF Unless
  <2>3. old[x].arguments \o e.chunk \in Seq(Tokens)
    BY <1>1, <2>1
  <2> QED BY <2>2, <2>3 DEF LlmCalls
<1>6. Accumulate(calls, e) \in [D \cup {e.index} -> LlmCalls]
  <2>1. Accumulate(calls, e) = [x \in D \cup {e.index} |-> IF x # e.index THEN old[x] ELSE new(x)]
    BY <1>4
  <2> HIDE DEF new
  <2> QED BY <1>3, <1>5, <2>1
<1> QED BY <1>1, <1>6

\* The turns of an answer of n blocks.
Turns(n, t) ==
    \E D \in SUBSET (1..n) :
       t \in [text : Seq(Tokens), calls : [D -> LlmCalls], finish : {"none", "Stop", "ToolCalls", "Length"},
              usage : Nat, outcome : {"none", "error", "end", "tools"}]

\* What an event changes in the turn.
LEMMA TakenIs ==
    ASSUME NEW n, NEW t, Turns(n, t), NEW e \in LlmEvents(n)
    PROVE  /\ Turns(n, Taken(t, e)) /\ Content(Taken(t, e)) = Put(Content(t), e)
           /\ Taken(t, e).finish = IF e.type = "Done" THEN e.finish ELSE t.finish
           /\ Taken(t, e).outcome = IF e.type = "Error" THEN "error" ELSE t.outcome
<1> PICK D \in SUBSET (1..n) :
       t \in [text : Seq(Tokens), calls : [D -> LlmCalls], finish : {"none", "Stop", "ToolCalls", "Length"},
              usage : Nat, outcome : {"none", "error", "end", "tools"}]
  BY DEF Turns
<1> DEFINE R(x, y, z, u, v) == [text |-> x, calls |-> y, finish |-> z, usage |-> u, outcome |-> v]
<1>1. t = R(t.text, t.calls, t.finish, t.usage, t.outcome)
  OBVIOUS
<1>2. /\ t.text \in Seq(Tokens) /\ t.calls \in [D -> LlmCalls] /\ t.finish \in {"none", "Stop", "ToolCalls", "Length"}
      /\ t.usage \in Nat /\ t.outcome \in {"none", "error", "end", "tools"}
  OBVIOUS
<1>3. ASSUME NEW x \in Seq(Tokens), NEW E \in SUBSET (1..n), NEW y \in [E -> LlmCalls],
             NEW z \in {"none", "Stop", "ToolCalls", "Length"}, NEW u \in Nat, NEW v \in {"none", "error", "end", "tools"}
      PROVE  Turns(n, R(x, y, z, u, v))
  <2>1. R(x, y, z, u, v) \in [text : Seq(Tokens), calls : [E -> LlmCalls], finish : {"none", "Stop", "ToolCalls", "Length"},
              usage : Nat, outcome : {"none", "error", "end", "tools"}]
    OBVIOUS
  <2> HIDE DEF R
  <2> QED BY <2>1 DEF Turns
<1>4. ASSUME NEW x, NEW y, NEW z, NEW u, NEW v
      PROVE  /\ Content(R(x, y, z, u, v)) = [text |-> x, calls |-> y]
             /\ R(x, y, z, u, v).finish = z /\ R(x, y, z, u, v).outcome = v
  BY DEF Content
<1>5. Content(t) = [text |-> t.text, calls |-> t.calls]
  BY DEF Content
<1>6. CASE e.type = "Delta"
  <2>1. e.chunk \in Seq(Tokens)
    BY <1>6 DEF LlmEvents
  <2>2. Taken(t, e) = R(t.text \o e.chunk, t.calls, t.finish, t.usage, t.outcome)
    BY <1>1, <1>6 DEF Taken
  <2>3. Put(Content(t), e) = [text |-> t.text \o e.chunk, calls |-> t.calls]
    BY <1>5, <1>6 DEF Put
  <2> DEFINE x == t.text \o e.chunk
  <2>4. x \in Seq(Tokens)
    BY <1>2, <2>1
  <2>6. Taken(t, e) = R(x, t.calls, t.finish, t.usage, t.outcome) /\ Put(Content(t), e) = [text |-> x, calls |-> t.calls]
    BY <2>2, <2>3
  <2> HIDE DEF R, x
  <2>5. Turns(n, R(x, t.calls, t.finish, t.usage, t.outcome))
    BY <1>2, <1>3, <2>4
  <2> QED BY <1>4, <1>5, <1>6, <2>5, <2>6
<1>7. CASE e.type = "ToolCallDelta"
  <2> DEFINE E == D \cup {e.index}
             y == Accumulate(t.calls, e)
  <2>1. y \in [E -> LlmCalls] /\ E \in SUBSET (1..n)
    BY <1>2, <1>7, CallsType
  <2>2. Taken(t, e) = R(t.text, y, t.finish, t.usage, t.outcome)
    <3> HIDE DEF y
    <3> QED BY <1>1, <1>7 DEF Taken, y
  <2>3. Put(Content(t), e) = [text |-> t.text, calls |-> y]
    BY <1>5, <1>7 DEF Put
  <2> HIDE DEF R, E, y
  <2>4. Turns(n, R(t.text, y, t.finish, t.usage, t.outcome))
    BY <1>2, <1>3, <2>1
  <2> QED BY <1>4, <1>5, <1>7, <2>1, <2>2, <2>3, <2>4
<1>8. CASE e.type = "Usage"
  <2>1. Taken(t, e) = R(t.text, t.calls, t.finish, t.usage + 1, t.outcome)
    BY <1>1, <1>8 DEF Taken
  <2>2. Put(Content(t), e) = Content(t) /\ t.usage + 1 \in Nat
    BY <1>2, <1>8 DEF Put
  <2> HIDE DEF R
  <2>3. Turns(n, R(t.text, t.calls, t.finish, t.usage + 1, t.outcome))
    BY <1>2, <1>3, <2>2
  <2> QED BY <1>4, <1>5, <1>8, <2>1, <2>2, <2>3
<1>9. CASE e.type = "Error"
  <2>1. Taken(t, e) = R(t.text, t.calls, t.finish, t.usage, "error")
    BY <1>1, <1>9 DEF Taken
  <2>2. Put(Content(t), e) = Content(t)
    BY <1>9 DEF Put
  <2> HIDE DEF R
  <2>3. Turns(n, R(t.text, t.calls, t.finish, t.usage, "error"))
    BY <1>2, <1>3
  <2> QED BY <1>4, <1>5, <1>9, <2>1, <2>2, <2>3
<1>10. CASE e.type = "Done"
  <2>1. Taken(t, e) = R(t.text, t.calls, e.finish, t.usage, t.outcome)
    BY <1>1, <1>10 DEF Taken
  <2>2. Put(Content(t), e) = Content(t) /\ e.finish \in {"none", "Stop", "ToolCalls", "Length"}
    BY <1>10 DEF Put, LlmEvents
  <2> HIDE DEF R
  <2>3. Turns(n, R(t.text, t.calls, e.finish, t.usage, t.outcome))
    BY <1>2, <1>3, <2>2
  <2> QED BY <1>4, <1>5, <1>10, <2>1, <2>2, <2>3
<1>11. CASE e.type = "ThinkingDelta"
  <2>1. Taken(t, e) = t
    BY <1>11 DEF Taken
  <2>2. Put(Content(t), e) = Content(t)
    BY <1>11 DEF Put
  <2> QED BY <1>11, <2>1, <2>2
<1>12. e.type \in {"Delta", "ToolCallDelta", "Usage", "Error", "Done", "ThinkingDelta"}
  BY DEF LlmEvents
<1> QED BY <1>6, <1>7, <1>8, <1>9, <1>10, <1>11, <1>12

\* A step of the loop: the turn and the channel change.
TurnMakes ==
    /\ answer' = answer /\ provider' = provider /\ history' = history /\ at' = at /\ cut' = cut /\ kinds' = kinds
    /\ request' # <<>> => request' = request \/ Faithful(request', history)
    /\ request' \in Seq(Messages) /\ pump' \in {pump, "on"} /\ (pump = "ended" => pump' = pump)
    /\ events' \in Seq(LlmEvents(Len(answer.blocks))) /\ Turns(Len(answer.blocks), turn')
    /\ InStream(answer, provider, at, events', turn')
    /\ turn'.finish = "ToolCalls" => Content(turn') = Everything(answer)
    /\ turn'.finish # "none" => turn'.outcome \in {"none", Outcome(turn')}
    /\ turn'.outcome \in {"end", "tools"} => turn'.finish # "none"
    /\ pump' = "idle" => turn'.finish = "none" /\ events' = <<>>

LEMMA TurnStep ==
    ASSUME LlmInv, TurnMakes
    PROVE  LlmInv'
<1>1. LlmTypeOK /\ DOMAIN answer.blocks = 1..Len(answer.blocks)
  BY Positions DEF LlmInv
<1>2. at' \in [block : 0..(Len(answer'.blocks) + 1), part : 0..LastPart']
  <2>1. LastPart' = LastPart
    BY DEF LastPart, Current, TurnMakes
  <2> QED BY <1>1, <2>1 DEF LlmTypeOK, TurnMakes
<1>3. LlmTypeOK'
  <2>1. \E D \in SUBSET DOMAIN answer'.blocks :
          turn' \in [text : Seq(Tokens), calls : [D -> LlmCalls], finish : {"none", "Stop", "ToolCalls", "Length"},
                   usage : Nat, outcome : {"none", "error", "end", "tools"}]
    BY <1>1 DEF TurnMakes, Turns
  <2>2. pump' \in {"idle", "on", "ended"} /\ request' \in Seq(Messages) /\ cut' \in {"no", "eof", "error"}
    BY <1>1 DEF TurnMakes, LlmTypeOK
  <2>3. events' \in Seq(LlmEvents(Len(answer'.blocks))) /\ DOMAIN kinds' \subseteq DOMAIN answer'.blocks
    BY <1>1 DEF TurnMakes, LlmTypeOK
  <2>4. provider' \in {"anthropic", "openai"} /\ history' \in Histories /\ answer' \in Answers
    BY <1>1 DEF TurnMakes, LlmTypeOK
  <2> QED BY <1>2, <2>1, <2>2, <2>3, <2>4 DEF LlmTypeOK
<1>4. Outcome(turn)' = Outcome(turn')
  BY DEF Outcome
<1>5. (request # <<>> => Faithful(request, history))'
  BY DEF LlmInv, TurnMakes
<1>6. (InStream(answer, provider, at, events, turn))'
  BY DEF TurnMakes
<1>7. /\ (turn.finish = "ToolCalls" => Content(turn) = Everything(answer))'
      /\ (turn.finish # "none" => turn.outcome \in {"none", Outcome(turn)})'
      /\ (turn.outcome \in {"end", "tools"} => turn.finish # "none")'
      /\ (pump = "idle" => turn.finish = "none" /\ events = <<>>)'
  BY <1>4 DEF TurnMakes
<1>8. (provider = "anthropic" /\ pump # "ended" =>
          kinds = OpenKinds(answer, at) /\ (at.block \notin Blks(answer) => at.part = 0))'
  BY DEF LlmInv, TurnMakes
<1> QED BY <1>3, <1>5, <1>6, <1>7, <1>8 DEF LlmInv

\* What the invariant says of the turn.
LEMMA TurnFacts ==
    ASSUME LlmInv
    PROVE  /\ LlmTypeOK /\ events \in Seq(LlmEvents(Len(answer.blocks))) /\ Turns(Len(answer.blocks), turn)
           /\ request \in Seq(Messages) /\ history \in Histories /\ pump \in {"idle", "on", "ended"}
           /\ InStream(answer, provider, at, events, turn)
<1>1. LlmTypeOK /\ DOMAIN answer.blocks = 1..Len(answer.blocks)
  BY Positions DEF LlmInv
<1> QED BY <1>1 DEF LlmInv, LlmTypeOK, Turns

\* A turn with another reason, and one with another outcome.
WithFinish(t, z) == [t EXCEPT !.finish = z]
WithOutcome(t, z) == [t EXCEPT !.outcome = z]

LEMMA FinishWith ==
    ASSUME NEW n, NEW t, Turns(n, t), NEW z \in {"none", "Stop", "ToolCalls", "Length"}
    PROVE  /\ Turns(n, WithFinish(t, z)) /\ Content(WithFinish(t, z)) = Content(t)
           /\ WithFinish(t, z).finish = z /\ WithFinish(t, z).outcome = t.outcome
           /\ WithFinish(t, z).calls = t.calls
<1> PICK D \in SUBSET (1..n) :
       t \in [text : Seq(Tokens), calls : [D -> LlmCalls], finish : {"none", "Stop", "ToolCalls", "Length"},
              usage : Nat, outcome : {"none", "error", "end", "tools"}]
  BY DEF Turns
<1>1. [t EXCEPT !.finish = z] \in [text : Seq(Tokens), calls : [D -> LlmCalls],
         finish : {"none", "Stop", "ToolCalls", "Length"}, usage : Nat, outcome : {"none", "error", "end", "tools"}]
  OBVIOUS
<1>2. /\ [t EXCEPT !.finish = z].finish = z /\ [t EXCEPT !.finish = z].outcome = t.outcome
      /\ [t EXCEPT !.finish = z].calls = t.calls /\ [t EXCEPT !.finish = z].text = t.text
  OBVIOUS
<1> QED BY <1>1, <1>2 DEF Turns, Content, WithFinish

LEMMA OutcomeWith ==
    ASSUME NEW n, NEW t, Turns(n, t), NEW z \in {"none", "error", "end", "tools"}
    PROVE  /\ Turns(n, WithOutcome(t, z)) /\ Content(WithOutcome(t, z)) = Content(t)
           /\ WithOutcome(t, z).outcome = z /\ WithOutcome(t, z).finish = t.finish
           /\ WithOutcome(t, z).calls = t.calls
<1> PICK D \in SUBSET (1..n) :
       t \in [text : Seq(Tokens), calls : [D -> LlmCalls], finish : {"none", "Stop", "ToolCalls", "Length"},
              usage : Nat, outcome : {"none", "error", "end", "tools"}]
  BY DEF Turns
<1>1. [t EXCEPT !.outcome = z] \in [text : Seq(Tokens), calls : [D -> LlmCalls],
         finish : {"none", "Stop", "ToolCalls", "Length"}, usage : Nat, outcome : {"none", "error", "end", "tools"}]
  OBVIOUS
<1>2. /\ [t EXCEPT !.outcome = z].outcome = z /\ [t EXCEPT !.outcome = z].finish = t.finish
      /\ [t EXCEPT !.outcome = z].calls = t.calls /\ [t EXCEPT !.outcome = z].text = t.text
  OBVIOUS
<1> QED BY <1>1, <1>2 DEF Turns, Content, WithOutcome

LEMMA StreamKeeps ==
    ASSUME LlmInv, stream
    PROVE  LlmInv'
<1> DEFINE n == Len(answer.blocks)
<1>1. /\ events \in Seq(LlmEvents(n)) /\ Turns(n, turn) /\ history \in Histories
      /\ InStream(answer, provider, at, events, turn) /\ turn.finish = "none" /\ events = <<>>
  BY TurnFacts DEF LlmInv, stream
<1>2. /\ answer' = answer /\ provider' = provider /\ history' = history /\ at' = at /\ cut' = cut /\ kinds' = kinds
      /\ events' = events /\ pump = "idle" /\ turn.outcome = "none"
      /\ request' \in {build_wire_request(history), WireRequest(history)}
      /\ pump' \in {pump, "on"} /\ (turn' = turn \/ (turn' = [turn EXCEPT !.outcome = "error"] /\ pump' = pump))
  BY DEF stream
<1>3. Faithful(request', history)
  BY <1>1, <1>2, RequestsAreFaithful
<1>4. /\ Turns(n, turn') /\ Content(turn') = Content(turn) /\ turn'.finish = "none"
      /\ turn'.outcome \in {"none", "error"}
  <2> HIDE DEF n
  <2>1. CASE turn' = turn
    BY <1>1, <1>2, <2>1
  <2>2. CASE turn' = [turn EXCEPT !.outcome = "error"]
    <3> DEFINE v == "error"
    <3>1. v \in {"none", "error", "end", "tools"} /\ turn' = WithOutcome(turn, v)
      BY <2>2 DEF WithOutcome
    <3> HIDE DEF v
    <3>2. /\ Turns(n, turn') /\ Content(turn') = Content(turn) /\ turn'.finish = turn.finish /\ turn'.outcome = v
      BY <1>1, <3>1, OutcomeWith
    <3> QED BY <1>1, <3>2 DEF v
  <2> QED BY <1>2, <2>1, <2>2
<1>5. InStream(answer, provider, at, events', turn')
  BY <1>1, <1>2, <1>4 DEF InStream
<1>6. request' \in Seq(Messages)
  BY <1>3 DEF Faithful
<1>7. TurnMakes
  BY <1>1, <1>2, <1>3, <1>4, <1>5, <1>6 DEF TurnMakes
<1> QED BY <1>7, TurnStep

LEMMA NextEventKeeps ==
    ASSUME LlmInv, NextEvent
    PROVE  LlmInv'
<1> DEFINE n == Len(answer.blocks)
           e == Head(events)
<1>1. /\ events \in Seq(LlmEvents(n)) /\ Turns(n, turn) /\ request \in Seq(Messages)
      /\ InStream(answer, provider, at, events, turn) /\ (pump = "idle" => events = <<>>)
  BY TurnFacts DEF LlmInv
<1>2. /\ answer' = answer /\ provider' = provider /\ history' = history /\ at' = at /\ cut' = cut /\ kinds' = kinds
      /\ request' = request /\ pump' = pump /\ turn.finish = "none" /\ turn.outcome = "none" /\ events # <<>>
      /\ turn' = Taken(turn, e) /\ events' = Tail(events)
  BY DEF NextEvent
<1>3. e \in LlmEvents(n) /\ Tail(events) \in Seq(LlmEvents(n))
  <2> HIDE DEF n
  <2> QED BY <1>1, <1>2
<1> HIDE DEF e
<1>4. /\ Turns(n, turn') /\ Content(turn') = Put(Content(turn), e)
      /\ turn'.finish = IF e.type = "Done" THEN e.finish ELSE "none"
      /\ turn'.outcome = IF e.type = "Error" THEN "error" ELSE "none"
  <2> HIDE DEF n
  <2> QED BY <1>1, <1>2, <1>3, TakenIs
<1>5. Delivers(Put(Content(turn), e), Tail(events), Reached(answer, provider, at), Everything(answer))
      /\ (e.type = "Done" => Content(turn) = Everything(answer))
  <2>1. Delivers(Content(turn), events, Reached(answer, provider, at), Everything(answer))
    BY <1>1 DEF InStream
  <2> HIDE DEF n
  <2> QED BY <1>1, <1>2, <2>1, DeliversHead DEF e
<1>6. InStream(answer, provider, at, events', turn')
  BY <1>2, <1>4, <1>5 DEF InStream
<1>7. e.type = "Done" => Content(turn') = Everything(answer)
  BY <1>4, <1>5 DEF Put
<1>8. /\ turn'.finish = "ToolCalls" => Content(turn') = Everything(answer)
      /\ turn'.finish # "none" => turn'.outcome = "none"
      /\ turn'.outcome \notin {"end", "tools"}
  BY <1>4, <1>7
<1>9. pump # "idle"
  BY <1>1, <1>2
<1>10. TurnMakes
  BY <1>1, <1>2, <1>3, <1>4, <1>6, <1>8, <1>9 DEF TurnMakes
<1> QED BY <1>10, TurnStep

LEMMA EndsKeep ==
    ASSUME LlmInv, StreamEnds \/ Finish
    PROVE  LlmInv'
<1> DEFINE n == Len(answer.blocks)
<1>1. /\ events \in Seq(LlmEvents(n)) /\ Turns(n, turn) /\ request \in Seq(Messages)
      /\ InStream(answer, provider, at, events, turn)
      /\ (turn.finish = "ToolCalls" => Content(turn) = Everything(answer))
      /\ (pump = "idle" => turn.finish = "none")
  BY TurnFacts DEF LlmInv
<1>2. /\ answer' = answer /\ provider' = provider /\ history' = history /\ at' = at /\ cut' = cut /\ kinds' = kinds
      /\ request' = request /\ pump' = pump /\ events' = events /\ turn.outcome = "none" /\ pump # "idle"
      /\ \/ turn' = [turn EXCEPT !.finish = "Stop"]
         \/ turn' = [turn EXCEPT !.outcome = Outcome(turn)] /\ turn.finish # "none"
  BY <1>1 DEF StreamEnds, Finish
<1>3. Outcome(turn) \in {"end", "error", "tools"}
  BY DEF Outcome
<1> HIDE DEF n
<1>4. /\ Turns(n, turn') /\ Content(turn') = Content(turn)
      /\ (turn'.finish = "ToolCalls" => turn.finish = "ToolCalls") /\ turn'.finish # "none"
      /\ turn'.outcome \in {"none", Outcome(turn')}
  <2>1. CASE turn' = [turn EXCEPT !.finish = "Stop"]
    <3> DEFINE v == "Stop"
    <3>1. v \in {"none", "Stop", "ToolCalls", "Length"} /\ turn' = WithFinish(turn, v)
      BY <2>1 DEF WithFinish
    <3> HIDE DEF v
    <3>2. /\ Turns(n, turn') /\ Content(turn') = Content(turn) /\ turn'.finish = v /\ turn'.outcome = turn.outcome
      BY <1>1, <3>1, FinishWith
    <3> QED BY <1>2, <3>2 DEF v
  <2>2. CASE turn' = [turn EXCEPT !.outcome = Outcome(turn)] /\ turn.finish # "none"
    <3>1. Outcome(turn) \in {"none", "error", "end", "tools"}
      BY <1>3
    <3>2. /\ Turns(n, turn') /\ Content(turn') = Content(turn) /\ turn'.finish = turn.finish
          /\ turn'.outcome = Outcome(turn) /\ turn'.calls = turn.calls
      <4> DEFINE v == Outcome(turn)
      <4>1. v \in {"none", "error", "end", "tools"} /\ turn' = WithOutcome(turn, v)
        BY <2>2, <3>1 DEF WithOutcome
      <4> HIDE DEF v
      <4>2. /\ Turns(n, turn') /\ Content(turn') = Content(turn) /\ turn'.finish = turn.finish
            /\ turn'.outcome = v /\ turn'.calls = turn.calls
        BY <1>1, <4>1, OutcomeWith
      <4> QED BY <4>2 DEF v
    <3>3. Outcome(turn') = Outcome(turn)
      BY <3>2 DEF Outcome
    <3> QED BY <2>2, <3>2, <3>3
  <2> QED BY <1>2, <2>1, <2>2
<1>5. InStream(answer, provider, at, events', turn')
  BY <1>1, <1>2, <1>4 DEF InStream
<1>6. TurnMakes
  BY <1>1, <1>2, <1>4, <1>5 DEF TurnMakes, n
<1> QED BY <1>6, TurnStep

LEMMA LlmStarts == LlmInit => LlmInv
<1> SUFFICES ASSUME LlmInit PROVE LlmInv
  OBVIOUS
<1>1. /\ provider \in Providers /\ answer \in Answers /\ at = [block |-> 0, part |-> 0] /\ events = <<>>
      /\ kinds = <<>> /\ pump = "idle" /\ request = <<>> /\ history \in Histories /\ cut = "no" /\ turn = NoTurn
  BY DEF LlmInit, Providers
<1>2. /\ Place(answer, provider, at) /\ Reached(answer, provider, at) = [text |-> <<>>, calls |-> <<>>]
  BY <1>1, StartMoves
<1>3. DOMAIN answer.blocks = Blks(answer) /\ Len(answer.blocks) \in Nat
  BY <1>1, AnswerType
<1>4. LastPart = PartsAt(answer, provider, at)
  BY <1>3 DEF LastPart, PartsAt, Current, Lead
<1>5. at \in [block : 0..(Len(answer.blocks) + 1), part : 0..LastPart]
  BY <1>2, <1>4 DEF Place
<1>6. turn \in [text : Seq(Tokens), calls : [{} -> LlmCalls], finish : {"none", "Stop", "ToolCalls", "Length"},
                usage : Nat, outcome : {"none", "error", "end", "tools"}]
  <2>1. <<>> \in Seq(Tokens) /\ <<>> \in [{} -> LlmCalls]
    OBVIOUS
  <2> QED BY <1>1, <2>1 DEF NoTurn
<1>7. LlmTypeOK
  <2>1. \E D \in SUBSET DOMAIN answer.blocks :
          turn \in [text : Seq(Tokens), calls : [D -> LlmCalls], finish : {"none", "Stop", "ToolCalls", "Length"},
                   usage : Nat, outcome : {"none", "error", "end", "tools"}]
    BY <1>6
  <2>2. request \in Seq(Messages) /\ events \in Seq(LlmEvents(Len(answer.blocks))) /\ DOMAIN kinds \subseteq DOMAIN answer.blocks
    BY <1>1
  <2>3. cut \in {"no", "eof", "error"} /\ pump \in {"idle", "on", "ended"} /\ provider \in {"anthropic", "openai"}
    BY <1>1 DEF Providers
  <2> QED BY <1>1, <1>5, <2>1, <2>2, <2>3 DEF LlmTypeOK
<1>8. Content(turn) = [text |-> <<>>, calls |-> <<>>] /\ turn.finish = "none" /\ turn.outcome = "none"
  BY <1>1 DEF Content, NoTurn
<1>9. InStream(answer, provider, at, events, turn)
  <2>1. Delivers(Content(turn), <<>>, Content(turn), Everything(answer))
    BY DeliversNone
  <2> QED BY <1>1, <1>2, <1>8, <2>1 DEF InStream
<1>10. kinds = OpenKinds(answer, at) /\ at.part = 0
  <2>1. at.part = 0
    BY <1>1
  <2>2. {j \in Blks(answer) : j = at.block /\ at.part > 0} = {}
    BY <2>1
  <2>3. OpenKinds(answer, at) = <<>>
    BY <2>2 DEF OpenKinds
  <2> QED BY <1>1, <2>1, <2>3
<1> QED BY <1>1, <1>7, <1>8, <1>9, <1>10 DEF LlmInv

LEMMA LlmKeeps == LlmInv /\ [LlmNext]_llmVars => LlmInv'
<1> SUFFICES ASSUME LlmInv, [LlmNext]_llmVars PROVE LlmInv'
  OBVIOUS
<1>1. CASE stream
  BY <1>1, StreamKeeps
<1>2. CASE ConnectionCut \/ PumpCut \/ AnthropicErrorEvent
  BY <1>2, CutsKeep
<1>3. CASE AnthropicBlockEvent
  BY <1>3, BlockEventKeeps
<1>4. CASE AnthropicMessageEvent
  BY <1>4, MessageEventKeeps
<1>5. CASE parse_chunk
  BY <1>5, ChunkKeeps
<1>6. CASE NextEvent
  BY <1>6, NextEventKeeps
<1>7. CASE StreamEnds \/ Finish
  BY <1>7, EndsKeep
<1>8. CASE UNCHANGED llmVars
  <2>1. LlmTypeOK' /\ Outcome(turn)' = Outcome(turn)
    BY <1>8 DEF llmVars, LlmInv, LlmTypeOK, LastPart, Current, Outcome
  <2> QED BY <1>8, <2>1 DEF llmVars, LlmInv
<1> QED BY <1>1, <1>2, <1>3, <1>4, <1>5, <1>6, <1>7, <1>8 DEF LlmNext

LEMMA LlmInvariant == LlmSpec => []LlmInv
<1>1. LlmInit => LlmInv
  BY LlmStarts
<1>2. LlmInv /\ [LlmNext]_llmVars => LlmInv'
  BY LlmKeeps
<1> QED BY <1>1, <1>2, PTL DEF LlmSpec

LEMMA LlmSafe == LlmInv => CallsSurviveTranslation
<1> SUFFICES ASSUME LlmInv PROVE CallsSurviveTranslation
  OBVIOUS
<1>1. answer \in Answers /\ DOMAIN answer.blocks = Blks(answer) /\ Turns(Len(answer.blocks), turn)
  BY TurnFacts, Positions
<1>2. request # <<>> => Ids(NoSystem(request)) = Ids(NoSystem(history)) /\ SystemText(request) = SystemText(history)
  BY DEF LlmInv, Faithful
<1>3. OfKind("tool") = Tools(answer)
  BY <1>1 DEF OfKind, Tools, Is
<1>4. AllCalls = Everything(answer).calls /\ DOMAIN AllCalls = Tools(answer)
  BY <1>3 DEF AllCalls, Everything
<1>5. AllText = Everything(answer).text
  <2>1. Texts(answer) = [i \in DOMAIN answer.blocks |->
                            IF i \in OfKind("text") THEN FlattenSeq(answer.blocks[i].chunks) ELSE <<>>]
    BY <1>1 DEF Texts, OfKind
  <2> QED BY <2>1 DEF AllText, Everything
<1>6. turn.finish = "ToolCalls" => turn.calls = AllCalls /\ turn.text = AllText
  BY <1>4, <1>5 DEF LlmInv, Content
<1>7. turn.outcome = "tools" => turn.finish = "ToolCalls"
  BY DEF LlmInv, Outcome
<1>8. ASSUME turn.outcome # "none", turn.finish = "ToolCalls", OfKind("tool") # {}
      PROVE  turn.outcome = "tools"
  <2>1. turn.outcome = Outcome(turn)
    BY <1>8 DEF LlmInv
  <2>2. turn.calls = AllCalls /\ DOMAIN turn.calls = Tools(answer) /\ Tools(answer) # {}
    BY <1>3, <1>4, <1>6, <1>8
  <2>3. \A i \in Tools(answer) : AllCalls[i].name # ""
    <3> TAKE i \in Tools(answer)
    <3>1. i \in Blks(answer) /\ answer.blocks[i].kind = "tool"
      BY DEF Tools, Is
    <3>2. answer.blocks[i].id # ""
      BY <1>1, <3>1, AnswerType
    <3>3. AllCalls[i] = Whole(answer.blocks[i])
      BY <1>3 DEF AllCalls
    <3>4. Whole(answer.blocks[i]).name = answer.blocks[i].id
      BY DEF Whole
    <3> QED BY <3>2, <3>3, <3>4
  <2> QED BY <1>8, <2>1, <2>2, <2>3 DEF Outcome
<1> QED BY <1>2, <1>6, <1>7, <1>8 DEF CallsSurviveTranslation

THEOREM LlmTypeCorrect == LlmSpec => []LlmTypeOK
<1>1. LlmInv => LlmTypeOK
  BY DEF LlmInv
<1> QED BY <1>1, LlmInvariant, PTL

THEOREM TranslationCorrect == LlmSpec => []CallsSurviveTranslation
BY LlmSafe, LlmInvariant, PTL
=============================================================================
