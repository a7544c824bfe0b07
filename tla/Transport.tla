----------------------------- MODULE Transport -----------------------------
(***************************************************************************)
(* GipsTransport (crony/src/boundary.rs): the accept thread caches the     *)
(* connection of each message of the host as the return path and flushes   *)
(* what was buffered; the dispatch loop takes the connection out for every *)
(* send and buffers when there is none.  They share one ReturnPath, locked *)
(* for each access but not across the blocking reply.                      *)
(***************************************************************************)
EXTENDS Naturals, Sequences, FiniteSets

CONSTANTS MaxFrames,   \* bound on the frames the runtime sends
          MaxHostSends \* bound on the messages of the host

ASSUME TransportAssumption == MaxFrames \in Nat /\ MaxHostSends \in Nat

VARIABLES
    cached,     \* ReturnPath::connection is there
    buffered,   \* ReturnPath::pending
    closed,     \* ReturnPath::closed and shutdown
    sender,     \* the dispatch loop in send: [pc, frame]
    next_frame,
    accepting,  \* the accept thread
    flush,      \* the frames flush_pending drained
    still_alive,
    mailed,     \* the frames the host received, in order
    failed,     \* frames whose send returned an error
    host_sends,
    inbound     \* messages forwarded to the dispatch loop

gipsVars == <<cached, buffered, closed, sender, next_frame, accepting, flush, still_alive,
              mailed, failed, host_sends, inbound>>

Postings == 1..MaxFrames
Elems(q) == {q[i] : i \in 1..Len(q)}

GipsTypeOK ==
    /\ cached \in BOOLEAN /\ buffered \in Seq(Postings) /\ closed \in BOOLEAN
    /\ sender \in [pc : {"idle", "buffering", "replying", "recaching"}, frame : 0..MaxFrames]
    /\ next_frame \in 1..(MaxFrames + 1)
    /\ accepting \in {"polling", "accepted", "malformed", "flushing", "forwarding", "ended"}
    /\ flush \in Seq(Postings) /\ still_alive \in BOOLEAN
    /\ mailed \in Seq(Postings) /\ failed \subseteq Postings
    /\ host_sends \in 0..MaxHostSends /\ inbound \in 0..MaxHostSends

NotSending == [pc |-> "idle", frame |-> 0]

GipsInit ==
    /\ cached = FALSE /\ buffered = <<>> /\ closed = FALSE /\ sender = NotSending /\ next_frame = 1
    /\ accepting = "polling" /\ flush = <<>> /\ still_alive = TRUE /\ mailed = <<>> /\ failed = {}
    /\ host_sends = 0 /\ inbound = 0

-----------------------------------------------------------------------------
(* send, by the dispatch loop; it has received something before it sends.  *)

SendTake ==
    /\ sender.pc = "idle" /\ ~closed /\ inbound > 0 /\ next_frame <= MaxFrames
    /\ next_frame' = next_frame + 1 /\ cached' = FALSE
    /\ sender' = [pc |-> IF cached THEN "replying" ELSE "buffering", frame |-> next_frame]
    /\ UNCHANGED <<buffered, closed, accepting, flush, still_alive, mailed, failed, host_sends, inbound>>

SendBuffer ==
    /\ sender.pc = "buffering"
    /\ buffered' = Append(buffered, sender.frame) /\ sender' = NotSending
    /\ UNCHANGED <<cached, closed, next_frame, accepting, flush, still_alive, mailed, failed, host_sends, inbound>>

SendReply ==
    /\ sender.pc = "replying"
    /\ mailed' = Append(mailed, sender.frame) /\ sender' = [sender EXCEPT !.pc = "recaching"]
    /\ UNCHANGED <<cached, buffered, closed, next_frame, accepting, flush, still_alive, failed, host_sends, inbound>>

\* The connection goes back unless the accept thread cached a newer one.
SendRecache ==
    /\ sender.pc = "recaching"
    /\ cached' = TRUE /\ sender' = NotSending
    /\ UNCHANGED <<buffered, closed, next_frame, accepting, flush, still_alive, mailed, failed, host_sends, inbound>>

MSendFails ==
    /\ sender.pc = "replying"
    /\ sender' = NotSending
    /\ UNCHANGED <<cached, buffered, closed, next_frame, accepting, flush, still_alive, mailed, failed, host_sends, inbound>>

\* A failed reply drops the connection; run drops the frame (its priority
\* pass) or leaves the loop.
SendFails ==
    /\ sender.pc = "replying"
    /\ failed' = failed \cup {sender.frame} /\ sender' = NotSending
    /\ UNCHANGED <<cached, buffered, closed, next_frame, accepting, flush, still_alive, mailed, host_sends, inbound>>

\* The transport is dropped with the dispatch loop.
Close ==
    /\ sender.pc = "idle" /\ ~closed
    /\ closed' = TRUE /\ cached' = FALSE /\ buffered' = <<>>
    /\ UNCHANGED <<sender, next_frame, accepting, flush, still_alive, mailed, failed, host_sends, inbound>>

-----------------------------------------------------------------------------
(* accept_loop                                                             *)

TryAccept(parses) ==
    /\ accepting = "polling" /\ ~closed /\ host_sends < MaxHostSends
    /\ host_sends' = host_sends + 1 /\ accepting' = IF parses THEN "accepted" ELSE "malformed"
    /\ UNCHANGED <<cached, buffered, closed, sender, next_frame, flush, still_alive, mailed, failed, inbound>>

\* A listener error, or the shutdown flag, ends the thread.
AcceptEnds ==
    /\ accepting = "polling"
    /\ accepting' = "ended"
    /\ UNCHANGED <<cached, buffered, closed, sender, next_frame, flush, still_alive, mailed, failed, host_sends, inbound>>

\* cache_connection, then the lock of flush_pending
CacheConnection ==
    /\ accepting \in {"accepted", "malformed"}
    /\ cached' = IF closed THEN cached ELSE TRUE
    /\ accepting' = IF accepting = "accepted" THEN "flushing" ELSE "polling"
    /\ UNCHANGED <<buffered, closed, sender, next_frame, flush, still_alive, mailed, failed, host_sends, inbound>>

FlushTake ==
    /\ accepting = "flushing" /\ flush = <<>>
    /\ IF closed \/ ~cached \/ buffered = <<>>
       THEN accepting' = "forwarding" /\ UNCHANGED <<buffered, flush, cached>>
       ELSE flush' = buffered /\ buffered' = <<>> /\ cached' = FALSE /\ UNCHANGED accepting
    /\ still_alive' = TRUE
    /\ UNCHANGED <<closed, sender, next_frame, mailed, failed, host_sends, inbound>>

FlushNext == accepting' = IF Len(flush) = 1 THEN "forwarding" ELSE "flushing"

FlushSends ==
    /\ accepting = "flushing" /\ flush # <<>> /\ still_alive
    /\ mailed' = Append(mailed, Head(flush)) /\ flush' = Tail(flush)
    /\ FlushNext
    /\ cached' = IF Len(flush) = 1 /\ ~closed THEN TRUE ELSE cached
    /\ UNCHANGED <<buffered, closed, sender, next_frame, still_alive, failed, host_sends, inbound>>

\* The first failure, and every frame after it, goes to the front of the queue.
FlushRequeues ==
    /\ accepting = "flushing" /\ flush # <<>>
    /\ still_alive' = FALSE
    /\ buffered' = IF closed THEN buffered ELSE <<Head(flush)>> \o buffered
    /\ flush' = Tail(flush) /\ FlushNext
    /\ UNCHANGED <<cached, closed, sender, next_frame, mailed, failed, host_sends, inbound>>

\* inbound_tx.send fails when the dispatch loop is gone
Forward ==
    /\ accepting = "forwarding"
    /\ IF closed THEN accepting' = "ended" /\ UNCHANGED inbound
                 ELSE accepting' = "polling" /\ inbound' = inbound + 1
    /\ UNCHANGED <<cached, buffered, closed, sender, next_frame, flush, still_alive, mailed, failed, host_sends>>

-----------------------------------------------------------------------------
GipsNext ==
    \/ SendTake \/ SendBuffer \/ SendReply \/ SendRecache \/ SendFails \/ Close
    \/ \E parses \in BOOLEAN : TryAccept(parses)
    \/ AcceptEnds \/ CacheConnection \/ FlushTake \/ FlushSends \/ FlushRequeues \/ Forward

GipsSpec == GipsInit /\ [][GipsNext]_gipsVars

-----------------------------------------------------------------------------
(* Properties                                                              *)

InHand == IF sender.pc \in {"buffering", "replying"} THEN {sender.frame} ELSE {}

Mail == INSTANCE Mailbox WITH
            Frame <- Postings, shut <- closed, refused <- failed, arrived <- Elems(mailed),
            waiting <- Elems(buffered) \cup Elems(flush) \cup InHand

\* The transport keeps the mailbox's promise: no frame reaches the host twice
\* and none disappears while the transport is open, although the connection
\* and the buffer change hands between the two threads (send, flush_pending).
KeepsMail == Mail!MailSpec

=============================================================================
