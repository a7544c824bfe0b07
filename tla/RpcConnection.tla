--------------------------- MODULE RpcConnection ---------------------------
(***************************************************************************)
(* One MessagePack-RPC connection to an extension host                     *)
(* (extensions/rpc/connection.rs, codec.rs, server.rs): outbound requests  *)
(* of concurrent callers, the read loop that resolves them and serves the  *)
(* peer's requests on tasks of their own, and the ways a connection ends:  *)
(* the peer closes, a frame does not decode, or the host's shutdown aborts *)
(* the read loop.                                                          *)
(***************************************************************************)
EXTENDS Naturals, Sequences, FiniteSets

CONSTANTS Callers,   \* tasks that call Connection::request, one request each
          NoCaller,
          Inbound,   \* msgids of the peer's own requests
          MaxWire    \* bound on the frames on their way to us

ASSUME RpcAssumption ==
    /\ IsFiniteSet(Callers) /\ NoCaller \notin Callers
    /\ 0 \notin Inbound /\ MaxWire \in Nat

VARIABLES
    next_msgid,
    pending,    \* [msgid -> the caller whose sender is registered]
    call,       \* [caller -> [pc, msgid, got]]: a call of request
    asked,      \* msgids of the requests the peer received and may answer
    wire,       \* the frames the peer wrote and we have yet to read
    reader,     \* the read loop
    peer,       \* "open" until it closes its end
    in_flight,  \* msgids with a cancellation token
    served,     \* [inbound msgid -> its handler task]
    tokens      \* inbound msgids whose token was cancelled

rpcVars == <<next_msgid, pending, call, asked, wire, reader, peer, in_flight, served, tokens>>

Msgids == 1..Cardinality(Callers)
Outcomes == {"none", "answer", "refused", "closed", "write error"}

\* Frame: a response to one of our msgids (or to none of them), the peer's own
\* request, its $/cancel, or bytes from_value rejects.
Frames == [kind : {"response", "refusal"}, msgid : Msgids \cup {0}]
    \cup [kind : {"request", "unknown method", "cancel"}, msgid : Inbound]
    \cup [kind : {"malformed"}, msgid : {0}]

RpcTypeOK ==
    /\ next_msgid \in 1..(Cardinality(Callers) + 1)
    /\ pending \in [Msgids -> Callers \cup {NoCaller}]
    /\ call \in [Callers -> [pc : {"idle", "numbered", "registered", "unsent", "sent", "done"},
                             msgid : Msgids \cup {0}, got : Outcomes, from : Msgids \cup {0}]]
    /\ asked \subseteq Msgids /\ wire \in Seq(Frames) /\ Len(wire) <= MaxWire
    /\ reader \in {"running", "ended", "aborted"} /\ peer \in {"open", "closed"}
    /\ in_flight \subseteq Inbound /\ tokens \subseteq Inbound
    /\ served \in [Inbound -> {"none", "running", "answering", "answered"}]

RpcInit ==
    /\ next_msgid = 1 /\ pending = [i \in Msgids |-> NoCaller]
    /\ call = [c \in Callers |-> [pc |-> "idle", msgid |-> 0, got |-> "none", from |-> 0]]
    /\ asked = {} /\ wire = <<>> /\ reader = "running" /\ peer = "open"
    /\ in_flight = {} /\ served = [i \in Inbound |-> "none"] /\ tokens = {}

-----------------------------------------------------------------------------
(* Connection::request                                                     *)

\* next_msgid.fetch_add
MTakeMsgid(c) ==
    /\ call[c].pc = "idle"
    /\ \E i \in Msgids :
        /\ pending[i] = NoCaller /\ \A j \in 1..(i - 1) : pending[j] # NoCaller
        /\ call' = [call EXCEPT ![c].pc = "numbered", ![c].msgid = i]
    /\ UNCHANGED <<next_msgid, pending, asked, wire, reader, peer, in_flight, served, tokens>>

TakeMsgid(c) ==
    /\ call[c].pc = "idle"
    /\ call' = [call EXCEPT ![c].pc = "numbered", ![c].msgid = next_msgid]
    /\ next_msgid' = next_msgid + 1
    /\ UNCHANGED <<pending, asked, wire, reader, peer, in_flight, served, tokens>>

AddPending(c) ==
    /\ call[c].pc = "numbered"
    /\ pending' = [pending EXCEPT ![call[c].msgid] = c]
    /\ call' = [call EXCEPT ![c].pc = "registered"]
    /\ UNCHANGED <<next_msgid, asked, wire, reader, peer, in_flight, served, tokens>>

\* write_frame, then rx.await, which returns at once when the slot was failed
\* meanwhile.  A closed peer may still take the bytes, and never answers them.
WriteRequest(c) ==
    /\ call[c].pc = "registered"
    /\ \/ /\ call' = [call EXCEPT ![c].pc = IF call[c].got = "none" THEN "sent" ELSE "done"]
          /\ asked' = IF peer = "open" THEN asked \cup {call[c].msgid} ELSE asked
       \/ /\ peer = "closed"
          /\ call' = [call EXCEPT ![c].pc = "unsent"]
          /\ UNCHANGED asked
    /\ UNCHANGED <<next_msgid, pending, wire, reader, peer, in_flight, served, tokens>>

\* The slot of a request that could not be written is removed.
DropSlot(c) ==
    /\ call[c].pc = "unsent"
    /\ pending' = [pending EXCEPT ![call[c].msgid] = NoCaller]
    /\ call' = [call EXCEPT ![c].pc = "done", ![c].got = "write error"]
    /\ UNCHANGED <<next_msgid, asked, wire, reader, peer, in_flight, served, tokens>>

-----------------------------------------------------------------------------
(* The peer (external): answers in any order, some requests twice or none  *)
(* at all, numbers its own requests, cancels them, and closes.             *)

PeerWrites ==
    /\ peer = "open" /\ Len(wire) < MaxWire
    /\ \E f \in Frames :
        /\ f.kind \in {"response", "refusal"} => f.msgid \in asked \cup {0}
        /\ f.kind \in {"request", "unknown method"} =>
              served[f.msgid] = "none" /\ \A k \in 1..Len(wire) : wire[k].msgid # f.msgid
        /\ f.kind = "cancel" => served[f.msgid] # "none"
        /\ wire' = Append(wire, f)
    /\ UNCHANGED <<next_msgid, pending, call, asked, reader, peer, in_flight, served, tokens>>

PeerCloses ==
    /\ peer = "open" /\ peer' = "closed"
    /\ UNCHANGED <<next_msgid, pending, call, asked, wire, reader, in_flight, served, tokens>>

-----------------------------------------------------------------------------
(* The read loop: Connection::run and dispatch                             *)

NextFrame(kinds) == reader = "running" /\ wire # <<>> /\ Head(wire).kind \in kinds

\* An msgid nobody waits for is dropped.
DispatchResponse ==
    /\ NextFrame({"response", "refusal"})
    /\ wire' = Tail(wire)
    /\ LET id == Head(wire).msgid
           c == IF id = 0 THEN NoCaller ELSE pending[id]
       IN  IF c = NoCaller THEN UNCHANGED <<pending, call>>
           ELSE /\ pending' = [pending EXCEPT ![id] = NoCaller]
                /\ call' = [call EXCEPT ![c] = [pc |-> "done", msgid |-> @.msgid, from |-> id,
                              got |-> IF Head(wire).kind = "response" THEN "answer" ELSE "refused"]]
    /\ UNCHANGED <<next_msgid, asked, reader, peer, in_flight, served, tokens>>

DispatchRequest ==
    /\ NextFrame({"request", "unknown method"})
    /\ wire' = Tail(wire)
    /\ in_flight' = in_flight \cup {Head(wire).msgid}
    /\ served' = [served EXCEPT ![Head(wire).msgid] = "running"]
    /\ UNCHANGED <<next_msgid, pending, call, asked, reader, peer, tokens>>

DispatchCancel ==
    /\ NextFrame({"cancel"})
    /\ wire' = Tail(wire)
    /\ tokens' = IF Head(wire).msgid \in in_flight THEN tokens \cup {Head(wire).msgid} ELSE tokens
    /\ UNCHANGED <<next_msgid, pending, call, asked, reader, peer, in_flight, served>>

\* fail_all_pending: a caller that is still writing learns of it afterwards.
FailAllPending ==
    /\ call' = [c \in Callers |-> IF \E i \in Msgids : pending[i] = c
                                  THEN [call[c] EXCEPT !.pc = IF @ = "sent" THEN "done" ELSE @, !.got = "closed"]
                                  ELSE call[c]]
    /\ pending' = [i \in Msgids |-> NoCaller]

\* A read error or EOF, or a frame decode_one rejects: the loop ends for good,
\* even when the peer is still there.
EndOfStream ==
    /\ reader = "running"
    /\ \/ wire = <<>> /\ peer = "closed"
       \/ wire # <<>> /\ Head(wire).kind = "malformed"
    /\ reader' = "ended"
    /\ FailAllPending
    /\ UNCHANGED <<next_msgid, asked, wire, peer, in_flight, served, tokens>>

\* ExtensionHost::shutdown aborts the task: nothing is drained.
AbortReader ==
    /\ reader = "running" /\ reader' = "aborted" /\ peer' = "closed"
    /\ UNCHANGED <<next_msgid, pending, call, asked, wire, in_flight, served, tokens>>

\* The spawned handler task: the token is removed, then the response written,
\* cancelled or not.
HandlerReturns(i) ==
    /\ served[i] = "running"
    /\ in_flight' = in_flight \ {i}
    /\ served' = [served EXCEPT ![i] = "answering"]
    /\ UNCHANGED <<next_msgid, pending, call, asked, wire, reader, peer, tokens>>

WriteResponse(i) ==
    /\ served[i] = "answering" /\ served' = [served EXCEPT ![i] = "answered"]
    /\ UNCHANGED <<next_msgid, pending, call, asked, wire, reader, peer, in_flight, tokens>>

-----------------------------------------------------------------------------
RpcNext ==
    \/ \E c \in Callers : TakeMsgid(c) \/ AddPending(c) \/ WriteRequest(c) \/ DropSlot(c)
    \/ PeerWrites \/ PeerCloses \/ DispatchResponse \/ DispatchRequest \/ DispatchCancel
    \/ EndOfStream \/ AbortReader
    \/ \E i \in Inbound : HandlerReturns(i) \/ WriteResponse(i)

RpcSpec == RpcInit /\ [][RpcNext]_rpcVars

-----------------------------------------------------------------------------
(* Properties                                                              *)

\* A call that returns took the answer to its own msgid, left no slot behind,
\* and its slot is its own while it waits: responses come in any order, twice
\* or for msgids nobody sent (request, dispatch, fail_all_pending).
SlotsMatchCalls ==
    /\ \A c \in Callers : /\ call[c].got \in {"answer", "refused"} => call[c].from = call[c].msgid
                          /\ call[c].pc = "done" => \A i \in Msgids : pending[i] # c
                          /\ call[c].pc \in {"registered", "sent"} /\ call[c].got = "none" =>
                                pending[call[c].msgid] = c
    /\ \A i \in Msgids : pending[i] # NoCaller => call[pending[i]].msgid = i

=============================================================================
