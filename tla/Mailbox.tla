------------------------------ MODULE Mailbox ------------------------------
(***************************************************************************)
(* What the runtime's side of the transport promises for each frame given  *)
(* to send: it reaches the host once, or the sender is told that it did    *)
(* not, or it waits, until the transport is closed.  No order is promised. *)
(***************************************************************************)
CONSTANT Frame

VARIABLES waiting,   \* accepted frames that have not reached the host
          arrived,   \* frames the host received
          refused,   \* frames whose send returned an error
          shut

mailVars == <<waiting, arrived, refused, shut>>

MailInit == waiting = {} /\ arrived = {} /\ refused = {} /\ shut = FALSE

Post(f) ==
    /\ f \notin waiting \cup arrived \cup refused
    /\ waiting' = waiting \cup {f}
    /\ UNCHANGED <<arrived, refused, shut>>

Arrive(f) ==
    /\ f \in waiting
    /\ waiting' = waiting \ {f} /\ arrived' = arrived \cup {f}
    /\ UNCHANGED <<refused, shut>>

Refuse(f) ==
    /\ f \in waiting
    /\ waiting' = waiting \ {f} /\ refused' = refused \cup {f}
    /\ UNCHANGED <<arrived, shut>>

\* Shutting the transport gives up what waits, at once or later.
Shut(fs) ==
    /\ shut' = TRUE /\ waiting' = waiting \ fs
    /\ UNCHANGED <<arrived, refused>>

MailNext ==
    \/ \E f \in Frame : Post(f) \/ Arrive(f) \/ Refuse(f)
    \/ \E fs \in SUBSET Frame : Shut(fs)

MailSpec == MailInit /\ [][MailNext]_mailVars
=============================================================================
