---------------------------- MODULE RunAuthority ----------------------------
(***************************************************************************)
(* The runtime authority (crates/cronymax/src/runtime/authority.rs): the   *)
(* single owner of run and review state.                                   *)
(*                                                                         *)
(* Every operation below is one critical section of AuthorityInner's       *)
(* mutex: it changes the in-memory snapshot, persists it, and, only if     *)
(* persisting succeeded, announces the change to the host and answers the  *)
(* waiters.  A failed save returns an error but does NOT undo the change   *)
(* in memory, so memory may run ahead of the disk until the next           *)
(* successful save of anything.  The parameter ok of an operation is the   *)
(* outcome of its save.                                                    *)
(*                                                                         *)
(* Operations that are several critical sections in the code               *)
(* (mark_run_running, complete_run, fail_run and                           *)
(* open_review_with_completion) appear here as their separate sections;    *)
(* RunLifecycle gives their callers a program counter between them.  Here  *)
(* any caller may run any section at any time.                             *)
(***************************************************************************)
EXTENDS Naturals, Sequences

CONSTANTS
  Runs,         \* run ids (RunId::new)
  Reviews,      \* review ids (ReviewId::new); bounds the reviews ever opened
  NoRun,        \* the run of a review that does not exist
  SaveMayFail   \* whether Persistence::save may return an error

ASSUME NoRunAssumption == NoRun \notin Runs
ASSUME SaveAssumption == SaveMayFail \in BOOLEAN

Terminal == {"succeeded", "failed", "cancelled"}
RunStatus == {"pending", "running", "paused", "awaiting_review"} \cup Terminal
Decision == {"approved", "rejected", "deferred"}
PermissionState == {"pending"} \cup Decision

\* "none": the map has no entry for this id.
ResolvedReview == [review : Reviews, decision : Decision]
Snapshot ==
  [status  : [Runs -> RunStatus \cup {"none"}],
   reviews : [Reviews -> [run   : Runs \cup {NoRun},
                          state : PermissionState \cup {"none"}]],
   trail   : [Runs -> Seq(ResolvedReview)]]

Snap(status, reviews, trail) ==
  [status |-> status, reviews |-> reviews, trail |-> trail]

NoReview == [run |-> NoRun, state |-> "none"]
EmptySnapshot ==
  Snap([r \in Runs |-> "none"], [v \in Reviews |-> NoReview], [r \in Runs |-> <<>>])

VARIABLES
  snapshot,             \* AuthorityInner.snapshot
  disk,                 \* the snapshot in the persistence back end
  minted,               \* review ids handed out so far (fresh UUIDs)
  pending_resolutions,  \* reviews with a registered oneshot sender
  completion,           \* what each oneshot channel carries, or "none"
  seen                  \* the last run_status announced to the host

authVars == <<snapshot, disk, minted, pending_resolutions, completion, seen>>
wakeVars == <<minted, pending_resolutions, completion>>

SaveOutcomes == IF SaveMayFail THEN BOOLEAN ELSE {TRUE}

AuthInit ==
  /\ snapshot = EmptySnapshot
  /\ disk = EmptySnapshot
  /\ minted = {}
  /\ pending_resolutions = {}
  /\ completion = [v \in Reviews |-> "none"]
  /\ seen = [r \in Runs |-> "none"]

-----------------------------------------------------------------------------
\* The tail every mutating operation shares: persist the whole snapshot.
save(next, ok) ==
  /\ snapshot' = next
  /\ disk' = IF ok THEN next ELSE disk

\* The snapshot with run r's status set.
WithStatus(r, st) ==
  Snap([snapshot.status EXCEPT ![r] = st], snapshot.reviews, snapshot.trail)

\* The `?` after save: a run_status event goes out only once it is durable.
MEmitRunStatus(r, s, ok) == seen' = [seen EXCEPT ![r] = s]
emit_run_status(r, s, ok) ==
  seen' = IF ok THEN [seen EXCEPT ![r] = s] ELSE seen

start_run(r, ok) ==
  /\ snapshot.status[r] = "none"
  /\ disk.status[r] = "none"          \* a UUID is never handed out twice
  /\ save(WithStatus(r, "pending"), ok)
  /\ emit_run_status(r, "pending", ok)
  /\ UNCHANGED wakeVars

\* transition_run with the states its `decide` closure accepts.
transition_run(r, from, to, ok) ==
  /\ snapshot.status[r] \in from
  /\ save(WithStatus(r, to), ok)
  /\ emit_run_status(r, to, ok)
  /\ UNCHANGED wakeVars

cancel_run(r, ok) == transition_run(r, RunStatus \ Terminal, "cancelled", ok)

pause_run(r, ok) == transition_run(r, {"running", "pending"}, "paused", ok)

\* The second critical sections of the three two-step operations.
mark_running(r, ok) ==
  transition_run(r, {"pending", "paused", "awaiting_review"}, "running", ok)
complete(r, ok) == transition_run(r, RunStatus, "succeeded", ok)
fail(r, ok) == transition_run(r, RunStatus, "failed", ok)

open_review(r, v, ok) ==
  /\ snapshot.status[r] \in RunStatus \ Terminal
  /\ v \notin minted
  /\ minted' = minted \cup {v}
  /\ save(Snap([snapshot.status EXCEPT ![r] = "awaiting_review"],
               [snapshot.reviews EXCEPT ![v] = [run |-> r, state |-> "pending"]],
               snapshot.trail), ok)
  /\ emit_run_status(r, "awaiting_review", ok)
  /\ UNCHANGED <<pending_resolutions, completion>>

\* The second critical section of open_review_with_completion.
register_completion(v) ==
  /\ pending_resolutions' = pending_resolutions \cup {v}
  /\ UNCHANGED <<snapshot, disk, minted, completion, seen>>

\* The snapshot resolve_review leaves: the review decided, the run resumed if
\* approved (whatever its status), the decision appended to the run's trail.
MResolved(r, v, d) ==
  Snap([snapshot.status EXCEPT ![r] = IF d = "approved" THEN "running" ELSE @],
       [snapshot.reviews EXCEPT ![v] = [run |-> r, state |-> d]],
       [snapshot.trail EXCEPT ![r] = Append(@, [review |-> v, decision |-> snapshot.reviews[v].state])])
Resolved(r, v, d) ==
  Snap([snapshot.status EXCEPT ![r] = IF d = "approved" THEN "running" ELSE @],
       [snapshot.reviews EXCEPT ![v] = [run |-> r, state |-> d]],
       [snapshot.trail EXCEPT ![r] = Append(@, [review |-> v, decision |-> d])])

\* The review was already decided, and nobody looks.
MResolveTwice(r, v, d, ok) ==
  /\ snapshot.reviews[v].run = r
  /\ Len(snapshot.trail[r]) < 3
  /\ save(Resolved(r, v, d), ok)
  /\ UNCHANGED <<wakeVars, seen>>

\* The waiter is answered before the save is known to have worked.
MAnswerFirst(r, v, d, ok) ==
  /\ snapshot.reviews[v] = [run |-> r, state |-> "pending"]
  /\ save(Resolved(r, v, d), ok)
  /\ pending_resolutions' = pending_resolutions \ {v}
  /\ completion' = [completion EXCEPT
                      ![v] = IF v \in pending_resolutions THEN d ELSE @]
  /\ UNCHANGED <<minted, seen>>

\* An approval resumes the run without a run_status event.
MResolveSilently(r, v, d, ok) ==
  /\ snapshot.reviews[v] = [run |-> r, state |-> "pending"]
  /\ save(Resolved(r, v, d), ok)
  /\ UNCHANGED <<wakeVars, seen>>

resolve_review(r, v, d, ok) ==
  /\ snapshot.reviews[v] = [run |-> r, state |-> "pending"]
  /\ save(Resolved(r, v, d), ok)
  /\ IF d = "approved" THEN emit_run_status(r, "running", ok) ELSE UNCHANGED seen
  /\ pending_resolutions' =
       IF ok THEN pending_resolutions \ {v} ELSE pending_resolutions
  /\ completion' = IF ok /\ v \in pending_resolutions
                   THEN [completion EXCEPT ![v] = d] ELSE completion
  /\ UNCHANGED minted

\* Every other mutator (spaces, agents, sessions, history, memory, goals, task
\* trees) changes parts of the snapshot outside this model and persists all of it.
save_other(ok) == save(snapshot, ok) /\ UNCHANGED <<wakeVars, seen>>

\* What rehydrate makes of a loaded snapshot: nothing is driving any run and
\* no review has a waiter any more.  (MRehydrated clears the receipts too.)
MRehydrated(s) ==
  Snap(s.status, [v \in Reviews |-> NoReview], [r \in Runs |-> <<>>])
Rehydrated(s) ==
  Snap([r \in Runs |-> IF s.status[r] \in {"running", "pending", "awaiting_review"}
                       THEN "paused" ELSE s.status[r]],
       [v \in Reviews |-> NoReview],
       s.trail)

\* The process dies (losing memory and every oneshot channel) and boots again.
\* Saves are atomic renames, so a crash inside a critical section leaves the
\* disk as if the section had either finished or not begun.  The host
\* reconnects and takes its projection from the rehydrated snapshot.
rehydrate ==
  /\ snapshot' = Rehydrated(disk)
  /\ disk' = Rehydrated(disk)
  /\ pending_resolutions' = {}
  /\ completion' = [v \in Reviews |-> "none"]
  /\ seen' = Rehydrated(disk).status
  /\ UNCHANGED minted

-----------------------------------------------------------------------------
AuthNext ==
  \/ \E ok \in SaveOutcomes, r \in Runs :
       \/ start_run(r, ok)
       \/ cancel_run(r, ok)
       \/ pause_run(r, ok)
       \/ mark_running(r, ok)
       \/ complete(r, ok)
       \/ fail(r, ok)
       \/ \E v \in Reviews : open_review(r, v, ok)
       \/ \E v \in Reviews, d \in Decision : resolve_review(r, v, d, ok)
  \/ \E v \in minted : register_completion(v)
  \/ \E ok \in SaveOutcomes : save_other(ok)
  \/ rehydrate

AuthSpec == AuthInit /\ [][AuthNext]_authVars

-----------------------------------------------------------------------------
\* Every variable keeps its type.
AuthTypeOK ==
  /\ snapshot \in Snapshot
  /\ disk \in Snapshot
  /\ minted \subseteq Reviews
  /\ pending_resolutions \subseteq Reviews
  /\ completion \in [Reviews -> Decision \cup {"none"}]
  /\ seen \in [Runs -> RunStatus \cup {"none"}]

\* The receipts of one snapshot: a review has at most one entry in the trails
\* of all runs, a decided review has its entry, with that decision, in the
\* trail of its run, and an undecided one has none.
Receipts(s) ==
  /\ \A r1, r2 \in Runs : \A i \in DOMAIN s.trail[r1], j \in DOMAIN s.trail[r2] :
       s.trail[r1][i].review = s.trail[r2][j].review => r1 = r2 /\ i = j
  /\ \A v \in Reviews : s.reviews[v].state \in Decision =>
       \E i \in DOMAIN s.trail[s.reviews[v].run] :
         s.trail[s.reviews[v].run][i] =
           [review |-> v, decision |-> s.reviews[v].state]
  /\ \A v \in Reviews : s.reviews[v].state = "pending" =>
       \A r \in Runs : \A i \in DOMAIN s.trail[r] : s.trail[r][i].review # v

\* The approval trail (Run.resolved_reviews, "so receipt mode can display the
\* full approval trail") holds exactly one receipt per decision, in memory and
\* on disk, through double clicks, failed saves and restarts.
ReviewTrail == Receipts(snapshot) /\ Receipts(disk)

\* resolve_review answers a waiter only after its decision is durable: what a
\* oneshot channel carries is in a trail on disk.
DeliveredIsRecorded ==
  \A v \in Reviews : completion[v] # "none" =>
    \E r \in Runs : \E i \in DOMAIN disk.trail[r] :
      disk.trail[r][i] = [review |-> v, decision |-> completion[v]]

\* While saves succeed, the status the host was last told of a run is its
\* status: no operation changes a status without announcing it (the comment on
\* resolve_review's second event: "Without this event the host never learns the
\* run resumed").
ProjectionCurrent == ~SaveMayFail => seen = snapshot.status

\* A status is announced to the host only once it is the one on disk.
AnnouncedIsDurable ==
  [][\A r \in Runs : seen'[r] # seen[r] => disk'.status[r] = seen'[r]]_authVars

\* The persisted trail is append-only, restarts included.
TrailAppendOnly ==
  [][\A r \in Runs :
       /\ Len(disk.trail[r]) <= Len(disk'.trail[r])
       /\ \A i \in DOMAIN disk.trail[r] :
            disk'.trail[r][i] = disk.trail[r][i]]_authVars
=============================================================================
