------------------------ MODULE RunLifecycle_proofs ------------------------
(***************************************************************************)
(* Proofs about the authority, for any set of runs and reviews, with saves *)
(* that may fail and restarts at any moment, and about the tasks that      *)
(* drive runs, for any number of them: they use the authority only through *)
(* its operations, and what a review gates runs at most once and only as   *)
(* approved.  While saves succeed, no native run is orphaned: one that     *)
(* says Running or Pending has a task that will move it on.                *)
(***************************************************************************)
EXTENDS RunLifecycle, TLAPS

-----------------------------------------------------------------------------
(* The authority                                                           *)

\* What appending a receipt to a trail does.
LEMMA AppendFacts ==
  ASSUME NEW S, NEW q \in Seq(S), NEW e \in S
  PROVE  /\ Append(q, e) \in Seq(S)
         /\ Len(Append(q, e)) = Len(q) + 1
         /\ DOMAIN q = 1..Len(q)
         /\ DOMAIN Append(q, e) = 1..(Len(q) + 1)
         /\ \A i \in 1..Len(q) : Append(q, e)[i] = q[i]
         /\ Append(q, e)[Len(q) + 1] = e
  OBVIOUS

\* Review ids in the snapshot were handed out, and belong to runs.
Minted ==
  /\ \A v \in Reviews : snapshot.reviews[v].state # "none" =>
       v \in minted /\ snapshot.reviews[v].run \in Runs
  /\ \A r \in Runs : \A i \in DOMAIN snapshot.trail[r] :
       snapshot.trail[r][i].review \in minted

\* Trail q extends trail p.
Extends(p, q) == Len(p) <= Len(q) /\ \A i \in DOMAIN p : q[i] = p[i]

\* Memory never loses a receipt the disk has.
Ahead == \A r \in Runs : Extends(disk.trail[r], snapshot.trail[r])

\* A step loses no receipt from the disk.
DiskGrows == \A r \in Runs : Extends(disk.trail[r], disk'.trail[r])

AuthInv ==
  AuthTypeOK /\ ReviewTrail /\ Minted /\ Ahead /\ DeliveredIsRecorded

LEMMA AuthInitInv == AuthInit => AuthInv
  <1> SUFFICES ASSUME AuthInit PROVE AuthInv
    OBVIOUS
  <1>1. EmptySnapshot \in Snapshot
    BY DEF EmptySnapshot, Snap, Snapshot, NoReview
  <1>2. AuthTypeOK
    BY <1>1 DEF AuthInit, AuthTypeOK
  <1>3. \A r \in Runs : DOMAIN EmptySnapshot.trail[r] = {}
    BY DEF EmptySnapshot, Snap
  <1>4. \A v \in Reviews : EmptySnapshot.reviews[v].state = "none"
    BY DEF EmptySnapshot, Snap, NoReview
  <1>5. ReviewTrail
    BY <1>3, <1>4 DEF AuthInit, ReviewTrail, Receipts, Decision
  <1>6. Minted /\ Ahead /\ DeliveredIsRecorded
    BY <1>3, <1>4 DEF AuthInit, Minted, Ahead, Extends, DeliveredIsRecorded
  <1> QED BY <1>2, <1>5, <1>6 DEF AuthInv

\* Receipts hold of what is on disk if they held of it before, or hold of the
\* memory image just saved.
LEMMA SavedReceipts ==
  ASSUME Receipts(disk), Receipts(snapshot)', disk' = disk \/ disk' = snapshot'
  PROVE  Receipts(disk)'
  <1>1. CASE disk' = disk
    BY <1>1 DEF Receipts
  <1>2. CASE disk' = snapshot'
    BY <1>2 DEF Receipts
  <1> QED BY <1>1, <1>2

\* Memory that only grows its trails stays ahead of the disk.
LEMMA AheadKept ==
  ASSUME Ahead, snapshot \in Snapshot, disk \in Snapshot, snapshot' \in Snapshot,
         disk' = disk \/ disk' = snapshot',
         \A r \in Runs : Extends(snapshot.trail[r], snapshot'.trail[r])
  PROVE  Ahead' /\ DiskGrows
  <1> SUFFICES ASSUME NEW r \in Runs
               PROVE  /\ Extends(disk'.trail[r], snapshot'.trail[r])
                      /\ Extends(disk.trail[r], disk'.trail[r])
    BY DEF Ahead, DiskGrows
  <1>1. /\ disk.trail[r] \in Seq(ResolvedReview)
        /\ snapshot.trail[r] \in Seq(ResolvedReview)
        /\ snapshot'.trail[r] \in Seq(ResolvedReview)
    BY DEF Snapshot
  <1>2. Extends(disk.trail[r], snapshot.trail[r])
    BY DEF Ahead
  <1>3. Extends(snapshot.trail[r], snapshot'.trail[r])
    OBVIOUS
  <1>4. CASE disk' = disk
    BY <1>1, <1>2, <1>3, <1>4 DEF Extends
  <1>5. CASE disk' = snapshot'
    BY <1>1, <1>2, <1>3, <1>5 DEF Extends
  <1> QED BY <1>4, <1>5

\* A recorded answer stays recorded.
LEMMA DeliveredKept ==
  ASSUME DeliveredIsRecorded, DiskGrows, disk \in Snapshot, disk' \in Snapshot,
         NEW v \in Reviews, completion[v] # "none", completion'[v] = completion[v]
  PROVE  \E r \in Runs : \E i \in DOMAIN disk'.trail[r] :
           disk'.trail[r][i] = [review |-> v, decision |-> completion'[v]]
  <1>1. PICK r \in Runs : \E i \in DOMAIN disk.trail[r] :
          disk.trail[r][i] = [review |-> v, decision |-> completion[v]]
    BY DEF DeliveredIsRecorded
  <1>2. PICK i \in DOMAIN disk.trail[r] :
          disk.trail[r][i] = [review |-> v, decision |-> completion[v]]
    BY <1>1
  <1>3. /\ disk.trail[r] \in Seq(ResolvedReview)
        /\ disk'.trail[r] \in Seq(ResolvedReview)
    BY DEF Snapshot
  <1>4. i \in DOMAIN disk'.trail[r] /\ disk'.trail[r][i] = disk.trail[r][i]
    BY <1>3 DEF DiskGrows, Extends
  <1> QED BY <1>2, <1>4

\* An operation that touches neither reviews nor trails keeps AuthInv.
LEMMA StatusOnly ==
  ASSUME AuthInv,
         AuthTypeOK',
         snapshot'.reviews = snapshot.reviews,
         snapshot'.trail = snapshot.trail,
         disk' = disk \/ disk' = snapshot',
         minted' = minted, completion' = completion
  PROVE  AuthInv' /\ DiskGrows
  <1>1. Receipts(snapshot)'
    BY DEF AuthInv, ReviewTrail, Receipts
  <1>2. Receipts(disk)'
    BY <1>1, SavedReceipts DEF AuthInv, ReviewTrail
  <1>3. Minted'
    BY DEF AuthInv, Minted
  <1>4. Ahead' /\ DiskGrows
    <2>1. \A r \in Runs : Extends(snapshot.trail[r], snapshot'.trail[r])
      BY DEF AuthInv, AuthTypeOK, Snapshot, Extends
    <2> QED BY <2>1, AheadKept DEF AuthInv, AuthTypeOK
  <1>5. DeliveredIsRecorded'
    <2> SUFFICES ASSUME NEW v \in Reviews, completion'[v] # "none"
                 PROVE  \E r \in Runs : \E i \in DOMAIN disk'.trail[r] :
                          disk'.trail[r][i] = [review |-> v, decision |-> completion'[v]]
      BY DEF DeliveredIsRecorded
    <2> QED BY <1>4, DeliveredKept DEF AuthInv, AuthTypeOK
  <1> QED BY <1>1, <1>2, <1>3, <1>4, <1>5 DEF AuthInv, ReviewTrail

\* Persisting a well-typed snapshot keeps the types.
LEMMA SaveType ==
  ASSUME AuthTypeOK, NEW next \in Snapshot, NEW ok \in BOOLEAN, save(next, ok)
  PROVE  /\ snapshot' = next /\ snapshot' \in Snapshot
         /\ disk' \in Snapshot
         /\ disk' = disk \/ disk' = snapshot'
  BY DEF AuthTypeOK, save

\* What a status change does to a snapshot.
LEMMA SetStatus ==
  ASSUME snapshot \in Snapshot, NEW r \in Runs, NEW st \in RunStatus
  PROVE  /\ WithStatus(r, st) \in Snapshot
         /\ WithStatus(r, st).reviews = snapshot.reviews
         /\ WithStatus(r, st).trail = snapshot.trail
         /\ WithStatus(r, st).status = [snapshot.status EXCEPT ![r] = st]
  BY DEF Snapshot, WithStatus, Snap

LEMMA EmitType ==
  ASSUME AuthTypeOK, NEW r \in Runs, NEW st \in RunStatus, NEW ok \in BOOLEAN,
         emit_run_status(r, st, ok)
  PROVE  seen' \in [Runs -> RunStatus \cup {"none"}]
  BY DEF AuthTypeOK, emit_run_status

\* start_run and every transition_run.
LEMMA StatusChange ==
  ASSUME AuthInv, NEW r \in Runs, NEW st \in RunStatus, NEW ok \in BOOLEAN,
         save(WithStatus(r, st), ok),
         emit_run_status(r, st, ok),
         UNCHANGED wakeVars
  PROVE  AuthInv' /\ DiskGrows
  <1>1. AuthTypeOK
    BY DEF AuthInv
  <1>2. snapshot \in Snapshot
    BY <1>1 DEF AuthTypeOK
  <1> DEFINE next == WithStatus(r, st)
  <1>3. next \in Snapshot /\ next.reviews = snapshot.reviews /\ next.trail = snapshot.trail
    BY <1>2, SetStatus
  <1>4. /\ snapshot' = next /\ snapshot' \in Snapshot /\ disk' \in Snapshot
        /\ disk' = disk \/ disk' = snapshot'
    <2> HIDE DEF next
    <2>1. save(next, ok)
      BY DEF next
    <2> QED BY <1>1, <1>3, <2>1, SaveType
  <1>5. seen' \in [Runs -> RunStatus \cup {"none"}]
    BY <1>1, EmitType
  <1>6. AuthTypeOK'
    BY <1>1, <1>4, <1>5 DEF AuthTypeOK, wakeVars
  <1>7. snapshot'.reviews = snapshot.reviews /\ snapshot'.trail = snapshot.trail
    BY <1>3, <1>4
  <1> QED BY <1>4, <1>6, <1>7, StatusOnly DEF wakeVars

\* Opening a review under a fresh id.
LEMMA OpenReviewInv ==
  ASSUME AuthInv, NEW r \in Runs, NEW v \in Reviews, NEW ok \in BOOLEAN,
         open_review(r, v, ok)
  PROVE  AuthInv' /\ DiskGrows
  <1> DEFINE next == Snap([snapshot.status EXCEPT ![r] = "awaiting_review"],
                      [snapshot.reviews EXCEPT ![v] = [run |-> r, state |-> "pending"]],
                      snapshot.trail)
  <1>1. AuthTypeOK /\ snapshot \in Snapshot /\ disk \in Snapshot
    BY DEF AuthInv, AuthTypeOK
  <1>2. /\ next \in Snapshot
        /\ next.trail = snapshot.trail
        /\ next.reviews = [snapshot.reviews EXCEPT ![v] = [run |-> r, state |-> "pending"]]
    BY <1>1 DEF Snapshot, Snap, RunStatus, PermissionState
  <1>3. /\ snapshot' = next /\ snapshot' \in Snapshot /\ disk' \in Snapshot
        /\ disk' = disk \/ disk' = snapshot'
    <2> HIDE DEF next
    <2>1. save(next, ok)
      BY DEF next, open_review
    <2> QED BY <1>1, <1>2, <2>1, SaveType
  <1>4. /\ v \notin minted /\ minted' = minted \cup {v}
        /\ completion' = completion /\ pending_resolutions' = pending_resolutions
    BY DEF open_review
  <1>5. AuthTypeOK'
    <2>1. "awaiting_review" \in RunStatus
      BY DEF RunStatus
    <2>2. seen' \in [Runs -> RunStatus \cup {"none"}]
      BY <1>1, <2>1, EmitType DEF open_review
    <2> QED BY <1>1, <1>3, <1>4, <2>2 DEF AuthTypeOK
  <1>6. \A w \in Reviews : w # v => snapshot'.reviews[w] = snapshot.reviews[w]
    BY <1>1, <1>2, <1>3 DEF Snapshot
  <1>7. /\ snapshot'.reviews[v].state = "pending"
        /\ snapshot'.reviews[v].run = r
        /\ snapshot'.trail = snapshot.trail
    BY <1>1, <1>2, <1>3 DEF Snapshot
  <1>8. Receipts(snapshot)'
    <2>1. \A q \in Runs : \A i \in DOMAIN snapshot.trail[q] : snapshot.trail[q][i].review # v
      BY <1>4 DEF AuthInv, Minted
    <2> QED BY <1>6, <1>7, <2>1 DEF AuthInv, ReviewTrail, Receipts, Decision
  <1> HIDE DEF next
  <1>9. Receipts(disk)'
    BY <1>3, <1>8, SavedReceipts DEF AuthInv, ReviewTrail
  <1>10. Minted'
    BY <1>4, <1>6, <1>7 DEF AuthInv, Minted
  <1>11. Ahead' /\ DiskGrows
    <2>1. \A q \in Runs : Extends(snapshot.trail[q], snapshot'.trail[q])
      BY <1>1, <1>7 DEF Snapshot, Extends
    <2> QED BY <1>1, <1>3, <2>1, AheadKept DEF AuthInv
  <1>12. DeliveredIsRecorded'
    <2> SUFFICES ASSUME NEW w \in Reviews, completion'[w] # "none"
                 PROVE  \E q \in Runs : \E i \in DOMAIN disk'.trail[q] :
                          disk'.trail[q][i] = [review |-> w, decision |-> completion'[w]]
      BY DEF DeliveredIsRecorded
    <2> QED BY <1>1, <1>3, <1>4, <1>11, DeliveredKept DEF AuthInv
  <1> QED BY <1>5, <1>8, <1>9, <1>10, <1>11, <1>12 DEF AuthInv, ReviewTrail

\* Deciding a pending review.
LEMMA ResolveReviewInv ==
  ASSUME AuthInv, NEW r \in Runs, NEW v \in Reviews, NEW d \in Decision,
         NEW ok \in BOOLEAN, resolve_review(r, v, d, ok)
  PROVE  AuthInv' /\ DiskGrows
  <1> DEFINE next == Resolved(r, v, d)
             e == [review |-> v, decision |-> d]
             T == snapshot.trail[r]
  <1>1. AuthTypeOK /\ snapshot \in Snapshot /\ disk \in Snapshot
    BY DEF AuthInv, AuthTypeOK
  <1>2. e \in ResolvedReview /\ T \in Seq(ResolvedReview)
    BY <1>1 DEF ResolvedReview, Snapshot
  <1>3. /\ Append(T, e) \in Seq(ResolvedReview)
        /\ Len(T) \in Nat /\ DOMAIN T = 1..Len(T)
        /\ Len(Append(T, e)) = Len(T) + 1
        /\ DOMAIN Append(T, e) = 1..(Len(T) + 1)
        /\ \A i \in 1..Len(T) : Append(T, e)[i] = T[i]
        /\ Append(T, e)[Len(T) + 1] = e
    <2> HIDE DEF e, T
    <2> QED BY <1>2, AppendFacts
  <1>4. /\ next \in Snapshot
        /\ next.trail = [snapshot.trail EXCEPT ![r] = Append(T, e)]
        /\ next.reviews = [snapshot.reviews EXCEPT ![v] = [run |-> r, state |-> d]]
    <2>1. next.status \in [Runs -> RunStatus \cup {"none"}]
      BY <1>1 DEF Snapshot, Resolved, Snap, RunStatus
    <2>2. next.reviews = [snapshot.reviews EXCEPT ![v] = [run |-> r, state |-> d]]
      BY DEF Resolved, Snap
    <2>3. next.reviews \in [Reviews -> [run   : Runs \cup {NoRun},
                                       state : PermissionState \cup {"none"}]]
      BY <1>1, <2>2 DEF Snapshot, PermissionState
    <2>4. next.trail = [snapshot.trail EXCEPT ![r] = Append(T, e)]
      BY DEF Resolved, Snap
    <2>5. next.trail \in [Runs -> Seq(ResolvedReview)]
      BY <1>1, <1>3, <2>4 DEF Snapshot
    <2>6. next = [status |-> next.status, reviews |-> next.reviews, trail |-> next.trail]
      BY DEF Resolved, Snap
    <2> QED BY <2>1, <2>2, <2>3, <2>4, <2>5, <2>6 DEF Snapshot
  <1>5. /\ snapshot' = next /\ snapshot' \in Snapshot /\ disk' \in Snapshot
        /\ disk' = disk \/ disk' = snapshot'
    <2> HIDE DEF next
    <2>1. save(next, ok)
      BY DEF next, resolve_review
    <2> QED BY <1>1, <1>4, <2>1, SaveType
  <1>6. /\ snapshot'.trail[r] = Append(T, e)
        /\ \A q \in Runs : q # r => snapshot'.trail[q] = snapshot.trail[q]
        /\ snapshot'.reviews[v] = [run |-> r, state |-> d]
        /\ \A w \in Reviews : w # v => snapshot'.reviews[w] = snapshot.reviews[w]
    <2> HIDE DEF next
    <2> QED BY <1>1, <1>4, <1>5 DEF Snapshot
  <1>7. /\ snapshot.reviews[v].state = "pending"
        /\ \A q \in Runs : \A i \in DOMAIN snapshot.trail[q] : snapshot.trail[q][i].review # v
    BY DEF resolve_review, AuthInv, ReviewTrail, Receipts
  <1> HIDE DEF next, T
  <1>8. \A q \in Runs : Extends(snapshot.trail[q], snapshot'.trail[q])
    <2> SUFFICES ASSUME NEW q \in Runs
                 PROVE  Extends(snapshot.trail[q], snapshot'.trail[q])
      OBVIOUS
    <2>1. CASE q = r
      <3> HIDE DEF e
      <3>1. Extends(T, Append(T, e))
        BY <1>3 DEF Extends
      <3> QED BY <1>6, <2>1, <3>1 DEF T
    <2>2. CASE q # r
      BY <1>1, <1>6, <2>2 DEF Extends, Snapshot
    <2> QED BY <2>1, <2>2
  <1>9. Ahead' /\ DiskGrows
    BY <1>1, <1>5, <1>8, AheadKept DEF AuthInv
  <1>10. Receipts(snapshot)'
    <2>1. ASSUME NEW q1 \in Runs, NEW q2 \in Runs,
                 NEW i \in DOMAIN snapshot'.trail[q1], NEW j \in DOMAIN snapshot'.trail[q2],
                 snapshot'.trail[q1][i].review = snapshot'.trail[q2][j].review
          PROVE  q1 = q2 /\ i = j
      <3>1. ASSUME NEW q \in Runs, NEW k \in DOMAIN snapshot'.trail[q]
            PROVE  \/ /\ k \in DOMAIN snapshot.trail[q]
                      /\ snapshot'.trail[q][k] = snapshot.trail[q][k]
                      /\ snapshot'.trail[q][k].review # v
                   \/ /\ q = r /\ k = Len(T) + 1
                      /\ snapshot'.trail[q][k].review = v
        <4>1. CASE q = r
          <5>1. k \in 1..(Len(T) + 1)
            BY <1>3, <1>6, <3>1, <4>1
          <5>2. CASE k = Len(T) + 1
            BY <1>3, <1>6, <4>1, <5>2
          <5>3. CASE k \in 1..Len(T)
            BY <1>3, <1>6, <1>7, <4>1, <5>3 DEF T
          <5> QED BY <1>3, <5>1, <5>2, <5>3
        <4>2. CASE q # r
          BY <1>6, <1>7, <3>1, <4>2
        <4> QED BY <4>1, <4>2
      <3>2. \A a, b \in Runs : \A k \in DOMAIN snapshot.trail[a], l \in DOMAIN snapshot.trail[b] :
              snapshot.trail[a][k].review = snapshot.trail[b][l].review => a = b /\ k = l
        BY DEF AuthInv, ReviewTrail, Receipts
      <3>3. CASE snapshot'.trail[q1][i].review = v
        BY <2>1, <3>1, <3>3
      <3>4. CASE snapshot'.trail[q1][i].review # v
        BY <2>1, <3>1, <3>2, <3>4
      <3> QED BY <3>3, <3>4
    <2>2. ASSUME NEW w \in Reviews, snapshot'.reviews[w].state \in Decision
          PROVE  \E i \in DOMAIN snapshot'.trail[snapshot'.reviews[w].run] :
                   snapshot'.trail[snapshot'.reviews[w].run][i]
                     = [review |-> w, decision |-> snapshot'.reviews[w].state]
      <3>1. CASE w = v
        <4>1. Len(T) + 1 \in DOMAIN snapshot'.trail[r]
          BY <1>3, <1>6
        <4> QED BY <1>3, <1>6, <3>1, <4>1
      <3>2. CASE w # v
        <4>1. snapshot'.reviews[w] = snapshot.reviews[w]
          BY <1>6, <3>2
        <4> DEFINE q == snapshot.reviews[w].run
        <4>2. q \in Runs
          BY <2>2, <4>1 DEF AuthInv, Minted, Decision
        <4>3. PICK i \in DOMAIN snapshot.trail[q] :
                snapshot.trail[q][i] = [review |-> w, decision |-> snapshot.reviews[w].state]
          BY <2>2, <4>1 DEF AuthInv, ReviewTrail, Receipts
        <4>4. i \in DOMAIN snapshot'.trail[q] /\ snapshot'.trail[q][i] = snapshot.trail[q][i]
          <5> HIDE DEF q
          <5>1. Extends(snapshot.trail[q], snapshot'.trail[q])
            BY <1>8, <4>2
          <5>2. /\ snapshot.trail[q] \in Seq(ResolvedReview)
                /\ snapshot'.trail[q] \in Seq(ResolvedReview)
            BY <1>1, <1>5, <4>2 DEF Snapshot
          <5> QED BY <4>3, <5>1, <5>2 DEF Extends
        <4> QED BY <4>1, <4>3, <4>4
      <3> QED BY <3>1, <3>2
    <2>3. ASSUME NEW w \in Reviews, snapshot'.reviews[w].state = "pending",
                 NEW q \in Runs, NEW i \in DOMAIN snapshot'.trail[q]
          PROVE  snapshot'.trail[q][i].review # w
      <3>1. w # v
        BY <1>6, <2>3 DEF Decision
      <3>2. \A k \in DOMAIN snapshot.trail[q] : snapshot.trail[q][k].review # w
        BY <1>6, <2>3, <3>1 DEF AuthInv, ReviewTrail, Receipts
      <3>3. CASE q = r
        <4>1. i \in 1..(Len(T) + 1)
          BY <1>3, <1>6, <2>3, <3>3
        <4>2. CASE i = Len(T) + 1
          BY <1>3, <1>6, <3>1, <3>3, <4>2
        <4>3. CASE i \in 1..Len(T)
          BY <1>3, <1>6, <3>2, <3>3, <4>3 DEF T
        <4> QED BY <1>3, <4>1, <4>2, <4>3
      <3>4. CASE q # r
        BY <1>6, <2>3, <3>2, <3>4
      <3> QED BY <3>3, <3>4
    <2> QED BY <2>1, <2>2, <2>3 DEF Receipts
  <1>11. Receipts(disk)'
    BY <1>5, <1>10, SavedReceipts DEF AuthInv, ReviewTrail
  <1>12. minted' = minted
    BY DEF resolve_review
  <1>13. Minted'
    <2>1. v \in minted
      BY <1>7 DEF AuthInv, Minted
    <2>2. ASSUME NEW w \in Reviews, snapshot'.reviews[w].state # "none"
          PROVE  w \in minted' /\ snapshot'.reviews[w].run \in Runs
      BY <1>6, <1>12, <2>1, <2>2 DEF AuthInv, Minted
    <2>3. ASSUME NEW q \in Runs, NEW i \in DOMAIN snapshot'.trail[q]
          PROVE  snapshot'.trail[q][i].review \in minted'
      <3>1. \A k \in DOMAIN snapshot.trail[q] : snapshot.trail[q][k].review \in minted
        BY DEF AuthInv, Minted
      <3>2. CASE q = r
        <4>1. i \in 1..(Len(T) + 1)
          BY <1>3, <1>6, <2>3, <3>2
        <4>2. CASE i = Len(T) + 1
          BY <1>3, <1>6, <1>12, <2>1, <3>2, <4>2
        <4>3. CASE i \in 1..Len(T)
          BY <1>3, <1>6, <1>12, <3>1, <3>2, <4>3 DEF T
        <4> QED BY <1>3, <4>1, <4>2, <4>3
      <3>3. CASE q # r
        BY <1>6, <1>12, <2>3, <3>1, <3>3
      <3> QED BY <3>2, <3>3
    <2> QED BY <2>2, <2>3 DEF Minted
  <1>14. DeliveredIsRecorded'
    <2> SUFFICES ASSUME NEW w \in Reviews, completion'[w] # "none"
                 PROVE  \E q \in Runs : \E i \in DOMAIN disk'.trail[q] :
                          disk'.trail[q][i] = [review |-> w, decision |-> completion'[w]]
      BY DEF DeliveredIsRecorded
    <2>1. CASE completion'[w] = completion[w]
      BY <1>1, <1>5, <1>9, <2>1, DeliveredKept DEF AuthInv
    <2>2. CASE completion'[w] # completion[w]
      <3>1. ok /\ w = v /\ completion'[w] = d
        BY <1>1, <2>2 DEF resolve_review, AuthTypeOK
      <3>2. disk'.trail[r] = Append(T, e)
        <4>1. disk' = snapshot'
          BY <3>1 DEF resolve_review, save
        <4> QED BY <1>6, <4>1
      <3>3. Len(T) + 1 \in DOMAIN disk'.trail[r]
        BY <1>3, <3>2
      <3> QED BY <1>3, <3>1, <3>2, <3>3
    <2> QED BY <2>1, <2>2
  <1>15. AuthTypeOK'
    <2>1. "running" \in RunStatus
      BY DEF RunStatus
    <2>2. seen' \in [Runs -> RunStatus \cup {"none"}]
      <3>1. CASE d = "approved"
        BY <1>1, <2>1, <3>1, EmitType DEF resolve_review
      <3>2. CASE d # "approved"
        BY <1>1, <3>2 DEF resolve_review, AuthTypeOK
      <3> QED BY <3>1, <3>2
    <2>3. /\ pending_resolutions' \subseteq Reviews
          /\ completion' \in [Reviews -> Decision \cup {"none"}]
      BY <1>1 DEF resolve_review, AuthTypeOK
    <2> QED BY <1>1, <1>5, <1>12, <2>2, <2>3 DEF AuthTypeOK
  <1> QED BY <1>9, <1>10, <1>11, <1>13, <1>14, <1>15 DEF AuthInv, ReviewTrail

\* A restart keeps the receipts on disk and forgets every review.
LEMMA RehydrateInv ==
  ASSUME AuthInv, rehydrate
  PROVE  AuthInv' /\ DiskGrows
  <1> DEFINE next == Rehydrated(disk)
  <1>1. AuthTypeOK /\ snapshot \in Snapshot /\ disk \in Snapshot
    BY DEF AuthInv, AuthTypeOK
  <1>2. /\ next \in Snapshot
        /\ next.trail = disk.trail
        /\ next.status \in [Runs -> RunStatus \cup {"none"}]
        /\ next.reviews = [v \in Reviews |-> NoReview]
    BY <1>1 DEF Snapshot, Rehydrated, Snap, RunStatus, NoReview
  <1>3. snapshot' = next /\ disk' = next /\ minted' = minted
    BY DEF rehydrate
  <1>4. completion' = [v \in Reviews |-> "none"] /\ pending_resolutions' = {}
        /\ seen' = next.status
    BY DEF rehydrate
  <1> HIDE DEF next
  <1>5. AuthTypeOK'
    BY <1>1, <1>2, <1>3, <1>4 DEF AuthTypeOK
  <1>6. \A v \in Reviews : snapshot'.reviews[v].state = "none"
    BY <1>2, <1>3 DEF NoReview
  <1>7. Receipts(snapshot)' /\ Receipts(disk)'
    BY <1>2, <1>3, <1>6 DEF AuthInv, ReviewTrail, Receipts, Decision
  <1>8. Minted'
    <2>1. ASSUME NEW r \in Runs, NEW i \in DOMAIN disk.trail[r]
          PROVE  disk.trail[r][i].review \in minted
      <3>1. Extends(disk.trail[r], snapshot.trail[r])
        BY DEF AuthInv, Ahead
      <3>2. /\ disk.trail[r] \in Seq(ResolvedReview)
            /\ snapshot.trail[r] \in Seq(ResolvedReview)
        BY <1>1 DEF Snapshot
      <3>3. i \in DOMAIN snapshot.trail[r] /\ snapshot.trail[r][i] = disk.trail[r][i]
        BY <2>1, <3>1, <3>2 DEF Extends
      <3> QED BY <3>3 DEF AuthInv, Minted
    <2> QED BY <1>2, <1>3, <1>6, <2>1 DEF Minted
  <1>9. \A r \in Runs : Extends(disk.trail[r], disk.trail[r])
    BY <1>1 DEF Extends, Snapshot
  <1>10. Ahead' /\ DiskGrows
    BY <1>2, <1>3, <1>9 DEF Ahead, DiskGrows
  <1>11. DeliveredIsRecorded'
    BY <1>4 DEF DeliveredIsRecorded
  <1> QED BY <1>5, <1>7, <1>8, <1>10, <1>11 DEF AuthInv, ReviewTrail

LEMMA SaveOutcomesBoolean == SaveOutcomes \subseteq BOOLEAN
  BY DEF SaveOutcomes

\* AuthInv is inductive, and no step loses a receipt from the disk.
LEMMA AuthStep == AuthInv /\ [AuthNext]_authVars => AuthInv' /\ DiskGrows
  <1> SUFFICES ASSUME AuthInv, [AuthNext]_authVars
               PROVE  AuthInv' /\ DiskGrows
    OBVIOUS
  <1>1. ASSUME NEW r \in Runs, NEW ok \in SaveOutcomes, start_run(r, ok)
        PROVE  AuthInv' /\ DiskGrows
    <2>1. "pending" \in RunStatus
      BY DEF RunStatus
    <2> QED BY <1>1, <2>1, StatusChange, SaveOutcomesBoolean DEF start_run
  <1>2. ASSUME NEW r \in Runs, NEW ok \in SaveOutcomes, NEW from, NEW to \in RunStatus,
               transition_run(r, from, to, ok)
        PROVE  AuthInv' /\ DiskGrows
    BY <1>2, StatusChange, SaveOutcomesBoolean DEF transition_run
  <1>3. {"running", "paused", "succeeded", "failed", "cancelled"} \subseteq RunStatus
    BY DEF RunStatus, Terminal
  <1>4. ASSUME NEW r \in Runs, NEW ok \in SaveOutcomes,
               \/ cancel_run(r, ok) \/ pause_run(r, ok) \/ mark_running(r, ok)
               \/ complete(r, ok) \/ fail(r, ok)
        PROVE  AuthInv' /\ DiskGrows
    BY <1>2, <1>3, <1>4 DEF cancel_run, pause_run, mark_running, complete, fail
  <1>5. ASSUME NEW r \in Runs, NEW ok \in SaveOutcomes, NEW v \in Reviews,
               open_review(r, v, ok)
        PROVE  AuthInv' /\ DiskGrows
    BY <1>5, OpenReviewInv, SaveOutcomesBoolean
  <1>6. ASSUME NEW r \in Runs, NEW ok \in SaveOutcomes, NEW v \in Reviews,
               NEW d \in Decision, resolve_review(r, v, d, ok)
        PROVE  AuthInv' /\ DiskGrows
    BY <1>6, ResolveReviewInv, SaveOutcomesBoolean
  <1>7. ASSUME NEW v \in minted, register_completion(v)
        PROVE  AuthInv' /\ DiskGrows
    <2>1. AuthTypeOK'
      BY <1>7 DEF register_completion, AuthInv, AuthTypeOK
    <2> QED BY <1>7, <2>1, StatusOnly DEF register_completion
  <1>8. ASSUME NEW ok \in SaveOutcomes, save_other(ok)
        PROVE  AuthInv' /\ DiskGrows
    <2>1. /\ AuthTypeOK'
          /\ snapshot' = snapshot /\ (disk' = disk \/ disk' = snapshot')
      BY <1>8 DEF save_other, save, wakeVars, AuthInv, AuthTypeOK
    <2> QED BY <1>8, <2>1, StatusOnly DEF save_other, wakeVars
  <1>9. CASE rehydrate
    BY <1>9, RehydrateInv
  <1>10. CASE UNCHANGED authVars
    <2>1. AuthTypeOK'
      BY <1>10 DEF authVars, AuthInv, AuthTypeOK
    <2> QED BY <1>10, <2>1, StatusOnly DEF authVars
  <1> QED BY <1>1, <1>4, <1>5, <1>6, <1>7, <1>8, <1>9, <1>10 DEF AuthNext

\* Every reachable state satisfies the inductive invariant.
THEOREM AuthInvariant == AuthSpec => []AuthInv
  <1>1. AuthInv /\ [AuthNext]_authVars => AuthInv'
    BY AuthStep
  <1> QED BY <1>1, AuthInitInv, PTL DEF AuthSpec

\* The variables of the authority keep their types.
THEOREM AuthTypeCorrect == AuthSpec => []AuthTypeOK
  <1>1. AuthInv => AuthTypeOK
    BY DEF AuthInv
  <1> QED BY <1>1, AuthInvariant, PTL

\* Exactly one receipt per decision, in memory and on disk.
THEOREM TrailCorrect == AuthSpec => []ReviewTrail
  <1>1. AuthInv => ReviewTrail
    BY DEF AuthInv
  <1> QED BY <1>1, AuthInvariant, PTL

\* A waiter is only ever told a decision that is on disk.
THEOREM DeliveredCorrect == AuthSpec => []DeliveredIsRecorded
  <1>1. AuthInv => DeliveredIsRecorded
    BY DEF AuthInv
  <1> QED BY <1>1, AuthInvariant, PTL

\* Receipts are never removed from, or changed on, the disk.
THEOREM AppendOnlyCorrect == AuthSpec => TrailAppendOnly
  <1> DEFINE A == \A r \in Runs :
                    /\ Len(disk.trail[r]) <= Len(disk'.trail[r])
                    /\ \A i \in DOMAIN disk.trail[r] :
                         disk'.trail[r][i] = disk.trail[r][i]
  <1>1. AuthInv /\ [AuthNext]_authVars => [A]_authVars
    BY AuthStep DEF DiskGrows, Extends
  <1> HIDE DEF A
  <1>2. AuthSpec => [][A]_authVars
    BY <1>1, AuthInvariant, PTL DEF AuthSpec
  <1> QED BY <1>2 DEF A, TrailAppendOnly

\* What a step tells the host is on disk by then.
Announced == \A q \in Runs : seen'[q] # seen[q] => disk'.status[q] = seen'[q]

\* Saving a status and then announcing it.
LEMMA EmitDurable ==
  ASSUME AuthTypeOK, NEW next \in Snapshot, NEW r \in Runs, NEW st \in RunStatus,
         NEW ok \in BOOLEAN, next.status[r] = st,
         save(next, ok), emit_run_status(r, st, ok)
  PROVE  Announced
  BY DEF Announced, AuthTypeOK, save, emit_run_status

LEMMA StatusAnnounced ==
  ASSUME AuthTypeOK, NEW r \in Runs, NEW st \in RunStatus, NEW ok \in BOOLEAN,
         save(WithStatus(r, st), ok), emit_run_status(r, st, ok)
  PROVE  Announced
  <1> DEFINE next == WithStatus(r, st)
  <1>1. next \in Snapshot /\ next.status[r] = st
    <2>1. snapshot \in Snapshot
      BY DEF AuthTypeOK
    <2>2. /\ next \in Snapshot
          /\ next.status = [snapshot.status EXCEPT ![r] = st]
      BY <2>1, SetStatus
    <2> QED BY <2>1, <2>2 DEF Snapshot
  <1>2. save(next, ok)
    OBVIOUS
  <1> HIDE DEF next
  <1> QED BY <1>1, <1>2, EmitDurable

LEMMA AnnouncedStep == AuthTypeOK /\ [AuthNext]_authVars => UNCHANGED authVars \/ Announced
  <1> SUFFICES ASSUME AuthTypeOK, AuthNext PROVE Announced
    OBVIOUS
  <1>1. ASSUME NEW r \in Runs, NEW ok \in SaveOutcomes, start_run(r, ok)
        PROVE  Announced
    <2>1. "pending" \in RunStatus
      BY DEF RunStatus
    <2> QED BY <1>1, <2>1, StatusAnnounced, SaveOutcomesBoolean DEF start_run
  <1>2. ASSUME NEW r \in Runs, NEW ok \in SaveOutcomes, NEW from, NEW to \in RunStatus,
               transition_run(r, from, to, ok)
        PROVE  Announced
    BY <1>2, StatusAnnounced, SaveOutcomesBoolean DEF transition_run
  <1>3. {"running", "paused", "succeeded", "failed", "cancelled"} \subseteq RunStatus
    BY DEF RunStatus, Terminal
  <1>4. ASSUME NEW r \in Runs, NEW ok \in SaveOutcomes,
               \/ cancel_run(r, ok) \/ pause_run(r, ok) \/ mark_running(r, ok)
               \/ complete(r, ok) \/ fail(r, ok)
        PROVE  Announced
    BY <1>2, <1>3, <1>4 DEF cancel_run, pause_run, mark_running, complete, fail
  <1>5. ASSUME NEW r \in Runs, NEW ok \in SaveOutcomes, NEW v \in Reviews,
               open_review(r, v, ok)
        PROVE  Announced
    BY <1>5, SaveOutcomesBoolean
       DEF open_review, save, emit_run_status, Snap, AuthTypeOK, Snapshot, Announced
  <1>6. ASSUME NEW r \in Runs, NEW ok \in SaveOutcomes, NEW v \in Reviews,
               NEW d \in Decision, resolve_review(r, v, d, ok)
        PROVE  Announced
    <2>1. CASE d # "approved"
      BY <1>6, <2>1 DEF resolve_review, Announced
    <2>2. CASE d = "approved"
      <3>1. Resolved(r, v, d).status = [snapshot.status EXCEPT ![r] = "running"]
        BY <2>2 DEF Resolved, Snap
      <3>2. Resolved(r, v, d).status[r] = "running"
        BY <3>1 DEF AuthTypeOK, Snapshot
      <3>3. ok => disk' = Resolved(r, v, d)
        BY <1>6 DEF resolve_review, save
      <3>4. seen' = IF ok THEN [seen EXCEPT ![r] = "running"] ELSE seen
        BY <1>6, <2>2 DEF resolve_review, emit_run_status
      <3> QED BY <3>2, <3>3, <3>4, SaveOutcomesBoolean DEF Announced, AuthTypeOK
    <2> QED BY <2>1, <2>2
  <1>7. ASSUME NEW v \in minted, register_completion(v)
        PROVE  Announced
    BY <1>7 DEF register_completion, Announced
  <1>8. ASSUME NEW ok \in SaveOutcomes, save_other(ok)
        PROVE  Announced
    BY <1>8 DEF save_other, Announced
  <1>9. CASE rehydrate
    BY <1>9 DEF rehydrate, Announced
  <1> QED BY <1>1, <1>4, <1>5, <1>6, <1>7, <1>8, <1>9 DEF AuthNext

\* The host never learns of a status that is not on disk.
THEOREM DurableCorrect == AuthSpec => AnnouncedIsDurable
  <1> DEFINE A == \A r \in Runs : seen'[r] # seen[r] => disk'.status[r] = seen'[r]
  <1>1. AuthTypeOK /\ [AuthNext]_authVars => [A]_authVars
    BY AnnouncedStep DEF Announced
  <1> HIDE DEF A
  <1>2. AuthSpec => [][A]_authVars
    BY <1>1, AuthTypeCorrect, PTL DEF AuthSpec
  <1> QED BY <1>2 DEF A, AnnouncedIsDurable

\* While saves succeed the host's view of every run is the authority's.
THEOREM ProjectionCorrect == AuthSpec => []ProjectionCurrent
  <1>1. AuthInit => ProjectionCurrent
    BY DEF AuthInit, ProjectionCurrent, EmptySnapshot, Snap
  <1>2. AuthTypeOK /\ ProjectionCurrent /\ [AuthNext]_authVars => ProjectionCurrent'
    <2> SUFFICES ASSUME AuthTypeOK, seen = snapshot.status, ~SaveMayFail, [AuthNext]_authVars
                 PROVE  seen' = snapshot'.status
      BY DEF ProjectionCurrent
    <2>1. SaveOutcomes = {TRUE}
      BY DEF SaveOutcomes
    <2>2. ASSUME NEW r \in Runs, NEW st,
                 save(WithStatus(r, st), TRUE), emit_run_status(r, st, TRUE)
          PROVE  seen' = snapshot'.status
      BY <2>2 DEF save, emit_run_status, WithStatus, Snap
    <2>3. ASSUME NEW r \in Runs,
                 \/ start_run(r, TRUE) \/ cancel_run(r, TRUE) \/ pause_run(r, TRUE)
                 \/ mark_running(r, TRUE) \/ complete(r, TRUE) \/ fail(r, TRUE)
          PROVE  seen' = snapshot'.status
      BY <2>2, <2>3 DEF start_run, cancel_run, pause_run, mark_running, complete,
                        fail, transition_run
    <2>4. ASSUME NEW r \in Runs, NEW v \in Reviews, open_review(r, v, TRUE)
          PROVE  seen' = snapshot'.status
      BY <2>4 DEF open_review, save, emit_run_status, Snap
    <2>5. ASSUME NEW r \in Runs, NEW v \in Reviews, NEW d \in Decision,
                 resolve_review(r, v, d, TRUE)
          PROVE  seen' = snapshot'.status
      <3>1. snapshot' = Resolved(r, v, d)
        BY <2>5 DEF resolve_review, save
      <3>2. CASE d = "approved"
        <4>1. seen' = [seen EXCEPT ![r] = "running"]
          BY <2>5, <3>2 DEF resolve_review, emit_run_status
        <4>2. snapshot'.status = [snapshot.status EXCEPT ![r] = "running"]
          BY <3>1, <3>2 DEF Resolved, Snap
        <4> QED BY <4>1, <4>2
      <3>3. CASE d # "approved"
        <4>1. seen' = seen
          BY <2>5, <3>3 DEF resolve_review
        <4>2. snapshot'.status = [snapshot.status EXCEPT ![r] = @]
          BY <3>1, <3>3 DEF Resolved, Snap
        <4> QED BY <4>1, <4>2 DEF AuthTypeOK, Snapshot
      <3> QED BY <3>2, <3>3
    <2>6. ASSUME NEW v \in minted, register_completion(v)
          PROVE  seen' = snapshot'.status
      BY <2>6 DEF register_completion
    <2>7. CASE save_other(TRUE)
      BY <2>7 DEF save_other, save
    <2>8. CASE rehydrate
      BY <2>8 DEF rehydrate
    <2>9. CASE UNCHANGED authVars
      BY <2>9 DEF authVars
    <2> QED BY <2>1, <2>3, <2>4, <2>5, <2>6, <2>7, <2>8, <2>9 DEF AuthNext
  <1> QED BY <1>1, <1>2, AuthTypeCorrect, PTL DEF AuthSpec

-----------------------------------------------------------------------------
(* The tasks                                                               *)

\* Task t opened review v and has not taken its answer yet.
Waits(t, v) == pc[t] \in {"register", "parked"} /\ review[t] = v

\* The types of the task variables.
TaskTypeOK ==
  /\ pc \in [Tasks -> Pc]
  /\ run \in [Tasks -> Runs \cup {NoRun}]
  /\ origin \in [Tasks -> Origin]
  /\ turn \in [Tasks -> 0..MaxTurns]
  /\ review \in [Tasks -> Reviews \cup {NoReviewId}]
  /\ terminal \in [Tasks -> BOOLEAN]
  /\ result \in [Tasks -> Result]
  /\ bridged \subseteq Reviews
  /\ executed \in [Reviews -> Nat]

\* A task at work has a run.
HasRun == \A t \in Tasks : pc[t] # "idle" => run[t] \in Runs

\* The waiter of a review is its only one, and nothing was let through yet.
SoleWaiter ==
  /\ \A t \in Tasks, v \in Reviews : Waits(t, v) =>
       v \in minted /\ v \notin bridged /\ executed[v] = 0
  /\ \A t \in Tasks : pc[t] \in {"register", "parked"} => review[t] \in Reviews
  /\ \A t, u \in Tasks, v \in Reviews : Waits(t, v) /\ Waits(u, v) => t = u
  /\ \A v \in bridged : v \in minted /\ executed[v] = 0
  /\ \A v \in Reviews : executed[v] > 0 => v \in minted

TaskInv == HasRun /\ SoleWaiter /\ ExecutedAsApproved

LifeInv == AuthInv /\ TaskTypeOK /\ TaskInv

-----------------------------------------------------------------------------
(* The composed system implements the authority *)

LEMMA RefStep == LifeInv /\ [Next]_vars => [AuthNext]_authVars
  <1> SUFFICES ASSUME LifeInv, [Next]_vars PROVE [AuthNext]_authVars
    OBVIOUS
  <1>1. \A t \in Tasks : pc[t] # "idle" => run[t] \in Runs
    BY DEF LifeInv, TaskInv, HasRun
  <1>2. ASSUME NEW t \in Tasks, TaskStep(t) PROVE [AuthNext]_authVars
    <2>1. CASE Register(t)
      <3>1. review[t] \in minted
        BY <2>1 DEF Register, LifeInv, TaskInv, SoleWaiter, Waits
      <3> QED BY <2>1, <3>1 DEF Register, AuthNext
    <2>2. ASSUME NEW ok \in SaveOutcomes,
                 ResumeMark(t, ok) \/ MarkRunning(t, ok) \/ Complete(t, ok) \/ Fail(t, ok)
          PROVE  AuthNext
      <3>1. run[t] \in Runs
        BY <1>1, <2>2 DEF ResumeMark, MarkRunning, Complete, Fail
      <3>2. mark_running(run[t], ok) \/ complete(run[t], ok) \/ fail(run[t], ok)
        BY <2>2 DEF ResumeMark, MarkRunning, Complete, Fail
      <3> QED BY <3>1, <3>2 DEF AuthNext
    <2>3. ASSUME NEW ok \in SaveOutcomes, NEW v \in Reviews,
                 OpenReview(t, v, ok) \/ BridgeReview(t, v, ok)
          PROVE  AuthNext
      <3>1. run[t] \in Runs
        BY <1>1, <2>3 DEF OpenReview, BridgeReview
      <3>2. open_review(run[t], v, ok)
        BY <2>3 DEF OpenReview, BridgeReview
      <3> QED BY <3>1, <3>2 DEF AuthNext
    <2>4. ASSUME NEW ok \in SaveOutcomes, Flush(t, ok) \/ Reflush(t, ok)
          PROVE  AuthNext
      BY <2>4 DEF Flush, Reflush, AuthNext
    <2>5. CASE \/ ResumeRead(t) \/ ResumeRefused(t)
               \/ PrologueFails(t) \/ MarkRead(t) \/ MarkRefused(t)
               \/ Turn(t) \/ Llm(t) \/ TerminalTool(t) \/ ToolsDone(t) \/ OpenRefused(t)
               \/ Woken(t) \/ SessionDone(t) \/ FinishRead(t) \/ Returned(t)
      BY <2>5 DEF ResumeRead, ResumeRefused, PrologueFails, MarkRead, MarkRefused,
                  Turn, Llm, TerminalTool, ToolsDone, OpenRefused, Woken,
                  SessionDone, FinishRead, Returned
    <2> QED BY <1>2, <2>1, <2>2, <2>3, <2>4, <2>5 DEF TaskStep
  <1>3. CASE HostStep
    <2>1. ASSUME NEW ok \in SaveOutcomes, NEW r \in Runs,
                 \/ CancelRun(r, ok) \/ PauseRun(r, ok)
                 \/ \E v \in Reviews, d \in Decision : ResolveReview(r, v, d, ok)
                 \/ \E t \in Tasks, from \in Origin : StartRun(t, r, from, ok)
          PROVE  AuthNext
      <3>1. \/ cancel_run(r, ok) \/ pause_run(r, ok) \/ start_run(r, ok)
            \/ \E v \in Reviews, d \in Decision : resolve_review(r, v, d, ok)
        BY <2>1 DEF CancelRun, PauseRun, ResolveReview, StartRun
      <3> QED BY <3>1 DEF AuthNext
    <2>2. ASSUME NEW t \in Tasks, NEW r \in Runs, ResumeRun(t, r)
          PROVE  UNCHANGED authVars
      BY <2>2 DEF ResumeRun
    <2>3. ASSUME NEW ok \in SaveOutcomes, OtherSave(ok)
          PROVE  AuthNext
      BY <2>3 DEF OtherSave, AuthNext
    <2> QED BY <1>3, <2>1, <2>2, <2>3 DEF HostStep
  <1>4. ASSUME NEW v \in Reviews, BridgeReply(v) PROVE UNCHANGED authVars
    BY <1>4 DEF BridgeReply
  <1>5. CASE Restart
    BY <1>5 DEF Restart, AuthNext
  <1>6. CASE UNCHANGED vars
    BY <1>6 DEF vars
  <1> QED BY <1>2, <1>3, <1>4, <1>5, <1>6 DEF Next

LEMMA MintedGrows == [AuthNext]_authVars => minted \subseteq minted'
  <1> SUFFICES ASSUME AuthNext \/ UNCHANGED authVars PROVE minted \subseteq minted'
    OBVIOUS
  <1>1. ASSUME NEW r \in Runs, NEW ok \in SaveOutcomes,
               \/ start_run(r, ok) \/ cancel_run(r, ok) \/ pause_run(r, ok)
               \/ mark_running(r, ok) \/ complete(r, ok) \/ fail(r, ok)
        PROVE  minted \subseteq minted'
    BY <1>1 DEF start_run, cancel_run, pause_run, mark_running, complete, fail,
                transition_run, wakeVars
  <1> QED BY <1>1 DEF AuthNext, open_review, resolve_review, register_completion,
                      save_other, wakeVars, rehydrate, authVars

-----------------------------------------------------------------------------
(* Types *)

LEMMA TaskTypeInit == Init => TaskTypeOK
  BY MaxTurnsAssumption DEF Init, TaskTypeOK, Pc, Origin, Result, NoReviewId

\* A task moves to w; the other task variables keep their types.
LEMMA TypeGoto ==
  ASSUME TaskTypeOK, NEW t \in Tasks, NEW w \in Pc, Goto(t, w)
  PROVE  pc' \in [Tasks -> Pc]
  BY DEF TaskTypeOK, Goto

LEMMA TypeReturn ==
  ASSUME TaskTypeOK, NEW t \in Tasks, NEW w \in Pc, NEW res \in Result, Return(t, res, w)
  PROVE  pc' \in [Tasks -> Pc] /\ result' \in [Tasks -> Result]
  BY DEF TaskTypeOK, Goto, Return

LEMMA TypeSpawn ==
  ASSUME TaskTypeOK, NEW t \in Tasks, NEW r \in Runs, NEW from \in Origin, NEW w \in Pc,
         Spawn(t, r, from, w)
  PROVE  TaskTypeOK'
  BY MaxTurnsAssumption DEF TaskTypeOK, Spawn, Goto, Result

LEMMA TaskTypeStep == TaskTypeOK /\ SoleWaiter /\ [Next]_vars => TaskTypeOK'
  <1> SUFFICES ASSUME TaskTypeOK, SoleWaiter, [Next]_vars PROVE TaskTypeOK'
    OBVIOUS
  <1>1. ASSUME NEW t \in Tasks, TaskStep(t) PROVE TaskTypeOK'
    <2>1. ASSUME NEW ok \in SaveOutcomes,
                 \/ ResumeRead(t) \/ ResumeRefused(t) \/ PrologueFails(t) \/ MarkRead(t)
                 \/ SessionDone(t) \/ ResumeMark(t, ok)
          PROVE  TaskTypeOK'
      <3>1. PICK w \in Pc : Goto(t, w)
        BY <2>1 DEF ResumeRead, ResumeRefused, PrologueFails, MarkRead, SessionDone,
                    ResumeMark, FirstTurn, Pc
      <3>2. UNCHANGED <<run, origin, turn, review, terminal, result, bridged, executed>>
        BY <2>1 DEF ResumeRead, ResumeRefused, PrologueFails, MarkRead, SessionDone,
                    ResumeMark
      <3> QED BY <3>1, <3>2, TypeGoto DEF TaskTypeOK
    <2>2. ASSUME NEW ok \in SaveOutcomes,
                 \/ FinishRead(t) \/ Returned(t) \/ Flush(t, ok) \/ Complete(t, ok)
                 \/ Fail(t, ok) \/ Reflush(t, ok)
          PROVE  TaskTypeOK'
      <3>1. PICK w \in Pc : Goto(t, w)
        BY <2>2 DEF FinishRead, Returned, Flush, Complete, Fail, Reflush, AfterLoop, Pc
      <3>2. UNCHANGED <<run, origin, turn, review, terminal, result, bridged, executed>>
        BY <2>2 DEF FinishRead, Returned, Flush, Complete, Fail, Reflush
      <3> QED BY <3>1, <3>2, TypeGoto DEF TaskTypeOK
    <2>3. ASSUME NEW ok \in SaveOutcomes,
                 \/ MarkRefused(t) \/ MarkRunning(t, ok) \/ Llm(t) \/ ToolsDone(t)
                 \/ OpenRefused(t)
          PROVE  TaskTypeOK'
      <3>1. \/ \E w \in Pc : Goto(t, w) /\ result' = result
            \/ \E w \in Pc, res \in Result : Return(t, res, w)
        BY <2>3 DEF MarkRefused, MarkRunning, Llm, ToolsDone, OpenRefused, FirstTurn, Pc, Result
      <3>2. UNCHANGED <<run, origin, turn, review, terminal, bridged, executed>>
        BY <2>3 DEF MarkRefused, MarkRunning, Llm, ToolsDone, OpenRefused
      <3>3. pc' \in [Tasks -> Pc] /\ result' \in [Tasks -> Result]
        BY <3>1, TypeGoto, TypeReturn DEF TaskTypeOK
      <3> QED BY <3>2, <3>3 DEF TaskTypeOK
    <2>4. CASE Turn(t)
      <3>1. \/ \E w \in Pc : Goto(t, w) /\ result' = result
            \/ \E w \in Pc, res \in Result : Return(t, res, w)
        BY <2>4 DEF Turn, Pc, Result
      <3>2. /\ turn' \in [Tasks -> 0..MaxTurns]
            /\ terminal' \in [Tasks -> BOOLEAN]
        <4>1. turn[t] \in 0..MaxTurns
          BY DEF TaskTypeOK
        <4>2. CASE turn[t] = MaxTurns
          BY <2>4, <4>2 DEF Turn, TaskTypeOK
        <4>3. CASE turn[t] # MaxTurns
          <5>1. turn[t] + 1 \in 0..MaxTurns
            BY <4>1, <4>3, MaxTurnsAssumption
          <5>2. \/ UNCHANGED <<turn, terminal>>
                \/ /\ turn' = [turn EXCEPT ![t] = @ + 1]
                   /\ terminal' = [terminal EXCEPT ![t] = FALSE]
            BY <2>4, <4>3 DEF Turn
          <5> QED BY <5>1, <5>2 DEF TaskTypeOK
        <4> QED BY <4>2, <4>3
      <3>3. pc' \in [Tasks -> Pc] /\ result' \in [Tasks -> Result]
        BY <3>1, TypeGoto, TypeReturn DEF TaskTypeOK
      <3> QED BY <2>4, <3>2, <3>3 DEF Turn, TaskTypeOK
    <2>5. CASE TerminalTool(t)
      BY <2>5 DEF TerminalTool, TaskTypeOK
    <2>6. ASSUME NEW ok \in SaveOutcomes, NEW v \in Reviews,
                 OpenReview(t, v, ok) \/ BridgeReview(t, v, ok)
          PROVE  TaskTypeOK'
      <3>1. \/ \E w \in Pc : Goto(t, w) /\ result' = result
            \/ \E w \in Pc, res \in Result : Return(t, res, w)
        BY <2>6 DEF OpenReview, BridgeReview, Pc, Result
      <3>2. review' \in [Tasks -> Reviews \cup {NoReviewId}]
        BY <2>6 DEF OpenReview, BridgeReview, TaskTypeOK
      <3>3. pc' \in [Tasks -> Pc] /\ result' \in [Tasks -> Result]
        BY <3>1, TypeGoto, TypeReturn DEF TaskTypeOK
      <3>4. UNCHANGED <<run, origin, turn, terminal, bridged, executed>>
        BY <2>6 DEF OpenReview, BridgeReview
      <3> QED BY <3>2, <3>3, <3>4 DEF TaskTypeOK
    <2>7. CASE Register(t)
      <3>1. PICK w \in Pc : Goto(t, w)
        BY <2>7 DEF Register, Pc
      <3>2. bridged' \subseteq Reviews
        BY <2>7 DEF Register, TaskTypeOK, SoleWaiter
      <3> QED BY <2>7, <3>1, <3>2, TypeGoto DEF Register, TaskTypeOK
    <2>8. CASE Woken(t)
      <3>1. \/ \E w \in Pc : Goto(t, w) /\ result' = result
            \/ \E w \in Pc, res \in Result : Return(t, res, w)
        BY <2>8 DEF Woken, Pc, Result
      <3>2. review[t] \in Reviews
        BY <2>8 DEF Woken, SoleWaiter
      <3>3. executed' \in [Reviews -> Nat] /\ terminal' \in [Tasks -> BOOLEAN]
        BY <2>8, <3>2 DEF Woken, TaskTypeOK
      <3>4. pc' \in [Tasks -> Pc] /\ result' \in [Tasks -> Result]
        BY <3>1, TypeGoto, TypeReturn DEF TaskTypeOK
      <3> QED BY <2>8, <3>3, <3>4 DEF Woken, TaskTypeOK
    <2>9. TRUE \in SaveOutcomes
      BY DEF SaveOutcomes
    <2> QED BY <1>1, <2>1, <2>2, <2>3, <2>4, <2>5, <2>6, <2>7, <2>8, <2>9 DEF TaskStep
  <1>2. CASE HostStep
    <2>1. ASSUME NEW ok \in SaveOutcomes, NEW r \in Runs,
                 \/ CancelRun(r, ok) \/ PauseRun(r, ok) \/ OtherSave(ok)
                 \/ \E v \in Reviews, d \in Decision : ResolveReview(r, v, d, ok)
          PROVE  UNCHANGED taskVars
      BY <2>1 DEF CancelRun, PauseRun, ResolveReview, OtherSave
    <2>2. ASSUME NEW ok \in SaveOutcomes, NEW r \in Runs, NEW t \in Tasks, NEW from \in Origin,
                 StartRun(t, r, from, ok)
          PROVE  Spawn(t, r, from, "prologue") \/ UNCHANGED taskVars
      BY <2>2 DEF StartRun
    <2>3. ASSUME NEW r \in Runs, NEW t \in Tasks, ResumeRun(t, r)
          PROVE  Spawn(t, r, "control", "resume")
      BY <2>3 DEF ResumeRun
    <2>4. "prologue" \in Pc /\ "resume" \in Pc /\ "control" \in Origin
      BY DEF Pc, Origin
    <2>5. CASE UNCHANGED taskVars
      BY <2>5 DEF taskVars, TaskTypeOK
    <2> QED BY <1>2, <2>1, <2>2, <2>3, <2>4, <2>5, TypeSpawn DEF HostStep, OtherSave
  <1>3. ASSUME NEW v \in Reviews, BridgeReply(v) PROVE TaskTypeOK'
    BY <1>3 DEF BridgeReply, TaskTypeOK
  <1>4. CASE Restart
    BY <1>4, MaxTurnsAssumption DEF Restart, TaskTypeOK, Pc, Origin, Result, NoReviewId
  <1>5. CASE UNCHANGED vars
    BY <1>5 DEF vars, taskVars, TaskTypeOK
  <1> QED BY <1>1, <1>2, <1>3, <1>4, <1>5 DEF Next

-----------------------------------------------------------------------------
(* What a review gates *)

\* What every step of the composed system does to the authority.
Grown == AuthInv' /\ DiskGrows /\ minted \subseteq minted'

\* A receipt on disk stays there.
LEMMA RecordKept ==
  ASSUME disk \in Snapshot, disk' \in Snapshot, DiskGrows, NEW e,
         \E r \in Runs : \E i \in DOMAIN disk.trail[r] : disk.trail[r][i] = e
  PROVE  \E r \in Runs : \E i \in DOMAIN disk'.trail[r] : disk'.trail[r][i] = e
  <1>1. PICK r \in Runs : \E i \in DOMAIN disk.trail[r] : disk.trail[r][i] = e
    OBVIOUS
  <1>2. PICK i \in DOMAIN disk.trail[r] : disk.trail[r][i] = e
    BY <1>1
  <1>3. /\ disk.trail[r] \in Seq(ResolvedReview)
        /\ disk'.trail[r] \in Seq(ResolvedReview)
    BY DEF Snapshot
  <1>4. i \in DOMAIN disk'.trail[r] /\ disk'.trail[r][i] = disk.trail[r][i]
    BY <1>3 DEF DiskGrows, Extends
  <1> QED BY <1>2, <1>4

LEMMA DiskTyped ==
  ASSUME LifeInv, Grown
  PROVE  disk \in Snapshot /\ disk' \in Snapshot
  BY DEF LifeInv, Grown, AuthInv, AuthTypeOK

\* A step that lets nothing through keeps ExecutedAsApproved.
LEMMA ExecutedKept ==
  ASSUME LifeInv, Grown, executed' = executed
  PROVE  ExecutedAsApproved'
  <1> SUFFICES ASSUME NEW v \in Reviews
               PROVE  /\ executed[v] <= 1
                      /\ executed[v] = 1 =>
                           \E r \in Runs : \E i \in DOMAIN disk'.trail[r] :
                             disk'.trail[r][i] = [review |-> v, decision |-> "approved"]
    BY DEF ExecutedAsApproved
  <1>1. /\ executed[v] <= 1
        /\ executed[v] = 1 =>
             \E r \in Runs : \E i \in DOMAIN disk.trail[r] :
               disk.trail[r][i] = [review |-> v, decision |-> "approved"]
    BY DEF LifeInv, TaskInv, ExecutedAsApproved
  <1> QED BY <1>1, DiskTyped, RecordKept DEF Grown

\* A step that lets v through, once, on a recorded approval.
LEMMA ExecutedOnce ==
  ASSUME LifeInv, Grown, NEW v \in Reviews, executed[v] = 0,
         executed' = [executed EXCEPT ![v] = @ + 1],
         completion[v] = "approved"
  PROVE  ExecutedAsApproved'
  <1> SUFFICES ASSUME NEW w \in Reviews
               PROVE  /\ executed'[w] <= 1
                      /\ executed'[w] = 1 =>
                           \E r \in Runs : \E i \in DOMAIN disk'.trail[r] :
                             disk'.trail[r][i] = [review |-> w, decision |-> "approved"]
    BY DEF ExecutedAsApproved
  <1>1. \E r \in Runs : \E i \in DOMAIN disk.trail[r] :
          disk.trail[r][i] = [review |-> v, decision |-> "approved"]
    BY DEF LifeInv, AuthInv, DeliveredIsRecorded
  <1>2. CASE w = v
    <2>1. executed'[w] = 1
      BY <1>2 DEF LifeInv, TaskTypeOK
    <2> QED BY <1>1, <1>2, <2>1, DiskTyped, RecordKept DEF Grown
  <1>3. CASE w # v
    <2>1. executed'[w] = executed[w]
      BY <1>3 DEF LifeInv, TaskTypeOK
    <2>2. /\ executed[w] <= 1
          /\ executed[w] = 1 =>
               \E r \in Runs : \E i \in DOMAIN disk.trail[r] :
                 disk.trail[r][i] = [review |-> w, decision |-> "approved"]
      BY DEF LifeInv, TaskInv, ExecutedAsApproved
    <2> QED BY <2>1, <2>2, DiskTyped, RecordKept DEF Grown
  <1> QED BY <1>2, <1>3

\* A step after which task t waits for nothing and no other task has moved.
LEMMA QuietInv ==
  ASSUME LifeInv, Grown, NEW t \in Tasks, NEW w \in Pc \ {"register", "parked"},
         Goto(t, w),
         w # "idle" => run'[t] \in Runs,
         \A u \in Tasks : u # t => run'[u] = run[u] /\ review'[u] = review[u],
         bridged' = bridged, executed' = executed
  PROVE  TaskInv'
  <1>1. pc'[t] = w /\ \A u \in Tasks : u # t => pc'[u] = pc[u]
    BY DEF Goto, LifeInv, TaskTypeOK
  <1>2. HasRun'
    BY <1>1 DEF HasRun, LifeInv, TaskInv
  <1>3. \A u \in Tasks, v \in Reviews : Waits(u, v)' => Waits(u, v)
    BY <1>1 DEF Waits
  <1>4. SoleWaiter'
    <2>1. \A u \in Tasks : pc'[u] \in {"register", "parked"} => review'[u] \in Reviews
      BY <1>1 DEF LifeInv, TaskInv, SoleWaiter
    <2>2. SoleWaiter /\ minted \subseteq minted'
      BY DEF LifeInv, TaskInv, Grown
    <2> QED BY <1>3, <2>1, <2>2 DEF SoleWaiter
  <1> QED BY <1>2, <1>4, ExecutedKept DEF TaskInv

\* A step of the authority alone.
LEMMA AuthOnlyInv ==
  ASSUME LifeInv, Grown, UNCHANGED taskVars
  PROVE  TaskInv'
  <1>1. HasRun'
    BY DEF HasRun, LifeInv, TaskInv, taskVars
  <1>2. \A u \in Tasks, v \in Reviews : Waits(u, v)' => Waits(u, v)
    BY DEF Waits, taskVars
  <1>3. SoleWaiter'
    BY <1>2 DEF SoleWaiter, LifeInv, TaskInv, Grown, taskVars
  <1>4. ExecutedAsApproved'
    BY ExecutedKept DEF taskVars
  <1> QED BY <1>1, <1>3, <1>4 DEF TaskInv

\* Task t takes a fresh review id and waits for it.
LEMMA OpenInv ==
  ASSUME LifeInv, Grown, NEW t \in Tasks, NEW v \in Reviews,
         pc[t] # "idle", v \notin minted, v \in minted',
         Goto(t, "register"), review' = [review EXCEPT ![t] = v],
         run' = run, bridged' = bridged, executed' = executed
  PROVE  TaskInv'
  <1>1. /\ pc'[t] = "register" /\ review'[t] = v
        /\ \A u \in Tasks : u # t => pc'[u] = pc[u] /\ review'[u] = review[u]
    BY DEF Goto, LifeInv, TaskTypeOK
  <1>2. HasRun'
    BY <1>1 DEF HasRun, LifeInv, TaskInv
  <1>3. \A u \in Tasks, x \in Reviews : Waits(u, x)' => (u = t /\ x = v) \/ (u # t /\ Waits(u, x))
    BY <1>1 DEF Waits
  <1>4. v \notin bridged /\ executed[v] = 0 /\ \A u \in Tasks : ~Waits(u, v)
    <2>1. executed[v] \in Nat
      BY DEF LifeInv, TaskTypeOK
    <2> QED BY <2>1 DEF LifeInv, TaskInv, SoleWaiter
  <1>5. SoleWaiter'
    <2>1. SoleWaiter /\ minted \subseteq minted'
      BY DEF LifeInv, TaskInv, Grown
    <2>2. \A u \in Tasks : pc'[u] \in {"register", "parked"} => review'[u] \in Reviews
      BY <1>1, <2>1 DEF SoleWaiter
    <2>3. \A u \in Tasks, x \in Reviews : Waits(u, x)' =>
            x \in minted' /\ x \notin bridged' /\ executed'[x] = 0
      BY <1>3, <1>4, <2>1 DEF SoleWaiter
    <2>4. \A u, y \in Tasks, x \in Reviews : Waits(u, x)' /\ Waits(y, x)' => u = y
      BY <1>3, <1>4, <2>1 DEF SoleWaiter
    <2>5. /\ \A x \in bridged' : x \in minted' /\ executed'[x] = 0
          /\ \A x \in Reviews : executed'[x] > 0 => x \in minted'
      BY <2>1 DEF SoleWaiter
    <2> QED BY <2>2, <2>3, <2>4, <2>5 DEF SoleWaiter
  <1> QED BY <1>2, <1>5, ExecutedKept DEF TaskInv

\* The answer's sender is registered; the loop parks, an extension's awaiter
\* takes over.
LEMMA RegisterInv ==
  ASSUME LifeInv, Grown, NEW t \in Tasks, Register(t)
  PROVE  TaskInv'
  <1> DEFINE v == review[t]
  <1>1. v \in Reviews /\ Waits(t, v) /\ pc[t] = "register"
    BY DEF Register, LifeInv, TaskInv, SoleWaiter, Waits
  <1>2. SoleWaiter /\ minted \subseteq minted'
    BY DEF LifeInv, TaskInv, Grown
  <1>3. UNCHANGED <<run, review, executed>>
    BY DEF Register
  <1>4. CASE run[t] \notin ExtensionRuns
    <2>1. /\ pc'[t] = "parked" /\ bridged' = bridged
          /\ \A u \in Tasks : u # t => pc'[u] = pc[u]
      BY <1>4 DEF Register, Goto, LifeInv, TaskTypeOK
    <2>2. \A u \in Tasks, x \in Reviews : Waits(u, x)' => Waits(u, x)
      BY <1>1, <1>3, <2>1 DEF Waits
    <2>3. HasRun'
      BY <1>1, <1>3, <2>1 DEF HasRun, LifeInv, TaskInv
    <2>4. \A u \in Tasks : pc'[u] \in {"register", "parked"} => review'[u] \in Reviews
      BY <1>1, <1>2, <1>3, <2>1 DEF SoleWaiter
    <2>5. SoleWaiter'
      BY <1>2, <1>3, <2>1, <2>2, <2>4 DEF SoleWaiter
    <2> QED BY <1>3, <2>3, <2>5, ExecutedKept DEF TaskInv
  <1>5. CASE run[t] \in ExtensionRuns
    <2>1. /\ pc'[t] = "session" /\ bridged' = bridged \cup {v}
          /\ \A u \in Tasks : u # t => pc'[u] = pc[u]
      BY <1>5 DEF Register, Goto, LifeInv, TaskTypeOK
    <2>2. \A u \in Tasks, x \in Reviews : Waits(u, x)' => Waits(u, x) /\ x # v
      <3> SUFFICES ASSUME NEW u \in Tasks, NEW x \in Reviews, Waits(u, x)'
                   PROVE  Waits(u, x) /\ x # v
        OBVIOUS
      <3>1. u # t
        BY <2>1 DEF Waits
      <3>2. Waits(u, x)
        BY <1>3, <2>1, <3>1 DEF Waits
      <3> QED BY <1>1, <1>2, <3>1, <3>2 DEF SoleWaiter
    <2>3. HasRun'
      BY <1>1, <1>3, <2>1 DEF HasRun, LifeInv, TaskInv
    <2>4. \A u \in Tasks : pc'[u] \in {"register", "parked"} => review'[u] \in Reviews
      BY <1>2, <1>3, <2>1 DEF SoleWaiter
    <2>5. v \in minted /\ executed[v] = 0
      BY <1>1, <1>2 DEF SoleWaiter
    <2> HIDE DEF v
    <2>6. SoleWaiter'
      BY <1>2, <1>3, <2>1, <2>2, <2>4, <2>5 DEF SoleWaiter
    <2> QED BY <1>3, <2>3, <2>6, ExecutedKept DEF TaskInv
  <1> QED BY <1>4, <1>5

\* An approved call goes ahead.
LEMMA ApprovedInv ==
  ASSUME LifeInv, Grown, NEW t \in Tasks, pc[t] = "parked",
         completion[review[t]] = "approved",
         executed' = [executed EXCEPT ![review[t]] = @ + 1],
         Goto(t, "tools"), UNCHANGED <<run, review, bridged>>
  PROVE  TaskInv'
  <1> DEFINE v == review[t]
  <1>1. v \in Reviews /\ Waits(t, v)
    BY DEF LifeInv, TaskInv, SoleWaiter, Waits
  <1>2. SoleWaiter /\ minted \subseteq minted'
    BY DEF LifeInv, TaskInv, Grown
  <1>3. v \in minted /\ v \notin bridged /\ executed[v] = 0
    BY <1>1, <1>2 DEF SoleWaiter
  <1>4. pc'[t] = "tools" /\ \A u \in Tasks : u # t => pc'[u] = pc[u]
    BY DEF Goto, LifeInv, TaskTypeOK
  <1>5. \A x \in Reviews : x # v => executed'[x] = executed[x]
    BY DEF LifeInv, TaskTypeOK
  <1>6. HasRun'
    BY <1>4 DEF HasRun, LifeInv, TaskInv
  <1>7. \A u \in Tasks, x \in Reviews : Waits(u, x)' => Waits(u, x) /\ x # v
    <2> SUFFICES ASSUME NEW u \in Tasks, NEW x \in Reviews, Waits(u, x)'
                 PROVE  Waits(u, x) /\ x # v
      OBVIOUS
    <2>1. u # t
      BY <1>4 DEF Waits
    <2>2. Waits(u, x)
      BY <1>4, <2>1 DEF Waits
    <2> QED BY <1>1, <1>2, <2>1, <2>2 DEF SoleWaiter
  <1>8. \A u \in Tasks : pc'[u] \in {"register", "parked"} => review'[u] \in Reviews
    BY <1>2, <1>4 DEF SoleWaiter
  <1>9. ExecutedAsApproved'
    BY <1>1, <1>3, ExecutedOnce
  <1>10. bridged \subseteq Reviews
    BY DEF LifeInv, TaskTypeOK
  <1> HIDE DEF v
  <1>11. SoleWaiter'
    BY <1>2, <1>3, <1>5, <1>7, <1>8, <1>10 DEF SoleWaiter
  <1> QED BY <1>6, <1>9, <1>11 DEF TaskInv

\* The bridge forwards an answer to the extension.
LEMMA BridgeReplyInv ==
  ASSUME LifeInv, Grown, NEW v \in Reviews, BridgeReply(v)
  PROVE  TaskInv'
  <1>1. SoleWaiter /\ minted \subseteq minted' /\ bridged \subseteq Reviews
    BY DEF LifeInv, TaskInv, TaskTypeOK, Grown
  <1>2. v \in minted /\ executed[v] = 0 /\ \A u \in Tasks : ~Waits(u, v)
    BY <1>1 DEF SoleWaiter, BridgeReply
  <1>3. \A x \in Reviews : x # v => executed'[x] = executed[x]
    BY DEF LifeInv, TaskTypeOK, BridgeReply
  <1>4. UNCHANGED <<pc, run, review>> /\ bridged' = bridged \ {v}
    BY DEF BridgeReply
  <1>5. \A u \in Tasks, x \in Reviews : Waits(u, x)' => Waits(u, x)
    BY <1>4 DEF Waits
  <1>6. SoleWaiter'
    BY <1>1, <1>2, <1>3, <1>4, <1>5 DEF SoleWaiter
  <1>7. HasRun'
    BY <1>4 DEF HasRun, LifeInv, TaskInv
  <1>8. ExecutedAsApproved'
    <2>1. CASE completion[v] = "approved"
      <3>1. executed' = [executed EXCEPT ![v] = @ + 1]
        BY <2>1 DEF BridgeReply
      <3> QED BY <1>2, <2>1, <3>1, ExecutedOnce
    <2>2. CASE completion[v] # "approved"
      <3>1. executed' = executed
        BY <2>2 DEF BridgeReply, LifeInv, TaskTypeOK
      <3> QED BY <3>1, ExecutedKept
    <2> QED BY <2>1, <2>2
  <1> QED BY <1>6, <1>7, <1>8 DEF TaskInv

\* After a crash nobody waits for anything.
LEMMA RestartInv ==
  ASSUME LifeInv, Grown, Restart
  PROVE  TaskInv'
  <1>1. \A t \in Tasks : pc'[t] = "idle"
    BY DEF Restart
  <1>2. bridged' = {} /\ executed' = executed
    BY DEF Restart
  <1>3. SoleWaiter'
    BY <1>1, <1>2 DEF SoleWaiter, Waits, LifeInv, TaskInv, Grown
  <1> QED BY <1>1, <1>2, <1>3, ExecutedKept DEF TaskInv, HasRun

LEMMA TaskInvStep == LifeInv /\ Grown /\ [Next]_vars => TaskInv'
  <1> SUFFICES ASSUME LifeInv, Grown, [Next]_vars PROVE TaskInv'
    OBVIOUS
  <1>1. \A t \in Tasks : pc[t] # "idle" => run[t] \in Runs
    BY DEF LifeInv, TaskInv, HasRun
  <1>2. ASSUME NEW t \in Tasks, NEW w \in Pc \ {"register", "parked"}, pc[t] # "idle",
               Goto(t, w), UNCHANGED <<run, review, bridged, executed>>
        PROVE  TaskInv'
    BY <1>1, <1>2, QuietInv
  <1>3. ASSUME NEW t \in Tasks, TaskStep(t) PROVE TaskInv'
    <2>1. ASSUME NEW ok \in SaveOutcomes,
                 \/ ResumeRead(t) \/ ResumeRefused(t) \/ PrologueFails(t) \/ MarkRead(t)
                 \/ MarkRefused(t) \/ SessionDone(t) \/ ResumeMark(t, ok) \/ MarkRunning(t, ok)
          PROVE  TaskInv'
      <3>1. PICK w \in Pc \ {"register", "parked"} : Goto(t, w)
        BY <2>1 DEF ResumeRead, ResumeRefused, PrologueFails, MarkRead, MarkRefused,
                    SessionDone, ResumeMark, MarkRunning, FirstTurn, Return, Pc
      <3>2. pc[t] # "idle" /\ UNCHANGED <<run, review, bridged, executed>>
        BY <2>1 DEF ResumeRead, ResumeRefused, PrologueFails, MarkRead, MarkRefused,
                    SessionDone, ResumeMark, MarkRunning
      <3> QED BY <1>2, <3>1, <3>2
    <2>2. ASSUME NEW ok \in SaveOutcomes,
                 \/ FinishRead(t) \/ Returned(t) \/ Flush(t, ok) \/ Complete(t, ok)
                 \/ Fail(t, ok) \/ Reflush(t, ok)
          PROVE  TaskInv'
      <3>1. PICK w \in Pc \ {"register", "parked"} : Goto(t, w)
        BY <2>2 DEF FinishRead, Returned, Flush, Complete, Fail, Reflush, AfterLoop, Pc
      <3>2. pc[t] # "idle" /\ UNCHANGED <<run, review, bridged, executed>>
        BY <2>2 DEF FinishRead, Returned, Flush, Complete, Fail, Reflush
      <3> QED BY <1>2, <3>1, <3>2
    <2>3. CASE Turn(t) \/ Llm(t) \/ ToolsDone(t) \/ OpenRefused(t)
      <3>1. PICK w \in Pc \ {"register", "parked"} : Goto(t, w)
        BY <2>3 DEF Turn, Llm, ToolsDone, OpenRefused, Return, Pc
      <3>2. pc[t] # "idle" /\ UNCHANGED <<run, review, bridged, executed>>
        BY <2>3 DEF Turn, Llm, ToolsDone, OpenRefused
      <3> QED BY <1>2, <3>1, <3>2
    <2>4. CASE TerminalTool(t)
      <3>1. pc' = [pc EXCEPT ![t] = "tools"] /\ "tools" \in Pc \ {"register", "parked"}
        BY <2>4 DEF TerminalTool, LifeInv, TaskTypeOK, Pc
      <3>2. pc[t] # "idle" /\ UNCHANGED <<run, review, bridged, executed>>
        BY <2>4 DEF TerminalTool
      <3> QED BY <1>2, <3>1, <3>2 DEF Goto
    <2>5. ASSUME NEW ok \in SaveOutcomes, NEW v \in Reviews,
                 OpenReview(t, v, ok) \/ BridgeReview(t, v, ok)
          PROVE  TaskInv'
      <3>1. /\ v \notin minted /\ minted' = minted \cup {v}
            /\ pc[t] # "idle" /\ review' = [review EXCEPT ![t] = v]
            /\ UNCHANGED <<run, bridged, executed>>
        BY <2>5 DEF OpenReview, BridgeReview, open_review
      <3>2. CASE ok
        <4>1. Goto(t, "register")
          BY <2>5, <3>2 DEF OpenReview, BridgeReview
        <4> QED BY <3>1, <4>1, OpenInv
      <3>3. CASE ~ok
        <4>1. PICK w \in Pc \ {"register", "parked"} : Goto(t, w)
          BY <2>5, <3>3 DEF OpenReview, BridgeReview, Return, Pc
        <4>2. \A u \in Tasks : u # t => run'[u] = run[u] /\ review'[u] = review[u]
          BY <3>1 DEF LifeInv, TaskTypeOK
        <4> QED BY <1>1, <3>1, <4>1, <4>2, QuietInv
      <3> QED BY <3>2, <3>3
    <2>6. CASE Register(t)
      BY <2>6, RegisterInv
    <2>7. CASE Woken(t)
      <3>1. CASE completion[review[t]] = "approved"
        BY <2>7, <3>1, ApprovedInv DEF Woken
      <3>2. CASE completion[review[t]] # "approved"
        <4>1. PICK w \in Pc \ {"register", "parked"} : Goto(t, w)
          BY <2>7, <3>2 DEF Woken, Return, Pc
        <4>2. pc[t] # "idle" /\ UNCHANGED <<run, review, bridged, executed>>
          BY <2>7, <3>2 DEF Woken
        <4> QED BY <1>2, <4>1, <4>2
      <3> QED BY <3>1, <3>2
    <2>8. TRUE \in SaveOutcomes
      BY DEF SaveOutcomes
    <2> QED BY <1>3, <2>1, <2>2, <2>3, <2>4, <2>5, <2>6, <2>7, <2>8 DEF TaskStep
  <1>4. CASE HostStep
    <2>1. ASSUME NEW ok \in SaveOutcomes, NEW r \in Runs,
                 \/ CancelRun(r, ok) \/ PauseRun(r, ok)
                 \/ \E v \in Reviews, d \in Decision : ResolveReview(r, v, d, ok)
          PROVE  UNCHANGED taskVars
      BY <2>1 DEF CancelRun, PauseRun, ResolveReview
    <2>2. ASSUME NEW ok \in SaveOutcomes, OtherSave(ok)
          PROVE  UNCHANGED taskVars
      BY <2>2 DEF OtherSave
    <2>3. ASSUME NEW r \in Runs, NEW t \in Tasks, NEW from, NEW w \in {"prologue", "resume"},
                 Spawn(t, r, from, w)
          PROVE  TaskInv'
      <3>1. w \in Pc \ {"register", "parked"}
        BY DEF Pc
      <3>2. run'[t] \in Runs /\ \A u \in Tasks : u # t => run'[u] = run[u]
        BY <2>3 DEF Spawn, LifeInv, TaskTypeOK
      <3>3. Goto(t, w) /\ UNCHANGED <<review, bridged, executed>>
        BY <2>3 DEF Spawn
      <3> QED BY <3>1, <3>2, <3>3, QuietInv
    <2>4. ASSUME NEW ok \in SaveOutcomes, NEW r \in Runs, NEW t \in Tasks, NEW from \in Origin,
                 StartRun(t, r, from, ok)
          PROVE  Spawn(t, r, from, "prologue") \/ UNCHANGED taskVars
      BY <2>4 DEF StartRun
    <2>5. ASSUME NEW r \in Runs, NEW t \in Tasks, ResumeRun(t, r)
          PROVE  Spawn(t, r, "control", "resume")
      BY <2>5 DEF ResumeRun
    <2> QED BY <1>4, <2>1, <2>2, <2>3, <2>4, <2>5, AuthOnlyInv DEF HostStep
  <1>5. ASSUME NEW v \in Reviews, BridgeReply(v) PROVE TaskInv'
    BY <1>5, BridgeReplyInv
  <1>6. CASE Restart
    BY <1>6, RestartInv
  <1>7. CASE UNCHANGED vars
    BY <1>7, AuthOnlyInv DEF vars
  <1> QED BY <1>3, <1>4, <1>5, <1>6, <1>7 DEF Next

-----------------------------------------------------------------------------
LEMMA LifeInitInv == Init => LifeInv
  <1> SUFFICES ASSUME Init PROVE LifeInv
    OBVIOUS
  <1>1. AuthInv
    BY AuthInitInv DEF Init
  <1>2. \A t \in Tasks : pc[t] = "idle"
    BY DEF Init
  <1>3. bridged = {} /\ \A v \in Reviews : executed[v] = 0
    BY DEF Init
  <1>4. HasRun /\ SoleWaiter /\ ExecutedAsApproved
    BY <1>2, <1>3 DEF HasRun, SoleWaiter, Waits, ExecutedAsApproved
  <1> QED BY <1>1, <1>4, TaskTypeInit DEF LifeInv, TaskInv

LEMMA LifeStep == LifeInv /\ [Next]_vars => LifeInv'
  <1> SUFFICES ASSUME LifeInv, [Next]_vars PROVE LifeInv'
    OBVIOUS
  <1>1. [AuthNext]_authVars
    BY RefStep
  <1>2. Grown
    BY <1>1, AuthStep, MintedGrows DEF Grown, LifeInv
  <1>3. TaskTypeOK'
    BY TaskTypeStep DEF LifeInv, TaskInv
  <1> QED BY <1>2, <1>3, TaskInvStep DEF LifeInv, Grown

\* The inductive invariant of the composed system.
THEOREM LifeInvariant == Spec => []LifeInv
  BY LifeInitInv, LifeStep, PTL DEF Spec

\* Every variable of the composed system keeps its type.
THEOREM TypeCorrect == Spec => []TypeOK
  <1>1. LifeInv => TypeOK
    BY DEF LifeInv, AuthInv, TaskTypeOK, TypeOK
  <1> QED BY <1>1, LifeInvariant, PTL

\* The tasks change run and review state only through the authority's
\* operations, so that whatever AuthSpec promises holds of the whole runtime.
THEOREM ImplementsAuthority == Spec => AuthSpec
  <1>1. Init => AuthInit
    BY DEF Init
  <1> QED BY <1>1, RefStep, LifeInvariant, PTL DEF Spec, AuthSpec

\* What a review gates goes ahead at most once, on a recorded approval.
THEOREM GateCorrect == Spec => []ExecutedAsApproved
  <1>1. LifeInv => ExecutedAsApproved
    BY DEF LifeInv, TaskInv
  <1> QED BY <1>1, LifeInvariant, PTL

-----------------------------------------------------------------------------
(* No native run is orphaned.                                              *)

NativeRuns == Runs \ ExtensionRuns

\* Task t is on its way to mark its Pending run Running, or to fail it.
Starting(t) == pc[t] \in {"prologue", "mark", "fail", "failing"}

\* What a oneshot channel carries is the state of its review.
Answers ==
  \A v \in Reviews : completion[v] # "none" => completion[v] = snapshot.reviews[v].state

\* A pending review of a native run has its waiter.
Awaited ==
  \A v \in Reviews :
    snapshot.reviews[v].state = "pending" /\ snapshot.reviews[v].run \in NativeRuns
      => \E t \in Tasks : Waits(t, v) /\ run[t] = snapshot.reviews[v].run

DrivenInv == Answers /\ (~SaveMayFail => Awaited /\ \A r \in NativeRuns : Driven(r))

FullInv == LifeInv /\ DrivenInv

-----------------------------------------------------------------------------
(* Answers: a property of the authority alone *)

LEMMA AnswersStep == AuthInv /\ Answers /\ [AuthNext]_authVars => Answers'
  <1> SUFFICES ASSUME AuthInv, Answers, [AuthNext]_authVars PROVE Answers'
    OBVIOUS
  <1> USE DEF Answers
  <1>1. snapshot \in Snapshot /\ completion \in [Reviews -> Decision \cup {"none"}]
    BY DEF AuthInv, AuthTypeOK
  <1>2. ASSUME NEW r, NEW st, NEW ok, save(WithStatus(r, st), ok), UNCHANGED wakeVars
        PROVE  Answers'
    BY <1>2 DEF save, WithStatus, Snap, wakeVars
  <1>3. ASSUME NEW r \in Runs, NEW ok \in SaveOutcomes,
               \/ start_run(r, ok) \/ cancel_run(r, ok) \/ pause_run(r, ok)
               \/ mark_running(r, ok) \/ complete(r, ok) \/ fail(r, ok)
        PROVE  Answers'
    BY <1>2, <1>3 DEF start_run, cancel_run, pause_run, mark_running, complete, fail,
                      transition_run
  <1>4. ASSUME NEW r \in Runs, NEW ok \in SaveOutcomes, NEW v \in Reviews,
               open_review(r, v, ok)
        PROVE  Answers'
    <2>1. snapshot.reviews[v].state = "none"
      BY <1>4 DEF open_review, AuthInv, Minted
    <2>2. completion[v] = "none"
      BY <1>1, <2>1
    <2>3. /\ completion' = completion
          /\ snapshot'.reviews = [snapshot.reviews EXCEPT ![v] = [run |-> r, state |-> "pending"]]
      BY <1>4 DEF open_review, save, Snap
    <2> QED BY <1>1, <2>2, <2>3 DEF Snapshot
  <1>5. ASSUME NEW r \in Runs, NEW ok \in SaveOutcomes, NEW v \in Reviews,
               NEW d \in Decision, resolve_review(r, v, d, ok)
        PROVE  Answers'
    <2>1. snapshot'.reviews = [snapshot.reviews EXCEPT ![v] = [run |-> r, state |-> d]]
      BY <1>5 DEF resolve_review, save, Resolved, Snap
    <2>2. snapshot.reviews[v].state = "pending"
      BY <1>5 DEF resolve_review
    <2>3. completion[v] = "none"
      BY <1>1, <2>2 DEF Decision
    <2>4. completion' = completion \/ completion' = [completion EXCEPT ![v] = d]
      BY <1>5 DEF resolve_review
    <2> QED BY <1>1, <2>1, <2>3, <2>4 DEF Snapshot
  <1>6. ASSUME NEW v \in minted, register_completion(v) PROVE Answers'
    BY <1>6 DEF register_completion
  <1>7. ASSUME NEW ok \in SaveOutcomes, save_other(ok) PROVE Answers'
    BY <1>7 DEF save_other, save, wakeVars
  <1>8. CASE rehydrate
    BY <1>8 DEF rehydrate
  <1>9. CASE UNCHANGED authVars
    BY <1>9 DEF authVars
  <1> QED BY <1>3, <1>4, <1>5, <1>6, <1>7, <1>8, <1>9 DEF AuthNext

-----------------------------------------------------------------------------
(* Who drives what *)

Cared == Awaited /\ \A r \in NativeRuns : Driven(r)

\* No task but t moves.
OthersSame(t) ==
  \A u \in Tasks : u # t =>
    pc'[u] = pc[u] /\ run'[u] = run[u] /\ review'[u] = review[u] /\ result'[u] = result[u]

\* No approval is withdrawn.
ApprovalsKept ==
  \A v \in Reviews :
    snapshot.reviews[v].state = "approved" => snapshot'.reviews[v].state = "approved"

LEMMA StillDriving ==
  ASSUME SoleWaiter, ApprovalsKept, NEW u \in Tasks,
         pc'[u] = pc[u], run'[u] = run[u], review'[u] = review[u], result'[u] = result[u]
  PROVE  /\ Driving(u) => Driving(u)'
         /\ Starting(u) => Starting(u)'
         /\ \A v \in Reviews : Waits(u, v) => Waits(u, v)'
  <1>1. pc[u] \in {"register", "parked"} => review[u] \in Reviews
    BY DEF SoleWaiter
  <1> QED BY <1>1 DEF ApprovalsKept, Driving, Starting, Waits

\* Task t moves and no status or review changes.
LEMMA LocalDriven ==
  ASSUME SoleWaiter, Cared, NEW t \in Tasks, OthersSame(t),
         snapshot' = snapshot,
         pc[t] # "idle" => run'[t] = run[t],
         run[t] \in NativeRuns =>
           /\ Status(t) = "running" /\ Driving(t) => Driving(t)'
           /\ Status(t) = "pending" /\ Starting(t) => Starting(t)'
           /\ \A v \in Reviews :
                Waits(t, v) /\ snapshot.reviews[v].state = "pending" => Waits(t, v)'
  PROVE  Cared'
  <1>1. ApprovalsKept
    BY DEF ApprovalsKept
  <1>2. \A u \in Tasks : u # t =>
          /\ run'[u] = run[u]
          /\ Driving(u) => Driving(u)'
          /\ Starting(u) => Starting(u)'
          /\ \A v \in Reviews : Waits(u, v) => Waits(u, v)'
    BY <1>1, StillDriving DEF OthersSame
  <1>3. Driving(t) \/ Starting(t) \/ (\E v \in Reviews : Waits(t, v)) => pc[t] # "idle"
    BY DEF Driving, Starting, Waits
  <1>4. ASSUME NEW r \in NativeRuns PROVE Driven(r)'
    <2>1. ASSUME snapshot'.status[r] = "running"
          PROVE  \E u \in Tasks : run'[u] = r /\ Driving(u)'
      <3>1. PICK u \in Tasks : run[u] = r /\ Driving(u)
        BY <1>4, <2>1 DEF Cared, Driven
      <3>2. CASE u = t
        BY <1>3, <1>4, <2>1, <3>1, <3>2 DEF Status
      <3>3. CASE u # t
        BY <1>2, <3>1, <3>3
      <3> QED BY <3>2, <3>3
    <2>2. ASSUME snapshot'.status[r] = "pending"
          PROVE  \E u \in Tasks : run'[u] = r /\ Starting(u)'
      <3>1. PICK u \in Tasks : run[u] = r /\ Starting(u)
        BY <1>4, <2>2 DEF Cared, Driven, Starting
      <3>2. CASE u = t
        BY <1>3, <1>4, <2>2, <3>1, <3>2 DEF Status
      <3>3. CASE u # t
        BY <1>2, <3>1, <3>3
      <3> QED BY <3>2, <3>3
    <2> QED BY <2>1, <2>2 DEF Driven, Starting
  <1>5. Awaited'
    <2> SUFFICES ASSUME NEW v \in Reviews, snapshot'.reviews[v].state = "pending",
                        snapshot'.reviews[v].run \in NativeRuns
                 PROVE  \E u \in Tasks : Waits(u, v)' /\ run'[u] = snapshot'.reviews[v].run
      BY DEF Awaited
    <2>1. PICK u \in Tasks : Waits(u, v) /\ run[u] = snapshot.reviews[v].run
      BY DEF Cared, Awaited
    <2>2. CASE u = t
      BY <1>3, <2>1, <2>2
    <2>3. CASE u # t
      BY <1>2, <2>1, <2>3
    <2> QED BY <2>2, <2>3
  <1> QED BY <1>4, <1>5 DEF Cared

\* Task t sets the status of its run r (or of the run it is spawned for).
LEMMA StatusDriven ==
  ASSUME SoleWaiter, Cared, snapshot \in Snapshot,
         NEW t \in Tasks, OthersSame(t), NEW r \in Runs, NEW st,
         snapshot' = WithStatus(r, st),
         pc[t] = "idle" \/ run[t] = r,
         pc[t] \notin {"register", "parked"},
         st = "running" => run'[t] = r /\ Driving(t)',
         st = "pending" => run'[t] = r /\ Starting(t)'
  PROVE  Cared'
  <1>1. /\ snapshot'.reviews = snapshot.reviews
        /\ snapshot'.status = [snapshot.status EXCEPT ![r] = st]
    BY DEF WithStatus, Snap
  <1>2. ApprovalsKept
    BY <1>1 DEF ApprovalsKept
  <1>3. \A u \in Tasks : u # t =>
          /\ run'[u] = run[u]
          /\ Driving(u) => Driving(u)'
          /\ Starting(u) => Starting(u)'
          /\ \A v \in Reviews : Waits(u, v) => Waits(u, v)'
    BY <1>2, StillDriving DEF OthersSame
  <1>4. pc[t] = "idle" => ~Driving(t) /\ ~Starting(t)
    BY DEF Driving, Starting
  <1>5. ASSUME NEW q \in NativeRuns PROVE Driven(q)'
    <2>1. CASE q = r
      <3>1. snapshot'.status[q] = st
        BY <1>1, <1>5, <2>1 DEF Snapshot, NativeRuns
      <3> QED BY <2>1, <3>1 DEF Driven, Starting
    <2>2. CASE q # r
      <3>1. snapshot'.status[q] = snapshot.status[q]
        BY <1>1, <1>5, <2>2 DEF Snapshot, NativeRuns
      <3>2. ASSUME NEW u \in Tasks, run[u] = q, Driving(u) \/ Starting(u) PROVE u # t
        BY <1>4, <2>2, <3>2
      <3>3. snapshot'.status[q] = "running" => \E u \in Tasks : run'[u] = q /\ Driving(u)'
        <4>1. snapshot.status[q] = "running" => \E u \in Tasks : run[u] = q /\ Driving(u)
          BY <1>5 DEF Cared, Driven
        <4> QED BY <1>3, <3>1, <3>2, <4>1
      <3>4. snapshot'.status[q] = "pending" => \E u \in Tasks : run'[u] = q /\ Starting(u)'
        <4>1. snapshot.status[q] = "pending" => \E u \in Tasks : run[u] = q /\ Starting(u)
          BY <1>5 DEF Cared, Driven, Starting
        <4> QED BY <1>3, <3>1, <3>2, <4>1
      <3> QED BY <3>3, <3>4 DEF Driven, Starting
    <2> QED BY <2>1, <2>2
  <1>6. Awaited'
    <2> SUFFICES ASSUME NEW v \in Reviews, snapshot'.reviews[v].state = "pending",
                        snapshot'.reviews[v].run \in NativeRuns
                 PROVE  \E u \in Tasks : Waits(u, v)' /\ run'[u] = snapshot'.reviews[v].run
      BY DEF Awaited
    <2>1. PICK u \in Tasks : Waits(u, v) /\ run[u] = snapshot.reviews[v].run
      BY <1>1 DEF Cared, Awaited
    <2>2. u # t
      BY <2>1 DEF Waits
    <2> QED BY <1>1, <1>3, <2>1, <2>2
  <1> QED BY <1>5, <1>6 DEF Cared

\* No task moves and run r gets a status nobody needs to act on.
LEMMA HostDriven ==
  ASSUME SoleWaiter, Cared, snapshot \in Snapshot,
         UNCHANGED <<pc, run, review, result>>,
         NEW r \in Runs, NEW st, st \notin {"running", "pending"},
         snapshot' = WithStatus(r, st) \/ snapshot' = snapshot
  PROVE  Cared'
  <1>1. /\ snapshot'.reviews = snapshot.reviews
        /\ \A q \in Runs : snapshot'.status[q] \in {"running", "pending"}
                            => snapshot'.status[q] = snapshot.status[q]
    BY DEF WithStatus, Snap, Snapshot
  <1>2. ApprovalsKept
    BY <1>1 DEF ApprovalsKept
  <1>3. \A u \in Tasks :
          /\ Driving(u) => Driving(u)'
          /\ Starting(u) => Starting(u)'
          /\ \A v \in Reviews : Waits(u, v) => Waits(u, v)'
    BY <1>2, StillDriving
  <1>4. ASSUME NEW q \in NativeRuns PROVE Driven(q)'
    <2>1. Driven(q) /\ q \in Runs
      BY <1>4 DEF Cared, NativeRuns
    <2>2. snapshot'.status[q] = "running" => \E u \in Tasks : run'[u] = q /\ Driving(u)'
      BY <1>1, <1>3, <2>1 DEF Driven
    <2>3. snapshot'.status[q] = "pending" => \E u \in Tasks : run'[u] = q /\ Starting(u)'
      <3>1. snapshot.status[q] = "pending" => \E u \in Tasks : run[u] = q /\ Starting(u)
        BY <2>1 DEF Driven, Starting
      <3> QED BY <1>1, <1>3, <2>1, <3>1
    <2> QED BY <2>2, <2>3 DEF Driven, Starting
  <1>5. Awaited'
    BY <1>1, <1>3 DEF Cared, Awaited
  <1> QED BY <1>4, <1>5 DEF Cared

\* Task t opens review v on its run and waits for it.
LEMMA OpenDriven ==
  ASSUME SoleWaiter, Cared, snapshot \in Snapshot,
         NEW t \in Tasks, OthersSame(t), NEW v \in Reviews, run[t] \in Runs, run'[t] = run[t],
         snapshot.reviews[v].state = "none",
         snapshot' = Snap([snapshot.status EXCEPT ![run[t]] = "awaiting_review"],
                          [snapshot.reviews EXCEPT ![v] = [run |-> run[t], state |-> "pending"]],
                          snapshot.trail),
         pc[t] \notin {"register", "parked"}, pc'[t] = "register", review'[t] = v
  PROVE  Cared'
  <1> DEFINE r == run[t]
  <1>1. /\ snapshot'.reviews[v] = [run |-> r, state |-> "pending"]
        /\ \A w \in Reviews : w # v => snapshot'.reviews[w] = snapshot.reviews[w]
        /\ snapshot'.status[r] = "awaiting_review"
        /\ \A q \in Runs : q # r => snapshot'.status[q] = snapshot.status[q]
    BY DEF Snap, Snapshot
  <1>2. ApprovalsKept
    BY <1>1 DEF ApprovalsKept
  <1>3. \A u \in Tasks : u # t =>
          /\ run'[u] = run[u]
          /\ Driving(u) => Driving(u)'
          /\ Starting(u) => Starting(u)'
          /\ \A w \in Reviews : Waits(u, w) => Waits(u, w)'
    BY <1>2, StillDriving DEF OthersSame
  <1>4. ASSUME NEW q \in NativeRuns PROVE Driven(q)'
    <2>1. CASE q = r
      BY <1>1, <2>1 DEF Driven
    <2>2. CASE q # r
      <3>1. snapshot'.status[q] = snapshot.status[q]
        BY <1>1, <1>4, <2>2 DEF NativeRuns
      <3>2. /\ snapshot.status[q] = "running" => \E u \in Tasks : run[u] = q /\ Driving(u)
            /\ snapshot.status[q] = "pending" => \E u \in Tasks : run[u] = q /\ Starting(u)
        BY <1>4 DEF Cared, Driven, Starting
      <3>3. \A u \in Tasks : run[u] = q => u # t
        BY <2>2
      <3>4. snapshot'.status[q] = "running" => \E u \in Tasks : run'[u] = q /\ Driving(u)'
        BY <1>3, <3>1, <3>2, <3>3
      <3>5. snapshot'.status[q] = "pending" => \E u \in Tasks : run'[u] = q /\ Starting(u)'
        BY <1>3, <3>1, <3>2, <3>3
      <3> QED BY <3>4, <3>5 DEF Driven, Starting
    <2> QED BY <2>1, <2>2
  <1>5. Awaited'
    <2> SUFFICES ASSUME NEW w \in Reviews, snapshot'.reviews[w].state = "pending",
                        snapshot'.reviews[w].run \in NativeRuns
                 PROVE  \E u \in Tasks : Waits(u, w)' /\ run'[u] = snapshot'.reviews[w].run
      BY DEF Awaited
    <2>1. CASE w = v
      <3>1. Waits(t, w)' /\ run'[t] = snapshot'.reviews[w].run
        BY <1>1, <2>1 DEF Waits
      <3> QED BY <3>1
    <2>2. CASE w # v
      <3>1. PICK u \in Tasks : Waits(u, w) /\ run[u] = snapshot.reviews[w].run
        BY <1>1, <2>2 DEF Cared, Awaited
      <3>2. u # t
        BY <3>1 DEF Waits
      <3> QED BY <1>1, <1>3, <2>2, <3>1, <3>2
    <2> QED BY <2>1, <2>2
  <1> QED BY <1>4, <1>5 DEF Cared

\* The host decides review v: an approval of a native run's review makes its
\* waiter the driver.
LEMMA ResolveDriven ==
  ASSUME SoleWaiter, Cared, snapshot \in Snapshot,
         UNCHANGED <<pc, run, review, result>>,
         NEW r \in Runs, NEW v \in Reviews, NEW d \in Decision,
         snapshot.reviews[v] = [run |-> r, state |-> "pending"],
         snapshot' = Resolved(r, v, d)
  PROVE  Cared'
  <1>1. /\ snapshot'.reviews = [snapshot.reviews EXCEPT ![v] = [run |-> r, state |-> d]]
        /\ snapshot'.status =
             [snapshot.status EXCEPT ![r] = IF d = "approved" THEN "running" ELSE @]
    BY DEF Resolved, Snap
  <1>2. /\ snapshot'.reviews[v].state = d
        /\ \A w \in Reviews : w # v => snapshot'.reviews[w] = snapshot.reviews[w]
    BY <1>1 DEF Snapshot
  <1>3. /\ \A q \in Runs : q # r => snapshot'.status[q] = snapshot.status[q]
        /\ d # "approved" => snapshot'.status[r] = snapshot.status[r]
    BY <1>1 DEF Snapshot
  <1>4. ApprovalsKept
    BY <1>2 DEF ApprovalsKept
  <1>5. \A u \in Tasks :
          /\ Driving(u) => Driving(u)'
          /\ Starting(u) => Starting(u)'
          /\ \A w \in Reviews : Waits(u, w) => Waits(u, w)'
    BY <1>4, StillDriving
  <1>6. ASSUME NEW q \in NativeRuns PROVE Driven(q)'
    <2>1. CASE q = r /\ d = "approved"
      <3>1. snapshot'.status[q] = "running"
        BY <1>1, <2>1 DEF Snapshot
      <3>2. PICK u \in Tasks : Waits(u, v) /\ run[u] = r
        BY <1>6, <2>1 DEF Cared, Awaited
      <3>3. Driving(u)' /\ run'[u] = q
        BY <1>2, <2>1, <3>2 DEF Waits, Driving
      <3> QED BY <3>1, <3>3 DEF Driven
    <2>2. CASE q # r \/ d # "approved"
      <3>1. snapshot'.status[q] = snapshot.status[q]
        BY <1>3, <1>6, <2>2 DEF NativeRuns
      <3>2. /\ snapshot.status[q] = "running" => \E u \in Tasks : run[u] = q /\ Driving(u)
            /\ snapshot.status[q] = "pending" => \E u \in Tasks : run[u] = q /\ Starting(u)
        BY <1>6 DEF Cared, Driven, Starting
      <3>3. snapshot'.status[q] = "running" => \E u \in Tasks : run'[u] = q /\ Driving(u)'
        BY <1>5, <3>1, <3>2
      <3>4. snapshot'.status[q] = "pending" => \E u \in Tasks : run'[u] = q /\ Starting(u)'
        BY <1>5, <3>1, <3>2
      <3> QED BY <3>3, <3>4 DEF Driven, Starting
    <2> QED BY <2>1, <2>2
  <1>7. Awaited'
    <2> SUFFICES ASSUME NEW w \in Reviews, snapshot'.reviews[w].state = "pending",
                        snapshot'.reviews[w].run \in NativeRuns
                 PROVE  \E u \in Tasks : Waits(u, w)' /\ run'[u] = snapshot'.reviews[w].run
      BY DEF Awaited
    <2>1. w # v
      BY <1>2 DEF Decision
    <2>2. PICK u \in Tasks : Waits(u, w) /\ run[u] = snapshot.reviews[w].run
      BY <1>2, <2>1 DEF Cared, Awaited
    <2> QED BY <1>2, <1>5, <2>1, <2>2
  <1> QED BY <1>6, <1>7 DEF Cared

\* A restart leaves nothing running, pending or under review.
LEMMA RestartDriven ==
  ASSUME disk \in Snapshot, rehydrate
  PROVE  Cared'
  <1>1. /\ \A r \in Runs : snapshot'.status[r] \notin {"running", "pending"}
        /\ \A v \in Reviews : snapshot'.reviews[v].state = "none"
    BY DEF rehydrate, Rehydrated, Snap, NoReview
  <1> QED BY <1>1 DEF Cared, Awaited, Driven, NativeRuns

-----------------------------------------------------------------------------
\* What Goto and Return leave alone.
LEMMA GotoFacts ==
  ASSUME TaskTypeOK, NEW t \in Tasks, NEW w, Goto(t, w)
  PROVE  pc'[t] = w /\ \A u \in Tasks : u # t => pc'[u] = pc[u]
  BY DEF TaskTypeOK, Goto

LEMMA ReturnFacts ==
  ASSUME TaskTypeOK, NEW t \in Tasks, NEW w, NEW res, Return(t, res, w)
  PROVE  /\ pc'[t] = w /\ result'[t] = res
         /\ \A u \in Tasks : u # t => pc'[u] = pc[u] /\ result'[u] = result[u]
  BY DEF TaskTypeOK, Goto, Return

\* A task step that leaves the snapshot alone.
LEMMA LocalStepDriven ==
  ASSUME FullInv, ~SaveMayFail, NEW t \in Tasks,
         \/ ResumeRead(t) \/ ResumeRefused(t) \/ PrologueFails(t) \/ MarkRead(t)
         \/ MarkRefused(t) \/ Turn(t) \/ Llm(t) \/ TerminalTool(t) \/ ToolsDone(t)
         \/ OpenRefused(t) \/ Register(t) \/ Woken(t) \/ SessionDone(t)
         \/ FinishRead(t) \/ Returned(t) \/ Flush(t, TRUE) \/ Reflush(t, TRUE)
  PROVE  Cared'
  <1>1. SoleWaiter /\ Cared /\ TaskTypeOK
    BY DEF FullInv, LifeInv, TaskInv, DrivenInv, Cared
  <1>2. SUFFICES
          /\ snapshot' = snapshot /\ run' = run /\ OthersSame(t)
          /\ run[t] \in NativeRuns =>
               /\ Status(t) = "running" /\ Driving(t) => Driving(t)'
               /\ Status(t) = "pending" /\ Starting(t) => Starting(t)'
               /\ \A v \in Reviews :
                    Waits(t, v) /\ snapshot.reviews[v].state = "pending" => Waits(t, v)'
    BY <1>1, <1>2, LocalDriven
  <1>3. ASSUME NEW w, Goto(t, w), UNCHANGED <<run, review, result>>
        PROVE  OthersSame(t) /\ pc'[t] = w
    BY <1>1, <1>3, GotoFacts DEF OthersSame
  <1>4. ASSUME NEW w, NEW res, Return(t, res, w), UNCHANGED <<run, review>>
        PROVE  OthersSame(t) /\ pc'[t] = w /\ result'[t] = res
    BY <1>1, <1>4, ReturnFacts DEF OthersSame
  <1>5. CASE \/ ResumeRead(t) \/ ResumeRefused(t) \/ PrologueFails(t) \/ SessionDone(t)
             \/ Returned(t) \/ Reflush(t, TRUE)
    <2>1. snapshot' = snapshot /\ run' = run /\ review' = review /\ result' = result
      BY <1>5 DEF ResumeRead, ResumeRefused, PrologueFails, SessionDone, Returned, Reflush,
                  save_other, save, authVars
    <2>2. PICK w : /\ Goto(t, w)
                   /\ \/ pc[t] \in {"resume", "resuming", "returned", "reflush"}
                      \/ pc[t] = "prologue" /\ w = "fail"
                      \/ pc[t] = "session" /\ w \in {"complete", "fail"}
      BY <1>5 DEF ResumeRead, ResumeRefused, PrologueFails, SessionDone, Returned, Reflush
    <2>3. OthersSame(t) /\ pc'[t] = w
      BY <1>3, <2>1, <2>2
    <2> QED BY <2>1, <2>2, <2>3 DEF Driving, Starting, Waits
  <1>6. CASE MarkRead(t)
    <2>1. snapshot' = snapshot /\ run' = run /\ review' = review /\ result' = result
      BY <1>6 DEF MarkRead, authVars
    <2>2. /\ pc[t] = "prologue"
          /\ Goto(t, IF Status(t) = "running" THEN FirstTurn(t) ELSE "mark")
      BY <1>6 DEF MarkRead
    <2>3. OthersSame(t) /\ pc'[t] = IF Status(t) = "running" THEN FirstTurn(t) ELSE "mark"
      BY <1>3, <2>1, <2>2
    <2> QED BY <2>1, <2>2, <2>3 DEF Driving, Starting, Waits, FirstTurn
  <1>7. CASE MarkRefused(t)
    <2>1. snapshot' = snapshot /\ run' = run /\ review' = review
      BY <1>7 DEF MarkRefused, authVars
    <2>2. OthersSame(t) /\ pc[t] = "mark" /\ Status(t) # "pending"
      BY <1>3, <1>4, <1>7, <2>1 DEF MarkRefused, Terminal
    <2> QED BY <2>1, <2>2 DEF Driving, Waits, NativeRuns
  <1>8. CASE Turn(t)
    <2>1. snapshot' = snapshot /\ run' = run /\ review' = review
      BY <1>8 DEF Turn, authVars
    <2>2. /\ pc[t] = "turn"
          /\ \/ Return(t, "error", "flush")
             \/ Status(t) # "running" /\ (Return(t, "cancelled", "flush") \/ Return(t, "ok", "flush"))
             \/ Goto(t, "llm") /\ result' = result
      BY <1>8 DEF Turn
    <2>3. /\ OthersSame(t)
          /\ \/ pc'[t] = "flush" /\ result'[t] = "error"
             \/ Status(t) # "running"
             \/ pc'[t] = "llm"
      BY <1>3, <1>4, <2>1, <2>2
    <2> QED BY <2>1, <2>2, <2>3 DEF Driving, Starting, Waits
  <1>9. CASE Llm(t) \/ ToolsDone(t) \/ OpenRefused(t)
    <2>1. snapshot' = snapshot /\ run' = run /\ review' = review
      BY <1>9 DEF Llm, ToolsDone, OpenRefused, authVars
    <2>2. /\ pc[t] \in {"llm", "tools"}
          /\ \/ Return(t, "error", "flush") \/ Return(t, "ok", "flush")
             \/ (Goto(t, "turn") \/ Goto(t, "tools")) /\ result' = result
      BY <1>9 DEF Llm, ToolsDone, OpenRefused
    <2>3. /\ OthersSame(t)
          /\ \/ pc'[t] = "flush" /\ result'[t] \in {"ok", "error"}
             \/ pc'[t] \in {"turn", "tools"}
      BY <1>3, <1>4, <2>1, <2>2
    <2> QED BY <2>1, <2>2, <2>3 DEF Driving, Starting, Waits
  <1>10. CASE TerminalTool(t)
    BY <1>10 DEF TerminalTool, authVars, OthersSame, Driving, Starting, Waits
  <1>11. CASE Register(t)
    <2>1. /\ snapshot' = snapshot /\ run' = run /\ review' = review /\ result' = result
          /\ pc[t] = "register"
          /\ \/ Goto(t, "parked")
             \/ run[t] \in ExtensionRuns /\ Goto(t, "session")
      BY <1>11 DEF Register, register_completion
    <2>2. /\ OthersSame(t)
          /\ pc'[t] = "parked" \/ run[t] \in ExtensionRuns
      BY <1>3, <2>1
    <2> QED BY <2>1, <2>2 DEF Driving, Starting, Waits, NativeRuns
  <1>12. CASE Woken(t)
    <2>1. snapshot' = snapshot /\ run' = run /\ review' = review
      BY <1>12 DEF Woken, authVars
    <2>2. /\ pc[t] = "parked" /\ completion[review[t]] \in Decision
          /\ \/ completion[review[t]] # "deferred" /\ Goto(t, "tools") /\ result' = result
             \/ completion[review[t]] = "deferred" /\ Return(t, "cancelled", "flush")
      BY <1>12 DEF Woken, Decision
    <2>3. /\ OthersSame(t)
          /\ completion[review[t]] = "deferred" \/ pc'[t] = "tools"
      BY <1>3, <1>4, <2>1, <2>2
    <2>4. review[t] \in Reviews
      BY <1>1, <2>2 DEF SoleWaiter
    <2>5. snapshot.reviews[review[t]].state = completion[review[t]]
      BY <2>2, <2>4 DEF FullInv, DrivenInv, Answers, Decision
    <2>6. \A v \in Reviews : Waits(t, v) => snapshot.reviews[v].state # "pending"
      BY <2>2, <2>5 DEF Waits, Decision
    <2>7. Driving(t) /\ run[t] \in NativeRuns => completion[review[t]] = "approved"
      BY <2>2, <2>5 DEF Driving, NativeRuns
    <2>8. Driving(t) /\ run[t] \in NativeRuns => Driving(t)'
      BY <2>3, <2>7 DEF Driving
    <2>9. ~Starting(t)
      BY <2>2 DEF Starting
    <2> QED BY <2>1, <2>3, <2>6, <2>8, <2>9
  <1>13. CASE FinishRead(t)
    <2>1. /\ snapshot' = snapshot /\ run' = run /\ review' = review /\ result' = result
          /\ pc[t] \in {"complete", "fail", "sweep"}
      BY <1>13 DEF FinishRead, authVars
    <2>2. PICK w : /\ Goto(t, w)
                   /\ Status(t) \in {"running", "pending"} =>
                        /\ pc[t] = "complete" => w = "completing"
                        /\ pc[t] = "fail" => w = "failing"
      <3>1. CASE Status(t) \in Terminal
        BY <1>13, <3>1 DEF FinishRead, Terminal
      <3>2. CASE Status(t) \notin Terminal
        BY <1>13, <3>2 DEF FinishRead
      <3> QED BY <3>1, <3>2
    <2>3. OthersSame(t) /\ pc'[t] = w
      BY <1>3, <2>1, <2>2
    <2> QED BY <2>1, <2>2, <2>3 DEF Driving, Starting, Waits
  <1>14. CASE Flush(t, TRUE)
    <2>1. /\ snapshot' = snapshot /\ run' = run /\ review' = review /\ result' = result
          /\ pc[t] = "flush"
      BY <1>14 DEF Flush, save_other, save
    <2>2. PICK w : /\ Goto(t, w)
                   /\ result[t] = "ok" => w = "complete"
                   /\ result[t] = "error" => w = "fail"
      BY <1>14 DEF Flush
    <2>3. OthersSame(t) /\ pc'[t] = w
      BY <1>3, <2>1, <2>2
    <2> QED BY <2>1, <2>2, <2>3 DEF Driving, Starting, Waits
  <1> QED BY <1>5, <1>6, <1>7, <1>8, <1>9, <1>10, <1>11, <1>12, <1>13, <1>14

\* A task step that sets the status of its run or opens a review.
LEMMA SavingStepDriven ==
  ASSUME FullInv, ~SaveMayFail, NEW t \in Tasks,
         \/ ResumeMark(t, TRUE) \/ MarkRunning(t, TRUE)
         \/ Complete(t, TRUE) \/ Fail(t, TRUE)
         \/ \E v \in Reviews : OpenReview(t, v, TRUE) \/ BridgeReview(t, v, TRUE)
  PROVE  Cared'
  <1>1. SoleWaiter /\ Cared /\ TaskTypeOK /\ snapshot \in Snapshot
    BY DEF FullInv, LifeInv, TaskInv, DrivenInv, Cared, AuthInv, AuthTypeOK
  <1>2. pc[t] # "idle" => run[t] \in Runs
    BY DEF FullInv, LifeInv, TaskInv, HasRun
  <1>3. ASSUME NEW w, Goto(t, w), UNCHANGED <<run, review, result>>
        PROVE  OthersSame(t) /\ pc'[t] = w
    BY <1>1, <1>3, GotoFacts DEF OthersSame
  <1>4. CASE ResumeMark(t, TRUE) \/ MarkRunning(t, TRUE)
    <2>1. /\ snapshot' = WithStatus(run[t], "running")
          /\ run' = run /\ review' = review /\ result' = result
          /\ pc[t] \in {"resuming", "mark"}
      BY <1>4 DEF ResumeMark, MarkRunning, mark_running, transition_run, save
    <2>2. PICK w \in {"prologue", "turn", "session"} : Goto(t, w)
      BY <1>4 DEF ResumeMark, MarkRunning, FirstTurn
    <2>3. OthersSame(t) /\ Driving(t)'
      BY <1>3, <2>1, <2>2 DEF Driving
    <2> QED BY <1>1, <1>2, <2>1, <2>3, StatusDriven
  <1>5. CASE Complete(t, TRUE) \/ Fail(t, TRUE)
    <2>1. PICK st \in {"succeeded", "failed"} : snapshot' = WithStatus(run[t], st)
      BY <1>5 DEF Complete, Fail, complete, fail, transition_run, save
    <2>2. /\ run' = run /\ review' = review /\ result' = result
          /\ pc[t] \in {"completing", "failing", "sweeping"}
      BY <1>5 DEF Complete, Fail
    <2>3. PICK w : Goto(t, w)
      BY <1>5 DEF Complete, Fail
    <2>4. OthersSame(t)
      BY <1>3, <2>2, <2>3
    <2> QED BY <1>1, <1>2, <2>1, <2>2, <2>4, StatusDriven
  <1>6. ASSUME NEW v \in Reviews, OpenReview(t, v, TRUE) \/ BridgeReview(t, v, TRUE)
        PROVE  Cared'
    <2>1. /\ open_review(run[t], v, TRUE) /\ Goto(t, "register")
          /\ run' = run /\ result' = result /\ review' = [review EXCEPT ![t] = v]
          /\ pc[t] \in {"tools", "session"}
      BY <1>6 DEF OpenReview, BridgeReview
    <2>2. snapshot.reviews[v].state = "none"
      BY <2>1 DEF open_review, FullInv, LifeInv, AuthInv, Minted
    <2>3. OthersSame(t) /\ pc'[t] = "register" /\ review'[t] = v
      BY <1>1, <2>1, GotoFacts DEF OthersSame, TaskTypeOK
    <2>4. snapshot' = Snap([snapshot.status EXCEPT ![run[t]] = "awaiting_review"],
                           [snapshot.reviews EXCEPT ![v] = [run |-> run[t], state |-> "pending"]],
                           snapshot.trail)
      BY <2>1 DEF open_review, save
    <2> QED BY <1>1, <1>2, <2>1, <2>2, <2>3, <2>4, OpenDriven
  <1> QED BY <1>4, <1>5, <1>6

\* Nothing Cared looks at moves.
LEMMA QuietDriven ==
  ASSUME Cared, UNCHANGED <<snapshot, pc, run, review, result>>
  PROVE  Cared'
  <1>1. \A u \in Tasks :
          /\ Driving(u) => Driving(u)'
          /\ \A v \in Reviews : Waits(u, v) => Waits(u, v)'
    BY DEF Driving, Waits
  <1>2. Awaited'
    BY <1>1 DEF Cared, Awaited
  <1>3. ASSUME NEW r \in NativeRuns PROVE Driven(r)'
    BY <1>1, <1>3 DEF Cared, Driven
  <1> QED BY <1>2, <1>3 DEF Cared

\* A step of the host.
LEMMA HostStepDriven ==
  ASSUME FullInv, ~SaveMayFail, HostStep
  PROVE  Cared'
  <1>1. SoleWaiter /\ Cared /\ TaskTypeOK /\ snapshot \in Snapshot
    BY DEF FullInv, LifeInv, TaskInv, DrivenInv, Cared, AuthInv, AuthTypeOK
  <1>2. SaveOutcomes = {TRUE}
    BY DEF SaveOutcomes
  <1>3. ASSUME NEW r \in Runs, CancelRun(r, TRUE) \/ PauseRun(r, TRUE) PROVE Cared'
    <2>1. /\ UNCHANGED <<pc, run, review, result>>
          /\ snapshot' = WithStatus(r, "cancelled") \/ snapshot' = WithStatus(r, "paused")
      BY <1>3 DEF CancelRun, PauseRun, cancel_run, pause_run, transition_run, save, taskVars
    <2>2. CASE snapshot' = WithStatus(r, "cancelled")
      BY <1>1, <2>1, <2>2, HostDriven
    <2>3. CASE snapshot' = WithStatus(r, "paused")
      BY <1>1, <2>1, <2>3, HostDriven
    <2> QED BY <2>1, <2>2, <2>3
  <1>4. ASSUME NEW r \in Runs, NEW v \in Reviews, NEW d \in Decision,
               ResolveReview(r, v, d, TRUE)
        PROVE  Cared'
    <2>1. /\ UNCHANGED <<pc, run, review, result>>
          /\ snapshot.reviews[v] = [run |-> r, state |-> "pending"]
          /\ snapshot' = Resolved(r, v, d)
      BY <1>4 DEF ResolveReview, resolve_review, save, taskVars
    <2> QED BY <1>1, <2>1, ResolveDriven
  <1>5. ASSUME NEW r \in Runs, NEW t \in Tasks, NEW from, NEW w, Spawn(t, r, from, w)
        PROVE  OthersSame(t) /\ run'[t] = r /\ pc'[t] = w /\ pc[t] = "idle"
    BY <1>1, <1>5, GotoFacts DEF Spawn, OthersSame, TaskTypeOK
  <1>6. ASSUME NEW r \in Runs, NEW t \in Tasks, NEW from \in Origin,
               StartRun(t, r, from, TRUE)
        PROVE  Cared'
    <2>1. snapshot' = WithStatus(r, "pending") /\ Spawn(t, r, from, "prologue")
      BY <1>6 DEF StartRun, start_run, save
    <2>2. Starting(t)' /\ OthersSame(t) /\ run'[t] = r /\ pc[t] = "idle"
      BY <1>5, <2>1 DEF Starting
    <2> QED BY <1>1, <2>1, <2>2, StatusDriven
  <1>7. ASSUME NEW r \in Runs, NEW t \in Tasks, ResumeRun(t, r) PROVE Cared'
    <2>1. snapshot' = snapshot /\ Spawn(t, r, "control", "resume")
      BY <1>7 DEF ResumeRun, authVars
    <2>2. OthersSame(t) /\ pc[t] = "idle"
      BY <1>5, <2>1
    <2>3. ~Driving(t) /\ ~Starting(t) /\ \A v \in Reviews : ~Waits(t, v)
      BY <2>2 DEF Driving, Starting, Waits
    <2> QED BY <1>1, <2>1, <2>2, <2>3, LocalDriven
  <1>8. ASSUME OtherSave(TRUE) PROVE Cared'
    BY <1>1, <1>8, QuietDriven DEF OtherSave, save_other, save, taskVars
  <1> QED BY <1>2, <1>3, <1>4, <1>6, <1>7, <1>8 DEF HostStep

LEMMA CaredStep == FullInv /\ ~SaveMayFail /\ [Next]_vars => Cared'
  <1> SUFFICES ASSUME FullInv, ~SaveMayFail, [Next]_vars PROVE Cared'
    OBVIOUS
  <1>1. Cared /\ disk \in Snapshot
    BY DEF FullInv, LifeInv, DrivenInv, Cared, AuthInv, AuthTypeOK
  <1>2. SaveOutcomes = {TRUE}
    BY DEF SaveOutcomes
  <1>3. ASSUME NEW t \in Tasks, TaskStep(t) PROVE Cared'
    BY <1>2, <1>3, LocalStepDriven, SavingStepDriven DEF TaskStep
  <1>4. CASE HostStep
    BY <1>4, HostStepDriven
  <1>5. ASSUME NEW v \in Reviews, BridgeReply(v) PROVE Cared'
    BY <1>1, <1>5, QuietDriven DEF BridgeReply, authVars
  <1>6. CASE Restart
    BY <1>1, <1>6, RestartDriven DEF Restart
  <1>7. CASE UNCHANGED vars
    BY <1>1, <1>7, QuietDriven DEF vars, authVars, taskVars
  <1> QED BY <1>3, <1>4, <1>5, <1>6, <1>7 DEF Next

LEMMA FullInit == Init => FullInv
  <1> SUFFICES ASSUME Init PROVE FullInv
    OBVIOUS
  <1>1. /\ \A r \in Runs : snapshot.status[r] = "none"
        /\ \A v \in Reviews : snapshot.reviews[v].state = "none" /\ completion[v] = "none"
    BY DEF Init, AuthInit, EmptySnapshot, Snap, NoReview
  <1>2. Answers /\ Awaited
    BY <1>1 DEF Answers, Awaited
  <1>3. \A r \in NativeRuns : Driven(r)
    BY <1>1 DEF Driven, NativeRuns
  <1> QED BY <1>2, <1>3, LifeInitInv DEF FullInv, DrivenInv

LEMMA FullStep == FullInv /\ [Next]_vars => FullInv'
  <1> SUFFICES ASSUME FullInv, [Next]_vars PROVE FullInv'
    OBVIOUS
  <1>1. LifeInv'
    BY LifeStep DEF FullInv
  <1>2. [AuthNext]_authVars
    BY RefStep DEF FullInv
  <1>3. Answers'
    BY <1>2, AnswersStep DEF FullInv, LifeInv, DrivenInv
  <1>4. ~SaveMayFail => Cared'
    BY CaredStep
  <1> QED BY <1>1, <1>3, <1>4 DEF FullInv, DrivenInv, Cared

\* While saves succeed, no native run is left Running or Pending without a task
\* that moves it on, for any number of runs, reviews, tasks and turns.
THEOREM DrivenCorrect == Spec => []NoOrphanedRun
  <1>1. FullInv => NoOrphanedRun
    BY DEF FullInv, DrivenInv, NoOrphanedRun, NativeRuns
  <1> QED BY <1>1, FullInit, FullStep, PTL DEF Spec
=============================================================================
