-------------------------- MODULE AuthorityRecords --------------------------
(***************************************************************************)
(* What the authority's snapshot keeps beside the status of runs and the   *)
(* reviews of RunAuthority: spaces, sessions with the runs that belong to  *)
(* them and their names, the inputs posted to a run and the tasks it       *)
(* dispatched (runtime/authority.rs, runtime/state.rs).  Every operation   *)
(* holds the mutex, changes the snapshot in memory and saves all of it;    *)
(* the save may fail.  The tasks are kept twice, in the snapshot and in a  *)
(* tree of the process.                                                    *)
(*                                                                         *)
(* Fields that are only shown (goal, flow, fork point, documents) are left *)
(* out: their operations are the save they make.                           *)
(***************************************************************************)
EXTENDS Naturals, FiniteSets

CONSTANTS SpaceIds, ChatIds, RecordRuns, TaskIds,
          MaxInputs, MaxFails, MaxReboots  \* bounds

Unknown == "unknown"

ASSUME RecordsAssumption ==
    /\ Unknown \notin SpaceIds \cup ChatIds
    /\ MaxInputs \in Nat /\ MaxFails \in Nat /\ MaxReboots \in Nat

VARIABLES
    mem, disk,   \* the snapshot: in memory, in its file
    trees,       \* task_trees: the process's own copy of the tasks
    asking,      \* sessions for which the model is asked for a name
    posted,        \* ghost: inputs whose PostInput was answered with success
    renamed,     \* ghost: sessions whose rename was answered with success
    fails, reboots

recVars == <<mem, disk, trees, asking, posted, renamed, fails, reboots>>

TaskStatus == {"Running", "Completed", "Failed"}
NoTask == Unknown
NoSessionRecord == [space |-> Unknown, runs |-> {}, name |-> "none"]
NoRunRecord == [space |-> Unknown, session |-> Unknown, over |-> FALSE, inputs |-> 0]

Snapshot == [
    spaces : SUBSET SpaceIds,
    sessions : [ChatIds -> [space : SpaceIds \cup {Unknown}, runs : SUBSET RecordRuns,
                            name : {"none", "auto", "manual"}]],
    runs : [RecordRuns -> [space : SpaceIds \cup {Unknown}, session : ChatIds \cup {Unknown},
                           over : BOOLEAN, inputs : 0..MaxInputs]],
    tasks : [RecordRuns -> [TaskIds -> TaskStatus \cup {NoTask}]]]

RecTypeOK ==
    /\ mem \in Snapshot /\ disk \in Snapshot
    /\ trees \in [RecordRuns -> [TaskIds -> TaskStatus \cup {NoTask}]]
    /\ asking \subseteq ChatIds /\ renamed \subseteq ChatIds /\ posted \in [RecordRuns -> 0..MaxInputs]
    /\ fails \in 0..MaxFails /\ reboots \in 0..MaxReboots

NoTrees == [r \in RecordRuns |-> [t \in TaskIds |-> NoTask]]

RecInit ==
    /\ mem = [spaces |-> {}, sessions |-> [s \in ChatIds |-> NoSessionRecord],
              runs |-> [r \in RecordRuns |-> NoRunRecord], tasks |-> NoTrees]
    /\ disk = mem /\ trees = NoTrees
    /\ asking = {} /\ posted = [r \in RecordRuns |-> 0] /\ renamed = {} /\ fails = 0 /\ reboots = 0

HasSession(s) == mem.sessions[s].space # Unknown
HasRun(r) == mem.runs[r].space # Unknown

\* The end of every operation: the snapshot is saved, or the save fails and
\* the change stays in memory.
Saved(ok) ==
    \/ ok /\ disk' = mem' /\ UNCHANGED fails
    \/ ~ok /\ fails < MaxFails /\ fails' = fails + 1 /\ UNCHANGED disk

-----------------------------------------------------------------------------
(* Spaces and sessions                                                     *)

upsert_space(w) ==
    /\ mem' = [mem EXCEPT !.spaces = @ \cup {w}]
    /\ \E ok \in BOOLEAN : Saved(ok)
    /\ UNCHANGED <<trees, asking, posted, renamed, reboots>>

\* A session is made for a known space only; it may come with a name, which is
\* not the user's.
get_or_create_session(s, w) ==
    /\ w \in mem.spaces
    /\ \E n \in {"none", "auto"} :
          mem' = IF HasSession(s) THEN mem ELSE [mem EXCEPT !.sessions[s].space = w, !.sessions[s].name = n]
    /\ \E ok \in BOOLEAN : Saved(ok)
    /\ UNCHANGED <<trees, asking, posted, renamed, reboots>>

attach_flow_run_to_session(s) ==
    /\ HasSession(s) /\ UNCHANGED mem
    /\ \E ok \in BOOLEAN : Saved(ok)
    /\ UNCHANGED <<trees, asking, posted, renamed, reboots>>

set_session_fork_point(s) == attach_flow_run_to_session(s)

\* The name the user gives.
rename_session(s) ==
    /\ HasSession(s)
    /\ mem' = [mem EXCEPT !.sessions[s].name = "manual"]
    /\ \E ok \in BOOLEAN : Saved(ok) /\ renamed' = IF ok THEN renamed \cup {s} ELSE renamed
    /\ UNCHANGED <<trees, asking, posted, reboots>>

\* The end of a run asks whether its session has a name; if not, a task asks
\* the model for one.
session_needs_naming(s) ==
    /\ HasSession(s) /\ mem.sessions[s].name = "none"
    /\ asking' = asking \cup {s}
    /\ UNCHANGED <<mem, disk, trees, posted, renamed, fails, reboots>>

\* A slip: the answer of the model is taken whatever has happened meanwhile.
MAutoName(s) ==
    /\ s \in asking /\ asking' = asking \ {s}
    /\ mem' = [mem EXCEPT !.sessions[s].name = "auto"]
    /\ \E ok \in BOOLEAN : Saved(ok)
    /\ UNCHANGED <<trees, posted, renamed, reboots>>
auto_name_session(s) ==
    /\ s \in asking /\ asking' = asking \ {s}
    /\ \/ /\ mem.sessions[s].name # "manual"
          /\ mem' = [mem EXCEPT !.sessions[s].name = "auto"]
          /\ \E ok \in BOOLEAN : Saved(ok)
       \/ mem.sessions[s].name = "manual" /\ UNCHANGED <<mem, disk, fails>>
    /\ UNCHANGED <<trees, posted, renamed, reboots>>

-----------------------------------------------------------------------------
(* Runs                                                                    *)

\* start_run_with_session: the session, when there is one of that id, and the
\* run are written together.
start_run_with_session(r, w, s) ==
    /\ ~HasRun(r) /\ w \in mem.spaces
    /\ mem' = [mem EXCEPT !.runs[r] = [NoRunRecord EXCEPT !.space = w, !.session = s],
                          !.sessions = [i \in ChatIds |-> IF i = s /\ HasSession(i)
                                                          THEN [mem.sessions[i] EXCEPT !.runs = @ \cup {r}]
                                                          ELSE mem.sessions[i]]]
    /\ \E ok \in BOOLEAN : Saved(ok)
    /\ UNCHANGED <<trees, asking, posted, renamed, reboots>>

\* set_run_flow_id, set_run_goal, append_produced_doc.
AnnotateRun(r) ==
    /\ HasRun(r) /\ UNCHANGED mem
    /\ \E ok \in BOOLEAN : Saved(ok)
    /\ UNCHANGED <<trees, asking, posted, renamed, reboots>>

\* transition_run into a terminal status.
EndRecord(r) ==
    /\ HasRun(r) /\ ~mem.runs[r].over
    /\ mem' = [mem EXCEPT !.runs[r].over = TRUE]
    /\ \E ok \in BOOLEAN : Saved(ok)
    /\ UNCHANGED <<trees, asking, posted, renamed, reboots>>

\* PostInput: refused once the run is over.
post_input(r) ==
    /\ HasRun(r) /\ ~mem.runs[r].over /\ mem.runs[r].inputs < MaxInputs
    /\ mem' = [mem EXCEPT !.runs[r].inputs = @ + 1]
    /\ \E ok \in BOOLEAN : Saved(ok) /\ posted' = IF ok THEN [posted EXCEPT ![r] = mem'.runs[r].inputs] ELSE posted
    /\ UNCHANGED <<trees, asking, renamed, reboots>>

\* invoke_agent and invoke_flow: the task goes into both trees.
start_child_task(r, t) ==
    /\ HasRun(r) /\ mem.tasks[r][t] = NoTask
    /\ trees' = [trees EXCEPT ![r][t] = "Running"]
    /\ mem' = [mem EXCEPT !.tasks[r][t] = "Running"]
    /\ \E ok \in BOOLEAN : Saved(ok)
    /\ UNCHANGED <<asking, posted, renamed, reboots>>

\* Each tree is updated where it has the task.
complete_child_task(r, t, status) ==
    /\ trees[r][t] = "Running"
    /\ trees' = [trees EXCEPT ![r][t] = status]
    /\ mem' = [mem EXCEPT !.tasks[r][t] = IF @ = NoTask THEN @ ELSE status]
    /\ \E ok \in BOOLEAN : Saved(ok)
    /\ UNCHANGED <<asking, posted, renamed, reboots>>

\* migrate_snapshot and rehydrate: the snapshot as it is on disk, with the
\* process's own tree empty.
Reboot ==
    /\ reboots < MaxReboots /\ reboots' = reboots + 1
    /\ mem' = disk /\ trees' = NoTrees /\ asking' = {}
    /\ UNCHANGED <<disk, posted, renamed, fails>>

-----------------------------------------------------------------------------
RecNext ==
    \/ Reboot
    \/ \E w \in SpaceIds : upsert_space(w)
    \/ \E s \in ChatIds :
        \/ attach_flow_run_to_session(s) \/ set_session_fork_point(s)
        \/ rename_session(s) \/ session_needs_naming(s) \/ auto_name_session(s)
        \/ \E w \in SpaceIds : get_or_create_session(s, w)
    \/ \E r \in RecordRuns :
        \/ AnnotateRun(r) \/ EndRecord(r) \/ post_input(r)
        \/ \E w \in SpaceIds, s \in ChatIds \cup {Unknown} : start_run_with_session(r, w, s)
        \/ \E t \in TaskIds : start_child_task(r, t) \/ \E c \in {"Completed", "Failed"} : complete_child_task(r, t, c)

RecSpec == RecInit /\ [][RecNext]_recVars

-----------------------------------------------------------------------------
(* Properties                                                              *)

\* The records hang together, in memory and on disk, whatever saves fail and
\* whenever the process restarts: sessions and runs are of known spaces, a run
\* listed by a session exists and names it, a task in the process's tree is the
\* one in the snapshot.  And what was acknowledged stays: an input of PostInput,
\* and the name the user gave, which a name asked of the model earlier and
\* answered later does not replace (start_run_with_session, post_input,
\* rename_session, auto_name_session, start_child_task).
RecordsHangTogether ==
    /\ \A snap \in {mem, disk} :
          /\ \A s \in ChatIds : snap.sessions[s].space \in snap.spaces \cup {Unknown}
          /\ \A r \in RecordRuns : snap.runs[r].space \in snap.spaces \cup {Unknown}
          /\ \A s \in ChatIds : \A r \in snap.sessions[s].runs :
                snap.runs[r].space # Unknown /\ snap.runs[r].session = s
          /\ \A r \in RecordRuns : snap.runs[r].inputs >= posted[r]
          /\ \A s \in renamed : snap.sessions[s].name = "manual"
    /\ \A r \in RecordRuns, t \in TaskIds : trees[r][t] # NoTask => mem.tasks[r][t] = trees[r][t]
=============================================================================
