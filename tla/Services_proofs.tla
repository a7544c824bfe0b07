---------------------------- MODULE Services_proofs --------------------------
(***************************************************************************)
(* Three services around a run, each for any number of what it serves.     *)
(*                                                                         *)
(* The records of the authority hang together (RecordsHangTogether).  That *)
(* is not inductive: a session that was renamed must be known not to be    *)
(* made anew, and a run that is started must be known to have no inputs    *)
(* yet.  Sound adds both.                                                  *)
(*                                                                         *)
(* No run is stranded without a task (NoStrandedRun).  What makes that     *)
(* inductive is that ids are handed out in order, so that a start never    *)
(* takes the id of a run that exists (Numbered), that a run that does not  *)
(* exist has no task, and that no supervisor has two live children: the    *)
(* one that ends wakes it, and the other would be left behind.             *)
(*                                                                         *)
(* A request carries a result for every call its run made                  *)
(* (OwnCallsAnswered).  ChatInv adds what a run owes while its tools run   *)
(* (Owed), and that nobody has calls of a run before its loop begins       *)
(* (Unheard): else the conversation it restores could hold some.           *)
(* Compaction cuts before a message of the user, which no unbroken         *)
(* conversation has between a call and its results (CutIsClean).           *)
(***************************************************************************)
EXTENDS AuthorityRecords, AgentRouting, ChatSession, RecursionLemmas, TLAPS

\* What holds of one snapshot, given the inputs p and the names n that were
\* acknowledged.
Spaces(m) ==
    /\ \A s \in ChatIds : m.sessions[s].space \in m.spaces \cup {Unknown}
    /\ \A r \in RecordRuns : m.runs[r].space \in m.spaces \cup {Unknown}
Listed(m) ==
    \A s \in ChatIds : \A r \in m.sessions[s].runs : m.runs[r].space # Unknown /\ m.runs[r].session = s
Inputs(m, p) ==
    \A r \in RecordRuns : m.runs[r].inputs >= p[r] /\ (m.runs[r].space = Unknown => m.runs[r].inputs = 0)
Names(m, n) ==
    \A s \in n : m.sessions[s].name = "manual" /\ m.sessions[s].space # Unknown
Sound(m, p, n) == Spaces(m) /\ Listed(m) /\ Inputs(m, p) /\ Names(m, n)

Trees == \A r \in RecordRuns, t \in TaskIds : trees[r][t] # NoTask => mem.tasks[r][t] = trees[r][t]

RecInv == RecTypeOK /\ Sound(mem, posted, renamed) /\ Sound(disk, posted, renamed) /\ Trees

SessionRecord == [space : SpaceIds \cup {Unknown}, runs : SUBSET RecordRuns, name : {"none", "auto", "manual"}]
RunRecord == [space : SpaceIds \cup {Unknown}, session : ChatIds \cup {Unknown}, over : BOOLEAN, inputs : 0..MaxInputs]

-----------------------------------------------------------------------------
(* The end of every operation.  *)

\* After a save, whether it succeeded or not, the file is sound: it holds the
\* new snapshot, or what it held, with nothing more acknowledged.
LEMMA SaveKeeps ==
    ASSUME RecInv, mem' \in Snapshot, Sound(mem', posted', renamed'), NEW ok \in BOOLEAN, Saved(ok),
           ok \/ (posted' = posted /\ renamed' = renamed)
    PROVE  disk' \in Snapshot /\ Sound(disk', posted', renamed') /\ fails' \in 0..MaxFails
<1>1. CASE ok
  BY <1>1 DEF Saved, RecInv, RecTypeOK
<1>2. CASE ~ok
  BY <1>2, RecordsAssumption DEF Saved, RecInv, RecTypeOK
<1> QED BY <1>1, <1>2

\* An operation that keeps the snapshot and the process's trees.
LEMMA SaveAgain ==
    ASSUME RecInv, UNCHANGED <<mem, trees, asking, posted, renamed, reboots>>, NEW ok \in BOOLEAN, Saved(ok)
    PROVE  RecInv'
<1>1. mem' \in Snapshot /\ Sound(mem', posted', renamed')
  BY DEF RecInv, RecTypeOK
<1>2. disk' \in Snapshot /\ Sound(disk', posted', renamed') /\ fails' \in 0..MaxFails
  BY <1>1, SaveKeeps
<1> QED BY <1>1, <1>2 DEF RecInv, RecTypeOK, Trees

\* A snapshot is made of its four parts.
LEMMA Parts ==
    ASSUME NEW m \in Snapshot
    PROVE  /\ m.spaces \subseteq SpaceIds /\ m.sessions \in [ChatIds -> SessionRecord]
           /\ m.runs \in [RecordRuns -> RunRecord]
           /\ m.tasks \in [RecordRuns -> [TaskIds -> TaskStatus \cup {NoTask}]]
           /\ m = [spaces |-> m.spaces, sessions |-> m.sessions, runs |-> m.runs, tasks |-> m.tasks]
BY DEF Snapshot, SessionRecord, RunRecord

\* And four parts of the right types make one.
LEMMA Whole ==
    ASSUME NEW a \in SUBSET SpaceIds, NEW b \in [ChatIds -> SessionRecord], NEW c \in [RecordRuns -> RunRecord],
           NEW d \in [RecordRuns -> [TaskIds -> TaskStatus \cup {NoTask}]]
    PROVE  [spaces |-> a, sessions |-> b, runs |-> c, tasks |-> d] \in Snapshot
BY DEF Snapshot, SessionRecord, RunRecord

-----------------------------------------------------------------------------
\* The initial snapshot is empty.
LEMMA InitRec == RecInit => RecInv
<1> SUFFICES ASSUME RecInit PROVE RecInv
  OBVIOUS
<1>1. NoTrees \in [RecordRuns -> [TaskIds -> TaskStatus \cup {NoTask}]]
  BY DEF NoTrees
<1>2. [s \in ChatIds |-> NoSessionRecord] \in [ChatIds -> SessionRecord]
  BY DEF NoSessionRecord, SessionRecord
<1>3. [r \in RecordRuns |-> NoRunRecord] \in [RecordRuns -> RunRecord]
  BY RecordsAssumption DEF NoRunRecord, RunRecord
<1>4. mem \in Snapshot
  BY <1>1, <1>2, <1>3, Whole DEF RecInit
<1>5. Sound(mem, posted, renamed)
  BY DEF RecInit, Sound, Spaces, Listed, Inputs, Names, NoSessionRecord, NoRunRecord
<1>6. RecTypeOK
  BY <1>1, <1>4, RecordsAssumption DEF RecInit, RecTypeOK
<1>7. Trees
  BY DEF RecInit, Trees, NoTrees
<1> QED BY <1>4, <1>5, <1>6, <1>7 DEF RecInv, RecInit

-----------------------------------------------------------------------------
(* One operation changes one part of the snapshot.  *)

\* A snapshot whose sessions changed, none of them losing its space or taking
\* a run.
LEMMA SessionsChange ==
    ASSUME NEW m \in Snapshot, NEW b \in [ChatIds -> SessionRecord], NEW p, NEW n, NEW n2,
           Sound(m, p, n), n \subseteq ChatIds,
           \A s \in ChatIds : b[s].space \in m.spaces \cup {Unknown} /\ b[s].runs = m.sessions[s].runs,
           \A s \in n2 : b[s].name = "manual" /\ b[s].space # Unknown
    PROVE  LET m2 == [m EXCEPT !.sessions = b] IN m2 \in Snapshot /\ Sound(m2, p, n2)
<1> DEFINE m2 == [m EXCEPT !.sessions = b]
<1>p. /\ m.spaces \in SUBSET SpaceIds /\ m.sessions \in [ChatIds -> SessionRecord]
      /\ m.runs \in [RecordRuns -> RunRecord] /\ m.tasks \in [RecordRuns -> [TaskIds -> TaskStatus \cup {NoTask}]]
  BY Parts
<1>q. m = [spaces |-> m.spaces, sessions |-> m.sessions, runs |-> m.runs, tasks |-> m.tasks]
  BY Parts
<1>1. m2 = [spaces |-> m.spaces, sessions |-> b, runs |-> m.runs, tasks |-> m.tasks]
  BY <1>q
<1>2. m2 \in Snapshot
  BY <1>1, <1>p DEF Snapshot, SessionRecord, RunRecord
<1>3. Spaces(m2) /\ Listed(m2) /\ Inputs(m2, p) /\ Names(m2, n2)
  BY <1>1 DEF Sound, Spaces, Listed, Inputs, Names
<1> QED BY <1>2, <1>3 DEF Sound

\* A snapshot in which the record of a known run changed, not its space or its
\* session.
LEMMA RunChanges ==
    ASSUME NEW m \in Snapshot, NEW r \in RecordRuns, NEW v \in RunRecord, NEW p, NEW p2, NEW n,
           Sound(m, p, n), m.runs[r].space # Unknown,
           v.space = m.runs[r].space, v.session = m.runs[r].session, v.inputs >= p2[r],
           \A q \in RecordRuns \ {r} : p2[q] = p[q]
    PROVE  LET m2 == [m EXCEPT !.runs = [m.runs EXCEPT ![r] = v]] IN m2 \in Snapshot /\ Sound(m2, p2, n)
<1> DEFINE c == [m.runs EXCEPT ![r] = v]
           m2 == [m EXCEPT !.runs = c]
<1>0. c \in [RecordRuns -> RunRecord] /\ \A q \in RecordRuns : c[q] = IF q = r THEN v ELSE m.runs[q]
  BY Parts
<1> HIDE DEF c
<1>p. /\ m.spaces \in SUBSET SpaceIds /\ m.sessions \in [ChatIds -> SessionRecord]
      /\ m.runs \in [RecordRuns -> RunRecord] /\ m.tasks \in [RecordRuns -> [TaskIds -> TaskStatus \cup {NoTask}]]
  BY Parts
<1>q. m = [spaces |-> m.spaces, sessions |-> m.sessions, runs |-> m.runs, tasks |-> m.tasks]
  BY Parts
<1>1. m2 = [spaces |-> m.spaces, sessions |-> m.sessions, runs |-> c, tasks |-> m.tasks]
  BY <1>q
<1>2. m2 \in Snapshot
  BY <1>0, <1>1, <1>p DEF Snapshot, SessionRecord, RunRecord
<1>3. Spaces(m2)
  BY <1>0, <1>1 DEF Sound, Spaces
<1>4. Listed(m2)
  <2> SUFFICES ASSUME NEW s \in ChatIds, NEW q \in m.sessions[s].runs
               PROVE  c[q].space # Unknown /\ c[q].session = s
    BY <1>1 DEF Listed
  <2>1. q \in RecordRuns
    BY Parts DEF SessionRecord
  <2> QED BY <2>1, <1>0 DEF Sound, Listed
<1>5. Inputs(m2, p2)
  BY <1>0, <1>1 DEF Sound, Inputs
<1>6. Names(m2, n)
  BY <1>1 DEF Sound, Names
<1> QED BY <1>2, <1>3, <1>4, <1>5, <1>6 DEF Sound, c

-----------------------------------------------------------------------------
(* Spaces and sessions  *)

\* A new space leaves every record where it is.
LEMMA UpsertKeeps == ASSUME RecInv, NEW w \in SpaceIds, upsert_space(w) PROVE RecInv'
<1> DEFINE a == mem.spaces \cup {w}
<1>0. mem \in Snapshot /\ a \subseteq SpaceIds
  BY Parts DEF RecInv, RecTypeOK
<1>p. /\ mem.spaces \in SUBSET SpaceIds /\ mem.sessions \in [ChatIds -> SessionRecord]
      /\ mem.runs \in [RecordRuns -> RunRecord] /\ mem.tasks \in [RecordRuns -> [TaskIds -> TaskStatus \cup {NoTask}]]
  BY Parts DEF RecInv, RecTypeOK
<1>q. mem = [spaces |-> mem.spaces, sessions |-> mem.sessions, runs |-> mem.runs, tasks |-> mem.tasks]
  BY Parts DEF RecInv, RecTypeOK
<1>1. mem' = [spaces |-> a, sessions |-> mem.sessions, runs |-> mem.runs, tasks |-> mem.tasks]
  BY <1>q DEF upsert_space
<1>2. mem' \in Snapshot
  BY <1>0, <1>1, <1>p, Whole
<1>3. Sound(mem', posted', renamed')
  BY <1>1 DEF RecInv, Sound, Spaces, Listed, Inputs, Names, upsert_space
<1>4. disk' \in Snapshot /\ Sound(disk', posted', renamed') /\ fails' \in 0..MaxFails
  <2> PICK ok \in BOOLEAN : Saved(ok)
    BY DEF upsert_space
  <2> QED BY <1>2, <1>3, SaveKeeps DEF upsert_space
<1>5. Trees'
  BY <1>1 DEF RecInv, Trees, upsert_space
<1> QED BY <1>2, <1>3, <1>4, <1>5 DEF RecInv, RecTypeOK, upsert_space

\* What every operation on the sessions has in common.
LEMMA SessionStep ==
    ASSUME RecInv, NEW b \in [ChatIds -> SessionRecord], mem' = [mem EXCEPT !.sessions = b],
           \A s \in ChatIds : b[s].space \in mem.spaces \cup {Unknown} /\ b[s].runs = mem.sessions[s].runs,
           renamed' \subseteq ChatIds,
           \A s \in renamed' : b[s].name = "manual" /\ b[s].space # Unknown,
           NEW ok \in BOOLEAN, Saved(ok), ok \/ renamed' = renamed,
           asking' \subseteq ChatIds, UNCHANGED <<trees, posted, reboots>>
    PROVE  RecInv'
<1>1. mem' \in Snapshot /\ Sound(mem', posted', renamed')
  BY SessionsChange DEF RecInv, RecTypeOK
<1>2. disk' \in Snapshot /\ Sound(disk', posted', renamed') /\ fails' \in 0..MaxFails
  BY <1>1, SaveKeeps
<1>3. mem'.tasks = mem.tasks
  BY Parts DEF RecInv, RecTypeOK
<1>4. Trees'
  BY <1>3 DEF RecInv, Trees
<1> QED BY <1>1, <1>2, <1>4 DEF RecInv, RecTypeOK

\* A session that is made anew was not renamed before.
LEMMA CreateKeeps ==
    ASSUME RecInv, NEW s \in ChatIds, NEW w \in SpaceIds, get_or_create_session(s, w) PROVE RecInv'
<1> PICK ok \in BOOLEAN : Saved(ok)
  BY DEF get_or_create_session
<1>1. CASE HasSession(s)
  BY <1>1, SaveAgain DEF get_or_create_session
<1>2. CASE ~HasSession(s)
  <2> PICK n \in {"none", "auto"} : mem' = [mem EXCEPT !.sessions[s].space = w, !.sessions[s].name = n]
    BY <1>2 DEF get_or_create_session
  <2> DEFINE b == [mem.sessions EXCEPT ![s].space = w, ![s].name = n]
  <2>1. mem \in Snapshot /\ mem.sessions \in [ChatIds -> SessionRecord]
    BY Parts DEF RecInv, RecTypeOK
  <2>2. mem' = [mem EXCEPT !.sessions = b]
    BY <2>1, Parts
  <2>3. b \in [ChatIds -> SessionRecord]
    BY <2>1 DEF SessionRecord
  <2>4. \A i \in ChatIds : b[i].space = (IF i = s THEN w ELSE mem.sessions[i].space) /\ b[i].runs = mem.sessions[i].runs
                           /\ (i # s => b[i].name = mem.sessions[i].name)
    BY <2>1 DEF SessionRecord
  <2>5. s \notin renamed /\ w \in mem.spaces /\ renamed \subseteq ChatIds
    BY <1>2 DEF RecInv, RecTypeOK, Sound, Names, HasSession, get_or_create_session
  <2> HIDE DEF b
  <2>6. \A i \in ChatIds : b[i].space \in mem.spaces \cup {Unknown}
    BY <2>4, <2>5 DEF RecInv, Sound, Spaces
  <2>7. \A i \in renamed : b[i].name = "manual" /\ b[i].space # Unknown
    BY <2>4, <2>5 DEF RecInv, Sound, Names
  <2> QED BY <2>2, <2>3, <2>4, <2>5, <2>6, <2>7, SessionStep DEF get_or_create_session, RecInv, RecTypeOK
<1> QED BY <1>1, <1>2

\* The name of a session changes, and nothing else of it.
LEMMA NameChanges ==
    ASSUME RecInv, NEW s \in ChatIds, NEW given \in {"auto", "manual"}, mem' = [mem EXCEPT !.sessions[s].name = given]
    PROVE  \E b \in [ChatIds -> SessionRecord] :
              /\ mem' = [mem EXCEPT !.sessions = b]
              /\ \A i \in ChatIds : /\ b[i].space = mem.sessions[i].space /\ b[i].runs = mem.sessions[i].runs
                                    /\ b[i].space \in mem.spaces \cup {Unknown}
                                    /\ b[i].name = IF i = s THEN given ELSE mem.sessions[i].name
<1> DEFINE b == [mem.sessions EXCEPT ![s].name = given]
<1>1. mem \in Snapshot /\ mem.sessions \in [ChatIds -> SessionRecord]
  BY Parts DEF RecInv, RecTypeOK
<1>2. mem' = [mem EXCEPT !.sessions = b]
  BY <1>1, Parts
<1>3. b \in [ChatIds -> SessionRecord]
  BY <1>1 DEF SessionRecord
<1>4. \A i \in ChatIds : b[i].space = mem.sessions[i].space /\ b[i].runs = mem.sessions[i].runs
                         /\ b[i].name = IF i = s THEN given ELSE mem.sessions[i].name
  BY <1>1 DEF SessionRecord
<1> HIDE DEF b
<1>5. \A i \in ChatIds : b[i].space \in mem.spaces \cup {Unknown}
  BY <1>4 DEF RecInv, Sound, Spaces
<1> QED BY <1>2, <1>3, <1>4, <1>5

\* The user's name replaces whatever the session was called.
LEMMA RenameKeeps == ASSUME RecInv, NEW s \in ChatIds, rename_session(s) PROVE RecInv'
<1>1. PICK b \in [ChatIds -> SessionRecord] :
              /\ mem' = [mem EXCEPT !.sessions = b]
              /\ \A i \in ChatIds : /\ b[i].space = mem.sessions[i].space /\ b[i].runs = mem.sessions[i].runs
                                    /\ b[i].space \in mem.spaces \cup {Unknown}
                                    /\ b[i].name = IF i = s THEN "manual" ELSE mem.sessions[i].name
  BY NameChanges DEF rename_session
<1>2. PICK ok \in BOOLEAN : Saved(ok) /\ renamed' = IF ok THEN renamed \cup {s} ELSE renamed
  BY DEF rename_session
<1>3. renamed \subseteq ChatIds /\ renamed' \subseteq ChatIds /\ asking' \subseteq ChatIds
  BY <1>2 DEF RecInv, RecTypeOK, rename_session
<1>4. \A i \in renamed' : b[i].name = "manual" /\ b[i].space # Unknown
  BY <1>1, <1>2, <1>3 DEF RecInv, Sound, Names, rename_session, HasSession
<1> QED BY <1>1, <1>2, <1>3, <1>4, SessionStep DEF rename_session

\* The model's name is dropped when the user's came first.
LEMMA AutoNameKeeps == ASSUME RecInv, NEW s \in ChatIds, auto_name_session(s) PROVE RecInv'
<1>0. asking' \subseteq ChatIds /\ renamed \subseteq ChatIds
  BY DEF RecInv, RecTypeOK, auto_name_session
<1>1. CASE mem.sessions[s].name = "manual" /\ UNCHANGED <<mem, disk, fails>>
  BY <1>0, <1>1 DEF RecInv, RecTypeOK, Trees, auto_name_session
<1>2. CASE /\ mem.sessions[s].name # "manual" /\ mem' = [mem EXCEPT !.sessions[s].name = "auto"]
           /\ \E ok \in BOOLEAN : Saved(ok)
  <2>1. PICK b \in [ChatIds -> SessionRecord] :
              /\ mem' = [mem EXCEPT !.sessions = b]
              /\ \A i \in ChatIds : /\ b[i].space = mem.sessions[i].space /\ b[i].runs = mem.sessions[i].runs
                                    /\ b[i].space \in mem.spaces \cup {Unknown}
                                    /\ b[i].name = IF i = s THEN "auto" ELSE mem.sessions[i].name
    BY <1>2, NameChanges
  <2>2. \A i \in renamed : b[i].name = "manual" /\ b[i].space # Unknown
    BY <1>0, <1>2, <2>1 DEF RecInv, Sound, Names
  <2>3. UNCHANGED <<trees, posted, renamed, reboots>>
    BY DEF auto_name_session
  <2> QED BY <1>0, <1>2, <2>1, <2>2, <2>3, SessionStep
<1> QED BY <1>1, <1>2 DEF auto_name_session

-----------------------------------------------------------------------------
(* Runs  *)

\* A run that is started is listed nowhere yet and has no inputs.
LEMMA StartKeeps ==
    ASSUME RecInv, NEW r \in RecordRuns, NEW w \in SpaceIds, NEW s \in ChatIds \cup {Unknown},
           start_run_with_session(r, w, s)
    PROVE  RecInv'
<1> DEFINE v == [NoRunRecord EXCEPT !.space = w, !.session = s]
           b == [i \in ChatIds |-> IF i = s /\ HasSession(i)
                                   THEN [mem.sessions[i] EXCEPT !.runs = @ \cup {r}] ELSE mem.sessions[i]]
           c == [mem.runs EXCEPT ![r] = v]
<1>0. /\ mem \in Snapshot /\ mem.sessions \in [ChatIds -> SessionRecord] /\ mem.runs \in [RecordRuns -> RunRecord]
      /\ w \in mem.spaces /\ mem.runs[r].space = Unknown
  BY Parts DEF RecInv, RecTypeOK, start_run_with_session, HasRun
<1>p. /\ mem.spaces \in SUBSET SpaceIds /\ mem.sessions \in [ChatIds -> SessionRecord]
      /\ mem.runs \in [RecordRuns -> RunRecord] /\ mem.tasks \in [RecordRuns -> [TaskIds -> TaskStatus \cup {NoTask}]]
  BY Parts DEF RecInv, RecTypeOK
<1>q. mem = [spaces |-> mem.spaces, sessions |-> mem.sessions, runs |-> mem.runs, tasks |-> mem.tasks]
  BY Parts DEF RecInv, RecTypeOK
<1>1. v \in RunRecord /\ v.space = w /\ v.session = s /\ v.inputs = 0
  <2>1. NoRunRecord \in RunRecord /\ NoRunRecord.inputs = 0
    BY RecordsAssumption DEF NoRunRecord, RunRecord
  <2> QED BY <2>1 DEF RunRecord
<1>2. b \in [ChatIds -> SessionRecord]
  BY <1>0 DEF SessionRecord
<1>3. \A i \in ChatIds : /\ b[i].space = mem.sessions[i].space /\ b[i].name = mem.sessions[i].name
                         /\ b[i].runs = mem.sessions[i].runs \/ (i = s /\ b[i].runs = mem.sessions[i].runs \cup {r})
  BY <1>0 DEF SessionRecord
<1>4. c \in [RecordRuns -> RunRecord] /\ \A q \in RecordRuns : c[q] = IF q = r THEN v ELSE mem.runs[q]
  BY <1>0, <1>1
<1>5. mem' = [spaces |-> mem.spaces, sessions |-> b, runs |-> c, tasks |-> mem.tasks]
  <2>1. mem' = [mem EXCEPT !.runs[r] = v, !.sessions = b]
    BY DEF start_run_with_session
  <2> HIDE DEF v, b
  <2> QED BY <2>1, <1>q
<1> HIDE DEF b, c, v
<1>6. mem' \in Snapshot
  BY <1>2, <1>4, <1>5, <1>p, Whole
<1>7. UNCHANGED <<trees, asking, posted, renamed, reboots>>
  BY DEF start_run_with_session
<1>8. Sound(mem', posted, renamed)
  <2>1. Spaces(mem')
    BY <1>0, <1>1, <1>3, <1>4, <1>5 DEF RecInv, Sound, Spaces
  <2>2. Listed(mem')
    <3> SUFFICES ASSUME NEW i \in ChatIds, NEW q \in b[i].runs PROVE c[q].space # Unknown /\ c[q].session = i
      BY <1>5 DEF Listed
    <3>1. q \in RecordRuns
      BY <1>2 DEF SessionRecord
    <3>2. CASE q = r /\ i = s
      BY <3>2, <1>1, <1>4, RecordsAssumption
    <3>3. CASE q \in mem.sessions[i].runs
      <4>1. mem.runs[q].space # Unknown /\ mem.runs[q].session = i
        BY <3>3 DEF RecInv, Sound, Listed
      <4> QED BY <4>1, <3>1, <1>0, <1>4
    <3> QED BY <3>2, <3>3, <1>3
  <2>3. Inputs(mem', posted)
    BY <1>0, <1>1, <1>4, <1>5 DEF RecInv, RecTypeOK, Sound, Inputs, RunRecord
  <2>4. Names(mem', renamed)
    BY <1>3, <1>5 DEF RecInv, RecTypeOK, Sound, Names
  <2> QED BY <2>1, <2>2, <2>3, <2>4 DEF Sound
<1>9. disk' \in Snapshot /\ Sound(disk', posted', renamed') /\ fails' \in 0..MaxFails
  <2> PICK ok \in BOOLEAN : Saved(ok)
    BY DEF start_run_with_session
  <2> QED BY <1>6, <1>7, <1>8, SaveKeeps
<1>10. Trees'
  BY <1>5, <1>7 DEF RecInv, Trees
<1> QED BY <1>6, <1>7, <1>8, <1>9, <1>10 DEF RecInv, RecTypeOK

\* What the operations on a known run have in common.
LEMMA RunStep ==
    ASSUME RecInv, NEW r \in RecordRuns, NEW v \in RunRecord, HasRun(r),
           mem' = [mem EXCEPT !.runs = [mem.runs EXCEPT ![r] = v]],
           v.space = mem.runs[r].space, v.session = mem.runs[r].session, v.inputs >= posted'[r],
           posted' \in [RecordRuns -> 0..MaxInputs], \A q \in RecordRuns \ {r} : posted'[q] = posted[q],
           NEW ok \in BOOLEAN, Saved(ok), ok \/ posted' = posted, UNCHANGED <<trees, asking, renamed, reboots>>
    PROVE  RecInv'
<1>1. mem' \in Snapshot /\ Sound(mem', posted', renamed')
  BY RunChanges DEF RecInv, RecTypeOK, HasRun
<1>2. disk' \in Snapshot /\ Sound(disk', posted', renamed') /\ fails' \in 0..MaxFails
  BY <1>1, SaveKeeps
<1>3. mem'.tasks = mem.tasks
  BY Parts DEF RecInv, RecTypeOK
<1>4. Trees'
  BY <1>3 DEF RecInv, Trees
<1> QED BY <1>1, <1>2, <1>4 DEF RecInv, RecTypeOK

\* A run that ends keeps its space, its session and its inputs.
LEMMA EndKeeps == ASSUME RecInv, NEW r \in RecordRuns, EndRecord(r) PROVE RecInv'
<1> DEFINE v == [mem.runs[r] EXCEPT !.over = TRUE]
<1>0. mem \in Snapshot /\ mem.runs \in [RecordRuns -> RunRecord] /\ mem.runs[r].inputs >= posted[r]
  BY Parts DEF RecInv, RecTypeOK, Sound, Inputs
<1>1. v \in RunRecord /\ v.space = mem.runs[r].space /\ v.session = mem.runs[r].session /\ v.inputs = mem.runs[r].inputs
  BY <1>0 DEF RunRecord
<1>2. mem' = [mem EXCEPT !.runs = [mem.runs EXCEPT ![r] = v]]
  BY <1>0, Parts DEF EndRecord
<1> HIDE DEF v
<1> PICK ok \in BOOLEAN : Saved(ok)
  BY DEF EndRecord
<1> QED BY <1>0, <1>1, <1>2, RunStep DEF EndRecord, RecInv, RecTypeOK

\* An input is acknowledged when it is in the file.
LEMMA PostKeeps == ASSUME RecInv, NEW r \in RecordRuns, post_input(r) PROVE RecInv'
<1> DEFINE v == [mem.runs[r] EXCEPT !.inputs = @ + 1]
<1>0. /\ mem \in Snapshot /\ mem.runs \in [RecordRuns -> RunRecord] /\ mem.runs[r].inputs >= posted[r]
      /\ mem.runs[r].inputs < MaxInputs /\ mem.runs[r].inputs \in Nat /\ HasRun(r)
      /\ posted \in [RecordRuns -> 0..MaxInputs] /\ posted[r] \in Nat
  BY Parts DEF RecInv, RecTypeOK, Sound, Inputs, post_input, RunRecord
<1>1. /\ v \in RunRecord /\ v.space = mem.runs[r].space /\ v.session = mem.runs[r].session
      /\ v.inputs = mem.runs[r].inputs + 1
  BY <1>0, RecordsAssumption DEF RunRecord
<1>2. mem' = [mem EXCEPT !.runs = [mem.runs EXCEPT ![r] = v]]
  BY <1>0, Parts DEF post_input
<1> HIDE DEF v
<1>3. mem'.runs[r] = v
  BY <1>0, <1>2, Parts
<1>4. PICK ok \in BOOLEAN : Saved(ok) /\ posted' = IF ok THEN [posted EXCEPT ![r] = mem'.runs[r].inputs] ELSE posted
  BY DEF post_input
<1>5. /\ posted' \in [RecordRuns -> 0..MaxInputs] /\ v.inputs >= posted'[r]
      /\ \A q \in RecordRuns \ {r} : posted'[q] = posted[q]
  BY <1>0, <1>1, <1>3, <1>4, RecordsAssumption
<1> QED BY <1>0, <1>1, <1>2, <1>4, <1>5, RunStep DEF post_input

\* What the operations on tasks have in common.
LEMMA TreeStep ==
    ASSUME RecInv, NEW r \in RecordRuns, NEW t \in TaskIds, NEW x \in TaskStatus,
           mem' = [mem EXCEPT !.tasks[r][t] = x], trees' = [trees EXCEPT ![r][t] = x],
           NEW ok \in BOOLEAN, Saved(ok), UNCHANGED <<asking, posted, renamed, reboots>>
    PROVE  RecInv'
<1> DEFINE d == [mem.tasks EXCEPT ![r][t] = x]
<1>0. /\ mem \in Snapshot /\ mem.tasks \in [RecordRuns -> [TaskIds -> TaskStatus \cup {NoTask}]]
      /\ trees \in [RecordRuns -> [TaskIds -> TaskStatus \cup {NoTask}]]
  BY Parts DEF RecInv, RecTypeOK
<1>1. d \in [RecordRuns -> [TaskIds -> TaskStatus \cup {NoTask}]]
  BY <1>0
<1>p. /\ mem.spaces \in SUBSET SpaceIds /\ mem.sessions \in [ChatIds -> SessionRecord]
      /\ mem.runs \in [RecordRuns -> RunRecord] /\ mem.tasks \in [RecordRuns -> [TaskIds -> TaskStatus \cup {NoTask}]]
  BY Parts DEF RecInv, RecTypeOK
<1>q. mem = [spaces |-> mem.spaces, sessions |-> mem.sessions, runs |-> mem.runs, tasks |-> mem.tasks]
  BY Parts DEF RecInv, RecTypeOK
<1>2. mem' = [spaces |-> mem.spaces, sessions |-> mem.sessions, runs |-> mem.runs, tasks |-> d]
  BY <1>q
<1>3. mem' \in Snapshot
  <2>1. mem' = [spaces |-> mem.spaces, sessions |-> mem.sessions, runs |-> mem.runs, tasks |-> mem'.tasks]
        /\ mem'.tasks \in [RecordRuns -> [TaskIds -> TaskStatus \cup {NoTask}]]
    BY <1>1, <1>2
  <2> QED BY <2>1, <1>p DEF Snapshot, SessionRecord, RunRecord
<1>4. Sound(mem', posted', renamed')
  BY <1>2 DEF RecInv, Sound, Spaces, Listed, Inputs, Names
<1>5. disk' \in Snapshot /\ Sound(disk', posted', renamed') /\ fails' \in 0..MaxFails
  BY <1>3, <1>4, SaveKeeps
<1>6. Trees'
  BY <1>0, <1>2 DEF RecInv, Trees
<1>7. trees' \in [RecordRuns -> [TaskIds -> TaskStatus \cup {NoTask}]]
  BY <1>0
<1> QED BY <1>3, <1>4, <1>5, <1>6, <1>7 DEF RecInv, RecTypeOK

\* A task is put into the process's tree and into the snapshot's at once.
LEMMA StartTaskKeeps ==
    ASSUME RecInv, NEW r \in RecordRuns, NEW t \in TaskIds, start_child_task(r, t) PROVE RecInv'
<1> PICK ok \in BOOLEAN : Saved(ok)
  BY DEF start_child_task
<1> QED BY TreeStep DEF start_child_task, TaskStatus

\* The task is in the process's tree, so it is in the snapshot's.
LEMMA CompleteTaskKeeps ==
    ASSUME RecInv, NEW r \in RecordRuns, NEW t \in TaskIds, NEW x \in {"Completed", "Failed"},
           complete_child_task(r, t, x)
    PROVE  RecInv'
<1> PICK ok \in BOOLEAN : Saved(ok)
  BY DEF complete_child_task
<1>1. mem.tasks[r][t] # NoTask
  BY DEF RecInv, Trees, complete_child_task, NoTask, Unknown
<1>2. mem' = [mem EXCEPT !.tasks[r][t] = x]
  BY <1>1 DEF complete_child_task
<1> QED BY <1>2, TreeStep DEF complete_child_task, TaskStatus

\* A restart goes back to the file, which is sound by itself.
LEMMA RebootKeeps == ASSUME RecInv, Reboot PROVE RecInv'
<1>1. NoTrees \in [RecordRuns -> [TaskIds -> TaskStatus \cup {NoTask}]]
  BY DEF NoTrees
<1>2. Trees'
  BY DEF Reboot, Trees, NoTrees
<1>3. reboots' \in 0..MaxReboots
  BY RecordsAssumption DEF Reboot, RecInv, RecTypeOK
<1> QED BY <1>1, <1>2, <1>3 DEF Reboot, RecInv, RecTypeOK

-----------------------------------------------------------------------------
\* Every operation of the authority keeps the records sound.
LEMMA NextRec == RecInv /\ [RecNext]_recVars => RecInv'
<1> SUFFICES ASSUME RecInv, [RecNext]_recVars PROVE RecInv'
  OBVIOUS
<1>1. CASE Reboot
  BY <1>1, RebootKeeps
<1>2. ASSUME NEW w \in SpaceIds, upsert_space(w) PROVE RecInv'
  BY <1>2, UpsertKeeps
<1>3. ASSUME NEW s \in ChatIds, attach_flow_run_to_session(s) \/ set_session_fork_point(s) PROVE RecInv'
  <2>1. UNCHANGED <<mem, trees, asking, posted, renamed, reboots>> /\ \E ok \in BOOLEAN : Saved(ok)
    BY <1>3 DEF attach_flow_run_to_session, set_session_fork_point
  <2> QED BY <2>1, SaveAgain
<1>4. ASSUME NEW s \in ChatIds, rename_session(s) PROVE RecInv'
  BY <1>4, RenameKeeps
<1>5. ASSUME NEW s \in ChatIds, session_needs_naming(s) PROVE RecInv'
  BY <1>5 DEF session_needs_naming, RecInv, RecTypeOK, Trees
<1>6. ASSUME NEW s \in ChatIds, auto_name_session(s) PROVE RecInv'
  BY <1>6, AutoNameKeeps
<1>7. ASSUME NEW s \in ChatIds, NEW w \in SpaceIds, get_or_create_session(s, w) PROVE RecInv'
  BY <1>7, CreateKeeps
<1>8. ASSUME NEW r \in RecordRuns, AnnotateRun(r) PROVE RecInv'
  <2>1. UNCHANGED <<mem, trees, asking, posted, renamed, reboots>> /\ \E ok \in BOOLEAN : Saved(ok)
    BY <1>8 DEF AnnotateRun
  <2> QED BY <2>1, SaveAgain
<1>9. ASSUME NEW r \in RecordRuns, EndRecord(r) PROVE RecInv'
  BY <1>9, EndKeeps
<1>10. ASSUME NEW r \in RecordRuns, post_input(r) PROVE RecInv'
  BY <1>10, PostKeeps
<1>11. ASSUME NEW r \in RecordRuns, NEW w \in SpaceIds, NEW s \in ChatIds \cup {Unknown},
              start_run_with_session(r, w, s) PROVE RecInv'
  BY <1>11, StartKeeps
<1>12. ASSUME NEW r \in RecordRuns, NEW t \in TaskIds, start_child_task(r, t) PROVE RecInv'
  BY <1>12, StartTaskKeeps
<1>13. ASSUME NEW r \in RecordRuns, NEW t \in TaskIds, NEW x \in {"Completed", "Failed"},
              complete_child_task(r, t, x) PROVE RecInv'
  BY <1>13, CompleteTaskKeeps
<1>14. CASE UNCHANGED recVars
  BY <1>14 DEF recVars, RecInv, RecTypeOK, Trees
<1> QED BY <1>1, <1>2, <1>3, <1>4, <1>5, <1>6, <1>7, <1>8, <1>9, <1>10, <1>11, <1>12, <1>13, <1>14 DEF RecNext

\* The type invariant of the records.
THEOREM RecTypeCorrect == RecSpec => []RecTypeOK
<1>1. RecInv => RecTypeOK
  BY DEF RecInv
<1> QED BY InitRec, NextRec, <1>1, PTL DEF RecSpec

\* The records hang together and what was acknowledged stays
\* (start_run_with_session, post_input, rename_session, auto_name_session,
\* start_child_task), for any number of spaces, sessions, runs and tasks,
\* whatever saves fail and however often the process restarts.
THEOREM RecordsCorrect == RecSpec => []RecordsHangTogether
<1>1. RecInv => RecordsHangTogether
  BY DEF RecInv, Sound, Spaces, Listed, Inputs, Names, Trees, RecordsHangTogether
<1> QED BY InitRec, NextRec, <1>1, PTL DEF RecSpec

-----------------------------------------------------------------------------
(* Runs and their tasks                                                    *)

\* Run r has a task that is not over.
Alive(r) == drivers[r].pc \notin {"none", "done"}
\* The ids up to n are given out, the others are free.
Numbered(n) == \A r \in RunIds : runs[r].status = "absent" <=> r > n
\* What is true of runs and tasks together: ids go up, a run that does not
\* exist has no task, a supervisor has at most one live child.
Routes ==
    /\ \E n \in 0..MaxRuns : Numbered(n)
    /\ \A r \in RunIds : runs[r].status = "absent" => drivers[r].pc = "none"
    /\ \A a, b \in RunIds :
          drivers[a].caller # 0 /\ drivers[a].caller = drivers[b].caller
          /\ drivers[a].pc # "done" /\ drivers[b].pc # "done" => a = b
    /\ NoStrandedRun
RunsAndTasks ==
    /\ runs \in [RunIds -> [status : RunStatusSet, session : SessionIds]]
    /\ drivers \in [RunIds -> Driver]
RouteInv == RouteTypeOK /\ Routes

\* A change of where a task is, or of its engine, leaves a task.
LEMMA TaskEdits ==
    ASSUME NEW d \in Driver
    PROVE  /\ \A p \in {"none", "load", "loop", "turn", "waits", "done"} :
                 /\ [d EXCEPT !.pc = p] \in Driver /\ [d EXCEPT !.pc = p].pc = p
                 /\ [d EXCEPT !.pc = p].caller = d.caller
           /\ /\ [d EXCEPT !.engine = "node", !.pc = "turn"] \in Driver
              /\ [d EXCEPT !.engine = "node", !.pc = "turn"].pc = "turn"
              /\ [d EXCEPT !.engine = "node", !.pc = "turn"].caller = d.caller
PROOF
  BY DEF Driver

\* What a supervisor notes of the task in its tree leaves a task.
LEMMA TasksFail ==
    ASSUME NEW d \in Driver, NEW t \in {"none", "Running", "Failed"}
    PROVE  /\ [d EXCEPT !.task = t] \in Driver /\ [d EXCEPT !.task = t].pc = d.pc
           /\ [d EXCEPT !.task = t].caller = d.caller
           /\ [d EXCEPT !.pc = "waits", !.task = t] \in Driver
           /\ [d EXCEPT !.pc = "waits", !.task = t].pc = "waits"
           /\ [d EXCEPT !.pc = "waits", !.task = t].caller = d.caller
PROOF
  BY DEF Driver

\* Runs that were absent are Pending now, with a live task that answers to
\* nobody; the others are as they were.
LEMMA Sprouts ==
    ASSUME RunsAndTasks, Routes, RunsAndTasks', \E n \in 0..MaxRuns : Numbered(n)',
           \A r \in RunIds :
              \/ runs'[r] = runs[r] /\ drivers'[r] = drivers[r]
              \/ runs[r].status = "absent" /\ runs'[r].status # "absent" /\ drivers'[r].caller = 0
                 /\ Alive(r)'
    PROVE  Routes'
PROOF
  <1>0. \A r \in RunIds : drivers[r].caller \in {0} \cup RunIds
    BY DEF RunsAndTasks, Driver
  <1>1. \A r \in RunIds : runs'[r].status = "absent" => drivers'[r].pc = "none"
    BY DEF Routes
  <1>2. \A a, b \in RunIds :
          drivers'[a].caller # 0 /\ drivers'[a].caller = drivers'[b].caller
          /\ drivers'[a].pc # "done" /\ drivers'[b].pc # "done" => a = b
    BY DEF Routes
  <1>3. NoStrandedRun'
    <2> SUFFICES ASSUME NEW r \in RunIds
                 PROVE  /\ runs'[r].status \in {"Pending", "Running"} => Alive(r)'
                        /\ drivers'[r].caller # 0 /\ drivers'[r].pc # "done"
                           => drivers'[drivers'[r].caller].pc = "waits"
      BY DEF NoStrandedRun, Alive
    <2>1. runs'[r].status \in {"Pending", "Running"} => Alive(r)'
      BY DEF Routes, NoStrandedRun, Alive
    <2>2. ASSUME drivers'[r].caller # 0, drivers'[r].pc # "done"
          PROVE  drivers'[drivers'[r].caller].pc = "waits"
      <3>1. drivers'[r] = drivers[r] /\ drivers[r].caller \in RunIds
        BY <2>2, <1>0
      <3>2. drivers[drivers[r].caller].pc = "waits"
        BY <2>2, <3>1 DEF Routes, NoStrandedRun
      <3>3. runs[drivers[r].caller].status # "absent"
        BY <3>1, <3>2 DEF Routes
      <3> QED
        BY <3>1, <3>2, <3>3
    <2> QED
      BY <2>1, <2>2
  <1> QED
    BY <1>1, <1>2, <1>3 DEF Routes

\* No run is started or ends its task; a task goes on.
LEMMA Moves ==
    ASSUME RunsAndTasks, Routes, RunsAndTasks',
           \A r \in RunIds :
              /\ runs'[r].status = "absent" <=> runs[r].status = "absent"
              /\ drivers'[r].caller = drivers[r].caller
              /\ \/ drivers'[r].pc = drivers[r].pc
                 \/ drivers[r].pc \notin {"none", "done", "waits"} /\ drivers'[r].pc \notin {"none", "done"}
              /\ runs'[r].status \in {"Pending", "Running"} => Alive(r)'
    PROVE  Routes'
PROOF
  <1>0. \A r \in RunIds : drivers[r].caller \in {0} \cup RunIds
    BY DEF RunsAndTasks, Driver
  <1>1. \E n \in 0..MaxRuns : Numbered(n)'
    <2>1. PICK n \in 0..MaxRuns : Numbered(n)
      BY DEF Routes
    <2> QED
      BY <2>1 DEF Numbered
  <1>2. \A r \in RunIds : runs'[r].status = "absent" => drivers'[r].pc = "none"
    BY DEF Routes
  <1>3. \A a, b \in RunIds :
          drivers'[a].caller # 0 /\ drivers'[a].caller = drivers'[b].caller
          /\ drivers'[a].pc # "done" /\ drivers'[b].pc # "done" => a = b
    BY DEF Routes
  <1>4. \A r \in RunIds : drivers'[r].caller # 0 /\ drivers'[r].pc # "done"
           => drivers'[drivers'[r].caller].pc = "waits"
    BY <1>0 DEF Routes, NoStrandedRun
  <1> QED
    BY <1>1, <1>2, <1>3, <1>4 DEF Routes, NoStrandedRun, Alive

\* A live task that waits for nobody ends, and its run with it.
LEMMA Ends ==
    ASSUME RunsAndTasks, Routes, NEW r \in RunIds, Alive(r), drivers[r].pc # "waits", TaskEnds(r),
           runs' \in [RunIds -> [status : RunStatusSet, session : SessionIds]],
           \A k \in RunIds : k # r => runs'[k] = runs[k], runs'[r].status \in Ended
    PROVE  RunsAndTasks' /\ Routes'
PROOF
  <1> DEFINE up == drivers[r].caller
  <1>1. RunsAndTasks'
    <2> DEFINE next == [k \in RunIds |-> IF k = r THEN [drivers[k] EXCEPT !.pc = "done"]
                                        ELSE IF k = up THEN [drivers[k] EXCEPT !.pc = "loop"] ELSE drivers[k]]
    <2>1. \A k \in RunIds : next[k] \in Driver
      <3> TAKE k \in RunIds
      <3>1. drivers[k] \in Driver
        BY DEF RunsAndTasks
      <3>2. [drivers[k] EXCEPT !.pc = "done"] \in Driver
        BY <3>1, TaskEdits
      <3>3. [drivers[k] EXCEPT !.pc = "loop"] \in Driver
        BY <3>1, TaskEdits
      <3> QED
        BY <3>1, <3>2, <3>3
    <2>2. next \in [RunIds -> Driver]
      BY <2>1
    <2> QED
      BY <2>2 DEF RunsAndTasks, TaskEnds
  <1>2. /\ drivers'[r].pc = "done" /\ drivers'[r].caller = up
        /\ \A k \in RunIds \ {r} : drivers'[k] = IF k = up THEN [drivers[k] EXCEPT !.pc = "loop"] ELSE drivers[k]
        /\ \A k \in RunIds : drivers'[k].caller = drivers[k].caller /\ drivers[k].caller \in {0} \cup RunIds
    BY DEF RunsAndTasks, TaskEnds, Driver
  <1>3. up \in RunIds => drivers[up].pc = "waits" /\ up # r
    BY DEF Routes, NoStrandedRun, Alive, RunIds
  <1>4. up \in RunIds => drivers'[up].pc = "loop"
    BY <1>2, <1>3 DEF RunsAndTasks, Driver
  <1>5. \A k \in RunIds \ {r} : k # up => drivers'[k] = drivers[k]
    BY <1>2
  <1> HIDE DEF up
  <1>6. runs[r].status # "absent" /\ runs'[r].status # "absent"
    BY DEF Routes, Alive, Ended
  <1>7. \E n \in 0..MaxRuns : Numbered(n)'
    <2>1. PICK n \in 0..MaxRuns : Numbered(n)
      BY DEF Routes
    <2> QED
      BY <1>6, <2>1 DEF Numbered
  <1>8. \A k \in RunIds : runs'[k].status = "absent" => drivers'[k].pc = "none"
    <2> TAKE k \in RunIds
    <2> HAVE runs'[k].status = "absent"
    <2>1. k # r /\ drivers[k].pc = "none"
      BY <1>6 DEF Routes
    <2> QED
      BY <1>3, <1>5, <2>1
  <1>9. \A a, b \in RunIds :
          drivers'[a].caller # 0 /\ drivers'[a].caller = drivers'[b].caller
          /\ drivers'[a].pc # "done" /\ drivers'[b].pc # "done" => a = b
    <2>1. \A k \in RunIds : drivers'[k].pc # "done" => drivers[k].pc # "done"
      BY <1>2, <1>3, <1>5
    <2> QED
      BY <1>2, <2>1 DEF Routes
  <1>10. ASSUME NEW k \in RunIds, drivers'[k].caller # 0, drivers'[k].pc # "done"
         PROVE  drivers'[drivers'[k].caller].pc = "waits"
    <2>1. k # r /\ drivers[k].pc # "done" /\ drivers[k].caller \in RunIds
      BY <1>2, <1>3, <1>5, <1>10
    <2>2. drivers[drivers[k].caller].pc = "waits"
      BY <1>2, <1>10, <2>1 DEF Routes, NoStrandedRun
    <2>3. drivers[k].caller # r
      BY <2>2
    <2>4. drivers[k].caller # up
      BY <2>1, <1>10, <1>2 DEF Routes, Alive, up
    <2> QED
      BY <1>2, <1>5, <2>1, <2>2, <2>3, <2>4
  <1>11. \A k \in RunIds : runs'[k].status \in {"Pending", "Running"} => drivers'[k].pc \notin {"none", "done"}
    <2> TAKE k \in RunIds
    <2> HAVE runs'[k].status \in {"Pending", "Running"}
    <2>1. k # r /\ drivers[k].pc \notin {"none", "done"}
      BY DEF Routes, NoStrandedRun, Ended
    <2> QED
      BY <1>4, <1>5, <2>1
  <1> QED
    BY <1>1, <1>7, <1>8, <1>9, <1>10, <1>11 DEF Routes, NoStrandedRun

-----------------------------------------------------------------------------
\* The next id is the number after the last that was given out.
LEMMA NextIdIs ==
    ASSUME NEW n \in 0..MaxRuns, Numbered(n)
    PROVE  /\ Unused = {r \in RunIds : r > n}
           /\ Unused = {} <=> n = MaxRuns
           /\ Unused # {} => NextId = n + 1 /\ NextId \in RunIds /\ runs[NextId].status = "absent"
PROOF
  <1> USE RouteAssumption DEF RunIds
  <1>1. Unused = {r \in RunIds : r > n}
    BY DEF Unused, Numbered
  <1>2. Unused = {} <=> n = MaxRuns
    <2>1. n = MaxRuns => Unused = {}
      BY <1>1
    <2>2. n # MaxRuns => n + 1 \in Unused
      BY <1>1
    <2> QED
      BY <2>1, <2>2
  <1>3. ASSUME Unused # {} PROVE NextId = n + 1 /\ NextId \in RunIds /\ runs[NextId].status = "absent"
    <2>1. n + 1 \in Unused /\ \A k \in Unused : n + 1 <= k
      BY <1>1, <1>2, <1>3
    <2>2. NextId \in Unused /\ \A k \in Unused : NextId <= k
      BY <2>1 DEF NextId
    <2>3. NextId = n + 1
      <3>1. NextId \in RunIds /\ NextId <= n + 1 /\ n + 1 <= NextId
        BY <2>1, <2>2, <1>1
      <3> QED
        BY <3>1
    <2> QED
      BY <2>1, <2>3 DEF Unused
  <1> QED
    BY <1>1, <1>2, <1>3

\* A task that was just spawned.
Fresh(d) == d \in Driver /\ d.pc \notin {"none", "done"} /\ d.caller = 0

\* start_run_with_session for one run and for two.
LEMMA StartedKeeps ==
    ASSUME RunsAndTasks, Routes, NEW ds \in Seq(Driver \X SessionIds), Len(ds) \in 1..2,
           \A i \in 1..Len(ds) : Fresh(ds[i][1]), Started(ds)
    PROVE  RunsAndTasks' /\ Routes'
PROOF
  <1> USE RouteAssumption DEF RunIds
  <1>1. PICK n \in 0..MaxRuns : Numbered(n)
    BY DEF Routes
  <1> DEFINE first == IF Unused = {} THEN MaxRuns + 1 ELSE NextId
             made(r) == r \in first..(first + Len(ds) - 1)
  <1>2. first = n + 1
    BY <1>1, NextIdIs
  <1>3. \A r \in RunIds : made(r) => r - first + 1 \in 1..Len(ds) /\ runs[r].status = "absent"
    <2> TAKE r \in RunIds
    <2> HAVE made(r)
    <2>1. first = n + 1 /\ n \in Nat /\ r \in Nat /\ Len(ds) \in Nat
      BY <1>2
    <2>2. r \in first..(first + Len(ds) - 1)
      OBVIOUS
    <2> HIDE DEF first, made
    <2>3. r - first + 1 \in 1..Len(ds) /\ r > n
      BY <2>1, <2>2
    <2> QED
      BY <1>1, <2>3 DEF Numbered
  <1>4. /\ runs' = [r \in RunIds |-> IF made(r) THEN [status |-> "Pending", session |-> ds[r - first + 1][2]] ELSE runs[r]]
        /\ drivers' = [r \in RunIds |-> IF made(r) THEN ds[r - first + 1][1] ELSE drivers[r]]
    BY DEF Started
  <1>5. \A i \in 1..Len(ds) : ds[i][1] \in Driver /\ ds[i][2] \in SessionIds
    OBVIOUS
  <1>6. \A r \in RunIds : made(r) =>
           /\ runs'[r] = [status |-> "Pending", session |-> ds[r - first + 1][2]]
           /\ drivers'[r] = ds[r - first + 1][1]
           /\ runs'[r] \in [status : RunStatusSet, session : SessionIds] /\ drivers'[r] \in Driver
           /\ runs'[r].status # "absent" /\ drivers'[r].caller = 0 /\ Alive(r)'
    <2> TAKE r \in RunIds
    <2> HAVE made(r)
    <2> DEFINE i == r - first + 1
    <2>1. i \in 1..Len(ds)
      BY <1>3
    <2>2. runs'[r] = [status |-> "Pending", session |-> ds[i][2]] /\ drivers'[r] = ds[i][1]
      BY <1>4
    <2> HIDE DEF i, made, first
    <2>3. ds[i][1] \in Driver /\ ds[i][2] \in SessionIds /\ Fresh(ds[i][1])
      BY <1>5, <2>1
    <2> QED
      BY <2>2, <2>3 DEF Fresh, Alive, RunStatusSet, i
  <1>7. \A r \in RunIds : ~made(r) => runs'[r] = runs[r] /\ drivers'[r] = drivers[r]
    BY <1>4
  <1> HIDE DEF made, first
  <1>8. RunsAndTasks'
    <2>1. \A r \in RunIds : runs'[r] \in [status : RunStatusSet, session : SessionIds] /\ drivers'[r] \in Driver
      BY <1>6, <1>7 DEF RunsAndTasks
    <2> QED
      BY <1>4, <2>1 DEF RunsAndTasks
  <1>9. \E m \in 0..MaxRuns : Numbered(m)'
    <2> DEFINE m == IF n + Len(ds) <= MaxRuns THEN n + Len(ds) ELSE MaxRuns
    <2>1. m \in 0..MaxRuns /\ \A r \in RunIds : (r > m <=> r > n /\ ~made(r)) /\ (made(r) => r <= m)
      BY <1>2 DEF made
    <2>2. Numbered(m)'
      BY <1>1, <1>6, <1>7, <2>1 DEF Numbered
    <2> QED
      BY <2>1, <2>2
  <1>10. \A r \in RunIds :
           \/ runs'[r] = runs[r] /\ drivers'[r] = drivers[r]
           \/ runs[r].status = "absent" /\ runs'[r].status # "absent" /\ drivers'[r].caller = 0 /\ Alive(r)'
    BY <1>3, <1>6, <1>7
  <1> QED
    BY <1>8, <1>9, <1>10, Sprouts

\* The tasks a start leaves behind.
LEMMA SpawnsAreFresh ==
    ASSUME NEW ctx \in RunContext, NEW s \in SessionIds
    PROVE  /\ spawn_agent(ctx) \in Driver \X SessionIds /\ Fresh(spawn_agent(ctx)[1])
           /\ spawn_chat(ctx, s) \in Driver \X SessionIds /\ Fresh(spawn_chat(ctx, s)[1])
           /\ \A b \in {"free", "bound"} :
                 spawn_turn(ctx, b, s) \in Driver \X SessionIds /\ Fresh(spawn_turn(ctx, b, s)[1])
PROOF
  <1>1. ctx.session \in SessionIds
    BY DEF RunContext
  <1>2. NoRunContext \in [flow : {NoFlow}, chan : {<<1, Own>>}, session : {NoSession}]
    BY DEF NoRunContext
  <1> QED
    BY <1>1 DEF spawn_agent, spawn_chat, spawn_turn, Fresh, Unstarted, Driver

-----------------------------------------------------------------------------
\* The steps of a task.

\* Before the first start there is no run and no task.
LEMMA InitRoutes == RouteInit => RouteInv
PROOF
  <1> SUFFICES ASSUME RouteInit PROVE RouteInv
    OBVIOUS
  <1> USE RouteAssumption
  <1>1. /\ runs = [r \in RunIds |-> [status |-> "absent", session |-> NoSession]]
        /\ drivers = [r \in RunIds |-> Unstarted]
    BY DEF RouteInit
  <1>2. RunIds # {} => NoRunContext \in RunContext
    BY DEF NoRunContext, RunContext, Chans, RunIds, SessionIds
  <1>3. RunIds # {} => Unstarted \in Driver
    BY <1>2 DEF Unstarted, Driver
  <1>4. RunsAndTasks
    BY <1>1, <1>3 DEF RunsAndTasks, RunStatusSet, SessionIds
  <1>5. RouteTypeOK
    <2>1. flows \in [FlowRuns -> [exists : BOOLEAN, origin : SessionIds]]
      BY DEF RouteInit, SessionIds
    <2>2. notify \in [FlowRuns -> SessionIds] /\ bound \in [FlowRuns -> SessionIds]
      BY DEF RouteInit, SessionIds
    <2>3. channels \in [Chans -> Seq(FlowRuns \cup {Unnamed, NoFlow})]
      BY DEF RouteInit
    <2>4. activated \in BOOLEAN /\ opened \in BOOLEAN /\ restarted \in BOOLEAN
      BY DEF RouteInit
    <2>5. starts \in 0..MaxStarts /\ docs \in 0..MaxDocs /\ fault \in {"cancel", "extension", "restart"}
      BY DEF RouteInit
    <2> QED
      BY <1>4, <2>1, <2>2, <2>3, <2>4, <2>5 DEF RouteTypeOK, RunsAndTasks
  <1>6. \A r \in RunIds : runs[r].status = "absent" /\ drivers[r].pc = "none" /\ drivers[r].caller = 0
    BY <1>1 DEF Unstarted
  <1>7. Numbered(0)
    BY <1>6 DEF Numbered, RunIds
  <1>8. Routes
    BY <1>6, <1>7 DEF Routes, NoStrandedRun
  <1> QED
    BY <1>5, <1>8 DEF RouteInv

\* The rest of the state, where only runs and their tasks change.
LEMMA Frame ==
    ASSUME RouteInv, RunsAndTasks' /\ Routes', NoMessages
    PROVE  RouteInv'
PROOF
  BY DEF RouteInv, RouteTypeOK, RunsAndTasks, NoMessages

\* complete_run and fail_run leave a run that is over, and the other runs alone.
LEMMA EndsRun ==
    ASSUME RunsAndTasks, NEW r \in RunIds, NEW s \in {"Succeeded", "Failed"}, EndRun(r, s)
    PROVE  /\ runs' \in [RunIds -> [status : RunStatusSet, session : SessionIds]]
           /\ \A k \in RunIds : k # r => runs'[k] = runs[k]
           /\ runs'[r].status \in Ended
PROOF
  <1>1. runs[r] \in [status : RunStatusSet, session : SessionIds]
    BY DEF RunsAndTasks
  <1>2. /\ runs' = [runs EXCEPT ![r] = [runs[r] EXCEPT !.status = IF runs[r].status \in Ended THEN runs[r].status ELSE s]]
    BY DEF EndRun, RunsAndTasks
  <1>3. /\ runs'[r] = [runs[r] EXCEPT !.status = IF runs[r].status \in Ended THEN runs[r].status ELSE s]
        /\ \A k \in RunIds : k # r => runs'[k] = runs[k]
    BY <1>2 DEF RunsAndTasks
  <1>4. runs'[r] \in [status : RunStatusSet, session : SessionIds] /\ runs'[r].status \in Ended
    BY <1>1, <1>3 DEF RunStatusSet, Ended
  <1> QED
    BY <1>2, <1>3, <1>4 DEF RunsAndTasks

\* A live task that waits for nobody ends together with its run.
LEMMA TaskEndKeeps ==
    ASSUME RouteInv, NEW r \in RunIds, NEW s \in {"Succeeded", "Failed"},
           drivers[r].pc \in {"load", "loop", "turn"}, EndRun(r, s), TaskEnds(r)
    PROVE  RunsAndTasks' /\ Routes'
PROOF
  <1>1. RunsAndTasks /\ Routes
    BY DEF RouteInv, RouteTypeOK, RunsAndTasks
  <1> QED
    BY <1>1, Ends, EndsRun DEF Alive

\* Every way a task ends but one that sends a document.
LEMMA EndSteps ==
    ASSUME RouteInv, NEW r \in RunIds,
           \/ PrologueStops(r) \/ ProviderUnusable(r)
           \/ \E s \in {"Succeeded", "Failed"} : LoopEnds(r, s) \/ SessionEnds(r, s) \/ NodeEnds(r, s)
    PROVE  RouteInv'
PROOF
  <1>1. /\ \E s \in {"Succeeded", "Failed"} : EndRun(r, s)
        /\ drivers[r].pc \in {"load", "loop", "turn"} /\ TaskEnds(r) /\ NoMessages
    BY DEF PrologueStops, ProviderUnusable, LoopEnds, SessionEnds, NodeEnds
  <1> QED
    BY <1>1, TaskEndKeeps, Frame

\* A task goes on, and its run, where it changes, is not new.
LEMMA StepOf ==
    ASSUME RouteInv, NEW r \in RunIds, NEW d \in Driver, NEW u \in RunStatusSet,
           runs' = [runs EXCEPT ![r].status = u], drivers' = [drivers EXCEPT ![r] = d],
           u = "absent" <=> runs[r].status = "absent",
           d.caller = drivers[r].caller,
           \/ d.pc = drivers[r].pc
           \/ drivers[r].pc \notin {"none", "done", "waits"} /\ d.pc \notin {"none", "done"},
           u \in {"Pending", "Running"} => d.pc \notin {"none", "done"}
    PROVE  RunsAndTasks' /\ Routes'
PROOF
  <1>1. RunsAndTasks /\ Routes
    BY DEF RouteInv, RouteTypeOK, RunsAndTasks
  <1>2. [runs[r] EXCEPT !.status = u] \in [status : RunStatusSet, session : SessionIds]
    BY <1>1 DEF RunsAndTasks
  <1>3. /\ runs' = [runs EXCEPT ![r] = [runs[r] EXCEPT !.status = u]]
        /\ runs'[r].status = u /\ drivers'[r] = d
        /\ \A k \in RunIds : k # r => runs'[k] = runs[k] /\ drivers'[k] = drivers[k]
    BY <1>1 DEF RunsAndTasks
  <1>4. RunsAndTasks'
    BY <1>1, <1>2, <1>3 DEF RunsAndTasks
  <1>5. \A k \in RunIds :
           /\ runs'[k].status = "absent" <=> runs[k].status = "absent"
           /\ drivers'[k].caller = drivers[k].caller
           /\ \/ drivers'[k].pc = drivers[k].pc
              \/ drivers[k].pc \notin {"none", "done", "waits"} /\ drivers'[k].pc \notin {"none", "done"}
           /\ runs'[k].status \in {"Pending", "Running"} => Alive(k)'
    <2> TAKE k \in RunIds
    <2>1. CASE k = r
      BY <1>3, <2>1 DEF Alive
    <2>2. CASE k # r
      BY <1>1, <1>3, <2>2 DEF Alive, Routes, NoStrandedRun
    <2> QED
      BY <2>1, <2>2
  <1> QED
    BY <1>1, <1>4, <1>5, Moves

\* Steps of a task after which it is still there.
LEMMA MoveSteps ==
    ASSUME RouteInv, NEW r \in RunIds,
           \/ resolve_agent_provider(r) \/ LoopBegins(r) \/ CancelRun(r)
           \/ InvokeAgentFails(r) \/ InvokeFlowFails(r)
    PROVE  RouteInv'
PROOF
  <1>0. RunsAndTasks /\ Routes
    BY DEF RouteInv, RouteTypeOK, RunsAndTasks
  <1>1. /\ drivers[r] \in Driver /\ runs[r].status \in RunStatusSet
        /\ drivers = [drivers EXCEPT ![r] = drivers[r]]
        /\ runs = [runs EXCEPT ![r].status = runs[r].status]
    BY <1>0 DEF RunsAndTasks
  <1>2. /\ runs[r].status = "absent" => drivers[r].pc = "none"
        /\ runs[r].status \in {"Pending", "Running"} => drivers[r].pc \notin {"none", "done"}
    BY <1>0 DEF Routes, NoStrandedRun
  <1>3. CASE resolve_agent_provider(r)
    <2> DEFINE d == [drivers[r] EXCEPT !.engine = "node", !.pc = "turn"]
    <2>1. drivers' = [drivers EXCEPT ![r] = d] /\ runs' = runs /\ NoMessages /\ drivers[r].pc = "load"
      BY <1>0, <1>3 DEF resolve_agent_provider, RunsAndTasks
    <2>2. d \in Driver /\ d.pc = "turn" /\ d.caller = drivers[r].caller
      BY <1>1, TaskEdits
    <2> HIDE DEF d
    <2>3. RunsAndTasks' /\ Routes'
      BY <1>1, <1>2, <2>1, <2>2, StepOf
    <2> QED
      BY <2>1, <2>3, Frame
  <1>4. CASE LoopBegins(r)
    <2>0. NoMessages /\ drivers[r].pc = "load"
      BY <1>4 DEF LoopBegins
    <2>1. CASE runs[r].status \in Ended
      <3>1. TaskEnds(r) /\ runs' = runs
        BY <1>4, <2>1 DEF LoopBegins
      <3>2. RunsAndTasks' /\ Routes'
        BY <1>0, <2>0, <2>1, <3>1, Ends DEF Alive, RunsAndTasks
      <3> QED
        BY <2>0, <3>2, Frame
    <2>2. CASE runs[r].status \notin Ended
      <3> DEFINE d == [drivers[r] EXCEPT !.pc = "loop"]
      <3>1. drivers' = [drivers EXCEPT ![r] = d] /\ runs' = [runs EXCEPT ![r].status = "Running"]
        BY <1>0, <1>4, <2>2 DEF LoopBegins, RunsAndTasks
      <3>2. d \in Driver /\ d.pc = "loop" /\ d.caller = drivers[r].caller
        BY <1>1, TaskEdits
      <3>3. "Running" \in RunStatusSet
        BY DEF RunStatusSet
      <3> HIDE DEF d
      <3>4. RunsAndTasks' /\ Routes'
        BY <1>2, <2>0, <3>1, <3>2, <3>3, StepOf
      <3> QED
        BY <2>0, <3>4, Frame
    <2> QED
      BY <2>1, <2>2
  <1>5. CASE CancelRun(r)
    <2>1. /\ runs[r].status \in {"Pending", "Running", "Paused"} /\ "Cancelled" \in RunStatusSet
          /\ runs' = [runs EXCEPT ![r].status = "Cancelled"] /\ drivers' = drivers /\ NoMessages
      BY <1>5 DEF CancelRun, RunStatusSet
    <2>2. RunsAndTasks' /\ Routes'
      BY <1>1, <1>2, <2>1, StepOf
    <2> QED
      BY <2>1, <2>2, Frame
  <1>6. ASSUME NEW t \in {"Running", "Failed"}, InChat(r), runs' = runs, NoMessages,
               drivers' = [drivers EXCEPT ![r].task = t]
        PROVE  RouteInv'
    <2> DEFINE d == [drivers[r] EXCEPT !.task = t]
    <2>1. drivers' = [drivers EXCEPT ![r] = d]
      BY <1>0, <1>6 DEF RunsAndTasks
    <2>2. d \in Driver /\ d.pc = drivers[r].pc /\ d.caller = drivers[r].caller
      BY <1>1, TasksFail, ZenonT(40)
    <2> HIDE DEF d
    <2>3. drivers[r].pc = "loop"
      BY <1>6 DEF InChat
    <2>4. RunsAndTasks' /\ Routes'
      <3> DEFINE u == runs[r].status
      <3>1. u \in RunStatusSet /\ runs' = [runs EXCEPT ![r].status = u]
        BY <1>1, <1>6
      <3>2. u \in {"Pending", "Running"} => d.pc \notin {"none", "done"}
        BY <2>2, <2>3
      <3> QED
        BY <2>1, <2>2, <3>1, <3>2, StepOf
    <2> QED
      BY <1>6, <2>4, Frame
  <1>7. CASE InvokeAgentFails(r) \/ InvokeFlowFails(r)
    BY <1>6, <1>7 DEF InvokeAgentFails, InvokeFlowFails
  <1> QED
    BY <1>3, <1>4, <1>5, <1>7

-----------------------------------------------------------------------------
\* The steps that start runs.

\* The rest of the state.
RestTyped ==
    /\ activated \in BOOLEAN /\ opened \in BOOLEAN /\ restarted \in BOOLEAN
    /\ flows \in [FlowRuns -> [exists : BOOLEAN, origin : SessionIds]]
    /\ notify \in [FlowRuns -> SessionIds] /\ bound \in [FlowRuns -> SessionIds]
    /\ channels \in [Chans -> Seq(FlowRuns \cup {Unnamed, NoFlow})]
    /\ starts \in 0..MaxStarts /\ docs \in 0..MaxDocs /\ fault \in {"cancel", "extension", "restart"}

\* The invariant, in the parts the steps change.
LEMMA Pieces == RouteInv <=> RunsAndTasks /\ RestTyped /\ Routes
PROOF
  BY DEF RouteInv, RouteTypeOK, RunsAndTasks, RestTyped

\* The same of the next state.
LEMMA PiecesNext == RouteInv' <=> RunsAndTasks' /\ RestTyped' /\ Routes'
PROOF
  BY DEF RouteInv, RouteTypeOK, RunsAndTasks, RestTyped

\* A start of one run.
LEMMA StartedOne ==
    ASSUME RouteInv, NEW p \in Driver \X SessionIds, Fresh(p[1]), Started(<<p>>)
    PROVE  RunsAndTasks' /\ Routes'
PROOF
  <1> DEFINE ds == <<p>>
  <1>1. ds \in Seq(Driver \X SessionIds) /\ Len(ds) = 1 /\ ds[1] = p
    OBVIOUS
  <1>2. Started(ds)
    OBVIOUS
  <1> HIDE DEF ds
  <1>3. \A i \in 1..Len(ds) : Fresh(ds[i][1])
    BY <1>1
  <1> QED
    BY <1>1, <1>2, <1>3, Pieces, StartedKeeps

\* The chat of a flow and its entry agent.
LEMMA StartedTwo ==
    ASSUME RouteInv, NEW p \in Driver \X SessionIds, NEW q \in Driver \X SessionIds,
           Fresh(p[1]), Fresh(q[1]), Started(<<p, q>>)
    PROVE  RunsAndTasks' /\ Routes'
PROOF
  <1> DEFINE ds == <<p, q>>
  <1>1. ds \in Seq(Driver \X SessionIds) /\ Len(ds) = 2 /\ ds[1] = p /\ ds[2] = q
    OBVIOUS
  <1>2. Started(ds)
    OBVIOUS
  <1> HIDE DEF ds
  <1>3. \A i \in 1..Len(ds) : Fresh(ds[i][1])
    BY <1>1
  <1> QED
    BY <1>1, <1>2, <1>3, Pieces, StartedKeeps

\* The two session maps.
LEMMA SessionMaps ==
    ASSUME RestTyped, NEW f \in FlowRuns, NEW s \in SessionIds
    PROVE  /\ register_chat_session(f, s) =>
                 /\ flows' \in [FlowRuns -> [exists : BOOLEAN, origin : SessionIds]]
                 /\ notify' \in [FlowRuns -> SessionIds]
           /\ bind_session(f, s) => bound' \in [FlowRuns -> SessionIds]
PROOF
  <1>1. register_chat_session(f, s) => notify' \in [FlowRuns -> SessionIds]
    BY DEF register_chat_session, RestTyped
  <1>2. register_chat_session(f, s) => flows' \in [FlowRuns -> [exists : BOOLEAN, origin : SessionIds]]
    <2>1. [exists |-> TRUE, origin |-> s] \in [exists : BOOLEAN, origin : SessionIds]
      OBVIOUS
    <2> QED
      BY <2>1 DEF register_chat_session, RestTyped
  <1>3. bind_session(f, s) => bound' \in [FlowRuns -> SessionIds]
    BY DEF bind_session, RestTyped
  <1> QED
    BY <1>1, <1>2, <1>3

\* What the first chat restores.
LEMMA SeededSessions == RestTyped => seed_flow_sessions \in [FlowRuns -> SessionIds]
PROOF
  BY DEF RestTyped, seed_flow_sessions

\* The id of a start that is not refused.
LEMMA IdIsFree ==
    ASSUME RouteInv, Unused # {}
    PROVE  NextId \in RunIds /\ runs[NextId].status = "absent" /\ drivers[NextId].pc = "none"
PROOF
  <1>1. PICK n \in 0..MaxRuns : Numbered(n)
    BY DEF RouteInv, Routes
  <1> QED
    BY <1>1, NextIdIs DEF RouteInv, Routes

\* The bound on the requests.
LEMMA StartsCount == RestTyped /\ MayStartRun => starts' \in 0..MaxStarts
PROOF
  BY RouteAssumption DEF RestTyped, MayStartRun

\* StartRun for a picked provider, for no flow and for a flow that is gone.
LEMMA StartSteps ==
    ASSUME RouteInv, NEW s \in Sessions \cup {NoSession},
           StartSession(s) \/ StartChat(s) \/ StartWithoutDefinition(s)
    PROVE  RouteInv'
PROOF
  <1> USE RouteAssumption
  <1>0. RunsAndTasks /\ RestTyped /\ Routes
    BY Pieces
  <1>1. MayStartRun /\ starts' \in 0..MaxStarts /\ s \in SessionIds
    BY <1>0, StartsCount DEF StartSession, StartChat, StartWithoutDefinition, SessionIds
  <1>2. NextId \in RunIds
    BY <1>1, IdIsFree DEF MayStartRun
  <1>3. <<NextId, Own>> \in Chans /\ <<1, Own>> \in Chans
    BY <1>2 DEF Chans, RunIds
  <1>4. CASE StartSession(s)
    <2> DEFINE p == <<[Unstarted EXCEPT !.engine = "session", !.pc = "turn"], s>>
    <2>1. Started(<<p>>)
      BY <1>4 DEF StartSession
    <2>2. NoRunContext \in RunContext
      BY <1>3 DEF NoRunContext, RunContext, SessionIds
    <2>3. p \in Driver \X SessionIds /\ Fresh(p[1])
      BY <1>1, <2>2 DEF Unstarted, Driver, Fresh
    <2> HIDE DEF p
    <2>4. RunsAndTasks' /\ Routes'
      BY <2>1, <2>3, StartedOne
    <2>5. RestTyped'
      BY <1>0, <1>1, <1>4 DEF StartSession, RestTyped
    <2> QED
      BY <2>4, <2>5, PiecesNext
  <1>5. CASE StartChat(s)
    <2> DEFINE ctx == [flow |-> NoFlow, chan |-> <<NextId, Own>>, session |-> s]
    <2>1. ctx \in RunContext
      BY <1>1, <1>3 DEF RunContext
    <2>2. Started(<<spawn_turn(ctx, "free", s)>>)
      BY <1>5 DEF StartChat
    <2> HIDE DEF ctx
    <2>3. RunsAndTasks' /\ Routes'
      BY <1>1, <2>1, <2>2, SpawnsAreFresh, StartedOne
    <2>4. bound' \in [FlowRuns -> SessionIds]
      BY <1>0, <1>5, SeededSessions DEF StartChat, RestTyped
    <2>5. RestTyped'
      BY <1>0, <1>1, <1>5, <2>4 DEF StartChat, RestTyped
    <2> QED
      BY <2>3, <2>5, PiecesNext
  <1>6. CASE StartWithoutDefinition(s)
    <2> DEFINE ctx == [flow |-> Unnamed, chan |-> <<NextId, Own>>, session |-> s]
    <2>1. ctx \in RunContext
      BY <1>1, <1>3 DEF RunContext
    <2>2. Started(<<spawn_turn(ctx, "bound", s)>>)
      BY <1>6 DEF StartWithoutDefinition
    <2> HIDE DEF ctx
    <2>3. RunsAndTasks' /\ Routes'
      BY <1>1, <2>1, <2>2, SpawnsAreFresh, StartedOne
    <2>4. RestTyped'
      BY <1>0, <1>1, <1>6 DEF StartWithoutDefinition, RestTyped
    <2> QED
      BY <2>3, <2>4, PiecesNext
  <1> QED
    BY <1>4, <1>5, <1>6

\* StartRun for a flow: the chat and the entry agent are started.
LEMMA FlowChatKeeps ==
    ASSUME RouteInv, NEW s \in Sessions \cup {NoSession}, NEW f \in FlowRuns,
           NEW child \in Sessions \cup {NoSession}, StartFlowChat(f, s, child)
    PROVE  RouteInv'
PROOF
  <1> USE RouteAssumption
  <1>0. RunsAndTasks /\ RestTyped /\ Routes
    BY Pieces
  <1> DEFINE place == IF child # NoSession THEN child ELSE s
             ctx == [flow |-> f, chan |-> <<NextId, Own>>, session |-> place]
  <1>1. MayStartRun /\ starts' \in 0..MaxStarts /\ s \in SessionIds /\ place \in SessionIds
    BY <1>0, StartsCount DEF StartFlowChat, SessionIds
  <1>2. NextId \in RunIds
    BY <1>1, IdIsFree DEF MayStartRun
  <1>3. ctx \in RunContext
    BY <1>1, <1>2 DEF RunContext, Chans
  <1>4. /\ Started(<<spawn_turn(ctx, "bound", s), spawn_agent(ctx)>>)
        /\ bind_session(f, place) /\ register_chat_session(f, s)
    BY DEF StartFlowChat
  <1> HIDE DEF place, ctx
  <1>5. RunsAndTasks' /\ Routes'
    BY <1>1, <1>3, <1>4, SpawnsAreFresh, StartedTwo
  <1>6. RestTyped'
    BY <1>0, <1>1, <1>4, SessionMaps DEF StartFlowChat, RestTyped
  <1> QED
    BY <1>5, <1>6, PiecesNext

\* StartRun for a flow that could not be started: the run is failed.
LEMMA FlowFailsKeeps ==
    ASSUME RouteInv, NEW s \in Sessions \cup {NoSession}, StartFlowFails(s)
    PROVE  RouteInv'
PROOF
  <1> USE RouteAssumption
  <1>0. RunsAndTasks /\ RestTyped /\ Routes
    BY Pieces
  <1> DEFINE c == NextId
             d == [drivers[c] EXCEPT !.pc = "done"]
             u == [status |-> "Failed", session |-> s]
  <1>1. MayStartRun /\ starts' \in 0..MaxStarts /\ u \in [status : RunStatusSet, session : SessionIds]
    BY <1>0, StartsCount DEF StartFlowFails, SessionIds, RunStatusSet
  <1>2. c \in RunIds /\ runs[c].status = "absent" /\ drivers[c].pc = "none"
    BY <1>1, IdIsFree DEF MayStartRun
  <1>3. drivers[c] \in Driver
    BY <1>0, <1>2 DEF RunsAndTasks
  <1>4. d \in Driver /\ d.pc = "done" /\ d.caller = drivers[c].caller
    BY <1>3, TaskEdits
  <1>5. runs' = [runs EXCEPT ![c] = u] /\ drivers' = [drivers EXCEPT ![c] = d]
    BY <1>0, <1>2 DEF StartFlowFails, RunsAndTasks
  <1>6. u.status = "Failed"
    OBVIOUS
  <1>7. RestTyped'
    BY <1>0, <1>1 DEF StartFlowFails, RestTyped
  <1>8. PICK n \in 0..MaxRuns : Numbered(n)
    BY <1>0 DEF Routes
  <1>9. c = n + 1
    BY <1>1, <1>8, NextIdIs DEF MayStartRun
  <1> HIDE DEF c, d, u
  <1>10. RunsAndTasks'
    BY <1>0, <1>1, <1>2, <1>4, <1>5 DEF RunsAndTasks
  <1>11. /\ runs'[c].status = "Failed" /\ drivers'[c].pc = "done" /\ drivers'[c].caller = drivers[c].caller
         /\ \A k \in RunIds : k # c => runs'[k] = runs[k] /\ drivers'[k] = drivers[k]
    BY <1>0, <1>2, <1>4, <1>5, <1>6 DEF RunsAndTasks
  <1>12. \E m \in 0..MaxRuns : Numbered(m)'
    <2>1. n + 1 \in 0..MaxRuns
      BY <1>2, <1>8, <1>9 DEF RunIds
    <2>2. Numbered(n + 1)'
      BY <1>2, <1>8, <1>9, <1>11 DEF Numbered, RunIds
    <2> QED
      BY <2>1, <2>2
  <1>13. \A r \in RunIds : drivers[r].caller \in {0} \cup RunIds
    BY <1>0 DEF RunsAndTasks, Driver
  <1>14. Routes'
    <2>1. \A r \in RunIds : runs'[r].status = "absent" => drivers'[r].pc = "none"
      BY <1>0, <1>11 DEF Routes
    <2>2. \A a, b \in RunIds :
             drivers'[a].caller # 0 /\ drivers'[a].caller = drivers'[b].caller
             /\ drivers'[a].pc # "done" /\ drivers'[b].pc # "done" => a = b
      BY <1>0, <1>11 DEF Routes
    <2>3. NoStrandedRun'
      <3>1. \A r \in RunIds : runs'[r].status \in {"Pending", "Running"} => drivers'[r].pc \notin {"none", "done"}
        BY <1>0, <1>11 DEF Routes, NoStrandedRun
      <3>2. \A r \in RunIds : drivers'[r].caller # 0 /\ drivers'[r].pc # "done"
               => drivers'[drivers'[r].caller].pc = "waits"
        BY <1>0, <1>2, <1>11, <1>13 DEF Routes, NoStrandedRun
      <3> QED
        BY <3>1, <3>2 DEF NoStrandedRun
    <2> QED
      BY <1>12, <2>1, <2>2, <2>3 DEF Routes
  <1> QED
    BY <1>7, <1>10, <1>14, PiecesNext

-----------------------------------------------------------------------------
\* Documents, and the tools of a chat.

\* A document is one more in the channel of its sender's context.
LEMMA Sends ==
    ASSUME RestTyped, NEW ctx \in RunContext, Send(ctx)
    PROVE  /\ docs' \in 0..MaxDocs
           /\ channels' \in [Chans -> Seq(FlowRuns \cup {Unnamed, NoFlow})]
PROOF
  <1>1. docs' \in 0..MaxDocs
    BY RouteAssumption DEF RestTyped, Send
  <1>2. ctx.chan \in Chans /\ ctx.flow \in FlowRuns \cup {Unnamed, NoFlow}
    BY DEF RunContext
  <1>3. channels[ctx.chan] \in Seq(FlowRuns \cup {Unnamed, NoFlow})
    BY <1>2 DEF RestTyped
  <1>4. Append(channels[ctx.chan], ctx.flow) \in Seq(FlowRuns \cup {Unnamed, NoFlow})
    BY <1>2, <1>3
  <1>5. channels' \in [Chans -> Seq(FlowRuns \cup {Unnamed, NoFlow})]
    BY <1>2, <1>4 DEF RestTyped, Send
  <1> QED
    BY <1>1, <1>5

\* A supervision task takes the first document.
LEMMA Takes ==
    ASSUME RestTyped, NEW c \in Chans, channels[c] # <<>>, Taken1(c)
    PROVE  channels' \in [Chans -> Seq(FlowRuns \cup {Unnamed, NoFlow})]
PROOF
  <1>1. Tail(channels[c]) \in Seq(FlowRuns \cup {Unnamed, NoFlow})
    BY DEF RestTyped
  <1> QED
    BY <1>1 DEF RestTyped, Taken1

\* The contexts that tools and supervision tasks pass on.
LEMMA Contexts ==
    ASSUME RunsAndTasks
    PROVE  /\ \A r \in RunIds : drivers[r].ctx \in RunContext /\ runs[r].session \in SessionIds
           /\ \A r \in RunIds, f \in FlowRuns, t \in {"flow_start", "flow_approve", "invoke_flow"} :
                 SpawnContext(r, f, t) \in RunContext
           /\ \A c \in Chans : Supervised(c) \in FlowRuns => SupervisedContext(c) \in RunContext
PROOF
  <1>1. \A r \in RunIds : drivers[r].ctx \in RunContext /\ runs[r].session \in SessionIds
    BY DEF RunsAndTasks, Driver
  <1>2. ASSUME NEW r \in RunIds, NEW f \in FlowRuns, NEW t \in {"flow_start", "flow_approve", "invoke_flow"}
        PROVE  SpawnContext(r, f, t) \in RunContext
    <2>1. [flow |-> f, chan |-> <<r, f>>, session |-> runs[r].session] \in RunContext
      BY <1>1 DEF RunContext, Chans
    <2>2. [drivers[r].ctx EXCEPT !.flow = f, !.session = runs[r].session] \in RunContext
      BY <1>1 DEF RunContext
    <2> QED
      BY <1>1, <2>1, <2>2 DEF SpawnContext
  <1>3. ASSUME NEW c \in Chans, Supervised(c) \in FlowRuns
        PROVE  SupervisedContext(c) \in RunContext
    <2>1. c[1] \in RunIds /\ c[2] \in FlowRuns \cup {Own}
      BY DEF Chans
    <2>2. CASE c[2] = Own
      BY <1>1, <2>1, <2>2 DEF SupervisedContext
    <2>3. CASE c[2] # Own
      BY <1>1, <2>1, <2>3 DEF SupervisedContext, RunContext
    <2> QED
      BY <2>2, <2>3
  <1> QED
    BY <1>1, <1>2, <1>3

\* submit_document, and the reply of an extension's agent.
LEMMA DocumentSteps ==
    ASSUME RouteInv, NEW r \in RunIds, SubmitDoc(r) \/ NodeSubmits(r)
    PROVE  RouteInv'
PROOF
  <1>0. RunsAndTasks /\ RestTyped /\ Routes /\ drivers[r].ctx \in RunContext
    BY Pieces, Contexts
  <1>1. Send(drivers[r].ctx)
    BY DEF SubmitDoc, NodeSubmits
  <1>2. RestTyped'
    <2>1. UNCHANGED <<activated, flows, notify, bound, opened, starts, restarted, fault>>
      BY DEF SubmitDoc, NodeSubmits
    <2> QED
      BY <1>0, <1>1, <2>1, Sends DEF RestTyped
  <1>3. CASE SubmitDoc(r)
    <2>1. RunsAndTasks' /\ Routes'
      BY <1>0, <1>3 DEF SubmitDoc, RunsAndTasks, Routes, Numbered, NoStrandedRun
    <2> QED
      BY <1>2, <2>1, PiecesNext
  <1>4. CASE NodeSubmits(r)
    <2>1. RunsAndTasks' /\ Routes'
      BY <1>4, TaskEndKeeps DEF NodeSubmits
    <2> QED
      BY <1>2, <2>1, PiecesNext
  <1> QED
    BY <1>3, <1>4

\* Tools that start an agent and go on.
LEMMA SpawnSteps ==
    ASSUME RouteInv, NEW r \in RunIds, NEW f \in FlowRuns,
           SubmitReview(r) \/ flow_start(r, f) \/ flow_approve(r, f)
    PROVE  RouteInv'
PROOF
  <1>0. RunsAndTasks /\ RestTyped /\ Routes
    BY Pieces
  <1>1. ASSUME NEW ctx \in RunContext, Started(<<spawn_agent(ctx)>>)
        PROVE  RunsAndTasks' /\ Routes'
    BY <1>1, SpawnsAreFresh, StartedOne DEF SessionIds
  <1>2. CASE SubmitReview(r)
    <2>1. Started(<<spawn_agent(drivers[r].ctx)>>) /\ NoMessages
      BY <1>2 DEF SubmitReview
    <2> QED
      BY <1>0, <1>1, <2>1, Contexts, Frame
  <1>3. CASE flow_approve(r, f)
    <2>1. Started(<<spawn_agent(SpawnContext(r, f, "flow_approve"))>>) /\ NoMessages
      BY <1>3 DEF flow_approve
    <2>2. SpawnContext(r, f, "flow_approve") \in RunContext
      BY <1>0, Contexts
    <2> QED
      BY <1>1, <2>1, <2>2, Frame
  <1>4. CASE flow_start(r, f)
    <2> DEFINE s == IF runs[r].session = NoSession THEN "" ELSE runs[r].session
    <2>1. /\ Started(<<spawn_agent(SpawnContext(r, f, "flow_start"))>>)
          /\ register_chat_session(f, s)
          /\ UNCHANGED <<bound, activated, opened, channels, starts, docs, restarted, fault>>
      BY <1>4 DEF flow_start
    <2>2. SpawnContext(r, f, "flow_start") \in RunContext /\ s \in SessionIds
      BY <1>0, Contexts DEF SessionIds
    <2> HIDE DEF s
    <2>3. RunsAndTasks' /\ Routes'
      BY <1>1, <2>1, <2>2
    <2>4. RestTyped'
      BY <1>0, <2>1, <2>2, SessionMaps DEF RestTyped
    <2> QED
      BY <2>3, <2>4, PiecesNext
  <1> QED
    BY <1>2, <1>3, <1>4

\* A supervisor in its loop goes to wait for run c, which was absent: an
\* invoked agent answers to it, the entry agent of an invoked flow to nobody.
LEMMA Waits ==
    ASSUME RunsAndTasks, Routes, RunsAndTasks', NEW r \in RunIds, Unused # {}, NEW c, c = NextId,
           drivers[r].pc = "loop", drivers'[r].pc = "waits", drivers'[r].caller = drivers[r].caller,
           Alive(c)', drivers'[c].caller \in {0, r}, runs'[c].status = "Pending", runs'[r] = runs[r],
           \A k \in RunIds : k \notin {r, c} => runs'[k] = runs[k] /\ drivers'[k] = drivers[k]
    PROVE  Routes'
PROOF
  <1>1. PICK n \in 0..MaxRuns : Numbered(n)
    BY DEF Routes
  <1>2. c = n + 1 /\ c \in RunIds /\ runs[c].status = "absent"
    BY <1>1, NextIdIs
  <1>3. drivers[c].pc = "none" /\ c # r
    BY <1>2 DEF Routes
  <1>4. \A k \in RunIds : drivers[k].caller \in {0} \cup RunIds
    BY DEF RunsAndTasks, Driver
  <1>5. \A k \in RunIds : drivers[k].caller # 0 /\ drivers[k].pc # "done" => drivers[k].caller \notin {r, c}
    BY <1>3 DEF Routes, NoStrandedRun
  <1>6. \E m \in 0..MaxRuns : Numbered(m)'
    <2>1. n + 1 \in 0..MaxRuns
      BY <1>2, RouteAssumption DEF RunIds
    <2>2. Numbered(n + 1)'
      <3> SUFFICES ASSUME NEW k \in RunIds PROVE runs'[k].status = "absent" <=> k > n + 1
        BY DEF Numbered
      <3>1. CASE k = c
        BY <1>2, <3>1 DEF RunIds
      <3>2. CASE k # c
        <4>1. runs'[k] = runs[k]
          BY <3>2
        <4> QED
          BY <1>1, <1>2, <3>2, <4>1 DEF Numbered, RunIds
      <3> QED
        BY <3>1, <3>2
    <2> QED
      BY <2>1, <2>2
  <1>7. \A k \in RunIds : runs'[k].status = "absent" => drivers'[k].pc = "none"
    <2>1. runs[r].status # "absent"
      BY DEF Routes
    <2> QED
      BY <2>1 DEF Routes
  <1>8. \A k \in RunIds \ {c} : drivers'[k].caller = drivers[k].caller /\ (drivers'[k].pc # "done" => drivers[k].pc # "done")
    OBVIOUS
  <1>9. \A a, b \in RunIds :
          drivers'[a].caller # 0 /\ drivers'[a].caller = drivers'[b].caller
          /\ drivers'[a].pc # "done" /\ drivers'[b].pc # "done" => a = b
    BY <1>5, <1>8 DEF Routes
  <1>10. \A k \in RunIds : runs'[k].status \in {"Pending", "Running"} => drivers'[k].pc \notin {"none", "done"}
    BY DEF Alive, Routes, NoStrandedRun
  <1>11. \A k \in RunIds : drivers'[k].caller # 0 /\ drivers'[k].pc # "done"
            => drivers'[drivers'[k].caller].pc = "waits"
    <2> TAKE k \in RunIds
    <2> HAVE drivers'[k].caller # 0 /\ drivers'[k].pc # "done"
    <2>1. CASE k = c
      BY <2>1
    <2>2. CASE k # c
      <3>1. drivers'[k].caller = drivers[k].caller /\ drivers[k].caller \in RunIds \ {r, c}
        BY <1>4, <1>5, <1>8, <2>2
      <3>2. drivers[drivers[k].caller].pc = "waits"
        BY <1>8, <2>2, <3>1 DEF Routes, NoStrandedRun
      <3> QED
        BY <3>1, <3>2
    <2> QED
      BY <2>1, <2>2
  <1> QED
    BY <1>6, <1>7, <1>9, <1>10, <1>11 DEF Routes, NoStrandedRun

\* invoke_agent and invoke_flow.
LEMMA InvokeSteps ==
    ASSUME RouteInv, NEW r \in RunIds, invoke_agent(r) \/ \E f \in FlowRuns : invoke_flow(r, f)
    PROVE  RouteInv'
PROOF
  <1>0. RunsAndTasks /\ RestTyped /\ Routes
    BY Pieces
  <1>1. Unused # {} /\ drivers[r].pc = "loop"
    BY DEF invoke_agent, invoke_flow, InChat
  <1> DEFINE c == NextId
  <1>2. c \in RunIds /\ c # r
    BY <1>1, IdIsFree
  <1>3. drivers[r] \in Driver
    BY <1>0 DEF RunsAndTasks
  <1> DEFINE w == [drivers[r] EXCEPT !.pc = "waits", !.task = "Running"]
  <1>4. w \in Driver /\ w.pc = "waits" /\ w.caller = drivers[r].caller
    BY <1>3, TasksFail
  <1>5. ASSUME NEW d \in Driver, NEW s \in SessionIds, d.pc \notin {"none", "done"}, d.caller \in {0, r},
               runs' = [runs EXCEPT ![c] = [status |-> "Pending", session |-> s]],
               drivers' = [drivers EXCEPT ![r] = w, ![c] = d]
        PROVE  RunsAndTasks' /\ Routes'
    <2> HIDE DEF w
    <2>1. [status |-> "Pending", session |-> s] \in [status : RunStatusSet, session : SessionIds]
      BY DEF RunStatusSet
    <2>2. RunsAndTasks'
      BY <1>0, <1>4, <1>5, <2>1 DEF RunsAndTasks
    <2>3. /\ drivers'[r] = w /\ drivers'[c] = d /\ runs'[c].status = "Pending" /\ runs'[r] = runs[r]
          /\ \A k \in RunIds : k \notin {r, c} => runs'[k] = runs[k] /\ drivers'[k] = drivers[k]
      <3> HIDE DEF c
      <3> QED
        BY <1>0, <1>2, <1>5 DEF RunsAndTasks
    <2> QED
      BY <1>0, <1>1, <1>4, <1>5, <2>2, <2>3, Waits DEF Alive
  <1>6. CASE invoke_agent(r)
    <2> DEFINE d == [Unstarted EXCEPT !.engine = "child", !.pc = "load", !.caller = r,
                                      !.ctx = [drivers[r].ctx EXCEPT !.flow = NoFlow]]
    <2>1. [drivers[r].ctx EXCEPT !.flow = NoFlow] \in RunContext
      BY <1>3 DEF Driver, RunContext
    <2>2. d \in Driver /\ d.pc = "load" /\ d.caller = r
      BY <2>1 DEF Unstarted, Driver
    <2>3. /\ runs' = [runs EXCEPT ![c] = [status |-> "Pending", session |-> runs[r].session]]
          /\ NoMessages
      BY <1>6 DEF invoke_agent
    <2>4. drivers' = [drivers EXCEPT ![r] = w, ![c] = d]
      BY <1>0, <1>2, <1>6 DEF invoke_agent, Waiting, RunsAndTasks
    <2>5. runs[r].session \in SessionIds
      BY <1>0, Contexts
    <2> HIDE DEF d, w, c
    <2>6. RunsAndTasks' /\ Routes'
      BY <1>5, <2>2, <2>3, <2>4, <2>5
    <2> QED
      BY <2>3, <2>6, Frame
  <1>7. ASSUME NEW f \in FlowRuns, invoke_flow(r, f) PROVE RunsAndTasks' /\ RestTyped' /\ Routes'
    <2> DEFINE s == IF drivers[r].spawns = "notified" THEN NoSession ELSE drivers[r].ctx.session
               ctx == SpawnContext(r, f, "invoke_flow")
               p == spawn_agent(ctx)
               d == p[1]
    <2>1. ctx \in RunContext /\ s \in SessionIds
      BY <1>0, Contexts DEF SessionIds, RunContext
    <2>2. p \in Driver \X SessionIds /\ Fresh(d) /\ p[2] \in SessionIds
      BY <2>1, SpawnsAreFresh
    <2>3. d \in Driver /\ d.pc \notin {"none", "done"} /\ d.caller = 0
      BY <2>2 DEF Fresh
    <2>4. /\ register_chat_session(f, s) /\ bind_session(f, s)
          /\ runs' = [runs EXCEPT ![c] = [status |-> "Pending", session |-> p[2]]]
          /\ UNCHANGED <<activated, opened, channels, starts, docs, restarted, fault>>
      BY <1>7 DEF invoke_flow
    <2>5. drivers' = [drivers EXCEPT ![r] = w, ![c] = d]
      BY <1>0, <1>2, <1>7 DEF invoke_flow, RunsAndTasks
    <2> HIDE DEF s, d, p, w, c, ctx
    <2>6. RunsAndTasks' /\ Routes'
      BY <1>5, <2>2, <2>3, <2>4, <2>5
    <2>7. RestTyped'
      BY <1>0, <2>1, <2>4, SessionMaps DEF RestTyped
    <2> QED
      BY <1>0, <2>6, <2>7
  <1> QED
    BY <1>6, <1>7, PiecesNext

-----------------------------------------------------------------------------
\* The supervision tasks, and what stops everything.

\* What a supervision task does with a document.
LEMMA ReceiveSteps ==
    ASSUME RouteInv, NEW c \in Chans,
           DropDocument(c) \/ ReceiveQuietly(c) \/ ReceiveInvokes(c) \/ ReceiveNotifies(c)
    PROVE  RouteInv'
PROOF
  <1>0. RunsAndTasks /\ RestTyped /\ Routes
    BY Pieces
  <1>1. channels[c] # <<>> /\ Taken1(c)
    BY DEF DropDocument, ReceiveQuietly, ReceiveInvokes, ReceiveNotifies, Process
  <1>2. channels' \in [Chans -> Seq(FlowRuns \cup {Unnamed, NoFlow})]
    BY <1>0, <1>1, Takes
  <1>3. UNCHANGED <<activated, flows, notify, opened, starts, docs, restarted, fault>>
    BY DEF DropDocument, ReceiveQuietly, ReceiveInvokes, ReceiveNotifies, Process
  <1>4. CASE DropDocument(c) \/ ReceiveQuietly(c)
    <2>1. UNCHANGED <<runs, drivers, bound>>
      BY <1>4 DEF DropDocument, ReceiveQuietly
    <2>2. RunsAndTasks' /\ Routes'
      BY <1>0, <2>1 DEF RunsAndTasks, Routes, Numbered, NoStrandedRun
    <2>3. RestTyped'
      BY <1>0, <1>2, <1>3, <2>1 DEF RestTyped
    <2> QED
      BY <2>2, <2>3, PiecesNext
  <1>5. CASE ReceiveInvokes(c)
    <2>1. SupervisedContext(c) \in RunContext /\ Started(<<spawn_agent(SupervisedContext(c))>>) /\ bound' = bound
      BY <1>0, <1>5, Contexts DEF ReceiveInvokes, Process
    <2>2. RunsAndTasks' /\ Routes'
      BY <2>1, SpawnsAreFresh, StartedOne DEF SessionIds
    <2>3. RestTyped'
      BY <1>0, <1>2, <1>3, <2>1 DEF RestTyped
    <2> QED
      BY <2>2, <2>3, PiecesNext
  <1>6. CASE ReceiveNotifies(c)
    <2>1. c[2] \in FlowRuns /\ notify[c[2]] \in SessionIds
      BY <1>0, <1>6 DEF ReceiveNotifies, Chans, RestTyped
    <2>2. /\ SupervisedContext(c) \in RunContext
          /\ Started(<<spawn_chat(SupervisedContext(c), notify[c[2]])>>)
      BY <1>0, <1>6, Contexts DEF ReceiveNotifies, Process
    <2>3. RunsAndTasks' /\ Routes'
      BY <2>1, <2>2, SpawnsAreFresh, StartedOne
    <2>4. bound' \in [FlowRuns -> SessionIds]
      BY <1>0, <1>6, <2>1 DEF ReceiveNotifies, RestTyped
    <2>5. RestTyped'
      BY <1>0, <1>2, <1>3, <2>4 DEF RestTyped
    <2> QED
      BY <2>3, <2>5, PiecesNext
  <1> QED
    BY <1>4, <1>5, <1>6

\* A refused start, a request that looks at flow runs, an extension.
LEMMA OtherSteps ==
    ASSUME RouteInv, StartRefused \/ LookAtFlows \/ ExtensionToggles
    PROVE  RouteInv'
PROOF
  <1>0. RunsAndTasks /\ RestTyped /\ Routes
    BY Pieces
  <1>1. UNCHANGED <<runs, drivers>>
    BY DEF StartRefused, LookAtFlows, ExtensionToggles
  <1>2. RunsAndTasks' /\ Routes'
    BY <1>0, <1>1 DEF RunsAndTasks, Routes, Numbered, NoStrandedRun
  <1>3. RestTyped'
    <2>1. starts' \in 0..MaxStarts
      BY <1>0, RouteAssumption DEF StartRefused, LookAtFlows, ExtensionToggles, RestTyped
    <2>2. activated' \in BOOLEAN /\ opened' \in BOOLEAN
      BY <1>0 DEF StartRefused, LookAtFlows, ExtensionToggles, RestTyped
    <2>3. UNCHANGED <<flows, notify, bound, channels, docs, restarted, fault>>
      BY DEF StartRefused, LookAtFlows, ExtensionToggles
    <2> QED
      BY <1>0, <2>1, <2>2, <2>3 DEF RestTyped
  <1> QED
    BY <1>2, <1>3, PiecesNext

\* The process stops: no task is left and no run is under way.
LEMMA RestartKeeps ==
    ASSUME RouteInv, NEW lost \in SUBSET FlowRuns, Restart1(lost)
    PROVE  RouteInv'
PROOF
  <1>0. RunsAndTasks /\ RestTyped /\ Routes
    BY Pieces
  <1>1. \A r \in RunIds :
           /\ runs'[r] \in [status : RunStatusSet, session : SessionIds]
           /\ runs'[r].status = "absent" <=> runs[r].status = "absent"
           /\ runs'[r].status \notin {"Pending", "Running"}
    <2> TAKE r \in RunIds
    <2>1. runs[r] \in [status : RunStatusSet, session : SessionIds]
      BY <1>0 DEF RunsAndTasks
    <2>2. runs'[r] = [runs[r] EXCEPT !.status = IF runs[r].status \in {"Pending", "Running"} THEN "Paused" ELSE runs[r].status]
      BY DEF Restart1
    <2> QED
      BY <2>1, <2>2 DEF RunStatusSet
  <1>2. \A r \in RunIds :
           /\ drivers'[r] \in Driver
           /\ drivers'[r].pc \in {"none", "done"} /\ (drivers'[r].pc = "none" <=> drivers[r].pc = "none")
           /\ drivers'[r].pc # "done" => drivers'[r].caller = 0
    <2> TAKE r \in RunIds
    <2>1. drivers[r] \in Driver
      BY <1>0 DEF RunsAndTasks
    <2>2. [drivers[r] EXCEPT !.pc = "done"] \in Driver /\ [drivers[r] EXCEPT !.pc = "done"].pc = "done"
      BY <2>1, TaskEdits
    <2>3. NoRunContext \in RunContext
      BY RouteAssumption DEF NoRunContext, RunContext, Chans, RunIds, SessionIds
    <2>4. Unstarted \in Driver /\ Unstarted.pc = "none" /\ Unstarted.caller = 0
      BY <2>3 DEF Unstarted, Driver
    <2>5. drivers'[r] = IF drivers[r].pc = "none" THEN Unstarted ELSE [drivers[r] EXCEPT !.pc = "done"]
      BY DEF Restart1
    <2> QED
      BY <2>2, <2>4, <2>5
  <1>3. RunsAndTasks'
    <2>1. runs' = [r \in RunIds |-> runs'[r]] /\ drivers' = [r \in RunIds |-> drivers'[r]]
      BY DEF Restart1
    <2> QED
      BY <1>1, <1>2, <2>1 DEF RunsAndTasks
  <1>4. Routes'
    <2>1. PICK n \in 0..MaxRuns : Numbered(n)
      BY <1>0 DEF Routes
    <2>2. Numbered(n)'
      BY <1>1, <2>1 DEF Numbered
    <2> QED
      BY <1>0, <1>1, <1>2, <2>2 DEF Routes, NoStrandedRun
  <1>5. RestTyped'
    <2>1. flows' \in [FlowRuns -> [exists : BOOLEAN, origin : SessionIds]]
      <3>1. \A f \in FlowRuns : flows[f] \in [exists : BOOLEAN, origin : SessionIds]
        BY <1>0 DEF RestTyped
      <3>2. \A f \in FlowRuns : [flows[f] EXCEPT !.origin = NoSession] \in [exists : BOOLEAN, origin : SessionIds]
        BY <3>1 DEF SessionIds
      <3> QED
        BY <3>1, <3>2 DEF Restart1
    <2>2. /\ notify' \in [FlowRuns -> SessionIds] /\ bound' \in [FlowRuns -> SessionIds]
          /\ channels' \in [Chans -> Seq(FlowRuns \cup {Unnamed, NoFlow})]
      BY DEF Restart1, SessionIds
    <2>3. opened' \in BOOLEAN /\ restarted' \in BOOLEAN
      BY DEF Restart1
    <2>4. UNCHANGED <<activated, starts, docs, fault>>
      BY DEF Restart1
    <2> QED
      BY <1>0, <2>1, <2>2, <2>3, <2>4 DEF RestTyped
  <1> QED
    BY <1>3, <1>4, <1>5, PiecesNext

\* Every step keeps the invariant.
LEMMA NextRoutes == RouteInv /\ [RouteNext]_routeVars => RouteInv'
PROOF
  <1> SUFFICES ASSUME RouteInv, [RouteNext]_routeVars PROVE RouteInv'
    OBVIOUS
  <1>1. ASSUME NEW r \in RunIds, TaskStep(r) PROVE RouteInv'
    <2>1. CASE \/ PrologueStops(r) \/ ProviderUnusable(r)
               \/ \E s \in {"Succeeded", "Failed"} : LoopEnds(r, s) \/ SessionEnds(r, s) \/ NodeEnds(r, s)
      BY <2>1, EndSteps
    <2>2. CASE resolve_agent_provider(r) \/ LoopBegins(r) \/ CancelRun(r) \/ InvokeAgentFails(r) \/ InvokeFlowFails(r)
      BY <2>2, MoveSteps
    <2>3. CASE SubmitDoc(r) \/ NodeSubmits(r)
      BY <2>3, DocumentSteps
    <2>4. CASE SubmitReview(r)
      <3>1. drivers[r].ctx.flow \in FlowRuns
        BY <2>4 DEF SubmitReview
      <3> QED
        BY <2>4, <3>1, SpawnSteps
    <2>5. CASE \E f \in FlowRuns : flow_start(r, f) \/ flow_approve(r, f)
      BY <2>5, SpawnSteps
    <2>6. CASE \E f \in FlowRuns : invoke_flow(r, f)
      BY <2>6, InvokeSteps
    <2>7. CASE invoke_agent(r)
      BY <2>7, InvokeSteps
    <2> QED
      BY <1>1, <2>1, <2>2, <2>3, <2>4, <2>5, <2>6, <2>7 DEF TaskStep
  <1>2. ASSUME NEW s \in Sessions \cup {NoSession},
               \/ StartSession(s) \/ StartChat(s) \/ StartFlowFails(s) \/ StartWithoutDefinition(s)
               \/ \E f \in FlowRuns, child \in Sessions \cup {NoSession} : StartFlowChat(f, s, child)
        PROVE  RouteInv'
    BY <1>2, StartSteps, FlowFailsKeeps, FlowChatKeeps
  <1>3. CASE StartRefused \/ LookAtFlows \/ ExtensionToggles
    BY <1>3, OtherSteps
  <1>4. ASSUME NEW c \in Chans, DropDocument(c) \/ ReceiveQuietly(c) \/ ReceiveInvokes(c) \/ ReceiveNotifies(c)
        PROVE  RouteInv'
    BY <1>4, ReceiveSteps
  <1>5. ASSUME NEW lost \in SUBSET {f \in FlowRuns : flows[f].origin # NoSession}, Restart1(lost)
        PROVE  RouteInv'
    BY <1>5, RestartKeeps
  <1>6. CASE UNCHANGED routeVars
    BY <1>6 DEF routeVars, RouteInv, RouteTypeOK, Routes, Numbered, NoStrandedRun
  <1> QED
    BY <1>1, <1>2, <1>3, <1>4, <1>5, <1>6 DEF RouteNext

\* The invariant holds of every state of every behaviour.
LEMMA RoutesStay == RouteSpec => []RouteInv
PROOF
  BY InitRoutes, NextRoutes, PTL DEF RouteSpec

\* Every run has a driver, a context and a status of their types, and every
\* channel carries flow run ids (handle_start_run, spawn_agent, spawn_chat).
THEOREM RouteTypeCorrect == RouteSpec => []RouteTypeOK
PROOF
  <1>1. RouteInv => RouteTypeOK
    BY DEF RouteInv
  <1> QED
    BY <1>1, RoutesStay, PTL

\* However many runs are started, by whom and for which flow runs: a run that
\* is Pending or Running has a live task, and the supervisor a live child
\* answers to waits for it (start_run_with_session, TaskEnds of a run that was
\* invoked, invoke_agent).
THEOREM RoutingCorrect == RouteSpec => []NoStrandedRun
PROOF
  <1>1. RouteInv => NoStrandedRun
    BY DEF RouteInv, Routes
  <1> QED
    BY <1>1, RoutesStay, PTL

-----------------------------------------------------------------------------
(* The conversation that is restored                                       *)

\* What history.jsonl is when its messages are those of S.
LinesOf(S) == Seq([msg : S \cup {Garbled}, nl : BOOLEAN])

\* One step of reading the lines L, f being what was read so far.
Step(L, f, n) == IF n = 0 THEN <<>>
                 ELSE IF L[n].msg = Garbled THEN f[n - 1] ELSE Append(f[n - 1], L[n].msg)

\* A line holds a message of S or does not parse.
LEMMA LineAt ==
    ASSUME NEW S, NEW L \in LinesOf(S)
    PROVE  /\ Len(L) \in Nat
           /\ \A i \in 1..Len(L) : L[i].msg \in S \cup {Garbled}
PROOF
  <1> DEFINE R == [msg : S \cup {Garbled}, nl : BOOLEAN]
  <1>1. L \in Seq(R)
    BY DEF LinesOf
  <1>2. \A x \in R : x.msg \in S \cup {Garbled}
    OBVIOUS
  <1> HIDE DEF R
  <1>3. \A i \in 1..Len(L) : L[i] \in R
    BY <1>1
  <1> QED
    BY <1>1, <1>2, <1>3

\* What a step makes of a conversation is one.
LEMMA StepType ==
    ASSUME NEW S, NEW L \in LinesOf(S), NEW n \in 1..Len(L), NEW f, f[n - 1] \in Seq(S)
    PROVE  Step(L, f, n) \in Seq(S)
PROOF
  <1>1. L[n].msg \in S \cup {Garbled} /\ n # 0
    BY LineAt
  <1>2. L[n].msg # Garbled => Append(f[n - 1], L[n].msg) \in Seq(S)
    BY <1>1
  <1> QED
    BY <1>1, <1>2 DEF Step

\* The recursion of Parsed has a solution.
LEMMA ParsedExists ==
    ASSUME NEW S, NEW L \in LinesOf(S)
    PROVE  \E g \in [0..Len(L) -> Seq(S)] : \A i \in 0..Len(L) : g[i] = Step(L, g, i)
PROOF
  <1> DEFINE Good(n) == \E g \in [0..n -> Seq(S)] : \A i \in 0..n : g[i] = Step(L, g, i)
             G == {n \in 0..Len(L) : Good(n)}
  <1>0. Len(L) \in Nat
    BY LineAt
  <1>1. Good(0)
    <2> DEFINE g == [i \in 0..0 |-> <<>>]
    <2>1. g \in [0..0 -> Seq(S)] /\ \A i \in 0..0 : g[i] = Step(L, g, i)
      BY DEF Step
    <2> QED
      BY <2>1
  <1>2. ASSUME NEW n \in 0..Len(L), n < Len(L), Good(n)
        PROVE  Good(n + 1)
    <2>1. PICK g \in [0..n -> Seq(S)] : \A i \in 0..n : g[i] = Step(L, g, i)
      BY <1>2
    <2> DEFINE x == Step(L, g, n + 1)
               h == [i \in 0..(n + 1) |-> IF i = n + 1 THEN x ELSE g[i]]
    <2>2. n + 1 \in 1..Len(L) /\ (n + 1) - 1 = n /\ n \in 0..n
      BY <1>0, <1>2
    <2>3. g[(n + 1) - 1] \in Seq(S)
      BY <2>2
    <2>4. x \in Seq(S)
      BY <2>2, <2>3, StepType
    <2> HIDE DEF x
    <2>5. h \in [0..(n + 1) -> Seq(S)]
      BY <2>4
    <2>6. \A i \in 0..(n + 1) : h[i] = Step(L, h, i)
      <3> TAKE i \in 0..(n + 1)
      <3>1. CASE i = n + 1
        <4>1. h[i] = x /\ h[i - 1] = g[i - 1]
          BY <3>1
        <4> QED
          BY <3>1, <4>1 DEF Step, x
      <3>2. CASE i # n + 1
        <4>1. i \in 0..n /\ h[i] = g[i] /\ (i # 0 => h[i - 1] = g[i - 1])
          BY <3>2
        <4> QED
          BY <2>1, <4>1 DEF Step
      <3> QED
        BY <3>1, <3>2
    <2> HIDE DEF h
    <2> QED
      BY <2>5, <2>6
  <1> HIDE DEF Good
  <1>3. 0 \in G /\ \A m \in 0..Len(L) : m < Len(L) /\ m \in G => m + 1 \in G
    BY <1>0, <1>1, <1>2
  <1> HIDE DEF G
  <1>4. \A m \in 0..Len(L) : m \in G
    BY <1>0, <1>3, UpTo
  <1>5. Len(L) \in G
    BY <1>0, <1>4
  <1> QED
    BY <1>5 DEF Good, G

\* load_history returns what the lines hold.
LEMMA ParsedType ==
    ASSUME NEW S, NEW L \in LinesOf(S)
    PROVE  Parsed(L) \in Seq(S)
PROOF
  <1> DEFINE Fix(f) == f = [n \in 0..Len(L) |-> IF n = 0 THEN <<>>
                                               ELSE IF L[n].msg = Garbled THEN f[n - 1]
                                               ELSE Append(f[n - 1], L[n].msg)]
             u == CHOOSE f : Fix(f)
  <1>0. Len(L) \in Nat
    BY LineAt
  <1>1. PICK g \in [0..Len(L) -> Seq(S)] : \A i \in 0..Len(L) : g[i] = Step(L, g, i)
    BY ParsedExists
  <1>2. g = [n \in 0..Len(L) |-> Step(L, g, n)]
    BY <1>1
  <1>3. Fix(g)
    BY <1>2 DEF Step
  <1>4. Parsed(L) = u[Len(L)]
    BY DEF Parsed
  <1>5. Fix(u)
    BY <1>3
  <1> HIDE DEF u
  <1>6. \A n \in 0..Len(L) : u[n] = Step(L, u, n)
    BY <1>5 DEF Step
  <1> HIDE DEF Fix
  <1> DEFINE G == {n \in 0..Len(L) : u[n] \in Seq(S)}
  <1>7. 0 \in G
    <2>1. 0 \in 0..Len(L) /\ u[0] = Step(L, u, 0)
      BY <1>0, <1>6
    <2>2. u[0] = <<>>
      BY <2>1 DEF Step
    <2> QED
      BY <2>1, <2>2
  <1>8. ASSUME NEW m \in 0..Len(L), m < Len(L), m \in G
        PROVE  m + 1 \in G
    <2>1. m + 1 \in 1..Len(L) /\ m + 1 \in 0..Len(L) /\ (m + 1) - 1 = m
      BY <1>0, <1>8
    <2>2. u[(m + 1) - 1] \in Seq(S)
      BY <1>8, <2>1
    <2>3. Step(L, u, m + 1) \in Seq(S)
      BY <2>1, <2>2, StepType
    <2> QED
      BY <1>6, <2>1, <2>3
  <1> HIDE DEF G
  <1>9. \A m \in 0..Len(L) : m < Len(L) /\ m \in G => m + 1 \in G
    BY <1>8
  <1>10. \A m \in 0..Len(L) : m \in G
    BY <1>0, <1>7, <1>9, UpTo
  <1>11. Len(L) \in G
    BY <1>0, <1>10
  <1> QED
    BY <1>4, <1>11 DEF G

-----------------------------------------------------------------------------
(* Messages and conversations                                              *)

\* What others may hold of a run that was not heard yet: none of its calls.
Plain(r) == {m \in Message : ~(m.role = "calls" /\ m.run = r)}

\* The places of the conversation t that are run r's.
Mine(t, r) == {i \in 1..Len(t) : t[i].run = r}

\* Nothing but run r itself has calls of r, and r has none either.
Unheard(r) ==
    /\ thread \in Seq(Plain(r)) /\ lines \in LinesOf(Plain(r))
    /\ \A k \in Runs : run[k].history \in Seq(Plain(r)) /\ run[k].todo \in Seq(Plain(r))

\* Result k of the calls t[i] is there.
HasResult(t, i, k) ==
    \E j \in (i + 1)..Len(t) :
        t[j].role = "result" /\ t[j].run = t[i].run /\ t[j].turn = t[i].turn /\ t[j].k = k

\* While the tools of a turn run, calls without a result are those of this
\* turn whose turn has not come.
Owed(d, r) ==
    \A i \in Mine(d.history, r) : d.history[i].role = "calls" =>
        \A k \in 1..d.history[i].k :
            \/ HasResult(d.history, i, k)
            \/ d.history[i].turn = d.turn /\ d.history[i].k = d.calls /\ k >= d.next

\* What is true of the task d of run r.
Books(d, r) ==
    /\ d.usage <= d.turn /\ (d.pc = "asking" => d.usage < d.turn)
    /\ d.pc \in {"turn", "asking", "critic"} => CallsAnswered(d.history, Mine(d.history, r))
    /\ d.pc = "tools" => Owed(d, r)

\* The phases before the loop begins.
Early == {"idle", "starting", "restored"}

\* The books of every run, and what nobody knows yet of one that has not begun.
ChatBooks ==
    \A r \in Runs : Books(run[r], r) /\ (run[r].pc \in Early => Unheard(r))
ChatInv == ChatTypeOK /\ ChatBooks

\* The types of the conversation, apart.
ChatTyped ==
    /\ thread \in Seq(Message) /\ lines \in Seq(Line) /\ run \in [Runs -> Task] /\ world \in World

\* A message that a run makes.
LEMMA MsgType ==
    ASSUME ChatTyped, NEW r \in Runs, NEW role \in Roles, NEW k \in 0..MaxCalls
    PROVE  /\ Msg(role, r, k) \in Message
           /\ Msg(role, r, k).role = role /\ Msg(role, r, k).run = r
           /\ Msg(role, r, k).turn = run[r].turn /\ Msg(role, r, k).k = k
           /\ \A q \in Runs : q # r \/ role # "calls" => Msg(role, r, k) \in Plain(q)
PROOF
  <1>1. run[r].turn \in 0..MaxTurns
    BY DEF ChatTyped, Task
  <1> QED
    BY <1>1 DEF Msg, Message, Plain

\* A conversation with a message more.
LEMMA OneMore ==
    ASSUME NEW S, NEW t \in Seq(S), NEW m \in S
    PROVE  /\ Append(t, m) \in Seq(S) /\ Len(Append(t, m)) = Len(t) + 1
           /\ Append(t, m)[Len(t) + 1] = m
           /\ \A i \in 1..Len(t) : Append(t, m)[i] = t[i]
PROOF
  OBVIOUS

\* A result stays when a message is added.
LEMMA ResultsStay ==
    ASSUME NEW t \in Seq(Message), NEW m \in Message, NEW i \in 1..Len(t), NEW k, HasResult(t, i, k)
    PROVE  HasResult(Append(t, m), i, k)
PROOF
  <1> DEFINE t2 == Append(t, m)
  <1>1. PICK j \in (i + 1)..Len(t) :
           t[j].role = "result" /\ t[j].run = t[i].run /\ t[j].turn = t[i].turn /\ t[j].k = k
    BY DEF HasResult
  <1>2. Len(t2) = Len(t) + 1 /\ t2[i] = t[i] /\ t2[j] = t[j] /\ j \in (i + 1)..Len(t2)
    BY OneMore
  <1> HIDE DEF t2
  <1>3. HasResult(t2, i, k)
    BY <1>1, <1>2 DEF HasResult
  <1> QED
    BY <1>3 DEF t2

\* CallsAnswered in terms of the results.
LEMMA AnsweredMeans ==
    ASSUME NEW t, NEW S
    PROVE  CallsAnswered(t, S) <=> \A i \in S : t[i].role = "calls" => \A k \in 1..t[i].k : HasResult(t, i, k)
PROOF
  BY DEF CallsAnswered, HasResult

\* A message that is not a call of r leaves r with all its calls answered.
LEMMA AnsweredStay ==
    ASSUME NEW r, NEW t \in Seq(Message), NEW m \in Message, ~(m.role = "calls" /\ m.run = r),
           CallsAnswered(t, Mine(t, r))
    PROVE  CallsAnswered(Append(t, m), Mine(Append(t, m), r))
PROOF
  <1> DEFINE t2 == Append(t, m)
  <1>1. Len(t2) = Len(t) + 1 /\ t2[Len(t) + 1] = m /\ (\A i \in 1..Len(t) : t2[i] = t[i]) /\ Len(t) \in Nat
    BY OneMore
  <1>2. \A i \in 1..Len(t) : \A k : HasResult(t, i, k) => HasResult(t2, i, k)
    BY ResultsStay
  <1> HIDE DEF t2
  <1> SUFFICES ASSUME NEW i \in Mine(t2, r), t2[i].role = "calls", NEW k \in 1..t2[i].k
               PROVE  HasResult(t2, i, k)
    BY AnsweredMeans DEF t2
  <1>3. i \in 1..Len(t) /\ t2[i] = t[i]
    BY <1>1 DEF Mine
  <1>4. i \in Mine(t, r)
    BY <1>3 DEF Mine
  <1>5. HasResult(t, i, k)
    BY <1>3, <1>4, AnsweredMeans
  <1> QED
    BY <1>2, <1>3, <1>5

\* A conversation without a call of r has no call of r that waits.
LEMMA PlainIsAnswered ==
    ASSUME NEW r, NEW t \in Seq(Plain(r))
    PROVE  CallsAnswered(t, Mine(t, r))
PROOF
  <1>1. \A i \in 1..Len(t) : t[i] \in Plain(r)
    OBVIOUS
  <1>2. \A i \in Mine(t, r) : t[i].role # "calls"
    BY <1>1 DEF Mine, Plain
  <1> QED
    BY <1>2 DEF CallsAnswered

\* The calls of a completion join it: they are what is owed.
LEMMA CallsAreOwed ==
    ASSUME NEW r, NEW d, d.history \in Seq(Message), CallsAnswered(d.history, Mine(d.history, r)),
           NEW m \in Message, NEW e, e.history = Append(d.history, m), m.turn = e.turn, m.k = e.calls, e.next = 1
    PROVE  Owed(e, r)
PROOF
  <1> DEFINE t == d.history
  <1>1. /\ Len(e.history) = Len(t) + 1 /\ e.history[Len(t) + 1] = m /\ Len(t) \in Nat
        /\ \A i \in 1..Len(t) : e.history[i] = t[i]
    BY OneMore
  <1>2. \A i \in 1..Len(t) : \A k : HasResult(t, i, k) => HasResult(e.history, i, k)
    BY ResultsStay
  <1> HIDE DEF t
  <1> SUFFICES ASSUME NEW i \in Mine(e.history, r), e.history[i].role = "calls", NEW k \in 1..e.history[i].k
               PROVE  \/ HasResult(e.history, i, k)
                      \/ e.history[i].turn = e.turn /\ e.history[i].k = e.calls /\ k >= e.next
    BY DEF Owed
  <1>3. CASE i = Len(t) + 1
    <2>1. e.history[i] = m /\ k >= 1
      BY <1>1, <1>3
    <2> QED
      BY <2>1
  <1>4. CASE i # Len(t) + 1
    <2>1. i \in 1..Len(t) /\ e.history[i] = t[i]
      BY <1>1, <1>4 DEF Mine
    <2>2. i \in Mine(t, r)
      BY <2>1 DEF Mine
    <2>3. HasResult(t, i, k)
      BY <2>1, <2>2, AnsweredMeans DEF t
    <2> QED
      BY <1>2, <2>1, <2>3
  <1> QED
    BY <1>3, <1>4

\* A result pays the call whose turn it is.
LEMMA ResultPays ==
    ASSUME NEW r, NEW d, d.history \in Seq(Message), Owed(d, r), d.next \in Nat,
           NEW m \in Message, m.role = "result", m.run = r, m.turn = d.turn, m.k = d.next,
           NEW e, e.history = Append(d.history, m), e.turn = d.turn, e.calls = d.calls, e.next = d.next + 1
    PROVE  Owed(e, r)
PROOF
  <1> DEFINE t == d.history
  <1>1. /\ Len(e.history) = Len(t) + 1 /\ e.history[Len(t) + 1] = m /\ Len(t) \in Nat
        /\ \A i \in 1..Len(t) : e.history[i] = t[i]
    BY OneMore
  <1>2. \A i \in 1..Len(t) : \A k : HasResult(t, i, k) => HasResult(e.history, i, k)
    BY ResultsStay
  <1> HIDE DEF t
  <1> SUFFICES ASSUME NEW i \in Mine(e.history, r), e.history[i].role = "calls", NEW k \in 1..e.history[i].k
               PROVE  \/ HasResult(e.history, i, k)
                      \/ e.history[i].turn = e.turn /\ e.history[i].k = e.calls /\ k >= e.next
    BY DEF Owed
  <1>3. i \in 1..Len(t) /\ e.history[i] = t[i] /\ e.history[i].run = r
    BY <1>1 DEF Mine
  <1>4. i \in Mine(t, r)
    BY <1>3 DEF Mine
  <1>5. HasResult(t, i, k) \/ (t[i].turn = d.turn /\ t[i].k = d.calls /\ k >= d.next)
    BY <1>3, <1>4 DEF Owed, t
  <1>6. CASE HasResult(t, i, k)
    BY <1>2, <1>3, <1>6
  <1>7. CASE t[i].turn = d.turn /\ t[i].k = d.calls /\ k >= d.next
    <2>1. CASE k = d.next
      <3>1. Len(t) + 1 \in (i + 1)..Len(e.history)
        BY <1>1, <1>3
      <3>2. HasResult(e.history, i, k)
        BY <1>1, <1>3, <1>7, <2>1, <3>1 DEF HasResult
      <3> QED
        BY <3>2
    <2>2. CASE k # d.next
      BY <1>3, <1>7, <2>2
    <2> QED
      BY <2>1, <2>2
  <1> QED
    BY <1>5, <1>6, <1>7

\* When every call of the turn had its turn, nothing is owed.
LEMMA AllPaid ==
    ASSUME NEW r, NEW d, Owed(d, r), d.next \in Nat, d.calls \in Nat, d.next > d.calls
    PROVE  CallsAnswered(d.history, Mine(d.history, r))
PROOF
  <1> SUFFICES ASSUME NEW i \in Mine(d.history, r), d.history[i].role = "calls", NEW k \in 1..d.history[i].k
               PROVE  HasResult(d.history, i, k)
    BY AnsweredMeans
  <1>1. HasResult(d.history, i, k) \/ (d.history[i].k = d.calls /\ k >= d.next)
    BY DEF Owed
  <1> QED
    BY <1>1

-----------------------------------------------------------------------------
(* Compaction                                                              *)

\* A part of a conversation, from a place on or up to one.
LEMMA PartOf ==
    ASSUME NEW S, NEW t \in Seq(S)
    PROVE  /\ \A n \in 0..Len(t) : SubSeq(t, 1, n) \in Seq(S)
           /\ \A n \in Nat \ {0} : SubSeq(t, n, Len(t)) \in Seq(S)
PROOF
  <1>1. Len(t) \in Nat
    OBVIOUS
  <1>2. ASSUME NEW n \in 0..Len(t) PROVE SubSeq(t, 1, n) \in Seq(S)
    BY <1>1
  <1>3. ASSUME NEW n \in Nat \ {0} PROVE SubSeq(t, n, Len(t)) \in Seq(S)
    BY <1>1
  <1> QED
    BY <1>2, <1>3

\* split_thread cuts the conversation at two of its places.
LEMMA SplitType ==
    ASSUME NEW t \in Seq(Message)
    PROVE  split_thread(t)[1] \in 0..Len(t) /\ split_thread(t)[2] \in Nat \ {0}
PROOF
  <1>0. Len(t) \in Nat
    OBVIOUS
  <1> DEFINE systems == {n \in 0..Len(t) : \A i \in 1..n : IsSystem(t[i])}
             prefix == CHOOSE n \in systems : \A m \in systems : m <= n
             from == {i \in 1..Len(t) : IsUser(t[i]) /\ TurnsSeen(t, i) >= RecencyTurns}
  <1>1. 0 \in systems /\ systems \in SUBSET (0..Len(t))
    BY <1>0
  <1>2. from \in SUBSET (0..Len(t)) /\ from \in SUBSET (1..Len(t))
    BY <1>0
  <1>3. RecencyStart(t) = IF from = {} THEN Len(t) + 1 ELSE CHOOSE i \in from : \A j \in from : j <= i
    BY DEF RecencyStart
  <1>4. split_thread(t) = <<prefix, IF RecencyStart(t) > prefix + 1 THEN RecencyStart(t) ELSE prefix + 1>>
    BY DEF split_thread
  <1> HIDE DEF systems, from
  <1>5. prefix \in systems
    <2>1. \E n \in systems : \A m \in systems : m <= n
      BY <1>0, <1>1, Greatest
    <2> QED
      BY <2>1
  <1>6. RecencyStart(t) \in 1..(Len(t) + 1)
    <2>1. CASE from = {}
      BY <1>0, <1>3, <2>1
    <2>2. CASE from # {}
      <3>1. \E i \in from : \A j \in from : j <= i
        BY <1>0, <1>2, <2>2, Greatest
      <3>2. RecencyStart(t) \in from
        BY <1>3, <2>2, <3>1
      <3>3. RecencyStart(t) \in 1..Len(t)
        BY <1>2, <3>2
      <3> QED
        BY <1>0, <3>3
    <2> QED
      BY <2>1, <2>2
  <1> HIDE DEF prefix
  <1>7. prefix \in 0..Len(t)
    BY <1>1, <1>5
  <1> QED
    BY <1>0, <1>4, <1>6, <1>7

\* A conversation that was compacted holds its old messages and the summary.
LEMMA CompactedType ==
    ASSUME NEW S \in SUBSET Message, NEW t \in Seq(S), NEW r, Msg("summary", r, 0) \in S
    PROVE  Compacted(t, r) \in Seq(S)
PROOF
  <1>1. t \in Seq(Message)
    OBVIOUS
  <1>2. split_thread(t)[1] \in 0..Len(t) /\ split_thread(t)[2] \in Nat \ {0}
    BY <1>1, SplitType
  <1>3. SubSeq(t, 1, split_thread(t)[1]) \in Seq(S) /\ SubSeq(t, split_thread(t)[2], Len(t)) \in Seq(S)
    BY <1>2, PartOf
  <1>4. <<Msg("summary", r, 0)>> \in Seq(S)
    OBVIOUS
  <1>5. Compacted(t, r) = SubSeq(t, 1, split_thread(t)[1]) \o <<Msg("summary", r, 0)>>
                          \o SubSeq(t, split_thread(t)[2], Len(t))
    BY DEF Compacted
  <1> QED
    BY <1>3, <1>4, <1>5

-----------------------------------------------------------------------------
(* The steps of the loop                                                   *)

\* What the invariant says of one task.
LEMMA ChatParts ==
    ASSUME ChatInv
    PROVE  /\ ChatTyped /\ ChatBooks
           /\ \A r \in Runs : /\ run[r] \in Task /\ Books(run[r], r)
                              /\ run[r].history \in Seq(Message) /\ run[r].todo \in Seq(Message)
                              /\ run[r].turn \in 0..MaxTurns /\ run[r].calls \in 0..MaxCalls
                              /\ run[r].next \in 0..(MaxCalls + 1)
PROOF
  <1>1. ChatTyped /\ ChatBooks
    BY DEF ChatInv, ChatTypeOK, ChatTyped
  <1>2. \A r \in Runs : run[r] \in Task
    BY <1>1 DEF ChatTyped
  <1> QED
    BY <1>1, <1>2 DEF ChatBooks, Task

\* The rest of the state.
Other ==
    /\ space \in BOOLEAN /\ session \in BOOLEAN /\ tracked \subseteq Runs /\ world \in Worlds
    /\ name \in {"none", "auto", "manual"} /\ naming \subseteq Runs /\ crashes \in 0..world.crashes

\* The invariant in three parts.
LEMMA ChatPieces == ChatInv <=> ChatTyped /\ Other /\ ChatBooks
PROOF
  BY DEF ChatInv, ChatTypeOK, ChatTyped, Other

\* The same of the next state.
LEMMA ChatPiecesNext == ChatInv' <=> ChatTyped' /\ Other' /\ ChatBooks'
PROOF
  BY DEF ChatInv, ChatTypeOK, ChatTyped, Other

\* Run r goes on with the task d, and the two copies of the conversation may
\* change with it.
LEMMA TaskGoesOn ==
    ASSUME ChatInv, NEW r \in Runs, NEW d \in Task, run' = [run EXCEPT ![r] = d], world' = world,
           thread' \in Seq(Message), lines' \in Seq(Line), Books(d, r),
           d.pc \in Early => Unheard(r)',
           \A q \in Runs \ {r} : Unheard(q) =>
              /\ thread' \in Seq(Plain(q)) /\ lines' \in LinesOf(Plain(q))
              /\ d.history \in Seq(Plain(q)) /\ d.todo \in Seq(Plain(q))
    PROVE  ChatTyped' /\ ChatBooks'
PROOF
  <1>1. ChatTyped /\ ChatBooks
    BY ChatParts
  <1>2. run'[r] = d /\ \A q \in Runs \ {r} : run'[q] = run[q]
    BY <1>1 DEF ChatTyped
  <1>3. ChatTyped'
    BY <1>1 DEF ChatTyped
  <1>4. \A q \in Runs : Books(run'[q], q)
    BY <1>1, <1>2 DEF ChatBooks
  <1>5. ASSUME NEW q \in Runs, run'[q].pc \in Early
        PROVE  Unheard(q)'
    <2>1. CASE q = r
      BY <1>2, <1>5, <2>1
    <2>2. CASE q # r
      <3>1. Unheard(q)
        BY <1>1, <1>2, <1>5, <2>2 DEF ChatBooks
      <3>2. \A k \in Runs : run'[k].history \in Seq(Plain(q)) /\ run'[k].todo \in Seq(Plain(q))
        BY <1>2, <2>2, <3>1 DEF Unheard
      <3>3. thread' \in Seq(Plain(q)) /\ lines' \in LinesOf(Plain(q))
        BY <2>2, <3>1
      <3>4. Plain(q)' = Plain(q) /\ LinesOf(Plain(q))' = LinesOf(Plain(q))
        BY DEF Plain, LinesOf
      <3> QED
        BY <3>2, <3>3, <3>4 DEF Unheard
    <2> QED
      BY <2>1, <2>2
  <1>6. ChatBooks'
    <2>1. \A q \in Runs : Books(run[q], q)' <=> Books(run'[q], q)
      BY DEF Books, CallsAnswered, Mine, Owed, HasResult
    <2> QED
      BY <1>4, <1>5, <2>1 DEF ChatBooks
  <1> QED
    BY <1>3, <1>6

\* Its conversation is what it was, or has one message of its own more.
Goes(d, r) ==
    /\ d.todo = run[r].todo
    /\ \/ d.history = run[r].history
       \/ \E m \in Message : m.run = r /\ d.history = Append(run[r].history, m)

\* A step of the loop leaves everything but its own task alone.
LEMMA LoopKeeps ==
    ASSUME ChatInv, NEW r \in Runs, NEW d \in Task, run' = [run EXCEPT ![r] = d], Local(r),
           Books(d, r), d.pc \notin Early, Goes(d, r)
    PROVE  ChatInv'
PROOF
  <1>1. ChatTyped /\ ChatBooks /\ Other
    BY ChatParts, ChatPieces
  <1>2. ASSUME NEW q \in Runs \ {r}, Unheard(q)
        PROVE  d.history \in Seq(Plain(q)) /\ d.todo \in Seq(Plain(q))
    <2>1. run[r].history \in Seq(Plain(q)) /\ run[r].todo \in Seq(Plain(q))
      BY <1>2 DEF Unheard
    <2>2. ASSUME NEW m \in Message, m.run = r, d.history = Append(run[r].history, m)
          PROVE  d.history \in Seq(Plain(q))
      <3>1. m \in Plain(q)
        BY <2>2 DEF Plain
      <3> QED
        BY <2>1, <2>2, <3>1, OneMore
    <2> QED
      BY <2>1, <2>2 DEF Goes
  <1>3. ChatTyped' /\ ChatBooks'
    <2>1. thread' = thread /\ lines' = lines /\ world' = world
      BY DEF Local
    <2>2. thread' \in Seq(Message) /\ lines' \in Seq(Line)
      BY <1>1, <2>1 DEF ChatTyped
    <2>3. \A q \in Runs \ {r} : Unheard(q) =>
             /\ thread' \in Seq(Plain(q)) /\ lines' \in LinesOf(Plain(q))
             /\ d.history \in Seq(Plain(q)) /\ d.todo \in Seq(Plain(q))
      BY <1>2, <2>1 DEF Unheard
    <2> QED
      BY <2>1, <2>2, <2>3, TaskGoesOn
  <1>4. Other'
    BY <1>1 DEF Other, Local
  <1> QED
    BY <1>3, <1>4, ChatPiecesNext

\* A task that leaves the loop has no books to keep but its usage.
LEMMA LeaveSteps ==
    ASSUME ChatInv, NEW r \in Runs, LeaveLoop(r) \/ LlmFails(r) \/ ToolParked(r) \/ CriticPasses(r)
    PROVE  ChatInv'
PROOF
  <1>1. ChatTyped /\ run[r] \in Task /\ Books(run[r], r)
    BY ChatParts
  <1> DEFINE d == [run[r] EXCEPT !.pc = "ending"]
  <1>2. run' = [run EXCEPT ![r] = d] /\ Local(r)
    BY <1>1 DEF LeaveLoop, LlmFails, ToolParked, CriticPasses, ChatTyped, Task
  <1>3. /\ d \in Task /\ d.pc = "ending" /\ d.history = run[r].history /\ d.todo = run[r].todo
        /\ d.usage = run[r].usage /\ d.turn = run[r].turn
    BY <1>1 DEF Task, Phases
  <1> HIDE DEF d
  <1>4. Books(d, r) /\ Goes(d, r) /\ d.pc \notin Early
    BY <1>1, <1>3 DEF Books, Goes, Early
  <1> QED
    BY <1>2, <1>3, <1>4, LoopKeeps

\* The bounds of a behaviour.
LEMMA WorldType ==
    ASSUME ChatInv
    PROVE  world.turns \in 1..MaxTurns /\ MaxTurns \in Nat /\ MaxCalls \in Nat \ {0}
PROOF
  BY ChatAssumption, ChatParts DEF ChatTyped, World

\* A turn begins, with a reflection or without.
LEMMA BeginKeeps ==
    ASSUME ChatInv, NEW r \in Runs, BeginTurn(r)
    PROVE  ChatInv'
PROOF
  <1>1. ChatTyped /\ run[r] \in Task /\ Books(run[r], r) /\ run[r].history \in Seq(Message)
    BY ChatParts
  <1> DEFINE t == run[r]
             a == before_llm_call([t EXCEPT !.pc = "asking", !.turn = @ + 1])
             m == [Msg("reflection", r, 0) EXCEPT !.turn = a.turn]
             b == [a EXCEPT !.fails = 0, !.history = Append(@, m)]
  <1>2. t.pc = "turn" /\ t.turn < world.turns /\ Local(r)
    BY DEF BeginTurn
  <1>3. run' = [run EXCEPT ![r] = a] \/ run' = [run EXCEPT ![r] = b]
    BY DEF BeginTurn
  <1>4. t.turn \in 0..MaxTurns /\ t.turn + 1 \in 0..MaxTurns /\ t.usage \in 0..MaxTurns /\ t.usage < t.turn + 1
    <2>1. t.turn \in 0..MaxTurns /\ t.usage \in 0..MaxTurns
      BY <1>1 DEF Task
    <2>2. t.usage <= t.turn
      BY <1>1 DEF Books
    <2> HIDE DEF t
    <2> QED
      BY <1>2, <2>1, <2>2, WorldType
  <1>5. /\ a \in Task /\ a.pc = "asking" /\ a.turn = t.turn + 1 /\ a.usage = t.usage
        /\ a.history = t.history /\ a.todo = t.todo
    BY <1>1, <1>4 DEF before_llm_call, Task, Phases
  <1>6. m \in Message /\ m.role = "reflection" /\ m.run = r
    <2>1. 0 \in 0..MaxCalls /\ "reflection" \in Roles
      BY WorldType DEF Roles
    <2>2. Msg("reflection", r, 0) \in Message
      BY <1>1, <2>1, MsgType
    <2>3. Msg("reflection", r, 0).role = "reflection" /\ Msg("reflection", r, 0).run = r
      BY DEF Msg
    <2> QED
      BY <1>4, <1>5, <2>2, <2>3 DEF Message
  <1> HIDE DEF a, m
  <1>7. Append(t.history, m) \in Seq(Message)
    BY <1>1, <1>6, OneMore
  <1>8. /\ b \in Task /\ b.pc = "asking" /\ b.turn = t.turn + 1 /\ b.usage = t.usage
        /\ b.history = Append(t.history, m) /\ b.todo = t.todo
    BY <1>5, <1>7 DEF Task
  <1>9. CallsAnswered(t.history, Mine(t.history, r))
    BY <1>1, <1>2 DEF Books
  <1>10. CallsAnswered(Append(t.history, m), Mine(Append(t.history, m), r))
    BY <1>1, <1>6, <1>9, AnsweredStay
  <1> HIDE DEF b, t
  <1>11. Books(a, r) /\ Goes(a, r) /\ a.pc \notin Early
    BY <1>4, <1>5, <1>9 DEF Books, Goes, Early, t
  <1>12. Books(b, r) /\ Goes(b, r) /\ b.pc \notin Early
    BY <1>4, <1>6, <1>8, <1>10 DEF Books, Goes, Early, t
  <1> QED
    BY <1>2, <1>3, <1>5, <1>8, <1>11, <1>12, LoopKeeps

\* What a completion adds to its run.
LEMMA CompletionTypes ==
    ASSUME ChatInv, NEW r \in Runs, run[r].pc = "asking", NEW role \in Roles, NEW k \in 0..MaxCalls
    PROVE  /\ Append(run[r].history, Msg(role, r, k)) \in Seq(Message)
           /\ run[r].usage + 1 \in 0..MaxTurns /\ run[r].usage + 1 <= run[r].turn
           /\ 1 \in 0..(MaxCalls + 1)
PROOF
  <1>1. ChatTyped /\ run[r] \in Task /\ Books(run[r], r) /\ run[r].history \in Seq(Message)
    BY ChatParts
  <1>2. Append(run[r].history, Msg(role, r, k)) \in Seq(Message)
    BY <1>1, MsgType, OneMore
  <1>3. run[r].turn \in 0..MaxTurns /\ run[r].usage \in 0..MaxTurns /\ run[r].usage < run[r].turn
    BY <1>1 DEF Task, Books
  <1>4. MaxTurns \in Nat /\ MaxCalls \in Nat
    BY WorldType
  <1> QED
    BY <1>2, <1>3, <1>4

\* The completion of a turn: its message is one more, and the turn is counted.
LEMMA CompletionKeeps ==
    ASSUME ChatInv, NEW r \in Runs, run[r].pc = "asking", Local(r),
           NEW role \in {"assistant", "cut calls", "calls"}, NEW k \in 0..MaxCalls,
           NEW d \in Task, d.pc \in {"critic", "ending", "tools"}, role = "calls" <=> d.pc = "tools",
           d.turn = run[r].turn, d.usage = run[r].usage + 1, d.todo = run[r].todo,
           d.history = Append(run[r].history, Msg(role, r, k)),
           d.pc = "tools" => d.calls = k /\ d.next = 1,
           run' = [run EXCEPT ![r] = d]
    PROVE  ChatInv'
PROOF
  <1>1. ChatTyped /\ run[r] \in Task /\ Books(run[r], r) /\ run[r].history \in Seq(Message) /\ role \in Roles
    BY ChatParts DEF Roles
  <1> DEFINE m == Msg(role, r, k)
  <1>2. m \in Message /\ m.role = role /\ m.run = r /\ m.turn = run[r].turn /\ m.k = k
    BY <1>1, MsgType, ZenonT(40)
  <1>3. d.usage <= d.turn
    BY <1>1, CompletionTypes
  <1>4. d.history = Append(run[r].history, m)
    OBVIOUS
  <1> HIDE DEF m
  <1>5. CallsAnswered(run[r].history, Mine(run[r].history, r))
    BY <1>1 DEF Books
  <1>6. d.pc # "tools" => CallsAnswered(d.history, Mine(d.history, r))
    <2> HAVE d.pc # "tools"
    <2>1. ~(m.role = "calls" /\ m.run = r)
      BY <1>2
    <2>2. CallsAnswered(Append(run[r].history, m), Mine(Append(run[r].history, m), r))
      BY <1>1, <1>2, <1>5, <2>1, AnsweredStay
    <2> QED
      BY <1>4, <2>2
  <1>7. d.pc = "tools" => Owed(d, r)
    <2> HAVE d.pc = "tools"
    <2>1. m.turn = d.turn /\ m.k = d.calls /\ d.next = 1
      BY <1>2
    <2> QED
      BY <1>1, <1>2, <1>4, <1>5, <2>1, CallsAreOwed
  <1>8. Books(d, r)
    BY <1>3, <1>6, <1>7 DEF Books
  <1>9. Goes(d, r) /\ d.pc \notin Early
    BY <1>2, <1>4 DEF Goes, Early
  <1> QED
    BY <1>8, <1>9, LoopKeeps

\* The completion of a turn: a text, calls that are cut, or calls that run.
LEMMA LlmSteps ==
    ASSUME ChatInv, NEW r \in Runs, LlmStops(r) \/ LlmCutsCalls(r) \/ \E n \in 1..MaxCalls : LlmCalls(r, n)
    PROVE  ChatInv'
PROOF
  <1>1. ChatTyped /\ run[r] \in Task /\ MaxCalls \in Nat \ {0}
    BY ChatParts, WorldType
  <1>2. run[r].pc = "asking" /\ Local(r)
    BY DEF LlmStops, LlmCutsCalls, LlmCalls
  <1>3. ASSUME NEW role \in {"assistant", "cut calls"}, NEW k \in 0..MaxCalls, NEW pc \in {"critic", "ending"},
               run' = [run EXCEPT ![r] = after_llm_call([run[r] EXCEPT !.pc = pc, !.history = Append(@, Msg(role, r, k))])]
        PROVE  ChatInv'
    <2> DEFINE h == Append(run[r].history, Msg(role, r, k))
               d == after_llm_call([run[r] EXCEPT !.pc = pc, !.history = h])
    <2>1. h \in Seq(Message) /\ run[r].usage + 1 \in 0..MaxTurns
      BY <1>2, CompletionTypes DEF Roles
    <2>2. run' = [run EXCEPT ![r] = d]
      BY <1>1, <1>3 DEF ChatTyped, Task
    <2>3. h = Append(run[r].history, Msg(role, r, k))
      OBVIOUS
    <2> HIDE DEF h
    <2>4. /\ d \in Task /\ d.pc = pc /\ d.turn = run[r].turn /\ d.usage = run[r].usage + 1
          /\ d.todo = run[r].todo /\ d.history = h
      BY <1>1, <2>1 DEF after_llm_call, Task, Phases
    <2> HIDE DEF d
    <2> QED
      BY <1>2, <2>2, <2>3, <2>4, CompletionKeeps
  <1>4. CASE LlmStops(r)
    <2>1. 0 \in 0..MaxCalls /\ "assistant" \in {"assistant", "cut calls"} /\ "critic" \in {"critic", "ending"}
      BY <1>1
    <2>2. run' = [run EXCEPT ![r] = after_llm_call([run[r] EXCEPT !.pc = "critic", !.history = Append(@, Msg("assistant", r, 0))])]
      BY <1>4 DEF LlmStops
    <2> QED
      BY <1>3, <2>1, <2>2
  <1>5. CASE LlmCutsCalls(r)
    <2>1. 1 \in 0..MaxCalls /\ "cut calls" \in {"assistant", "cut calls"}
      BY <1>1
    <2>2. PICK pc \in {"critic", "ending"} :
             run' = [run EXCEPT ![r] = after_llm_call([run[r] EXCEPT !.pc = pc, !.history = Append(@, Msg("cut calls", r, 1))])]
      BY <1>5 DEF LlmCutsCalls
    <2> QED
      BY <1>3, <2>1, <2>2
  <1>6. ASSUME NEW n \in 1..MaxCalls, LlmCalls(r, n)
        PROVE  ChatInv'
    <2> DEFINE h == Append(run[r].history, Msg("calls", r, n))
               d == after_llm_call([run[r] EXCEPT !.pc = "tools", !.calls = n, !.next = 1, !.terminal = FALSE, !.history = h])
    <2>0. n \in 0..MaxCalls
      BY <1>1
    <2>1. h \in Seq(Message) /\ run[r].usage + 1 \in 0..MaxTurns /\ 1 \in 0..(MaxCalls + 1)
      BY <1>2, <2>0, CompletionTypes DEF Roles
    <2>2. run' = [run EXCEPT ![r] = d]
      BY <1>1, <1>6 DEF LlmCalls, ChatTyped, Task
    <2>3. h = Append(run[r].history, Msg("calls", r, n))
      OBVIOUS
    <2> HIDE DEF h
    <2>4. /\ d \in Task /\ d.pc = "tools" /\ d.turn = run[r].turn /\ d.usage = run[r].usage + 1
          /\ d.todo = run[r].todo /\ d.history = h /\ d.calls = n /\ d.next = 1
      BY <1>1, <2>0, <2>1 DEF after_llm_call, Task, Phases
    <2> HIDE DEF d
    <2> QED
      BY <1>2, <2>0, <2>2, <2>3, <2>4, CompletionKeeps
  <1> QED
    BY <1>4, <1>5, <1>6

\* A call that is dispatched or blocked has its result.
LEMMA ResultKeeps ==
    ASSUME ChatInv, NEW r \in Runs, run[r].pc = "tools", run[r].next <= run[r].calls, Local(r),
           NEW d \in Task, d.pc = "tools", d.turn = run[r].turn, d.usage = run[r].usage,
           d.todo = run[r].todo, d.calls = run[r].calls, d.next = run[r].next + 1,
           d.history = Append(run[r].history, Msg("result", r, run[r].next)),
           run' = [run EXCEPT ![r] = d]
    PROVE  ChatInv'
PROOF
  <1>1. /\ ChatTyped /\ run[r] \in Task /\ Books(run[r], r) /\ run[r].history \in Seq(Message)
        /\ run[r].next \in 0..(MaxCalls + 1) /\ run[r].calls \in 0..MaxCalls /\ "result" \in Roles
    BY ChatParts DEF Roles
  <1>2. run[r].next \in 0..MaxCalls /\ run[r].next \in Nat
    BY <1>1, WorldType
  <1> DEFINE m == Msg("result", r, run[r].next)
  <1>3. m \in Message /\ m.role = "result" /\ m.run = r /\ m.turn = run[r].turn /\ m.k = run[r].next
    BY <1>1, <1>2, MsgType
  <1>4. d.history = Append(run[r].history, m)
    OBVIOUS
  <1> HIDE DEF m
  <1>5. Owed(run[r], r) /\ run[r].usage <= run[r].turn
    BY <1>1 DEF Books
  <1>6. Owed(d, r)
    BY <1>1, <1>2, <1>3, <1>4, <1>5, ResultPays
  <1>7. Books(d, r)
    BY <1>5, <1>6 DEF Books
  <1>8. Goes(d, r) /\ d.pc \notin Early
    BY <1>3, <1>4 DEF Goes, Early
  <1> QED
    BY <1>7, <1>8, LoopKeeps

\* A call is blocked or dispatched.
LEMMA ToolSteps ==
    ASSUME ChatInv, NEW r \in Runs, ToolBlocked(r) \/ ToolRuns(r)
    PROVE  ChatInv'
PROOF
  <1>1. /\ ChatTyped /\ run[r] \in Task /\ run[r].history \in Seq(Message) /\ "result" \in Roles
        /\ run[r].next \in 0..(MaxCalls + 1) /\ run[r].calls \in 0..MaxCalls
    BY ChatParts DEF Roles
  <1>2. run[r].pc = "tools" /\ run[r].next <= run[r].calls /\ Local(r)
    BY DEF ToolBlocked, ToolRuns
  <1>3. run[r].next \in 0..MaxCalls /\ run[r].next + 1 \in 0..(MaxCalls + 1)
    BY <1>1, <1>2, WorldType
  <1> DEFINE h == Append(run[r].history, Msg("result", r, run[r].next))
             e(n, b) == [run[r] EXCEPT !.next = run[r].next + 1, !.fails = n, !.terminal = b, !.history = h]
  <1>4. h \in Seq(Message)
    BY <1>1, <1>3, MsgType, OneMore
  <1>5. \E n \in Nat, b \in BOOLEAN : run' = [run EXCEPT ![r] = e(n, b)]
    <2>1. run[r].fails \in Nat /\ run[r].fails + 1 \in Nat /\ run[r].terminal \in BOOLEAN
      BY <1>1 DEF Task
    <2>2. /\ Answered(r, FALSE) = e(0, run[r].terminal) /\ Answered(r, TRUE) = e(run[r].fails + 1, run[r].terminal)
      BY <1>1 DEF Answered, Task
    <2> HIDE DEF h
    <2>3. /\ [e(run[r].fails + 1, run[r].terminal) EXCEPT !.fails = run[r].fails] = e(run[r].fails, run[r].terminal)
          /\ [e(0, run[r].terminal) EXCEPT !.terminal = TRUE] = e(0, TRUE)
      BY <1>1 DEF Task
    <2> HIDE DEF e
    <2>4. \/ run' = [run EXCEPT ![r] = e(0, run[r].terminal)]
          \/ run' = [run EXCEPT ![r] = e(run[r].fails + 1, run[r].terminal)]
          \/ run' = [run EXCEPT ![r] = e(run[r].fails, run[r].terminal)]
          \/ run' = [run EXCEPT ![r] = e(0, TRUE)]
      BY <2>2, <2>3 DEF ToolBlocked, ToolRuns
    <2> QED
      BY <2>1, <2>4
  <1>6. h = Append(run[r].history, Msg("result", r, run[r].next))
    OBVIOUS
  <1> HIDE DEF h
  <1>7. PICK n \in Nat, b \in BOOLEAN : run' = [run EXCEPT ![r] = e(n, b)]
    BY <1>5
  <1> DEFINE d == e(n, b)
  <1>8. /\ d \in Task /\ d.pc = "tools" /\ d.turn = run[r].turn /\ d.usage = run[r].usage
        /\ d.todo = run[r].todo /\ d.calls = run[r].calls /\ d.next = run[r].next + 1 /\ d.history = h
    BY <1>1, <1>2, <1>3, <1>4 DEF Task
  <1>9. run' = [run EXCEPT ![r] = d]
    BY <1>7
  <1> HIDE DEF e, d
  <1> QED
    BY <1>2, <1>6, <1>8, <1>9, ResultKeeps

\* The calls of the turn are done: each has its result.
LEMMA ToolsDoneKeeps ==
    ASSUME ChatInv, NEW r \in Runs, ToolsDone(r)
    PROVE  ChatInv'
PROOF
  <1>1. /\ ChatTyped /\ run[r] \in Task /\ Books(run[r], r)
        /\ run[r].next \in 0..(MaxCalls + 1) /\ run[r].calls \in 0..MaxCalls
    BY ChatParts
  <1>2. run[r].pc = "tools" /\ run[r].next > run[r].calls /\ Local(r)
    BY DEF ToolsDone
  <1> DEFINE pc == IF run[r].terminal THEN "ending" ELSE "turn"
             d == [run[r] EXCEPT !.pc = pc]
  <1>3. run' = [run EXCEPT ![r] = d]
    BY <1>1 DEF ToolsDone, ChatTyped, Task
  <1>4. pc \in {"ending", "turn"}
    OBVIOUS
  <1> HIDE DEF pc
  <1>5. /\ d \in Task /\ d.pc = pc /\ d.turn = run[r].turn /\ d.usage = run[r].usage
        /\ d.todo = run[r].todo /\ d.history = run[r].history
    BY <1>1, <1>4 DEF Task, Phases
  <1> HIDE DEF d
  <1>6. run[r].usage <= run[r].turn /\ Owed(run[r], r)
    BY <1>1, <1>2 DEF Books
  <1>7. run[r].next \in Nat /\ run[r].calls \in Nat
    BY <1>1, WorldType
  <1>8. CallsAnswered(run[r].history, Mine(run[r].history, r))
    BY <1>2, <1>6, <1>7, AllPaid
  <1>9. Books(d, r) /\ Goes(d, r) /\ d.pc \notin Early
    BY <1>4, <1>5, <1>6, <1>8 DEF Books, Goes, Early
  <1> QED
    BY <1>2, <1>3, <1>5, <1>9, LoopKeeps

\* The critic sends the answer back.
LEMMA CriticKeeps ==
    ASSUME ChatInv, NEW r \in Runs, CriticRevises(r)
    PROVE  ChatInv'
PROOF
  <1>1. /\ ChatTyped /\ run[r] \in Task /\ Books(run[r], r) /\ run[r].history \in Seq(Message)
        /\ "critic" \in Roles /\ MaxCalls \in Nat
    BY ChatParts, WorldType DEF Roles
  <1>2. run[r].pc = "critic" /\ Local(r) /\ run[r].revisions > 0
    BY DEF CriticRevises
  <1> DEFINE m == Msg("critic", r, 0)
             h == Append(run[r].history, m)
             d == [run[r] EXCEPT !.pc = "turn", !.revisions = run[r].revisions - 1, !.history = h]
  <1>3. run' = [run EXCEPT ![r] = d]
    BY <1>1 DEF CriticRevises, ChatTyped, Task
  <1>4. m \in Message /\ m.role = "critic" /\ m.run = r
    BY <1>1, MsgType
  <1>5. h = Append(run[r].history, m)
    OBVIOUS
  <1> HIDE DEF m, h
  <1>6. h \in Seq(Message)
    BY <1>1, <1>4, <1>5, OneMore
  <1>7. run[r].revisions - 1 \in 0..MaxRevisions
    <2>1. run[r].revisions \in 0..MaxRevisions
      BY <1>1 DEF Task
    <2> QED
      BY <1>2, <2>1, ChatAssumption
  <1>8. /\ d \in Task /\ d.pc = "turn" /\ d.turn = run[r].turn /\ d.usage = run[r].usage
        /\ d.todo = run[r].todo /\ d.history = h
    BY <1>1, <1>6, <1>7 DEF Task, Phases
  <1> HIDE DEF d
  <1>9. run[r].usage <= run[r].turn /\ CallsAnswered(run[r].history, Mine(run[r].history, r))
    BY <1>1, <1>2 DEF Books
  <1>10. CallsAnswered(h, Mine(h, r))
    BY <1>1, <1>4, <1>5, <1>9, AnsweredStay
  <1>11. Books(d, r) /\ Goes(d, r) /\ d.pc \notin Early
    BY <1>4, <1>5, <1>8, <1>9, <1>10 DEF Books, Goes, Early
  <1> QED
    BY <1>2, <1>3, <1>8, <1>11, LoopKeeps

\* Every step of the loop.
LEMMA LoopSteps ==
    ASSUME ChatInv, NEW r \in Runs, LoopStep(r)
    PROVE  ChatInv'
PROOF
  BY LeaveSteps, BeginKeeps, LlmSteps, ToolSteps, ToolsDoneKeeps, CriticKeeps DEF LoopStep

-----------------------------------------------------------------------------
(* Before and after the loop                                               *)

\* The conversation in the file has no more of a run than its lines.
LEMMA Restored ==
    ASSUME ChatInv
    PROVE  /\ load_history \in Seq(Message)
           /\ \A q \in Runs : Unheard(q) => load_history \in Seq(Plain(q))
PROOF
  <1>1. lines \in LinesOf(Message)
    BY ChatParts DEF ChatTyped, LinesOf, Line
  <1>2. load_history \in Seq(Message)
    BY <1>1, ParsedType DEF load_history
  <1>3. \A q \in Runs : Unheard(q) => load_history \in Seq(Plain(q))
    BY ParsedType DEF Unheard, load_history
  <1> QED
    BY <1>2, <1>3

\* A task outside the loop keeps its books when it keeps its usage.
LEMMA QuietBooks ==
    ASSUME NEW r, NEW d, d.pc \in {"starting", "restored", "ending", "flushed", "reflush", "saving", "done", "dead"},
           d.usage <= d.turn
    PROVE  Books(d, r)
PROOF
  BY DEF Books

\* A task before the loop: what it holds is nobody's news.
LEMMA EarlyGoesOn ==
    ASSUME ChatInv, NEW r \in Runs, NEW d \in Task, run[r].pc \in Early, d.pc \in {"starting", "restored"},
           run' = [run EXCEPT ![r] = d], world' = world, lines' = lines,
           d.usage = run[r].usage, d.turn = run[r].turn, d.todo = run[r].todo,
           thread' \in Seq(Message),
           \A q \in Runs : Unheard(q) => d.history \in Seq(Plain(q)) /\ thread' \in Seq(Plain(q))
    PROVE  ChatTyped' /\ ChatBooks'
PROOF
  <1>1. ChatTyped /\ ChatBooks /\ Books(run[r], r)
    BY ChatParts
  <1>2. Books(d, r)
    <2>1. d.usage <= d.turn
      BY <1>1 DEF Books
    <2> QED
      BY <2>1, QuietBooks
  <1>3. Unheard(r)
    BY <1>1 DEF ChatBooks
  <1>4. run'[r] = d /\ \A q \in Runs \ {r} : run'[q] = run[q]
    BY <1>1 DEF ChatTyped
  <1>5. Unheard(r)'
    <2>1. \A k \in Runs : run'[k].history \in Seq(Plain(r)) /\ run'[k].todo \in Seq(Plain(r))
      BY <1>3, <1>4 DEF Unheard
    <2>2. thread' \in Seq(Plain(r)) /\ lines' \in LinesOf(Plain(r))
      BY <1>3 DEF Unheard
    <2>3. Plain(r)' = Plain(r) /\ LinesOf(Plain(r))' = LinesOf(Plain(r))
      BY DEF Plain, LinesOf
    <2> QED
      BY <2>1, <2>2, <2>3 DEF Unheard
  <1>6. \A q \in Runs \ {r} : Unheard(q) =>
           /\ thread' \in Seq(Plain(q)) /\ lines' \in LinesOf(Plain(q))
           /\ d.history \in Seq(Plain(q)) /\ d.todo \in Seq(Plain(q))
    BY DEF Unheard
  <1>7. lines' \in Seq(Line)
    BY <1>1 DEF ChatTyped
  <1> QED
    BY <1>2, <1>5, <1>6, <1>7, TaskGoesOn

\* A run starts, and restores the conversation.
LEMMA RestoreSteps ==
    ASSUME ChatInv, NEW r \in Runs, StartRun(r) \/ SpawnChat(r) \/ Restore(r)
    PROVE  ChatInv'
PROOF
  <1>1. ChatTyped /\ Other /\ run[r] \in Task
    BY ChatParts, ChatPieces
  <1>2. run[r].pc \in Early
    BY DEF StartRun, SpawnChat, Restore, MayStart, Early
  <1>3. thread' = thread /\ lines' = lines /\ world' = world
    BY DEF StartRun, SpawnChat, Restore
  <1>4. /\ load_history \in Seq(Message) /\ Len(load_history) \in Nat
        /\ \A q \in Runs : Unheard(q) => load_history \in Seq(Plain(q))
    BY Restored
  <1> DEFINE h == load_history
             a == [run[r] EXCEPT !.pc = "restored", !.history = h]
             b == [run[r] EXCEPT !.pc = "starting"]
             c == [run[r] EXCEPT !.pc = "restored", !.history = h, !.prior = Len(h)]
  <1>5. \/ run' = [run EXCEPT ![r] = a] \/ run' = [run EXCEPT ![r] = b] \/ run' = [run EXCEPT ![r] = c]
    BY <1>1 DEF StartRun, SpawnChat, Restore, ChatTyped, Task
  <1>6. h \in Seq(Message) /\ Len(h) \in Nat /\ \A q \in Runs : Unheard(q) => h \in Seq(Plain(q))
    BY <1>4
  <1> HIDE DEF h
  <1>7. \A d \in {a, b, c} :
           /\ d \in Task /\ d.pc \in {"starting", "restored"} /\ d.usage = run[r].usage /\ d.turn = run[r].turn
           /\ d.todo = run[r].todo /\ d.history \in {h, run[r].history}
    <2>1. /\ a \in Task /\ a.pc = "restored" /\ a.usage = run[r].usage /\ a.turn = run[r].turn
          /\ a.todo = run[r].todo /\ a.history = h
      BY <1>1, <1>6 DEF Task, Phases
    <2>2. /\ b \in Task /\ b.pc = "starting" /\ b.usage = run[r].usage /\ b.turn = run[r].turn
          /\ b.todo = run[r].todo /\ b.history = run[r].history
      BY <1>1 DEF Task, Phases
    <2>3. /\ c \in Task /\ c.pc = "restored" /\ c.usage = run[r].usage /\ c.turn = run[r].turn
          /\ c.todo = run[r].todo /\ c.history = h
      BY <1>1, <1>6 DEF Task, Phases
    <2> HIDE DEF a, b, c
    <2> QED
      BY <2>1, <2>2, <2>3
  <1> HIDE DEF a, b, c
  <1>8. PICK d \in {a, b, c} : run' = [run EXCEPT ![r] = d]
    BY <1>5
  <1>9. \A q \in Runs : Unheard(q) => d.history \in Seq(Plain(q)) /\ thread' \in Seq(Plain(q))
    BY <1>3, <1>6, <1>7 DEF Unheard
  <1>10. thread' \in Seq(Message)
    BY <1>1, <1>3 DEF ChatTyped
  <1>11. ChatTyped' /\ ChatBooks'
    BY <1>2, <1>3, <1>7, <1>8, <1>9, <1>10, EarlyGoesOn
  <1>12. Other'
    BY <1>1 DEF Other, StartRun, SpawnChat, Restore
  <1> QED
    BY <1>11, <1>12, ChatPiecesNext

\* The conversation is compacted before the loop begins.
LEMMA CompactKeeps ==
    ASSUME ChatInv, NEW r \in Runs, Compact(r)
    PROVE  ChatInv'
PROOF
  <1>1. ChatTyped /\ Other /\ run[r] \in Task /\ run[r].history \in Seq(Message) /\ MaxCalls \in Nat
    BY ChatParts, ChatPieces, WorldType
  <1> DEFINE h == Compacted(run[r].history, r)
             d == [run[r] EXCEPT !.history = h]
  <1>2. /\ run[r].pc = "restored" /\ run' = [run EXCEPT ![r] = d]
        /\ thread' \in {h, thread} /\ lines' = lines /\ world' = world
    BY <1>1 DEF Compact, ChatTyped
  <1>3. Msg("summary", r, 0) \in Message /\ \A q \in Runs : Msg("summary", r, 0) \in Plain(q)
    <2>1. "summary" \in Roles /\ 0 \in 0..MaxCalls
      BY <1>1 DEF Roles
    <2> QED
      BY <1>1, <2>1, MsgType
  <1>4. h \in Seq(Message)
    BY <1>1, <1>3, CompactedType
  <1>5. \A q \in Runs : Unheard(q) => h \in Seq(Plain(q))
    <2> TAKE q \in Runs
    <2> HAVE Unheard(q)
    <2>1. run[r].history \in Seq(Plain(q)) /\ Plain(q) \in SUBSET Message
      BY DEF Unheard, Plain
    <2> QED
      BY <1>3, <2>1, CompactedType
  <1> HIDE DEF h
  <1>6. /\ d \in Task /\ d.pc = "restored" /\ d.usage = run[r].usage /\ d.turn = run[r].turn
        /\ d.todo = run[r].todo /\ d.history = h
    BY <1>1, <1>2, <1>4 DEF Task
  <1> HIDE DEF d
  <1>7. thread' \in Seq(Message) /\ run[r].pc \in Early
    BY <1>1, <1>2, <1>4 DEF ChatTyped, Early
  <1>8. \A q \in Runs : Unheard(q) => d.history \in Seq(Plain(q)) /\ thread' \in Seq(Plain(q))
    BY <1>2, <1>5, <1>6 DEF Unheard
  <1>9. ChatTyped' /\ ChatBooks'
    BY <1>2, <1>6, <1>7, <1>8, EarlyGoesOn
  <1>10. Other'
    BY <1>1 DEF Other, Compact
  <1> QED
    BY <1>9, <1>10, ChatPiecesNext

\* The loop begins: no call of the run is in the conversation it restored.
LEMMA NewLoopKeeps ==
    ASSUME ChatInv, NEW r \in Runs, NewLoop(r)
    PROVE  ChatInv'
PROOF
  <1>1. /\ ChatTyped /\ ChatBooks /\ Other /\ run[r] \in Task /\ run[r].history \in Seq(Message) /\ MaxCalls \in Nat
        /\ Books(run[r], r)
    BY ChatParts, ChatPieces, WorldType
  <1> DEFINE s == Msg("system", r, 0)
             u == Msg("user", r, 0)
             h == (IF run[r].history = <<>> THEN <<s>> ELSE run[r].history) \o <<u>>
             d == [run[r] EXCEPT !.pc = "turn", !.history = h]
  <1>2. /\ run[r].pc = "restored" /\ run' = [run EXCEPT ![r] = d]
        /\ thread' = thread /\ lines' = lines /\ world' = world
    BY <1>1 DEF NewLoop, ChatTyped, Task
  <1>3. /\ s \in Message /\ u \in Message /\ \A q \in Runs : s \in Plain(q) /\ u \in Plain(q)
    <2>1. "system" \in Roles /\ "user" \in Roles /\ 0 \in 0..MaxCalls
      BY <1>1 DEF Roles
    <2> QED
      BY <1>1, <2>1, MsgType
  <1> HIDE DEF s, u
  <1>4. \A S \in {Message} \cup {Plain(q) : q \in Runs} :
           run[r].history \in Seq(S) /\ s \in S /\ u \in S => h \in Seq(S)
    OBVIOUS
  <1>5. h \in Seq(Message) /\ \A q \in Runs : Unheard(q) => h \in Seq(Plain(q))
    BY <1>1, <1>3, <1>4 DEF Unheard
  <1> HIDE DEF h
  <1>6. /\ d \in Task /\ d.pc = "turn" /\ d.usage = run[r].usage /\ d.turn = run[r].turn
        /\ d.todo = run[r].todo /\ d.history = h
    BY <1>1, <1>5 DEF Task, Phases
  <1> HIDE DEF d
  <1>7. Unheard(r)
    BY <1>1, <1>2 DEF ChatBooks, Early
  <1>8. CallsAnswered(h, Mine(h, r))
    BY <1>5, <1>7, PlainIsAnswered
  <1>9. Books(d, r) /\ d.pc \notin Early
    BY <1>1, <1>6, <1>8 DEF Books, Early
  <1>10. thread' \in Seq(Message) /\ lines' \in Seq(Line)
    BY <1>1, <1>2 DEF ChatTyped
  <1>11. \A q \in Runs \ {r} : Unheard(q) =>
            /\ thread' \in Seq(Plain(q)) /\ lines' \in LinesOf(Plain(q))
            /\ d.history \in Seq(Plain(q)) /\ d.todo \in Seq(Plain(q))
    BY <1>2, <1>5, <1>6 DEF Unheard
  <1>12. ChatTyped' /\ ChatBooks'
    BY <1>2, <1>6, <1>9, <1>10, <1>11, TaskGoesOn
  <1>13. Other'
    BY <1>1 DEF Other, NewLoop
  <1> QED
    BY <1>12, <1>13, ChatPiecesNext

\* A task that is over, or never began.
LEMMA RestingType ==
    ASSUME NEW pc \in Phases
    PROVE  /\ [Resting EXCEPT !.pc = pc] \in Task /\ [Resting EXCEPT !.pc = pc].pc = pc
           /\ [Resting EXCEPT !.pc = pc].usage <= [Resting EXCEPT !.pc = pc].turn
           /\ [Resting EXCEPT !.pc = pc].history = <<>> /\ [Resting EXCEPT !.pc = pc].todo = <<>>
           /\ Resting \in Task
PROOF
  <1>1. MaxTurns \in Nat /\ MaxCalls \in Nat /\ MaxRevisions \in Nat
    BY ChatAssumption
  <1>2. Resting \in Task /\ Resting.history = <<>> /\ Resting.todo = <<>> /\ Resting.usage = 0 /\ Resting.turn = 0
    BY <1>1 DEF Resting, Task, Phases
  <1> DEFINE d == [Resting EXCEPT !.pc = pc]
  <1>3. /\ d \in Task /\ d.pc = pc /\ d.history = <<>> /\ d.todo = <<>> /\ d.usage = 0 /\ d.turn = 0
    BY <1>2 DEF Task
  <1> QED
    BY <1>2, <1>3

\* A task outside the loop goes on: its books are its usage, and what it
\* holds or writes has no call of a run that was not heard.
LEMMA QuietKeeps ==
    ASSUME ChatInv, NEW r \in Runs, NEW d \in Task, run' = [run EXCEPT ![r] = d],
           d.pc \in {"flushed", "reflush", "saving", "done"}, d.usage <= d.turn,
           world' = world, Other', thread' \in Seq(Message), lines' \in Seq(Line),
           \A q \in Runs \ {r} : Unheard(q) =>
              /\ thread' \in Seq(Plain(q)) /\ lines' \in LinesOf(Plain(q))
              /\ d.history \in Seq(Plain(q)) /\ d.todo \in Seq(Plain(q))
    PROVE  ChatInv'
PROOF
  <1>1. Books(d, r)
    BY QuietBooks
  <1>2. d.pc \notin Early
    BY DEF Early
  <1>3. ChatTyped' /\ ChatBooks'
    BY <1>1, <1>2, TaskGoesOn
  <1> QED
    BY <1>3, ChatPiecesNext

\* No provider: the run is over.
LEMMA FailKeeps ==
    ASSUME ChatInv, NEW r \in Runs, ProviderFails(r)
    PROVE  ChatInv'
PROOF
  <1>1. ChatTyped /\ Other
    BY ChatPieces
  <1> DEFINE d == [Resting EXCEPT !.pc = "done"]
  <1>2. d \in Task /\ d.pc = "done" /\ d.usage <= d.turn /\ d.history = <<>> /\ d.todo = <<>>
    BY RestingType DEF Phases
  <1>3. run' = [run EXCEPT ![r] = d] /\ thread' = thread /\ lines' = lines /\ world' = world
    BY DEF ProviderFails
  <1> HIDE DEF d
  <1>4. Other'
    BY <1>1 DEF Other, ProviderFails
  <1>5. thread' \in Seq(Message) /\ lines' \in Seq(Line)
    BY <1>1, <1>3 DEF ChatTyped
  <1>6. \A q \in Runs \ {r} : Unheard(q) =>
           /\ thread' \in Seq(Plain(q)) /\ lines' \in LinesOf(Plain(q))
           /\ d.history \in Seq(Plain(q)) /\ d.todo \in Seq(Plain(q))
    BY <1>2, <1>3 DEF Unheard
  <1> QED
    BY <1>2, <1>3, <1>4, <1>5, <1>6, QuietKeeps

\* The run's conversation becomes the session's.
LEMMA FlushSteps ==
    ASSUME ChatInv, NEW r \in Runs, FlushThread(r) \/ Reflush(r)
    PROVE  ChatInv'
PROOF
  <1>1. ChatTyped /\ Other /\ run[r] \in Task /\ Books(run[r], r) /\ run[r].history \in Seq(Message)
    BY ChatParts, ChatPieces
  <1>2. PICK pc \in {"flushed", "saving"} : run' = [run EXCEPT ![r].pc = pc]
    BY DEF FlushThread, Reflush
  <1> DEFINE d == [run[r] EXCEPT !.pc = pc]
  <1>3. run' = [run EXCEPT ![r] = d]
    BY <1>1, <1>2 DEF ChatTyped
  <1>4. /\ d \in Task /\ d.pc = pc /\ d.usage = run[r].usage /\ d.turn = run[r].turn
        /\ d.history = run[r].history /\ d.todo = run[r].todo
    BY <1>1 DEF Task, Phases
  <1> HIDE DEF d
  <1>5. d.usage <= d.turn
    BY <1>1, <1>4 DEF Books
  <1>6. thread' \in {thread, run[r].history} /\ lines' = lines /\ world' = world
    BY DEF FlushThread, Reflush
  <1>7. Other'
    BY <1>1 DEF Other, FlushThread, Reflush
  <1>8. thread' \in Seq(Message) /\ lines' \in Seq(Line)
    BY <1>1, <1>6 DEF ChatTyped
  <1>9. \A q \in Runs \ {r} : Unheard(q) =>
           /\ thread' \in Seq(Plain(q)) /\ lines' \in LinesOf(Plain(q))
           /\ d.history \in Seq(Plain(q)) /\ d.todo \in Seq(Plain(q))
    BY <1>4, <1>6 DEF Unheard
  <1> QED
    BY <1>3, <1>4, <1>5, <1>6, <1>7, <1>8, <1>9, QuietKeeps

\* The session's conversation is what will be saved.
LEMMA ReadKeeps ==
    ASSUME ChatInv, NEW r \in Runs, ReadThread(r)
    PROVE  ChatInv'
PROOF
  <1>1. ChatTyped /\ Other /\ run[r] \in Task /\ Books(run[r], r)
    BY ChatParts, ChatPieces
  <1>2. thread \in Seq(Message) /\ run[r].prior + 1 \in Nat \ {0}
    BY <1>1 DEF ChatTyped, Task
  <1> DEFINE rest == IF ~session THEN <<>> ELSE SubSeq(thread, run[r].prior + 1, Len(thread))
             pc == IF ~session THEN "saving" ELSE IF world.kind[r] = "user" THEN "saving" ELSE "reflush"
             d == [run[r] EXCEPT !.pc = pc, !.history = thread, !.todo = rest]
  <1>3. \A S : thread \in Seq(S) => rest \in Seq(S)
    <2> TAKE S
    <2> HAVE thread \in Seq(S)
    <2>1. SubSeq(thread, run[r].prior + 1, Len(thread)) \in Seq(S)
      BY <1>2, PartOf
    <2> QED
      BY <2>1
  <1>4. /\ run' = [run EXCEPT ![r] = d] /\ thread' = thread /\ lines' = lines /\ world' = world
        /\ pc \in {"saving", "reflush"}
    BY <1>1 DEF ReadThread, Local, ChatTyped, Task
  <1> HIDE DEF rest, pc
  <1>5. /\ d \in Task /\ d.pc = pc /\ d.usage = run[r].usage /\ d.turn = run[r].turn
        /\ d.history = thread /\ d.todo = rest
    BY <1>1, <1>2, <1>3, <1>4 DEF Task, Phases
  <1> HIDE DEF d
  <1>6. d.usage <= d.turn
    BY <1>1, <1>5 DEF Books
  <1>7. Other'
    BY <1>1 DEF Other, ReadThread, Local
  <1>8. thread' \in Seq(Message) /\ lines' \in Seq(Line)
    BY <1>1, <1>4 DEF ChatTyped
  <1>9. \A q \in Runs \ {r} : Unheard(q) =>
           /\ thread' \in Seq(Plain(q)) /\ lines' \in LinesOf(Plain(q))
           /\ d.history \in Seq(Plain(q)) /\ d.todo \in Seq(Plain(q))
    BY <1>3, <1>4, <1>5 DEF Unheard
  <1> QED
    BY <1>4, <1>5, <1>6, <1>7, <1>8, <1>9, QuietKeeps

\* A line of the file is a message that was written, or lost.
LEMMA WrittenLine ==
    ASSUME NEW S, NEW m \in S, lines \in LinesOf(S)
    PROVE  /\ append_line(m) \in LinesOf(S)
           /\ \A l \in torn_line(m) : l \in LinesOf(S)
PROOF
  <1> DEFINE R == [msg : S \cup {Garbled}, nl : BOOLEAN]
  <1>1. \A x \in S \cup {Garbled}, b \in BOOLEAN : [msg |-> x, nl |-> b] \in R
    OBVIOUS
  <1>2. lines \in Seq(R)
    BY DEF LinesOf
  <1>3. LinesOf(S) = Seq(R)
    BY DEF LinesOf
  <1> HIDE DEF R
  <1>4. \A x \in R : Append(lines, x) \in Seq(R)
    BY <1>2
  <1>5. ASSUME lines # <<>>, NEW x \in R
        PROVE  [lines EXCEPT ![Len(lines)] = x] \in Seq(R)
    <2>1. Len(lines) \in 1..Len(lines)
      BY <1>2, <1>5
    <2> QED
      BY <1>2, <2>1
  <1>6. append_line(m) \in Seq(R)
    BY <1>1, <1>4, <1>5 DEF append_line
  <1>7. \A l \in torn_line(m) : l \in Seq(R)
    BY <1>1, <1>4, <1>5 DEF torn_line
  <1> QED
    BY <1>3, <1>6, <1>7

\* The turns that wait to be written.
LEMMA NextTurn ==
    ASSUME NEW S, NEW t \in Seq(S), t # <<>>
    PROVE  Head(t) \in S /\ Tail(t) \in Seq(S)
PROOF
  OBVIOUS

\* A line more in the file.
LEMMA AppendKeeps ==
    ASSUME ChatInv, NEW r \in Runs, AppendTurn(r)
    PROVE  ChatInv'
PROOF
  <1>1. ChatTyped /\ Other /\ run[r] \in Task /\ Books(run[r], r) /\ run[r].todo \in Seq(Message)
    BY ChatParts, ChatPieces
  <1>2. /\ run[r].pc = "saving" /\ run[r].todo # <<>> /\ lines' = append_line(Head(run[r].todo))
        /\ thread' = thread /\ world' = world
    BY DEF AppendTurn
  <1> DEFINE rest == Tail(run[r].todo)
             d == [run[r] EXCEPT !.todo = rest]
  <1>3. run' = [run EXCEPT ![r] = d]
    BY <1>1 DEF AppendTurn, ChatTyped, Task
  <1>4. rest \in Seq(Message)
    BY <1>1, <1>2, NextTurn
  <1>5. ASSUME NEW q \in Runs, Unheard(q)
        PROVE  rest \in Seq(Plain(q)) /\ lines' \in LinesOf(Plain(q))
    <2>1. run[r].todo \in Seq(Plain(q)) /\ lines \in LinesOf(Plain(q))
      BY <1>5 DEF Unheard
    <2>2. Head(run[r].todo) \in Plain(q) /\ rest \in Seq(Plain(q))
      BY <1>2, <2>1, NextTurn
    <2>3. append_line(Head(run[r].todo)) \in LinesOf(Plain(q))
      BY <2>1, <2>2, WrittenLine
    <2> QED
      BY <1>2, <2>2, <2>3
  <1> HIDE DEF rest
  <1>6. /\ d \in Task /\ d.pc = "saving" /\ d.usage = run[r].usage /\ d.turn = run[r].turn
        /\ d.history = run[r].history /\ d.todo = rest
    BY <1>1, <1>2, <1>4 DEF Task
  <1> HIDE DEF d
  <1>7. d.usage <= d.turn
    BY <1>1, <1>6 DEF Books
  <1>8. Other'
    BY <1>1 DEF Other, AppendTurn
  <1>9. thread' \in Seq(Message) /\ lines' \in Seq(Line)
    <2>1. lines \in LinesOf(Message) /\ Seq(Line) = LinesOf(Message)
      BY <1>1 DEF ChatTyped, LinesOf, Line
    <2>2. Head(run[r].todo) \in Message
      BY <1>1, <1>2, NextTurn
    <2>3. append_line(Head(run[r].todo)) \in LinesOf(Message)
      BY <2>1, <2>2, WrittenLine
    <2> QED
      BY <1>1, <1>2, <2>1, <2>3 DEF ChatTyped
  <1>10. \A q \in Runs \ {r} : Unheard(q) =>
            /\ thread' \in Seq(Plain(q)) /\ lines' \in LinesOf(Plain(q))
            /\ d.history \in Seq(Plain(q)) /\ d.todo \in Seq(Plain(q))
    BY <1>2, <1>5, <1>6 DEF Unheard
  <1> QED
    BY <1>2, <1>3, <1>6, <1>7, <1>8, <1>9, <1>10, QuietKeeps

\* The run is over.
LEMMA FinishKeeps ==
    ASSUME ChatInv, NEW r \in Runs, Finish(r)
    PROVE  ChatInv'
PROOF
  <1>1. ChatTyped /\ Other
    BY ChatPieces
  <1> DEFINE d == [Resting EXCEPT !.pc = "done"]
  <1>2. d \in Task /\ d.pc = "done" /\ d.usage <= d.turn /\ d.history = <<>> /\ d.todo = <<>>
    BY RestingType DEF Phases
  <1>3. run' = [run EXCEPT ![r] = d] /\ thread' = thread /\ lines' = lines /\ world' = world
    BY DEF Finish
  <1> HIDE DEF d
  <1>4. Other'
    BY <1>1 DEF Other, Finish
  <1>5. thread' \in Seq(Message) /\ lines' \in Seq(Line)
    BY <1>1, <1>3 DEF ChatTyped
  <1>6. \A q \in Runs \ {r} : Unheard(q) =>
           /\ thread' \in Seq(Plain(q)) /\ lines' \in LinesOf(Plain(q))
           /\ d.history \in Seq(Plain(q)) /\ d.todo \in Seq(Plain(q))
    BY <1>2, <1>3 DEF Unheard
  <1> QED
    BY <1>2, <1>3, <1>4, <1>5, <1>6, QuietKeeps

\* The books read the conversations, the file and the tasks.
LEMMA BooksFrame ==
    ASSUME thread' = thread, lines' = lines, run' = run, ChatBooks
    PROVE  ChatBooks'
PROOF
  <1>1. \A r \in Runs : Books(run[r], r)' <=> Books(run[r], r)
    BY DEF Books, CallsAnswered, Mine, Owed, HasResult
  <1>2. \A r \in Runs : Unheard(r)' <=> Unheard(r)
    BY DEF Unheard, Plain, LinesOf
  <1> QED
    BY <1>1, <1>2 DEF ChatBooks

\* The session gets a name.
LEMMA NameSteps ==
    ASSUME ChatInv, RenameSession \/ \E r \in Runs : AutoName(r)
    PROVE  ChatInv'
PROOF
  <1>1. ChatTyped /\ Other /\ ChatBooks
    BY ChatPieces
  <1>2. thread' = thread /\ lines' = lines /\ run' = run /\ world' = world
    BY DEF RenameSession, AutoName
  <1>3. ChatBooks'
    BY <1>1, <1>2, BooksFrame
  <1>4. Other' /\ ChatTyped'
    BY <1>1 DEF Other, ChatTyped, RenameSession, AutoName
  <1> QED
    BY <1>3, <1>4, ChatPiecesNext

\* A crash: the tasks are gone, and a line may be torn.
LEMMA CrashKeeps ==
    ASSUME ChatInv, Crash
    PROVE  ChatInv'
PROOF
  <1>1. ChatTyped /\ Other /\ ChatBooks /\ \A k \in Runs : run[k] \in Task
    BY ChatPieces, ChatParts
  <1> DEFINE dead == [Resting EXCEPT !.pc = "dead"]
  <1>2. /\ dead \in Task /\ dead.pc = "dead" /\ dead.usage <= dead.turn
        /\ dead.history = <<>> /\ dead.todo = <<>>
    BY RestingType DEF Phases
  <1>3. /\ run' = [k \in Runs |-> IF run[k].pc \in {"idle", "done"} THEN run[k] ELSE dead]
        /\ thread' = thread /\ world' = world
    BY DEF Crash
  <1> HIDE DEF dead
  <1>4. ASSUME NEW S, lines \in LinesOf(S), \A k \in Runs : run[k].todo \in Seq(S)
        PROVE  lines' \in LinesOf(S)
    <2>1. CASE lines' = lines
      BY <1>4, <2>1
    <2>2. ASSUME NEW k \in Runs, run[k].todo # <<>>, lines' \in torn_line(Head(run[k].todo))
          PROVE  lines' \in LinesOf(S)
      <3>1. Head(run[k].todo) \in S
        BY <1>4, <2>2, NextTurn
      <3> QED
        BY <1>4, <2>2, <3>1, WrittenLine
    <2> QED
      BY <2>1, <2>2 DEF Crash
  <1>5. ChatTyped'
    <2>1. lines \in LinesOf(Message) /\ Seq(Line) = LinesOf(Message)
      BY <1>1 DEF ChatTyped, LinesOf, Line
    <2>2. \A k \in Runs : run[k].todo \in Seq(Message)
      BY ChatParts
    <2>3. lines' \in Seq(Line)
      BY <1>4, <2>1, <2>2
    <2>4. run' \in [Runs -> Task]
      BY <1>1, <1>2, <1>3
    <2> QED
      BY <1>1, <1>3, <2>3, <2>4 DEF ChatTyped
  <1>6. Other'
    <2>1. crashes \in 0..world.crashes /\ crashes < world.crashes /\ crashes' = crashes + 1 /\ world.crashes \in Nat
      BY <1>1 DEF Other, Crash, ChatTyped, World
    <2>2. crashes' \in 0..world'.crashes
      BY <1>3, <2>1
    <2> QED
      BY <1>1, <2>2 DEF Other, Crash
  <1>7. \A q \in Runs : Books(run'[q], q)
    <2> TAKE q \in Runs
    <2>1. CASE run[q].pc \in {"idle", "done"}
      BY <1>1, <1>3, <2>1 DEF ChatBooks
    <2>2. CASE run[q].pc \notin {"idle", "done"}
      <3>1. Books(dead, q)
        BY <1>2, QuietBooks
      <3>2. run'[q] = dead
        BY <1>3, <2>2
      <3> QED
        BY <3>1, <3>2
    <2> QED
      BY <2>1, <2>2
  <1>8. ASSUME NEW q \in Runs, run'[q].pc \in Early
        PROVE  Unheard(q)'
    <2>1. run[q].pc \in Early
      BY <1>2, <1>3, <1>8 DEF Early
    <2>2. Unheard(q)
      BY <1>1, <2>1 DEF ChatBooks
    <2>3. lines' \in LinesOf(Plain(q)) /\ thread' \in Seq(Plain(q))
      BY <1>3, <1>4, <2>2 DEF Unheard
    <2>4. \A k \in Runs : run'[k].history \in Seq(Plain(q)) /\ run'[k].todo \in Seq(Plain(q))
      <3> TAKE k \in Runs
      <3>1. run'[k] = run[k] \/ run'[k] = dead
        BY <1>3
      <3>2. run[k].history \in Seq(Plain(q)) /\ run[k].todo \in Seq(Plain(q))
        BY <2>2 DEF Unheard
      <3>3. dead.history \in Seq(Plain(q)) /\ dead.todo \in Seq(Plain(q))
        BY <1>2
      <3> QED
        BY <3>1, <3>2, <3>3
    <2>5. Plain(q)' = Plain(q) /\ LinesOf(Plain(q))' = LinesOf(Plain(q))
      BY DEF Plain, LinesOf
    <2> QED
      BY <2>3, <2>4, <2>5 DEF Unheard
  <1>9. ChatBooks'
    <2>1. \A q \in Runs : Books(run[q], q)' <=> Books(run'[q], q)
      BY DEF Books, CallsAnswered, Mine, Owed, HasResult
    <2> QED
      BY <1>7, <1>8, <2>1 DEF ChatBooks
  <1> QED
    BY <1>5, <1>6, <1>9, ChatPiecesNext

\* The invariant holds at the start.
LEMMA InitChat == ChatInit => ChatInv
PROOF
  <1> SUFFICES ASSUME ChatInit PROVE ChatInv
    OBVIOUS
  <1>1. /\ Resting \in Task /\ Resting.usage = 0 /\ Resting.turn = 0 /\ Resting.pc = "idle"
        /\ Resting.history = <<>> /\ Resting.todo = <<>>
    BY RestingType DEF Phases, Resting
  <1>2. run = [r \in Runs |-> Resting]
    BY DEF ChatInit
  <1>3. ChatTyped /\ Other
    <2>1. run \in [Runs -> Task]
      BY <1>1, <1>2
    <2>2. world \in Worlds /\ world \in World
      BY ChatAssumption DEF ChatInit
    <2>3. crashes \in 0..world.crashes
      BY <2>2 DEF ChatInit, World
    <2>4. thread = <<>> /\ lines = <<>> /\ thread \in Seq(Message) /\ lines \in Seq(Line)
      BY DEF ChatInit
    <2>5. ChatTyped
      BY <2>1, <2>2, <2>4 DEF ChatTyped
    <2>6. Other
      BY <2>2, <2>3 DEF ChatInit, Other
    <2> QED
      BY <2>5, <2>6
  <1>4. \A r \in Runs : Books(run[r], r)
    BY <1>1, <1>2 DEF Books
  <1>5. \A r \in Runs : Unheard(r)
    <2> TAKE r \in Runs
    <2>1. <<>> \in Seq(Plain(r)) /\ <<>> \in LinesOf(Plain(r))
      BY DEF LinesOf
    <2>2. thread = <<>> /\ lines = <<>>
      BY DEF ChatInit
    <2>3. \A k \in Runs : run[k].history = <<>> /\ run[k].todo = <<>>
      BY <1>1, <1>2
    <2> QED
      BY <2>1, <2>2, <2>3 DEF Unheard
  <1>6. ChatBooks
    BY <1>4, <1>5 DEF ChatBooks
  <1> QED
    BY <1>3, <1>6, ChatPieces

\* Every step keeps it.
LEMMA NextChat == ChatInv /\ [ChatNext]_chatVars => ChatInv'
PROOF
  <1> SUFFICES ASSUME ChatInv, [ChatNext]_chatVars PROVE ChatInv'
    OBVIOUS
  <1>1. ASSUME NEW r \in Runs, StartRun(r) \/ SpawnChat(r) \/ Restore(r) PROVE ChatInv'
    BY <1>1, RestoreSteps
  <1>2. ASSUME NEW r \in Runs, ProviderFails(r) \/ Compact(r) \/ NewLoop(r) PROVE ChatInv'
    BY <1>2, FailKeeps, CompactKeeps, NewLoopKeeps
  <1>3. ASSUME NEW r \in Runs, LoopStep(r) PROVE ChatInv'
    BY <1>3, LoopSteps
  <1>4. ASSUME NEW r \in Runs, FlushThread(r) \/ ReadThread(r) \/ Reflush(r) PROVE ChatInv'
    BY <1>4, FlushSteps, ReadKeeps
  <1>5. ASSUME NEW r \in Runs, AppendTurn(r) \/ Finish(r) PROVE ChatInv'
    BY <1>5, AppendKeeps, FinishKeeps
  <1>6. ASSUME RenameSession \/ \E r \in Runs : AutoName(r) PROVE ChatInv'
    BY <1>6, NameSteps
  <1>7. CASE Crash
    BY <1>7, CrashKeeps
  <1>8. CASE UNCHANGED chatVars
    <2>1. ChatTyped /\ Other /\ ChatBooks
      BY ChatPieces
    <2>2. thread' = thread /\ lines' = lines /\ run' = run
      BY <1>8 DEF chatVars
    <2>3. ChatBooks'
      BY <2>1, <2>2, BooksFrame
    <2>4. ChatTyped' /\ Other'
      BY <1>8, <2>1 DEF chatVars, ChatTyped, Other
    <2> QED
      BY <2>3, <2>4, ChatPiecesNext
  <1> QED
    BY <1>1, <1>2, <1>3, <1>4, <1>5, <1>6, <1>7, <1>8 DEF ChatNext

\* It holds in every state.
LEMMA ChatKept == ChatSpec => []ChatInv
PROOF
  BY InitChat, NextChat, PTL DEF ChatSpec

\* Every state of the conversation, the file and the tasks is one of the model's.
THEOREM ChatTypeCorrect == ChatSpec => []ChatTypeOK
PROOF
  <1>1. ChatInv => ChatTypeOK
    BY DEF ChatInv
  <1> QED
    BY <1>1, ChatKept, PTL

\* A request carries a result for every tool call the run itself made
\* (run_one_tool), for every number of runs, turns, calls and crashes.
THEOREM OwnCallsCorrect == ChatSpec => []OwnCallsAnswered
PROOF
  <1>1. ChatInv => OwnCallsAnswered
    BY DEF ChatInv, ChatBooks, Books, OwnCallsAnswered, Mine
  <1> QED
    BY <1>1, ChatKept, PTL

\* Where a conversation is cut: after system messages, and before a user's.
LEMMA SplitPlace ==
    ASSUME NEW t \in Seq(Message), split_thread(t)[1] + 1 < split_thread(t)[2]
    PROVE  /\ split_thread(t)[1] \in 0..Len(t) /\ \A i \in 1..split_thread(t)[1] : IsSystem(t[i])
           /\ split_thread(t)[2] \in 1..(Len(t) + 1)
           /\ split_thread(t)[2] <= Len(t) => IsUser(t[split_thread(t)[2]])
PROOF
  <1>0. Len(t) \in Nat
    OBVIOUS
  <1> DEFINE systems == {n \in 0..Len(t) : \A i \in 1..n : IsSystem(t[i])}
             prefix == CHOOSE n \in systems : \A m \in systems : m <= n
             from == {i \in 1..Len(t) : IsUser(t[i]) /\ TurnsSeen(t, i) >= RecencyTurns}
  <1>1. 0 \in systems /\ systems \in SUBSET (0..Len(t))
    BY <1>0
  <1>2. from \in SUBSET (0..Len(t)) /\ from \in SUBSET (1..Len(t)) /\ \A i \in from : IsUser(t[i])
    BY <1>0
  <1>3. RecencyStart(t) = IF from = {} THEN Len(t) + 1 ELSE CHOOSE i \in from : \A j \in from : j <= i
    BY DEF RecencyStart
  <1>4. split_thread(t) = <<prefix, IF RecencyStart(t) > prefix + 1 THEN RecencyStart(t) ELSE prefix + 1>>
    BY DEF split_thread
  <1>5. \A n \in systems : n \in 0..Len(t) /\ \A i \in 1..n : IsSystem(t[i])
    OBVIOUS
  <1> HIDE DEF systems, from
  <1>6. prefix \in systems
    <2>1. \E n \in systems : \A m \in systems : m <= n
      BY <1>0, <1>1, Greatest
    <2> QED
      BY <2>1
  <1>7. RecencyStart(t) = Len(t) + 1 \/ RecencyStart(t) \in from
    <2>1. CASE from = {}
      BY <1>3, <2>1
    <2>2. CASE from # {}
      <3>1. \E i \in from : \A j \in from : j <= i
        BY <1>0, <1>2, <2>2, Greatest
      <3> QED
        BY <1>3, <2>2, <3>1
    <2> QED
      BY <2>1, <2>2
  <1> HIDE DEF prefix
  <1>8. prefix \in 0..Len(t) /\ \A i \in 1..prefix : IsSystem(t[i])
    BY <1>5, <1>6
  <1>9. RecencyStart(t) \in 1..(Len(t) + 1) /\ (RecencyStart(t) <= Len(t) => IsUser(t[RecencyStart(t)]))
    <2>1. CASE RecencyStart(t) = Len(t) + 1
      BY <1>0, <2>1
    <2>2. CASE RecencyStart(t) \in from
      <3>1. RecencyStart(t) \in 1..Len(t)
        BY <1>2, <2>2
      <3>2. IsUser(t[RecencyStart(t)])
        BY <1>2, <2>2
      <3> QED
        BY <1>0, <3>1, <3>2
    <2> QED
      BY <1>7, <2>1, <2>2
  <1>10. split_thread(t)[1] = prefix /\ split_thread(t)[2] = RecencyStart(t)
    <2>1. split_thread(t)[1] = prefix
      BY <1>4
    <2>2. split_thread(t)[2] = IF RecencyStart(t) > prefix + 1 THEN RecencyStart(t) ELSE prefix + 1
      BY <1>4
    <2> QED
      BY <1>8, <1>9, <2>1, <2>2
  <1> QED
    BY <1>8, <1>9, <1>10

\* The places of two conversations, one after the other.
LEMMA Joined ==
    ASSUME NEW a \in Seq(Message), NEW b \in Seq(Message)
    PROVE  /\ a \o b \in Seq(Message) /\ Len(a \o b) = Len(a) + Len(b)
           /\ \A i \in 1..Len(a) : (a \o b)[i] = a[i]
PROOF
  OBVIOUS

\* The places of the second.
LEMMA JoinedLast ==
    ASSUME NEW a \in Seq(Message), NEW b \in Seq(Message), NEW i \in 1..Len(b)
    PROVE  (a \o b)[Len(a) + i] = b[i]
PROOF
  OBVIOUS

\* A conversation of which the middle became the message s.
Spliced(t, p, s, c) == SubSeq(t, 1, p) \o <<s>> \o SubSeq(t, c, Len(t))

\* What is where in u, if it is that of t.
Splits(u, t, p, s, c) ==
    /\ Len(u) = p + 1 + (Len(t) + 1 - c)
    /\ (\A i \in 1..p : u[i] = t[i]) /\ u[p + 1] = s
    /\ \A i \in 1..(Len(t) + 1 - c) : u[(p + 1) + i] = t[c + i - 1]

\* What is where in it.
LEMMA SplicedAt ==
    ASSUME NEW t \in Seq(Message), NEW s \in Message, NEW n \in Nat, Len(t) = n, NEW p \in 0..n, NEW c \in 1..(n + 1)
    PROVE  Splits(Spliced(t, p, s, c), t, p, s, c)
PROOF
  <1> DEFINE a == SubSeq(t, 1, p)
             z == SubSeq(t, c, Len(t))
             w == <<s>>
             aw == a \o w
             u == aw \o z
  <1>1. a \in Seq(Message) /\ Len(a) = p /\ \A i \in 1..p : a[i] = t[i]
    OBVIOUS
  <1>2. z \in Seq(Message) /\ Len(z) = n + 1 - c /\ \A i \in 1..(n + 1 - c) : z[i] = t[c + i - 1]
    OBVIOUS
  <1>3. w \in Seq(Message) /\ Len(w) = 1 /\ w[1] = s
    OBVIOUS
  <1>4. Spliced(t, p, s, c) = u
    BY DEF Spliced
  <1> HIDE DEF a, z, w
  <1>5. aw \in Seq(Message) /\ Len(aw) = p + 1 /\ \A i \in 1..p : aw[i] = t[i]
    <2>1. aw \in Seq(Message) /\ Len(aw) = Len(a) + Len(w) /\ \A i \in 1..Len(a) : aw[i] = a[i]
      BY <1>1, <1>3, Joined, Zenon
    <2> HIDE DEF aw
    <2> QED
      BY <1>1, <1>3, <2>1
  <1>6. aw[p + 1] = s
    <2>1. 1 \in 1..Len(w)
      BY <1>3
    <2>2. aw[Len(a) + 1] = w[1]
      BY <1>1, <1>3, <2>1, JoinedLast, Zenon
    <2> HIDE DEF aw
    <2> QED
      BY <1>1, <1>3, <2>2
  <1> HIDE DEF aw
  <1>7. Len(u) = Len(aw) + Len(z) /\ \A i \in 1..Len(aw) : u[i] = aw[i]
    BY <1>2, <1>5, Joined
  <1>8. \A i \in 1..Len(z) : u[Len(aw) + i] = z[i]
    BY <1>2, <1>5, JoinedLast
  <1> HIDE DEF u
  <1>9. \A i \in 1..(n + 1 - c) : u[(p + 1) + i] = t[c + i - 1]
    BY <1>2, <1>5, <1>8
  <1>10. u[p + 1] = s /\ \A i \in 1..p : u[i] = t[i]
    <2>1. p + 1 \in 1..Len(aw) /\ \A i \in 1..p : i \in 1..Len(aw)
      BY <1>5
    <2> QED
      BY <1>5, <1>6, <1>7, <2>1
  <1> QED
    BY <1>2, <1>4, <1>5, <1>7, <1>9, <1>10 DEF Splits

\* A system message is no call, no result and nobody's.
LEMMA SystemIsNeither ==
    ASSUME NEW m, IsSystem(m)
    PROVE  m.role # "calls" /\ m.role # "result" /\ ~IsUser(m)
PROOF
  BY DEF IsSystem, IsUser

\* A conversation that is cut before a user's message stays unbroken.
LEMMA CutIsClean ==
    ASSUME NEW t \in Seq(Message), Unbroken(t), NEW s \in Message, s.role = "summary",
           NEW n \in Nat, Len(t) = n, NEW p \in 0..n, \A i \in 1..p : IsSystem(t[i]),
           NEW c \in 1..(n + 1), c <= n => IsUser(t[c])
    PROVE  Unbroken(Spliced(t, p, s, c))
PROOF
  <1> DEFINE u == Spliced(t, p, s, c)
             l == p + 1 + (n + 1 - c)
             old(i) == i - (p + 1) + (c - 1)
             new(j) == j - (c - 1) + (p + 1)
  <1>0. Splits(u, t, p, s, c)
    BY SplicedAt
  <1> HIDE DEF u
  <1>1. Len(u) = l /\ (\A i \in 1..p : u[i] = t[i]) /\ u[p + 1] = s
    BY <1>0 DEF Splits
  <1>2. \A i \in 1..(n + 1 - c) : u[(p + 1) + i] = t[c + i - 1]
    BY <1>0 DEF Splits
  \* The places after the summary, there and back.
  <1>3. /\ \A i \in (p + 2)..l : old(i) \in c..n /\ new(old(i)) = i
        /\ \A j \in c..n : new(j) \in (p + 2)..l /\ old(new(j)) = j
        /\ \A i, j \in c..n : i < j <=> new(i) < new(j)
        /\ \A i, j \in c..n : \A m \in new(i)..new(j) : m \in (p + 2)..l /\ old(m) \in i..j
    OBVIOUS
  <1>4. \A i \in (p + 2)..l : u[i] = t[old(i)]
    <2> TAKE i \in (p + 2)..l
    <2>1. i - (p + 1) \in 1..(n + 1 - c) /\ (p + 1) + (i - (p + 1)) = i /\ c + (i - (p + 1)) - 1 = old(i)
      OBVIOUS
    <2>2. u[(p + 1) + (i - (p + 1))] = t[c + (i - (p + 1)) - 1]
      BY <1>2, <2>1
    <2> HIDE DEF old
    <2> QED
      BY <2>1, <2>2
  <1>5. \A i \in 1..l : i \in 1..p \/ i = p + 1 \/ i \in (p + 2)..l
    OBVIOUS
  <1>6. (p + 2)..l \subseteq 1..l /\ c..n \subseteq 1..n /\ \A i \in c..n : \A j \in (i + 1)..n : j \in c..n /\ i < j
    OBVIOUS
  <1>7. \A i, j \in (p + 2)..l : i < j => j \in (i + 1)..l /\ i \in 1..(j - 1)
    OBVIOUS
  <1>8. \A o \in c..n : \A i \in 1..(o - 1) : (i \in c..n \/ (c \in i..o /\ c <= n)) /\ i < o
    OBVIOUS
  <1> HIDE DEF l, old, new
  <1>9. \A i \in 1..l : u[i].role \in {"calls", "result"} => i \in (p + 2)..l
    <2> SUFFICES ASSUME NEW i \in 1..l, u[i].role \in {"calls", "result"} PROVE i \in (p + 2)..l
      OBVIOUS
    <2>1. i \notin 1..p
      <3> SUFFICES ASSUME i \in 1..p PROVE FALSE
        OBVIOUS
      <3>1. IsSystem(u[i])
        BY <1>1
      <3> QED
        BY <3>1, SystemIsNeither
    <2>2. i # p + 1
      BY <1>1
    <2> QED
      BY <1>5, <2>1, <2>2
  <1>10. ASSUME NEW i \in c..n, NEW j \in c..n, Belongs(t, i, j)
         PROVE  u[new(i)] = t[i] /\ u[new(j)] = t[j] /\ Belongs(u, new(i), new(j))
    <2>1. u[new(i)] = t[i] /\ u[new(j)] = t[j]
      BY <1>3, <1>4
    <2>2. \A m \in new(i)..new(j) : ~IsUser(u[m])
      <3> TAKE m \in new(i)..new(j)
      <3>1. m \in (p + 2)..l /\ old(m) \in i..j
        BY <1>3
      <3>2. u[m] = t[old(m)] /\ ~IsUser(t[old(m)])
        BY <1>4, <1>10, <3>1 DEF Belongs
      <3> QED
        BY <3>2
    <2> QED
      BY <1>10, <2>1, <2>2 DEF Belongs
  <1>11. ASSUME NEW i \in 1..l, u[i].role = "calls", NEW k \in 1..u[i].k
         PROVE  \E j \in (i + 1)..l : u[j].role = "result" /\ u[j].k = k /\ Belongs(u, i, j)
    <2>1. i \in (p + 2)..l
      BY <1>9, <1>11
    <2>2. PICK o \in c..n : o \in 1..n /\ u[i] = t[o] /\ new(o) = i
      BY <1>3, <1>4, <1>6, <2>1
    <2>3. PICK j \in (o + 1)..n : t[j].role = "result" /\ t[j].k = k /\ Belongs(t, o, j)
      BY <1>11, <2>2 DEF Unbroken
    <2>4. j \in c..n /\ o < j
      BY <1>6
    <2>5. new(j) \in (i + 1)..l
      BY <1>3, <1>7, <2>1, <2>2, <2>4
    <2>6. u[new(j)] = t[j] /\ Belongs(u, i, new(j))
      BY <1>10, <2>2, <2>3, <2>4
    <2> QED
      BY <2>3, <2>5, <2>6
  <1>12. ASSUME NEW j \in 1..l, u[j].role = "result"
         PROVE  \E i \in 1..(j - 1) : u[i].role = "calls" /\ Belongs(u, i, j)
    <2>1. j \in (p + 2)..l
      BY <1>9, <1>12
    <2>2. PICK o \in c..n : o \in 1..n /\ u[j] = t[o] /\ new(o) = j
      BY <1>3, <1>4, <1>6, <2>1
    <2>3. PICK i \in 1..(o - 1) : t[i].role = "calls" /\ Belongs(t, i, o)
      BY <1>12, <2>2 DEF Unbroken
    <2>4. i \in c..n /\ i < o
      <3>1. ~(c \in i..o /\ c <= n)
        BY <2>3 DEF Belongs
      <3> QED
        BY <1>8, <3>1
    <2>5. new(i) \in 1..(j - 1)
      BY <1>3, <1>7, <2>1, <2>2, <2>4
    <2>6. u[new(i)] = t[i] /\ Belongs(u, new(i), j)
      BY <1>10, <2>2, <2>3, <2>4
    <2> QED
      BY <2>3, <2>5, <2>6
  <1>13. Unbroken(u)
    BY <1>1, <1>11, <1>12 DEF Unbroken
  <1> QED
    BY <1>13 DEF u

\* maybe_compact keeps every call that survives together with its results,
\* however long the conversation and whatever is in it.
THEOREM CompactionCorrect == ChatSpec => CompactionKeepsResults
PROOF
  <1>1. ASSUME ChatInv, NEW r \in Runs, Compact(r), Unbroken(run[r].history)
        PROVE  Unbroken(run'[r].history)
    <2> DEFINE t == run[r].history
               s == Msg("summary", r, 0)
               p == split_thread(t)[1]
               c == split_thread(t)[2]
    <2>1. t \in Seq(Message) /\ ChatTyped /\ MaxCalls \in Nat
      BY <1>1, ChatParts, WorldType
    <2>2. s \in Message /\ s.role = "summary"
      <3>1. "summary" \in Roles /\ 0 \in 0..MaxCalls
        BY <2>1 DEF Roles
      <3> QED
        BY <2>1, <3>1, MsgType
    <2>3. p + 1 < c
      BY <1>1 DEF Compact
    <2>4. /\ p \in 0..Len(t) /\ (\A i \in 1..p : IsSystem(t[i]))
          /\ c \in 1..(Len(t) + 1) /\ (c <= Len(t) => IsUser(t[c]))
      BY <2>1, <2>3, SplitPlace
    <2>5. run'[r].history = Spliced(t, p, s, c) /\ Len(t) \in Nat
      <3>1. run' = [run EXCEPT ![r].history = Compacted(t, r)]
        BY <1>1 DEF Compact
      <3>2. run[r] \in Task /\ run \in [Runs -> Task] /\ Len(t) \in Nat
        BY <2>1 DEF ChatTyped
      <3>3. Compacted(t, r) = Spliced(t, p, s, c)
        BY DEF Compacted, Spliced
      <3> HIDE DEF t, s, p, c
      <3> QED
        BY <3>1, <3>2, <3>3 DEF Task
    <2>6. Unbroken(t)
      BY <1>1
    <2> HIDE DEF t, s, p, c
    <2> QED
      BY <2>2, <2>4, <2>5, <2>6, <2>1, CutIsClean
  <1>2. ChatInv /\ [ChatNext]_chatVars =>
           [\A r \in Runs : Compact(r) /\ Unbroken(run[r].history) => Unbroken(run'[r].history)]_chatVars
    BY <1>1
  <1> QED
    BY <1>2, ChatKept, PTL DEF ChatSpec, CompactionKeepsResults

=============================================================================
