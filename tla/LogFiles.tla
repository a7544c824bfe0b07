------------------------------ MODULE LogFiles ------------------------------
(***************************************************************************)
(* One log file of an extension and its rotated predecessors               *)
(* (extensions/logging.rs).  All writers of a path share one LogWriter, so *)
(* a write and the rotation it sets off happen under its mutex; clearing a *)
(* channel works on the path and does not take the mutex.                  *)
(*                                                                         *)
(* File 0 is the live file, file i is the path with the suffix .i.  A line *)
(* is its number, a size is counted in lines.                              *)
(***************************************************************************)
EXTENDS Naturals, Sequences

CONSTANTS MaxHistory,    \* max_history: 3 in the code
          MaxSize,       \* max_file_size
          MaxLines, MaxLogFails  \* bounds

LogNames == 0..MaxHistory
NoFile == <<0>>
Unlinked == MaxHistory + 1   \* the open file has no name any more

VARIABLES
    logs,      \* the file under each name
    fd,        \* the name of the file that the writer has open
    rotation,  \* what rotate_locked does next
    written,   \* lines so far
    cleared,   \* ghost: lines that clear_channel removed
    misses,    \* ghost: rotations in a row that did not get a new live file
    logFails

logVars == <<logs, fd, rotation, written, cleared, misses, logFails>>

ASSUME LogAssumption ==
    MaxHistory \in Nat \ {0} /\ MaxSize \in Nat /\ MaxLines \in Nat /\ MaxLogFails \in Nat

\* The lines in the file with name n.
Lines(n) == IF logs[n] = NoFile THEN {} ELSE {logs[n][i] : i \in 1..Len(logs[n])}

Quiet == [at |-> "idle", k |-> 1]

LogInit ==
    /\ logs = [n \in LogNames |-> IF n = 0 THEN <<>> ELSE NoFile]
    /\ fd = 0 /\ rotation = Quiet /\ written = 0 /\ cleared = {} /\ misses = 0 /\ logFails = 0

LogTypeOK ==
    /\ logs \in [LogNames -> Seq(0..MaxLines)] /\ fd \in 0..Unlinked
    /\ rotation \in [at : {"idle", "remove", "shift", "move", "open"}, k : 1..MaxHistory]
    /\ written \in 0..MaxLines /\ cleared \subseteq 1..MaxLines
    /\ misses \in 0..MaxLogFails /\ logFails \in 0..MaxLogFails

-----------------------------------------------------------------------------
\* write_bytes: the line goes to the open file; one that has grown to the
\* limit is rotated.
WriteLine ==
    /\ rotation = Quiet /\ written < MaxLines /\ written' = written + 1
    /\ logs' = IF fd = Unlinked THEN logs ELSE [logs EXCEPT ![fd] = Append(@, written')]
    /\ rotation' = IF fd = Unlinked \/ Len(logs'[fd]) >= MaxSize THEN [Quiet EXCEPT !.at = "remove"] ELSE Quiet
    /\ UNCHANGED <<fd, cleared, misses, logFails>>

\* fs::rename when there is such a file; what is open follows its file.
Renamed(from, to) ==
    IF logs[from] = NoFile THEN UNCHANGED <<logs, fd>>
    ELSE /\ logs' = [logs EXCEPT ![to] = logs[from], ![from] = NoFile]
         /\ fd' = IF fd = from THEN to ELSE IF fd = to THEN Unlinked ELSE fd

\* A slip: the suffix of the newest rotated file instead of the oldest.
MRemoveOldest ==
    /\ rotation.at = "remove"
    /\ logs' = [logs EXCEPT ![1] = NoFile]
    /\ fd' = IF fd = 1 THEN Unlinked ELSE fd
    /\ rotation' = [rotation EXCEPT !.at = IF MaxHistory > 1 THEN "shift" ELSE "move"]
    /\ UNCHANGED <<written, cleared, misses, logFails>>

RemoveOldest ==
    /\ rotation.at = "remove"
    /\ logs' = [logs EXCEPT ![MaxHistory] = NoFile]
    /\ fd' = IF fd = MaxHistory THEN Unlinked ELSE fd
    /\ rotation' = [rotation EXCEPT !.at = IF MaxHistory > 1 THEN "shift" ELSE "move"]
    /\ UNCHANGED <<written, cleared, misses, logFails>>

\* The loop counts from max_history - 1 down to 1; k is its turn.
ShiftFrom == MaxHistory - rotation.k

Shift ==
    /\ rotation.at = "shift"
    /\ Renamed(ShiftFrom, ShiftFrom + 1)
    /\ rotation' = IF ShiftFrom > 1 THEN [rotation EXCEPT !.k = @ + 1] ELSE [Quiet EXCEPT !.at = "move"]
    /\ UNCHANGED <<written, cleared, misses, logFails>>

MoveLive ==
    /\ rotation.at = "move" /\ Renamed(0, 1)
    /\ rotation' = [Quiet EXCEPT !.at = "open"]
    /\ UNCHANGED <<written, cleared, misses, logFails>>

OpenLive ==
    /\ rotation.at = "open"
    /\ logs' = IF logs[0] = NoFile THEN [logs EXCEPT ![0] = <<>>] ELSE logs
    /\ fd' = 0 /\ rotation' = Quiet /\ misses' = 0
    /\ UNCHANGED <<written, cleared, logFails>>

\* Any of these may fail: write_bytes returns the error, and the next write
\* starts another rotation from wherever this one stopped.
RotationFails ==
    /\ rotation # Quiet /\ rotation' = Quiet
    /\ logFails < MaxLogFails /\ logFails' = logFails + 1 /\ misses' = misses + 1
    /\ UNCHANGED <<logs, fd, written, cleared>>

\* clear_channel: the live file is cut to nothing, if it is there.
ClearChannel ==
    /\ logs[0] # NoFile /\ logs[0] # <<>>
    /\ cleared' = cleared \cup Lines(0)
    /\ logs' = [logs EXCEPT ![0] = <<>>]
    /\ UNCHANGED <<fd, rotation, written, misses, logFails>>

\* LogWriter::truncate: the open file is cut, wherever it is by now.
Truncate ==
    /\ rotation = Quiet /\ fd # Unlinked /\ logs[fd] # <<>>
    /\ cleared' = cleared \cup Lines(fd)
    /\ logs' = [logs EXCEPT ![fd] = <<>>]
    /\ UNCHANGED <<fd, rotation, written, misses, logFails>>

LogNext ==
    \/ WriteLine \/ RemoveOldest \/ Shift \/ MoveLive \/ OpenLive \/ RotationFails
    \/ ClearChannel \/ Truncate
LogSpec == LogInit /\ [][LogNext]_logVars

-----------------------------------------------------------------------------
(* Properties                                                              *)

OnFile == UNION {Lines(n) : n \in LogNames}

\* Rotation drops the oldest lines only.  Whatever rename or open fails and
\* wherever a channel is cleared in between: each file holds its lines in the
\* order they were written, those of an older file before those of a newer one,
\* and of the lines from the oldest one kept to the last one written none is
\* missing that was not cleared.  Where nothing failed and nothing was cleared,
\* nothing was dropped yet or max_history full files are there; and the writer's
\* file keeps a name as long as rotations do not fail max_history times in a row,
\* after which it is itself the oldest (rotate_locked, write_bytes,
\* clear_channel).
RotationDropsOldest ==
    /\ \A n \in LogNames : logs[n] # NoFile => \A i, j \in 1..Len(logs[n]) : i < j => logs[n][i] < logs[n][j]
    /\ \A n, o \in LogNames : n < o => \A x \in Lines(o), y \in Lines(n) : x < y
    /\ \A x \in OnFile, y \in 1..written : x < y => y \in cleared \cup OnFile
    /\ rotation = Quiet /\ logFails = 0 /\ cleared = {} =>
        OnFile = 1..written \/ \A n \in 1..MaxHistory : logs[n] # NoFile /\ Len(logs[n]) >= MaxSize
    /\ misses < MaxHistory => fd # Unlinked
=============================================================================
