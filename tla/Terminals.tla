------------------------------ MODULE Terminals -----------------------------
(***************************************************************************)
(* Shells behind pseudo-terminals: the terminals of the user interface     *)
(* (runtime/handler/terminal_ops.rs, terminal/pty.rs), which one manager   *)
(* per workspace keeps, and the run_terminal tool                          *)
(* (capability/dispatcher.rs), which collects what a command prints.       *)
(*                                                                         *)
(* A PtySession (terminal/mod.rs) has two threads: the reader moves what   *)
(* the shell prints into a channel, the waiter sends the exit code when    *)
(* the shell is gone.  Output is counted in chunks.                        *)
(***************************************************************************)
EXTENDS Naturals, FiniteSets

CONSTANTS Spaces,         \* workspace roots
          TermIds,
          Shells,         \* shells that can be started
          MaxChunks  \* bound: chunks a shell prints

NoShell == "none"

ASSUME TerminalsAssumption == NoShell \notin Shells /\ MaxChunks \in Nat

VARIABLES
    managers,   \* terminal_managers: the workspaces that have one
    sessions,   \* the shell behind each id of each manager
    shell,      \* the shells and the threads and channels of their sessions
    lostShells  \* ghost: replaced under their id, or left by a failed run_terminal

termVars == <<managers, sessions, shell, lostShells>>

Fresh == [owner |-> NoShell,         \* "ui" or "tool"
          up |-> TRUE,            \* the shell process
          open |-> TRUE,          \* it holds its end of the terminal
          hup |-> FALSE,          \* it was sent SIGHUP
          printed |-> 0, read |-> 0, got |-> 0,  \* chunks: printed, in the channel or beyond, delivered
          reader |-> TRUE, running |-> TRUE,
          exit |-> "no",          \* the oneshot with the exit code
          due |-> 0,              \* ghost: chunks read when the code was sent
          sink |-> TRUE]          \* the task that takes the channel's chunks

TermInit ==
    /\ managers = {} /\ sessions = [w \in Spaces |-> [i \in TermIds |-> NoShell]]
    /\ shell = [c \in Shells |-> Fresh] /\ lostShells = {}

TermTypeOK ==
    /\ managers \subseteq Spaces /\ sessions \in [Spaces -> [TermIds -> Shells \cup {NoShell}]]
    /\ shell \in [Shells -> [owner : {NoShell, "ui", "tool"}, up : BOOLEAN, open : BOOLEAN, hup : BOOLEAN,
                             printed : 0..MaxChunks, read : 0..MaxChunks, got : 0..MaxChunks,
                             reader : BOOLEAN, running : BOOLEAN, exit : {"no", "sent"}, due : 0..MaxChunks, sink : BOOLEAN]]
    /\ \A c \in Shells : shell[c].got <= shell[c].read /\ shell[c].read <= shell[c].printed
    /\ lostShells \subseteq Shells

Spawned(c) == shell[c].owner # NoShell
With(c, v) == shell' = [shell EXCEPT ![c] = v]

-----------------------------------------------------------------------------
(* PtySession                                                              *)

Prints(c) ==
    /\ Spawned(c) /\ shell[c].up /\ shell[c].open /\ shell[c].printed < MaxChunks
    /\ With(c, [shell[c] EXCEPT !.printed = @ + 1])
    /\ UNCHANGED <<managers, sessions, lostShells>>

\* The shell goes away, or goes on after it has let go of its terminal.
Exits(c) ==
    /\ Spawned(c) /\ shell[c].up
    /\ With(c, [shell[c] EXCEPT !.up = FALSE, !.open = FALSE])
    /\ UNCHANGED <<managers, sessions, lostShells>>

Detaches(c) ==
    /\ Spawned(c) /\ shell[c].up /\ shell[c].open
    /\ With(c, [shell[c] EXCEPT !.open = FALSE])
    /\ UNCHANGED <<managers, sessions, lostShells>>

\* The reader thread: a chunk into the channel; the channel may have no
\* receiver any more.
Reads(c) ==
    /\ Spawned(c) /\ shell[c].reader /\ shell[c].read < shell[c].printed
    /\ With(c, [shell[c] EXCEPT !.read = @ + 1])
    /\ UNCHANGED <<managers, sessions, lostShells>>

ReaderEnds(c) ==
    /\ Spawned(c) /\ shell[c].reader /\ shell[c].read = shell[c].printed /\ ~shell[c].open
    /\ With(c, [shell[c] EXCEPT !.reader = FALSE, !.running = FALSE])
    /\ UNCHANGED <<managers, sessions, lostShells>>

\* The waiter thread.
Waits(c) ==
    /\ Spawned(c) /\ ~shell[c].up /\ shell[c].exit = "no"
    /\ With(c, [shell[c] EXCEPT !.running = FALSE, !.exit = "sent", !.due = shell[c].read])
    /\ UNCHANGED <<managers, sessions, lostShells>>

\* stop: SIGHUP while the session counts as running.
Signalled(s) == IF s.running THEN [s EXCEPT !.hup = TRUE] ELSE s

-----------------------------------------------------------------------------
(* Terminals of the user interface                                         *)

\* handle_terminal_start, PtySessionManager::create: a session under an id
\* that is in use takes its place.
TerminalStart(w, i, c) ==
    /\ ~Spawned(c)
    /\ managers' = managers \cup {w}
    /\ sessions' = [sessions EXCEPT ![w][i] = c]
    /\ lostShells' = lostShells \cup ({sessions[w][i]} \ {NoShell})
    /\ With(c, [Fresh EXCEPT !.owner = "ui"])

\* The shell cannot be started; the manager is there all the same.
TerminalStartFails(w) ==
    /\ w \notin managers /\ managers' = managers \cup {w}
    /\ UNCHANGED <<sessions, shell, lostShells>>

\* create's task: a chunk to the output callback.
Forwards(c) ==
    /\ Spawned(c) /\ shell[c].sink /\ shell[c].got < shell[c].read
    /\ With(c, [shell[c] EXCEPT !.got = @ + 1])
    /\ UNCHANGED <<managers, sessions, lostShells>>

\* A slip: the task ends at the exit code, whatever is in the channel.
MForwardEnds(c) ==
    /\ shell[c].owner = "ui" /\ shell[c].sink /\ shell[c].exit = "sent"
    /\ With(c, [shell[c] EXCEPT !.sink = FALSE])
    /\ UNCHANGED <<managers, sessions, lostShells>>
\* create's task at the exit code: the rest of the channel first.
ForwardEnds(c) ==
    /\ shell[c].owner = "ui" /\ shell[c].sink /\ shell[c].exit = "sent"
    /\ With(c, [shell[c] EXCEPT !.got = shell[c].read, !.sink = FALSE])
    /\ UNCHANGED <<managers, sessions, lostShells>>

Hangup(c) == With(c, Signalled(shell[c]))

\* handle_terminal_stop: asks the first manager it finds, in the order of a
\* hash map, and acknowledges whether or not that one has the terminal.
TerminalStop(i) ==
    \E w \in managers :
        /\ sessions[w][i] # NoShell
        /\ sessions' = [sessions EXCEPT ![w][i] = NoShell]
        /\ Hangup(sessions[w][i])
        /\ UNCHANGED <<managers, lostShells>>

-----------------------------------------------------------------------------
(* run_terminal                                                            *)

\* The command is written behind the shell's prompt; when that fails the tool
\* returns and the shell stays.
RunTerminal(c) ==
    /\ ~Spawned(c)
    /\ \/ With(c, [Fresh EXCEPT !.owner = "tool"]) /\ UNCHANGED lostShells
       \/ With(c, [Fresh EXCEPT !.owner = "tool", !.sink = FALSE]) /\ lostShells' = lostShells \cup {c}
    /\ UNCHANGED <<managers, sessions>>

\* The exit code, or the timeout, ends the collection with what has come.
Collected(c) ==
    /\ shell[c].owner = "tool" /\ shell[c].sink
    /\ With(c, [Signalled(shell[c]) EXCEPT !.sink = FALSE])
    /\ UNCHANGED <<managers, sessions, lostShells>>

TermNext ==
    \/ \E c \in Shells :
        \/ Prints(c) \/ Exits(c) \/ Detaches(c) \/ Reads(c) \/ ReaderEnds(c) \/ Waits(c)
        \/ Forwards(c) \/ ForwardEnds(c) \/ RunTerminal(c) \/ Collected(c)
        \/ \E w \in Spaces, i \in TermIds : TerminalStart(w, i, c)
    \/ \E w \in Spaces : TerminalStartFails(w)
    \/ \E i \in TermIds : TerminalStop(i)

TermSpec == TermInit /\ [][TermNext]_termVars

-----------------------------------------------------------------------------
(* Properties                                                              *)

\* No terminal is lost from view.  Everything the reader had put into the
\* channel when the exit code was sent reaches the user interface, whatever the
\* order of the three threads.  A shell that still runs and was not told to stop
\* can be reached: a manager has it under an id or a run_terminal call waits for
\* it.  The exceptions are the ones the code makes: an id started twice, a
\* run_terminal that could not write, a shell that let go of its terminal.
TerminalsAreServed ==
    \A c \in Shells :
        /\ shell[c].owner = "ui" /\ ~shell[c].sink => shell[c].got >= shell[c].due
        /\ Spawned(c) /\ shell[c].up /\ shell[c].running /\ ~shell[c].hup /\ c \notin lostShells
           => \/ shell[c].owner = "tool" /\ shell[c].sink
              \/ \E w \in managers, i \in TermIds : sessions[w][i] = c
=============================================================================
