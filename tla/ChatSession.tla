---------------------------- MODULE ChatSession ----------------------------
(***************************************************************************)
(* One chat session and the runs that talk in it: the user's messages      *)
(* (handle_start_run) and the notices the runtime injects (spawn_chat).    *)
(* A run restores the conversation from history.jsonl, may compact it,     *)
(* lets the ReAct loop add its turns, flushes the result to Session.thread *)
(* and appends to history.jsonl.                                           *)
(*                                                                         *)
(* A message is known by its role, its run, its turn and its place; its    *)
(* weight is one token.  The run's status lives in RunLifecycle: here a    *)
(* loop may find itself cancelled at the head of any turn.                 *)
(***************************************************************************)
EXTENDS Naturals, Sequences, FiniteSets

CONSTANTS Runs,
          Worlds,         \* the scenarios of a behaviour, see World
          MaxTurns,       \* bound on LoopConfig::max_turns (99999 in the code)
          MaxCalls,       \* tool calls in one completion
          MaxRevisions,   \* CriticConfig::max_revisions
          ReflectEvery,   \* ReflectionTrigger::Both
          ReflectFailures,
          CompactAt,      \* the threshold of maybe_compact, in messages
          RecencyTurns

VARIABLES
    space,    \* the authority knows the space
    session,  \* the session's record exists
    thread,   \* Session.thread
    tracked,  \* Session.run_ids
    lines,    \* history.jsonl: [msg, nl]; msg is Garbled when it does not parse
    run,      \* [Runs -> the state of its task]
    world,    \* who starts each run, its max_turns, whether runs overlap, and the crashes
    name,     \* Session.name, with manually_named
    naming,   \* runs whose auto-naming call is in flight
    crashes

chatVars == <<space, session, thread, tracked, lines, run, world, name, naming, crashes>>

World == [kind : [Runs -> {"user", "system"}], turns : 1..MaxTurns, overlap : BOOLEAN, crashes : Nat]
Roles == {"system", "user", "assistant", "calls", "cut calls", "result", "reflection", "critic", "summary"}
Message == [role : Roles, run : Runs, turn : 0..MaxTurns, k : 0..MaxCalls]

ASSUME ChatAssumption ==
    /\ MaxTurns \in Nat /\ MaxCalls \in Nat \ {0} /\ MaxRevisions \in Nat /\ Worlds \subseteq World
    /\ ReflectEvery \in Nat /\ ReflectFailures \in Nat /\ CompactAt \in Nat /\ RecencyTurns \in Nat

Garbled == [role |-> "garbled"]
Line == [msg : Message \cup {Garbled}, nl : BOOLEAN]
Phases == {"idle", "starting", "restored", "turn", "asking", "tools", "critic", "ending",
           "flushed", "reflush", "saving", "done", "dead"}
Task == [pc : Phases, history : Seq(Message), prior : Nat, turn : 0..MaxTurns, fails : Nat,
         revisions : 0..MaxRevisions, calls : 0..MaxCalls, next : 0..(MaxCalls + 1),
         terminal : BOOLEAN, usage : 0..MaxTurns, total_usage : 0..MaxTurns, todo : Seq(Message)]

ChatTypeOK ==
    /\ space \in BOOLEAN /\ session \in BOOLEAN /\ thread \in Seq(Message)
    /\ tracked \subseteq Runs /\ lines \in Seq(Line) /\ run \in [Runs -> Task]
    /\ world \in Worlds /\ name \in {"none", "auto", "manual"} /\ naming \subseteq Runs
    /\ crashes \in 0..world.crashes /\ world \in World

Resting == [pc |-> "idle", history |-> <<>>, prior |-> 0, turn |-> 0, fails |-> 0,
            revisions |-> MaxRevisions, calls |-> 0, next |-> 1, terminal |-> FALSE,
            usage |-> 0, total_usage |-> 0, todo |-> <<>>]

ChatInit ==
    /\ space \in BOOLEAN /\ session = FALSE /\ thread = <<>> /\ tracked = {} /\ lines = <<>>
    /\ run = [r \in Runs |-> Resting] /\ world \in Worlds
    /\ name = "none" /\ naming = {} /\ crashes = 0

Msg(role, r, k) == [role |-> role, run |-> r, turn |-> run[r].turn, k |-> k]

-----------------------------------------------------------------------------
(* ChatStore                                                               *)

\* load_history: the lines that parse, in order
Parsed(L) ==
    LET upto[n \in 0..Len(L)] == IF n = 0 THEN <<>>
                                 ELSE IF L[n].msg = Garbled THEN upto[n - 1]
                                 ELSE Append(upto[n - 1], L[n].msg)
    IN  upto[Len(L)]
load_history == Parsed(lines)

\* One write of append_turns: an unterminated last line swallows it.
append_line(m) ==
    IF lines # <<>> /\ ~lines[Len(lines)].nl
    THEN [lines EXCEPT ![Len(lines)] = [msg |-> Garbled, nl |-> TRUE]]
    ELSE Append(lines, [msg |-> m, nl |-> TRUE])

\* A crash inside that write leaves a part of the line: unreadable, or whole
\* but for its newline.
torn_line(m) ==
    IF lines # <<>> /\ ~lines[Len(lines)].nl
    THEN {[lines EXCEPT ![Len(lines)] = [msg |-> Garbled, nl |-> FALSE]]}
    ELSE {Append(lines, [msg |-> x, nl |-> FALSE]) : x \in {m, Garbled}}

-----------------------------------------------------------------------------
(* Compaction                                                              *)

IsAssistant(m) == m.role \in {"assistant", "calls", "cut calls"}
IsUser(m) == m.role \in {"user", "critic"}
IsSystem(m) == m.role \in {"system", "reflection", "summary"}

\* A user message directly followed by the assistant ends a turn counted from
\* the tail; the tail starts at the user message that completes the last one.
TurnsSeen(t, i) == Cardinality({j \in i..(Len(t) - 1) : IsUser(t[j]) /\ IsAssistant(t[j + 1])})

MRecencyStart(t) ==
    LET from == {i \in 1..Len(t) : IsAssistant(t[i]) \/ t[i].role = "result"}
    IN  IF from = {} THEN Len(t) + 1 ELSE CHOOSE i \in from : \A j \in from : j <= i

RecencyStart(t) ==
    LET from == {i \in 1..Len(t) : IsUser(t[i]) /\ TurnsSeen(t, i) >= RecencyTurns}
    IN  IF from = {} THEN Len(t) + 1 ELSE CHOOSE i \in from : \A j \in from : j <= i

\* split_thread, as <<the length of the prefix, the first index of the tail>>
split_thread(t) ==
    LET systems == {n \in 0..Len(t) : \A i \in 1..n : IsSystem(t[i])}
        prefix == CHOOSE n \in systems : \A m \in systems : m <= n
    IN  <<prefix, IF RecencyStart(t) > prefix + 1 THEN RecencyStart(t) ELSE prefix + 1>>

Compacted(t, r) ==
    LET s == split_thread(t)
    IN  SubSeq(t, 1, s[1]) \o <<Msg("summary", r, 0)>> \o SubSeq(t, s[2], Len(t))

\* maybe_compact and what its caller does with the outcome
Compact(r) ==
    LET t == run[r].history
    IN  /\ run[r].pc = "restored" /\ world.kind[r] = "user" /\ Len(t) >= CompactAt
        /\ split_thread(t)[1] + 1 < split_thread(t)[2] /\ \A i \in 1..Len(t) : t[i] # Msg("summary", r, 0)
        /\ run' = [run EXCEPT ![r].history = Compacted(t, r)]
        /\ thread' = IF session THEN Compacted(t, r) ELSE thread
        /\ UNCHANGED <<space, session, tracked, lines, world, name, naming, crashes>>

-----------------------------------------------------------------------------
(* Starting a run                                                          *)

\* Unless they overlap, a run starts when the others are over.
MayStart(r) == run[r].pc = "idle" /\ (world.overlap \/ \A s \in Runs : run[s].pc \in {"idle", "done", "dead"})

\* handle_start_run: the session is looked up before the space is registered.
StartRun(r) ==
    /\ MayStart(r) /\ world.kind[r] = "user"
    /\ session' = (session \/ space)
    /\ space' = TRUE
    /\ tracked' = IF session' THEN tracked \cup {r} ELSE tracked
    /\ run' = [run EXCEPT ![r].pc = "restored", ![r].history = load_history]
    /\ UNCHANGED <<thread, lines, world, name, naming, crashes>>

\* spawn_chat: refused in an unknown space
SpawnChat(r) ==
    /\ MayStart(r) /\ world.kind[r] = "system" /\ space
    /\ tracked' = IF session THEN tracked \cup {r} ELSE tracked
    /\ run' = [run EXCEPT ![r].pc = "starting"]
    /\ UNCHANGED <<space, session, thread, lines, world, name, naming, crashes>>

\* The spawned task restores the conversation.
Restore(r) ==
    /\ run[r].pc = "starting"
    /\ run' = [run EXCEPT ![r].pc = "restored", ![r].history = load_history, ![r].prior = Len(load_history)]
    /\ UNCHANGED <<space, session, thread, tracked, lines, world, name, naming, crashes>>

\* llm_factory.build or the provider's constructor fails: the run fails unheard.
ProviderFails(r) ==
    /\ run[r].pc = "restored"
    /\ run' = [run EXCEPT ![r] = [Resting EXCEPT !.pc = "done"]]
    /\ UNCHANGED <<space, session, thread, tracked, lines, world, name, naming, crashes>>

\* ReactLoop::new: the system prompt only starts a fresh conversation
NewLoop(r) ==
    /\ run[r].pc = "restored"
    /\ run' = [run EXCEPT ![r].pc = "turn", ![r].history =
          (IF @ = <<>> THEN <<Msg("system", r, 0)>> ELSE @) \o <<Msg("user", r, 0)>>]
    /\ UNCHANGED <<space, session, thread, tracked, lines, world, name, naming, crashes>>

-----------------------------------------------------------------------------
(* ReactLoop::drive, as far as it shapes the history                       *)

Local(r) == UNCHANGED <<space, session, thread, tracked, lines, world, name, naming, crashes>>

ShouldReflect(r) ==
    \/ ReflectEvery > 0 /\ (run[r].turn + 1) % ReflectEvery = 0
    \/ ReflectFailures > 0 /\ run[r].fails >= ReflectFailures

\* TokenAccumulatorMiddleware: the context of a turn shows the usage of the
\* turns before it.
before_llm_call(task) == [task EXCEPT !.total_usage = task.usage]
after_llm_call(task) == [task EXCEPT !.usage = @ + 1]

\* Cancelled or paused, or out of turns
LeaveLoop(r) ==
    /\ run[r].pc = "turn"
    /\ run' = [run EXCEPT ![r].pc = "ending"]
    /\ Local(r)

\* before_llm_call, then run_reflection_pass, which may produce nothing.  Only user runs have a reflection configuration.
BeginTurn(r) ==
    /\ run[r].pc = "turn" /\ run[r].turn < world.turns
    /\ LET asking == before_llm_call([run[r] EXCEPT !.pc = "asking", !.turn = @ + 1])
           reflected == [asking EXCEPT !.fails = 0, !.history =
                            Append(@, [Msg("reflection", r, 0) EXCEPT !.turn = asking.turn])]
       IN  \/ run' = [run EXCEPT ![r] = asking]
           \/ world.kind[r] = "user" /\ ShouldReflect(r) /\ run' = [run EXCEPT ![r] = reflected]
    /\ Local(r)

\* llm.stream fails, or the stream carries an error: nothing is recorded.
LlmFails(r) ==
    /\ run[r].pc = "asking" /\ run' = [run EXCEPT ![r].pc = "ending"] /\ Local(r)

\* The completion stops without tool calls.
LlmStops(r) ==
    /\ run[r].pc = "asking"
    /\ run' = [run EXCEPT ![r] = after_llm_call([run[r] EXCEPT !.pc = "critic",
                                    !.history = Append(@, Msg("assistant", r, 0))])]
    /\ Local(r)

\* finish_reason is Length or Stop although tool calls came: they are recorded
\* and never run.  So is a call without a name, which fails the loop.
LlmCutsCalls(r) ==
    /\ run[r].pc = "asking"
    /\ \E pc \in {"critic", "ending"} :
          run' = [run EXCEPT ![r] = after_llm_call([run[r] EXCEPT !.pc = pc,
                                      !.history = Append(@, Msg("cut calls", r, 1))])]
    /\ Local(r)

LlmCalls(r, n) ==
    /\ run[r].pc = "asking"
    /\ run' = [run EXCEPT ![r] = after_llm_call([run[r] EXCEPT !.pc = "tools", !.calls = n, !.next = 1,
                                    !.terminal = FALSE, !.history = Append(@, Msg("calls", r, n))])]
    /\ Local(r)

Answered(r, failed) == [run[r] EXCEPT !.next = @ + 1, !.fails = IF failed THEN @ + 1 ELSE 0,
                                      !.history = Append(@, Msg("result", r, run[r].next))]

\* run_one_tool: a middleware blocks the call; the failure is not counted.
MToolBlocked(r) ==
    /\ run[r].pc = "tools" /\ run[r].next <= run[r].calls
    /\ run' = [run EXCEPT ![r].next = @ + 1]
    /\ Local(r)

ToolBlocked(r) ==
    /\ run[r].pc = "tools" /\ run[r].next <= run[r].calls
    /\ run' = [run EXCEPT ![r] = [Answered(r, TRUE) EXCEPT !.fails = run[r].fails]]
    /\ Local(r)

\* It is dispatched (after an approval, where one is needed): it succeeds,
\* fails or was rejected, is terminal, or waited for a child run.
ToolRuns(r) ==
    /\ run[r].pc = "tools" /\ run[r].next <= run[r].calls
    /\ \/ run' = [run EXCEPT ![r] = Answered(r, FALSE)]
       \/ run' = [run EXCEPT ![r] = Answered(r, TRUE)]
       \/ run' = [run EXCEPT ![r] = [Answered(r, FALSE) EXCEPT !.terminal = TRUE]]
    /\ Local(r)

\* The review is deferred or its channel closes: the loop ends at once.
ToolParked(r) ==
    /\ run[r].pc = "tools" /\ run[r].next <= run[r].calls
    /\ run' = [run EXCEPT ![r].pc = "ending"]
    /\ Local(r)

ToolsDone(r) ==
    /\ run[r].pc = "tools" /\ run[r].next > run[r].calls
    /\ run' = [run EXCEPT ![r].pc = IF run[r].terminal THEN "ending" ELSE "turn"]
    /\ Local(r)

\* run_critic_pass: passed (or unreadable), or the issues go back to the model.
\* Only user runs have a critic.
CriticPasses(r) ==
    /\ run[r].pc = "critic" /\ run' = [run EXCEPT ![r].pc = "ending"] /\ Local(r)

CriticRevises(r) ==
    /\ run[r].pc = "critic" /\ world.kind[r] = "user" /\ run[r].revisions > 0
    /\ run' = [run EXCEPT ![r].pc = "turn", ![r].revisions = @ - 1,
                          ![r].history = Append(@, Msg("critic", r, 0))]
    /\ Local(r)

-----------------------------------------------------------------------------
(* After the loop                                                          *)

\* ReactLoop::run: flush_thread, dropped without a session
FlushThread(r) ==
    /\ run[r].pc = "ending"
    /\ thread' = IF session THEN run[r].history ELSE thread
    /\ run' = [run EXCEPT ![r].pc = "flushed"]
    /\ UNCHANGED <<space, session, tracked, lines, world, name, naming, crashes>>

\* The whole thread of the session, whichever run flushed it last; spawn_chat
\* writes it back and appends what is past the length it restored.
ReadThread(r) ==
    /\ run[r].pc = "flushed"
    /\ run' = [run EXCEPT ![r].pc = IF ~session THEN "saving" ELSE IF world.kind[r] = "user" THEN "saving" ELSE "reflush",
                          ![r].history = thread,
                          ![r].todo = IF ~session THEN <<>> ELSE SubSeq(thread, run[r].prior + 1, Len(thread))]
    /\ Local(r)

Reflush(r) ==
    /\ run[r].pc = "reflush"
    /\ thread' = run[r].history
    /\ run' = [run EXCEPT ![r].pc = "saving"]
    /\ UNCHANGED <<space, session, tracked, lines, world, name, naming, crashes>>

\* append_turns, line by line
AppendTurn(r) ==
    /\ run[r].pc = "saving" /\ run[r].todo # <<>>
    /\ lines' = append_line(Head(run[r].todo))
    /\ run' = [run EXCEPT ![r].todo = Tail(@)]
    /\ UNCHANGED <<space, session, thread, tracked, world, name, naming, crashes>>

\* Done; spawn_chat asks for a name if the session has none.
Finish(r) ==
    /\ run[r].pc = "saving" /\ run[r].todo = <<>>
    /\ run' = [run EXCEPT ![r] = [Resting EXCEPT !.pc = "done"]]
    /\ naming' = IF world.kind[r] = "system" /\ session /\ name = "none" THEN naming \cup {r} ELSE naming
    /\ UNCHANGED <<space, session, thread, tracked, lines, world, name, crashes>>

\* auto_name_session: never over a name the user gave
AutoName(r) ==
    /\ r \in naming /\ naming' = naming \ {r}
    /\ name' = IF name = "manual" THEN name ELSE "auto"
    /\ UNCHANGED <<space, session, thread, tracked, lines, run, world, crashes>>

RenameSession ==
    /\ session /\ name' = "manual"
    /\ UNCHANGED <<space, session, thread, tracked, lines, run, world, naming, crashes>>

Crash ==
    /\ crashes < world.crashes /\ crashes' = crashes + 1
    /\ \/ UNCHANGED lines
       \/ \E r \in Runs : /\ run[r].pc = "saving" /\ run[r].todo # <<>>
                          /\ lines' \in torn_line(Head(run[r].todo))
    /\ run' = [r \in Runs |-> IF run[r].pc \in {"idle", "done"} THEN run[r] ELSE [Resting EXCEPT !.pc = "dead"]]
    /\ naming' = {}
    /\ UNCHANGED <<space, session, thread, tracked, world, name>>

-----------------------------------------------------------------------------
LoopStep(r) ==
    \/ LeaveLoop(r) \/ BeginTurn(r) \/ LlmFails(r) \/ LlmStops(r) \/ LlmCutsCalls(r)
    \/ (\E n \in 1..MaxCalls : LlmCalls(r, n)) \/ ToolBlocked(r) \/ ToolRuns(r) \/ ToolParked(r)
    \/ ToolsDone(r) \/ CriticPasses(r) \/ CriticRevises(r)

ChatNext ==
    \/ \E r \in Runs :
        \/ StartRun(r) \/ SpawnChat(r) \/ Restore(r) \/ ProviderFails(r) \/ Compact(r) \/ NewLoop(r)
        \/ LoopStep(r) \/ FlushThread(r) \/ ReadThread(r) \/ Reflush(r) \/ AppendTurn(r) \/ Finish(r)
        \/ AutoName(r)
    \/ RenameSession \/ Crash

ChatSpec == ChatInit /\ [][ChatNext]_chatVars

-----------------------------------------------------------------------------
(* Properties                                                              *)

CallsAnswered(t, S) ==
    \A i \in S : t[i].role = "calls" =>
        \A k \in 1..t[i].k : \E j \in (i + 1)..Len(t) :
            t[j].role = "result" /\ t[j].run = t[i].run /\ t[j].turn = t[i].turn /\ t[j].k = k

Belongs(t, i, j) == t[j].run = t[i].run /\ t[j].turn = t[i].turn /\ \A m \in i..j : ~IsUser(t[m])

\* Every call of t has its results and every result its call, and no message of
\* a user comes between them.
Unbroken(t) ==
    /\ \A i \in 1..Len(t) : t[i].role = "calls" => \A k \in 1..t[i].k :
          \E j \in (i + 1)..Len(t) : t[j].role = "result" /\ t[j].k = k /\ Belongs(t, i, j)
    /\ \A j \in 1..Len(t) : t[j].role = "result" =>
          \E i \in 1..(j - 1) : t[i].role = "calls" /\ Belongs(t, i, j)

\* A request carries a result for every tool call the run itself made, blocked,
\* failed, rejected and terminal ones included (run_one_tool).
OwnCallsAnswered ==
    \A r \in Runs : run[r].pc = "asking" =>
        CallsAnswered(run[r].history, {i \in 1..Len(run[r].history) : run[r].history[i].run = r})

\* Compaction never separates a tool call from its results: what it leaves of an
\* unbroken conversation is unbroken (split_thread).
CompactionKeepsResults ==
    [][\A r \in Runs : Compact(r) /\ Unbroken(run[r].history) => Unbroken(run'[r].history)]_chatVars

=============================================================================
