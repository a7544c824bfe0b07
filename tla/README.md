# Verification of the cronymax runtime

cronymax is a desktop application that runs LLM agents. A Rust runtime process
(`crates/cronymax`, with `crates/cronygraph` and the transport in `crony`) owns
all state; the C++ shell (`app/`) and the web UI (`web/`) are its host and talk
to it by control requests and events. This directory holds TLA+ models of the
runtime, the TLC configurations that check them on small instances, and TLAPS
proofs of the results that matter most, for every instance.

Paths below are relative to `src/crates/cronymax/src/` unless they start with
`src/`.

## 1. The system

| component | state it keeps | operations | talks to | what is hard about it |
|---|---|---|---|---|
| runtime authority (`runtime/authority.rs`, `state.rs`, `persistence.rs`) | the snapshot of runs, reviews, spaces, sessions, task trees; oneshot senders of open reviews; subscriptions | one method per transition, each under one mutex and saved whole | everyone: the only writer of the snapshot | operations of several critical sections; a save that fails half-way; restart |
| ReAct loop (`agent_loop/react.rs`) | thread, turn counter | `run`, `drive`, `run_one_tool` | authority, provider, tools | parks on a review while the host pauses, cancels or answers |
| control handler (`runtime/handler/`) | the transport's sink | one handler per request | authority, spawns loops | validates on a snapshot, acts later |
| agent runner (`runtime/agent_runner.rs`, `capability/invoke_agent.rs`) | none | `spawn_agent`, `spawn_chat`, delegation | authority, loop | cleans up after loops that ended for any reason |
| extension sessions (`runtime/ext_dispatch.rs`) | session router | `run_extension_turn`, `bridge_permission_request`, flow agents owned by an extension | authority, extension host | requests outlive the session |
| chat history (`runtime/chat_store.rs`, `agent_loop/compaction.rs`) | thread in the snapshot, `history.jsonl` | `flush_thread`, `append_turns`, `load_history`, `maybe_compact` | loop, handler | two copies of one history, torn appends |
| flow runtime (`flow/runtime.rs`, `flow/definition.rs`) | port statuses, verdicts, cycles, invocations, `state.json` | `start_run`, `on_document_submitted/approved`, `on_reviewer_verdict`, `on_rejected_requeue`, `apply_seeded_entries`, `rehydrate_from_disk` | agent runner | guards and writes in different lock scopes, file writes after the lock |
| orchestrator (`src/crates/cronygraph`) | the walk's stack | `add_step`, `allow_transition`, `run`, `topological_order` | library users | branches, step limit |
| protocol dispatch (`protocol/dispatch.rs`, `handler/subscription.rs`) | outbound queue, sequence numbers | `run`, `subscribe` | handler, transport | control requests are awaited inside the receive loop |
| host transport (`src/crony/src/boundary.rs`) | return path, buffer | send, receive, close | dispatch | two threads share a connection neither holds while sending |
| extension RPC (`extensions/rpc/connection.rs`) | msgids, pending slots | `request`, `notify`, `cancel`, read loop | extension host process | peer disappears with requests outstanding |
| extension host and activation (`extensions/runtime.rs`, `host/node.rs`) | handle map, host processes, restart counters | activate, deactivate, respawn, supervise, shut down | RPC | deaths in the middle of every one of them |
| extension API (`extensions/api/`, `events.rs`, `contributions/`) | registries, event bus, guards | handlers of `build_rpc_server` | RPC, shell | registrations of a host that is replaced |
| extension registry and storage (`extensions/registry.rs`, `api/storage.rs`) | `registry.json`, key-value files | install, uninstall, enable, save | command line, too | two processes, one file |
| workspace tools, sandbox (`capability/`, `sandbox/`) | files, repository | file, git, shell tools | loop | runs in parallel, no lock between read and write |
| terminals (`terminal/`, `handler/terminal_ops.rs`) | shells, their threads | start, stop, output | shell | threads end in any order |
| documents (`flow/document.rs`, `capability/submit_document.rs`) | current texts, numbered revisions | submit, suggest | flow runtime | crash between two writes, lock timeouts |
| definitions (`workspace/`, `handler/*_ops.rs`) | agent, type and flow files | save, delete, load | editor and runtime, with two parsers | read while they are written |
| LLM providers and configuration (`llm/`) | registry file, token cache | stream, build, refresh | HTTP | fragments of tool calls; refresh tasks |
| memory (`memory/`) | namespaces | write, flush, load | tools | a file written in place |
| extension logs (`extensions/logging.rs`) | rotated files | write, rotate, clear | hosts | failing renames |

What makes them correct, in one line each, is the list of properties in section
3. `PROJECT.json` lists every component, also the ones left out and why, under
`hazards` the places in the code where things can go wrong and the properties
that would notice, and under `map` the lines every definition stands for.

## 2. Modules

**Runs and reviews.** `RunAuthority` is the authority alone: run statuses,
reviews, receipts, oneshot senders, the persisted copy, the host's view. Every
operation is one critical section with a parameter for the outcome of its save:
a failed save leaves the change in memory, leaves the disk alone and suppresses
events and answers, as the `?` after `persistence.save` does. Its `AuthSpec`, in
which any caller may run any section at any time, is also the abstract
specification that `RunLifecycle` implements. `RunLifecycle` composes it with
the tasks that drive runs: `handle_start_run`, `handle_resume_run`,
`spawn_agent` and `spawn_chat` with their safety net, `run_extension_turn` and
the permission bridge. A task's `pc` names the place between two critical
sections where it stands. `AuthorityRecords` has the rest of the snapshot:
spaces, sessions and their names, inputs, and the task trees kept twice.

**Flows.** `FlowGraph` is `FlowGraph::build` as pure operators. `FlowRuntime` is
one flow run: the supervision task that takes documents from a bounded channel,
the tasks that `review_ops.rs` spawns, reviewer agents. Each handler is a
sequence of critical sections, each followed by a write of the clone it took,
after the lock is released; sections and writes of different tasks interleave.
`AgentRouting` follows a run from `StartRun` to whoever drives it, the channel
its documents go to, and the parent that waits for it. `Orchestrator` is the
walk and the graph algorithms of cronygraph.

**Chats.** `ChatSession` has the conversation as a sequence of messages in its
three places: the loop's thread, the snapshot, `history.jsonl` with torn tails;
turns, tool calls, reflection, critic, compaction. `LlmStream` is one
completion, from the history through the two wire formats chunk by chunk to the
tool calls the loop runs. The server is a position in its answer (`at`) and the
event it sends there (`AnthropicFrame`, `OpenAiFrame`).

**Connections.** `Dispatch` is one protocol session; `Transport` the two threads
under it, which implement `Mailbox` (a frame is delivered once, refused, or
waits); `RpcConnection` one connection to an extension.

**Extensions.** `ExtensionHost` has activation, deactivation, supervision and
respawn of one extension and its host processes, with a task per control
request, boot activation and supervisor. `ExtensionApi` has the registries and
the event bus, `ExtensionStores` the installed extensions and the key-value
files, `LogFiles` the rotation.

**Tools.** `WorkspaceTools`, `Terminals`, `Documents`, `Definitions`,
`SessionMemory`, `LlmConfig`: each a component of the table above.

**Instances and proofs.** `MC*` modules give instances. `MCServices` and
`MCTools` hold several components side by side: a behaviour is a *scene*, one
component's specification with the variables of all others at rest, so the
state space is the sum and not the product. `*_proofs` are section 5; they share
`RecursionLemmas`, which has induction up to a number, functions defined by
recursion, and `FlattenSeq`.

Abstracted throughout: text is a model value or a short sequence of words, a
message its role and place, a provider's answer a choice; formatting, logging
and layout are left out. What looks like history in a variable's comment (a
*ghost*) is not in the code and only feeds a property.

## 3. Runs

| run | instance | shows |
|---|---|---|
| `authority` | 1 run, 2 reviews, saves fail, restarts | one receipt per decision, receipts stay, waiters hear only what is on disk, events announce only what is on disk |
| `lifecycle_gate` | 1 run, 1 review, 2 tasks, saves fail, crashes | an approved call runs at most once and only on a recorded approval (`ExecutedAsApproved`); every step of a task is a step of the authority (`AuthSpec`) |
| `lifecycle_settles` | 1 run, 1 review, 2 tasks, 2 turns, crashes, fair | a run in progress has a driver (`NoOrphanedRun`), the host's view is right (`ProjectionCurrent`), a run leaves Pending and Running (`RunSettles`) |
| `lifecycle_extension` | 1 extension run, 2 reviews, 2 tasks | `ExecutedAsApproved` for forwarded requests |
| `lifecycle_wakeup`, `_overwrite`, `_safetynet`, `_extorphan` | smallest | the four findings of section 4 |
| `flow` | a join, a cycle, two kinds of review, a human node; one request task beside the supervisor; failures and a crash | `NoPrematureStart`, `ApprovedIsReviewed`, `NoLostJoin`, `SubmissionsHandled` |
| `exthost` | 3 host processes, budget 1; see `MCExtensionHost` | `NoLeakedHost`, `RestartBudget`, `RequestsReturn` |
| `services` | seven scenes | see below |
| `tools` | fifteen scenes | see below |

`services`: a run is always driven, waited for or finished, and a parent is
woken (`NoStrandedRun`); listeners can be severed (`ListenersAreGuarded`);
registrations of others are left alone (`RegistrationsAreKept`); a call takes
its own answer (`SlotsMatchCalls`); sequence numbers arrive without a gap
(`StreamsAreGapless`); frames are not doubled or lost (`KeepsMail`, the
refinement of `Mailbox`); every tool call of a request has its result
(`OwnCallsAnswered`), and compaction separates none from its own
(`CompactionKeepsResults`); runs, sessions and spaces hang together (`RecordsHangTogether`).

`tools`: the walk visits what it should, order and cycle test are right
(`GraphsAreHonoured`, on every graph of three nodes made of seven adjacency
lists); the tool calls that run are those the model wrote
(`CallsSurviveTranslation`); the cached token is tended (`TokenIsTended`); an
acknowledged memory is kept (`AckedIsKept`), an acknowledged setting too
(`SettingsAreDurable`); a path is accepted exactly when walking it stays inside
(`ResolveMeansWalk`); edits of files are atomic (`EditsAreAtomic`); no terminal
is lost from view (`TerminalsAreServed`); rotation drops the oldest lines only
(`RotationDropsOldest`); definitions are served whole (`EditsAreServed`);
revisions are never overwritten (`RevisionsAreKept`).

**Bounds.** Runs share nothing with each other but the save, so one run and
`save_other` for the saves of all others is the interesting case. Two tasks are
what it takes for two loops on one run, or a task that outlives its run; two
reviews for an old and a new one. `MaxTurns` = 2 makes "budget used up" differ
from "first turn". In `flow` the channel holds one document, so it is full as
soon as the supervisor is busy; three submissions fill it, refuse one and go on.
`exthost` splits its behaviours into worlds: three control requests with two
hosts when hosts only die, two requests with three hosts when they may hang, one
request beside the boot activation with three, one request with an agent session
with two. One world with all faults at once, and three requests with three
hosts, exceed what TLC explores in a few minutes; the theorems are for any number. The scenes use
two of whatever competes (extensions, callers, editors, runs, authors, shells)
and one crash or restart; every counter that bounds a behaviour (`Max...`) is a
constant of its module, and a guard only stops new requests, never the work
under way. Log files have a history of three, so that a chain of renames has a
middle.

**Fairness.** `lifecycle_settles`: weak fairness of each task's next step, as
tokio polls every runnable task and what a task awaits ends in an answer or an
error. Nothing is assumed of the host: a run may wait for a review, or stay
paused, for ever. `RunSettles` is conditional on no answer having been lost;
with `lifecycle_wakeup` this says that the lost answer is the only way to get
stuck. `flow`: some task with a step to take takes one, weaker than a fair
scheduler. `exthost`: weak fairness of the request task, and for every host of
its supervisor and process together; not of the user, nor of the boot task.

**Deadlock.** Checking is off where a behaviour may really end: the bounded
environment has nothing more to ask and every task is idle.

## 4. Findings and observations

Each of these four has a run in which TLC finds the quoted promise broken:

1. `lifecycle_wakeup`: `open_review_with_completion` announces the review before
   it registers the sender (`runtime/authority.rs:902`). An answer in between is
   recorded but never reaches the loop, which stays parked while the run says Running.
2. `lifecycle_overwrite`: `complete_run` and `fail_run` check the status in one
   critical section and write in another (`authority.rs:939`): a cancellation in
   between is overwritten, against "no-op for already-terminal runs".
3. `lifecycle_safetynet`: the agent runner's safety net (`agent_runner.rs:653`)
   turns a pause, which the loop reports as `Cancelled`, into Failed.
4. `lifecycle_extorphan`: `resolve_review` sets Running whatever the status
   (`authority.rs:828`). For a native run the waiter then drives it (that is
   `NoOrphanedRun`); for an extension run whose session has ended nobody does.

Met while modelling, modelled as the code does it, without a run of their own:

* *Authority.* A failed save leaves memory ahead of the disk ("lock-step", says
  the module comment). Cancelling a run does not drop the sender of its open
  review (`ext_dispatch.rs:927`). `rehydrate` leaves the process's task trees
  empty although `authority.rs:129` says they mirror the snapshot's.
* *Flow.* A reviewer's verdict is never cleared, so after a rejection and a
  resubmission that reviewer's new verdict is dropped as a duplicate
  (`flow/runtime.rs:1046`). With `reads`, a back edge need not return to the
  node that waits for it (`flow/definition.rs`, step 4b, against
  `flow/runtime.rs:875`). A submission refused by a full channel was written.
* *Routing.* `invoke_flow` never returns to its caller; `complete_child_task`
  is reached on failures only; `spawn_fn` ignores `_flow_run_id`; the
  `is_new` of a registry look-up is discarded, so sessions of a flow are not
  restored (`flow/registry.rs:205`).
* *Chat.* `append_turns` stores the restored turns again (`run_start.rs:1661`);
  a torn line swallows the turn appended after it; the first run of a new space
  has no session yet (`run_start.rs:256/287`).
* *Connections.* An event may precede the `Subscribed` that announces its stream
  (`protocol/events.rs:19`). The transport does not keep order while the buffer
  is flushed (`src/crony/src/boundary.rs:419`). A request registered after the
  read loop drained its slots waits for ever.
* *Extensions.* Two overlapping activations end in the `expect` of
  `extensions/runtime.rs`; a disable during a respawn leaves the handle; a
  respawn that began before a re-activation takes the new host down, since the
  check after the backoff (`runtime.rs:1170`) cannot tell activations apart.
  This was met while proving `RestartBudget`: the bound holds only with one
  more restart for each recovery carried over (`carried`). The command line and
  the application overwrite each other's `registry.json`.
* *Tools.* `str_replace` of two runs share one temporary file, `write_file`
  truncates in place; a terminal id started twice loses the first shell;
  `suggestion_apply` reads before it locks (`flow/document.rs:273`); the
  exchange that ends later puts the older token into the cache; a failed refresh
  ends the chain of refreshers; a torn `entries.json` is loaded as empty, and
  the next flush makes that final.
* *Definitions.* `handle_flow_save` writes a schema the loader refuses
  (`flow/definition.rs:565`); an agent with `agent_provider: Builtin` loses its
  model when saved unchanged; overlapping saves of one definition share a
  temporary file (`clash`).

## 5. Proofs

A theorem holds for every value of the constants; the runs check the same
properties on the instances above. The assumptions on constants are the
`ASSUME`s of the modules: bounds are natural numbers, `None`-like values are not
members of the sets they stand outside of, extension runs are runs, a graph to walk
has finitely many nodes and edges. A path is what `Path::components` returns ("/"
comes first or not at all), the workspace's root is absolute and has no `..`
(`WorkspaceToolsAssumption`). A server gives every call an id and at least one
delta, and a message with a tool's result makes no call (`LlmAssumption`). TLC
evaluates them in the runs. `FlowRuntime` also assumes the shape of its graph
(`FlowShape`) and that a back edge returns (`CyclesReturn`);
`MCFlowRuntime` checks by `GraphAsBuilt` and `BackEdgesReturn` that `FlowGraph`
builds such graphs from every definition of three nodes with two outputs that
has no `reads`.

| module | theorem | states |
|---|---|---|
| `RunLifecycle_proofs` | `AuthTypeCorrect`, `TrailCorrect`, `DeliveredCorrect` | `AuthTypeOK`, `ReviewTrail`, `DeliveredIsRecorded` |
| | `AppendOnlyCorrect`, `DurableCorrect` | the action properties `TrailAppendOnly`, `AnnouncedIsDurable` |
| | `ProjectionCorrect` | `ProjectionCurrent` |
| | `TypeCorrect`, `ImplementsAuthority` | types; `Spec => AuthSpec` |
| | `GateCorrect`, `DrivenCorrect` | `ExecutedAsApproved`, `NoOrphanedRun` |
| `FlowRuntime_proofs` | `TypeCorrect`, `StartsCorrect`, `ReviewsCorrect`, `JoinsCorrect` | types, `NoPrematureStart`, `ApprovedIsReviewed`, `NoLostJoin` |
| `ExtensionHost_proofs` | `HostTypeCorrect`, `HostsCorrect`, `BudgetCorrect` | types, `NoLeakedHost`, `RestartBudget` |
| `Extensions_proofs` | `ListenersCorrect`, `RegistrationsCorrect`, `SettingsCorrect`, `RotationCorrect` | `ListenersAreGuarded`, `RegistrationsAreKept`, `SettingsAreDurable`, `RotationDropsOldest`; with `ApiTypeCorrect`, `StoresTypeCorrect`, `LogTypeCorrect` |
| `Services_proofs` | `RecordsCorrect`, `RoutingCorrect`, `OwnCallsCorrect`, `CompactionCorrect` | `RecordsHangTogether`, `NoStrandedRun`, `OwnCallsAnswered`; the action property `CompactionKeepsResults`; with `RecTypeCorrect`, `RouteTypeCorrect`, `ChatTypeCorrect` |
| `Connections_proofs` | `TransportKeepsMail`, `RpcCorrect`, `StreamsCorrect`, `TranslationCorrect` | the refinement of `Mailbox`, `SlotsMatchCalls`, `StreamsAreGapless`, `CallsSurviveTranslation`; with `GipsTypeCorrect`, `RpcTypeCorrect`, `DspTypeCorrect`, `LlmTypeCorrect` |
| `Tools_proofs` | `TokenCorrect`, `MemoryCorrect`, `TerminalsCorrect`, `EditsCorrect`, `ResolveCorrect`, `RevisionsCorrect`, `DefinitionsCorrect`, `GraphsCorrect` | `TokenIsTended`, `AckedIsKept`, `TerminalsAreServed`, `EditsAreAtomic`, `ResolveMeansWalk`, `RevisionsAreKept`, `EditsAreServed`, `GraphsAreHonoured`; with `CfgTypeCorrect`, `MemoryTypeCorrect`, `TermTypeCorrect`, `WorkspaceTypeCorrect`, `DocTypeCorrect`, `DefTypeCorrect`, `OrchTypeCorrect` |

The properties are seldom inductive; what each proof adds, and why:

**Authority.** To append a receipt one must know that none exists, in memory and
on disk. `AuthInv` adds `Minted` (an id not handed out occurs nowhere) and
`Ahead` (memory's trails extend the disk's).

**Gate, refinement, no orphans.** `LifeInv` adds `HasRun` and `SoleWaiter` (a
review has one waiter, is not bridged too, and has let nothing through yet).
`RefStep` shows that under it every step of the composed system is a step of the
authority or leaves its variables alone. `FullInv` adds `Answers` and `Awaited`
(a pending review of a native run has its waiter, on that run): an approval
wakes a waiter, or it will find the answer, and becomes the driver.

**Flow.** `FlowInv` is types and five parts. `Starts`: what was started, in
memory, on disk and in every snapshot still to be written, is among the nodes
whose inputs were once approved together (`readied`), and what is in play comes
from them. `Early`: until `start_run` has put the run in the map nothing else
goes on. `Reviews`: wherever an approved port is recorded, its approvals are, and
a task on its way to approve has them. `Offers`: only outputs that were offered
are under review. `Joins`: a ready node was invoked, or offered to its owner, or
some task is about to look at it. The last is what evaluating the join on a clone
makes hard: the task that marks the last input looks after its own mark.

**Extension host.** `One`: `restart_in_progress` is a lock, one supervisor at
most is at work. Hence `Budget`: the counter exceeds the budget only while that
supervisor disables the extension. Hence `Restarts`: respawns are bounded by the
counter, but for a recovery carried over a re-activation. `Roles` says which task
may be in which section.

**Extensions.** `ApiInv` is types and the property. `InstallInv` adds who is at
work on what (`AtWork`); `KvInv` that storage persists under its lock (`Locked`):
one caller at a time, writing the map in memory, which is never behind the file.

**Log files.** A rotation carries one free name down from the oldest file to the
live one (`Hole`). `Placed`: nothing lies below the name of the writer's file,
and it has moved up by at most one name per rotation that failed in a row; so a
line is always appended to the newest file (`Ordered`), only lines older than all
others are removed, and every other loss is on record (`Dense`). After
max_history failures in a row the writer's file has no name and neither has any
other. `Full` is the part about undisturbed runs: only full files are moved, and below a file that
is there all are, but for the free name.

**Records.** `Sound(mem)`, `Sound(disk)` and `Trees`: the links hold in both
copies, since a failed save leaves the older one.

**Routing.** `RouteInv`: ids are handed out in order, so a start never takes the
id of a run that exists (`Numbered`); a run that does not exist has no task; and
no supervisor has two live children, or the one that ends first would wake it and
leave the other unheard.

**Chat.** `ChatInv` follows a completion's calls to their results: while the
tools run, a call of the run lacks its result only if it belongs to this turn and
its number is still to come (`Owed`); when the last has had its turn nothing is
owed (`AllPaid`). A run restores whatever the file and the thread hold, so they
must not hold calls of its own: before its loop begins nobody has any
(`Unheard`), and reading lines (`Parsed`), compaction, saving and a crash bring
none. What `Parsed` returns is shown by a least counterexample (`Least`, from the
library's theorem on well-founded relations), which stands in for induction.

**Compaction.** `split_thread` keeps system messages in front and a tail that
begins with a user's message (`SplitPlace`); a call and its results lie on one side
of such a cut when no user's message comes between them (`CutIsClean`). That
condition, `Unbroken`, is needed: `append_turns` writes line by line, so two runs
of one session that save at once can leave another run's user message between a
call and its result in `history.jsonl` (`chat_store.rs:149`; its docs promise
safety for different sessions only), and a third run that restores this file and
compacts it sends a result without its call. An earlier form of the property
asked only that all calls be answered. It held in the run, which has two runs,
and is false for three.

**Connections.** `GipsInv`: a frame is in one place (`Once`), the places know no
frame that was not given to send (`Fresh`), and a sender at work has one
(`Held`); with these each step of the two threads is a step of `Mailbox` or a
stutter. `RpcInv`: every call has a number of its own and as many numbers are
gone as calls have begun (`Numbered`); a call has a slot between registration and
outcome only (`Slots`).

**Protocol session.** `DspInv` has for every subscription a number b (`Stream`):
exactly the events below b were sent, b itself is in the task's hands or first in
its channel, the rest are behind it, and the authority's next number comes after
them. A message that leaves the queue for the host is still on its way
(`MovedOn`), so both ways out of the queue are one case. For the answers,
`Waiting` says that the requests in the host's pipe are those sent and not taken;
hence the one being handled is the last that was taken (`TakenIsLast`) and its
answer comes after all others. `StreamsAreGapless` says which messages there are,
instead of filtering the queue with `SelectSeq`, and `handle_subscribe` takes any
new id (it is a UUID) instead of a chosen one.

**Tools.** `CfgInv` is types and the property, strong enough by itself. `MemInv`:
the write that holds the mutex is in the loaded namespace and not yet
acknowledged (`Pending`), the index is over the entries (`IndexIsFresh`), what is
acknowledged is kept (`Durable`), legacy entries are migrated before their map is
emptied (`Migrates`). `TermInv`: the counts of a session are in order and nothing
is due that its task did not forward (`SoundSession`), a manager holds sessions of
the user interface only (`Managed`), and every shell that is wanted (`Reachable`).
`FileInv`: the stage of a call goes with its tool (`Staged`), one edit at a time
is in the sibling, whole when it is renamed, unless edits shared it (`OneEdit`).
`DocInv`: one writer per history (`LocksAreHeld`), so the number it counted is
still the next one (`CountsAreCurrent`), and the current text is a revision
(`CurrentIsKept`). `DefInv`: an edit that nothing overlaps is the only one of its
definition (`Sole`), overlaps are on record (`Clashing`), and such an edit is
`OnCourse`: carried through from here it leads where it said, and so does the
half-way state of a delete; `DefBooks` has the types that `DefInv` does not need.
`SesTypeOK` holds because what reflections leave of a thread is a thread
(`DecayedType`). Proving `DefInv` showed that the model's account of open
files under a rename had overlapping `CASE` arms, of which TLA+ may take any; it
is a function now, and the same slip is gone from `FinishRead` of `RunLifecycle`.

**Graphs.** `OrchInv` has one part for each algorithm. `Walks` is the property of
the walk. `Sorts`: an indegree counts the edges from nodes that are not in the
order yet, and zero means that the node is in the order or ready; so a node is
listed once, all its predecessors before it, and when no node is ready each node
left over has a predecessor that is left over too. `Searches`: the grey nodes are
the stack, a walk without repetition; what lies behind a position is black or next
on the stack; the black nodes have ranks that fall along every edge (`Finished`).
Three lemmas say what a cycle is to these algorithms: an edge back to a node of
such a walk closes one that is no longer than there are nodes (`Closing`), a set in
which every node has a predecessor contains one (`NoSource`, by a longest walk
without repetition), and falling ranks exclude one (`Ranked`). That the nodes freed
by a pop are distinct, and no other is freed, rests on counting in prefixes
(`OccursSplit`); `KahnPop` says which they are and in which order, instead of
filtering with `SelectSeq`.

**Paths.** `ResolveMeansWalk` compares two recursions: `normalize_path` over the
joined path, which pops what it has pushed, and a walk from the root that takes
each component as the file system would. Both values follow one from the other
step by step (`Recursion`), so they can be compared place by place: over the root
alone `normalize_path` gives the root back (`RootTurns`), and from there on the two
stay equal (`Joins`), absolute and not empty (`PathTurns`), which is why popping at
"/" is the same in both. An absolute path replaces the root in `join` and starts
the walk anew at "/" (`NormalIsWalk`).

**Completions.** `LlmInv` accounts for every token of an answer. `InStream`: start
from what the loop has put together and take the events still in the channel one
by one; the result is exactly the text and the calls the server has sent up to its
position (`Reached`), and wherever a `Done` stands, what lies before it is the
whole answer (`Everything`). So a cut, an error or an early end leaves the loop
with a part and no `ToolCalls`, and a `Done` that says `ToolCalls` with the whole.
For Anthropic the pump must also have the one block open that the server is in,
with its input so far (`OpenKinds`): on it depends which delta carries the id and
the name. A call is named by its first delta there, by a chunk of its own in the
OpenAI form, and empty names later on change nothing. `Faithful` is the part about
requests: what `NoSystem` keeps has the calls and results of the history in order,
under the same first system message. `FlattenSeq`, `NoSystem` and the fold over the
channel are recursive functions, reasoned about by their values
(`RecursionLemmas`, `NoSystemCourse`, `Delivers`). For the proof the server
became a position instead of a sequence of all its events.

**Only model-checked.** `RunSettles`, `SubmissionsHandled`, `RequestsReturn` are
liveness under fairness, which these provers do not do. `ServicesTypeOK` and
`ToolsTypeOK` are the type invariants of the components in one formula each; every
component's own is a theorem above. The library's induction theorems cannot be
instantiated by the installed provers; a least counterexample (`Least`, `UpTo`),
from the library's theorem on well-founded relations, takes their place.

## 6. Not modelled

* `extensions/manifest.rs`, `activation.rs`, `diagnostic.rs`: parsing of one file.
* `runtime/prompt.rs`, `capability/code_search.rs`, `flow/mention_parser.rs`:
  text assembly and matching, no state.
* `reviews.json`, the blackboard and mentions of a flow; port `Seeded`
  (`flow/runtime.rs:335`) beyond what a seeded output is to the join.
* The command classifier of `sandbox/shell_gate.rs`, output parsing of git and
  test runners, HTTP and its retries, embeddings, the file watcher.
* The C++ shell and the web UI: the host is an environment that may send any
  request at any time. `Definitions` uses the one place where a panel rewrites
  a whole record (`AgentsTab.tsx`).
* Code without a caller outside its own tests: `call_capability`, the device
  flow, `run_migration`'s caller, `subscribe_replay`, and others. Those whose
  behaviour is a property's subject (migration, replay, the namespaces) are modelled
  as their callers-to-be would use them.
