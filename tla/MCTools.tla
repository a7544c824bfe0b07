------------------------------- MODULE MCTools ------------------------------
(***************************************************************************)
(* What the agents work with, each component on its own: a behaviour is a  *)
(* scene, one component's specification with the others at rest.           *)
(***************************************************************************)
EXTENDS TLC, Orchestrator, LlmStream, LlmConfig, SessionMemory,
        ExtensionStores, WorkspaceTools, Terminals, Documents, LogFiles, Definitions

VARIABLE scene

vars == <<scene, orchVars, llmVars, cfgVars, memoryVars, storesVars, toolVars, termVars, documentVars, logVars, defVars>>

\* Graphs of three nodes, with forks, joins, double edges and loops.
MCAdjacencies == [{1, 2, 3} -> {<<>>, <<2>>, <<3>>, <<1, 2>>, <<2, 3>>, <<3, 3>>, <<3, 1>>}]
Walked == {<< <<2, 3>>, <<3>>, <<>> >>, << <<2>>, <<3, 1>>, <<>> >>, << <<3, 3>>, <<>>, <<2>> >>}

NewBlock(k, id, chunks) == [kind |-> k, id |-> id, chunks |-> chunks]
MCAnswers ==
    {[blocks |-> <<NewBlock("thinking", "", <<<<"h">>>>), NewBlock("text", "", <<<<"x">>, <<"y">>>>)>>, stop |-> "end_turn"],
     [blocks |-> <<NewBlock("text", "", <<<<"x">>>>), NewBlock("tool", "t1", <<<<>>, <<"x">>, <<"y">>>>),
                   NewBlock("tool", "t2", <<<<"z">>>>)>>, stop |-> "tool_use"],
     [blocks |-> <<NewBlock("tool", "t1", <<<<"x">>>>)>>, stop |-> "tool_use"],
     [blocks |-> <<NewBlock("tool", "t1", <<<<"x">>>>)>>, stop |-> "max_tokens"]}
Said(r, cs, res) == [role |-> r, text |-> "m", calls |-> cs, result |-> res]
MCHistories ==
    {<<Said("user", <<>>, "")>>,
     <<Said("system", <<>>, ""), Said("user", <<>>, ""), Said("assistant", <<"t1", "t2">>, ""),
       Said("tool", <<>>, "t1"), Said("tool", <<>>, "t2"), Said("system", <<>>, "")>>}

\* Every path of up to three components from the root or the workspace.
Components == {"..", ".", "a", "w"}
MCRels == {<<>>} \cup {<<x>> : x \in Components \cup {"/"}} \cup {<<x, y>> : x \in Components \cup {"/"}, y \in Components}
          \cup {<<x, y, z>> : x \in Components \cup {"/"}, y, z \in Components}
MCRoot == <<"/", "w">>
MCWritable == {MCRoot}
MCDenied == {<<"/", "w", "a">>}
MCHistoryOf == [r1 |-> "flow", r2 |-> "flow", docs |-> "docs"]

Scenes == {"graph", "llm", "providers", "tokens", "memory", "session", "installs", "values",
           "files", "git", "terminals", "documents", "trace", "logs", "definitions"}

Init ==
    /\ scene \in Scenes
    /\ adjacency \in MCAdjacencies /\ task \in {"walk", "order", "cycle"}
    /\ IF scene = "graph" THEN task = "walk" => adjacency \in Walked
       ELSE adjacency = << <<>>, <<>>, <<>> >> /\ task = "walk"
    /\ OrchInit /\ current = 1 /\ (\A i, j \in DOMAIN ready : i < j => ready[i] < ready[j])
    /\ LlmInit
    /\ scene # "llm" => provider = "openai" /\ Len(history) = 1 /\ answer.stop = "max_tokens"
    /\ CfgInit /\ (scene # "providers" => legacy = "absent")
    /\ MemoryInit /\ (scene # "memory" => oldMemory = Empty) /\ (scene # "session" => binding = "n1")
    /\ StoresInit /\ (scene # "values" => kvStore = "config")
    /\ ToolsInit /\ (scene # "files" => rel = <<>>)
    /\ TermInit /\ DocInit /\ LogInit /\ DefInit /\ (scene # "definitions" => subject = FlowFiles)

AtRest(scenes, v) == IF scene \in scenes THEN TRUE ELSE UNCHANGED v

Next ==
    /\ UNCHANGED scene
    /\ AtRest({"graph"}, orchVars)
    /\ AtRest({"llm"}, llmVars)
    /\ AtRest({"providers"}, regVars) /\ AtRest({"tokens"}, tokVars)
    /\ AtRest({"memory"}, memVars) /\ AtRest({"session"}, sesVars)
    /\ AtRest({"installs", "values"}, storesVars)
    /\ AtRest({"files", "git"}, toolVars)
    /\ AtRest({"terminals"}, termVars)
    /\ AtRest({"documents", "trace"}, documentVars)
    /\ AtRest({"logs"}, logVars)
    /\ AtRest({"definitions"}, defVars)
    /\ \/ scene = "graph" /\ OrchNext
       \/ scene = "llm" /\ LlmNext
       \/ scene = "providers" /\ RegNext
       \/ scene = "tokens" /\ TokNext
       \/ scene = "memory" /\ MemNext
       \/ scene = "session" /\ SesNext
       \/ scene = "installs" /\ RegistryNext
       \/ scene = "values" /\ KvNext
       \/ scene = "files" /\ FileNext
       \/ scene = "git" /\ GitNext
       \/ scene = "terminals" /\ TermNext
       \/ scene = "documents" /\ DocNext
       \/ scene = "trace" /\ TraceNext
       \/ scene = "logs" /\ LogNext
       \/ scene = "definitions" /\ DefNext

Spec == Init /\ [][Next]_vars

\* The values of every component's variables stay in their types.
ToolsTypeOK ==
    /\ OrchTypeOK /\ LlmTypeOK /\ CfgTypeOK /\ MemoryTypeOK
    /\ StoresTypeOK /\ WorkspaceToolsTypeOK /\ TermTypeOK /\ DocTypeOK /\ LogTypeOK /\ DefTypeOK
=============================================================================
