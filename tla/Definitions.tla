----------------------------- MODULE Definitions ----------------------------
(***************************************************************************)
(* The definition files of a workspace: agents, document types and flows,  *)
(* edited through the control requests (contribution_ops.rs, registry_ops. *)
(* rs, flow_ops.rs over workspace/) and by hand, and read back by two      *)
(* parsers, the editor's (workspace/) and the runtime's (agent_loader.rs,  *)
(* flow/definition.rs).                                                    *)
(*                                                                         *)
(* Every save writes <file>.tmp and renames it; the name of the temporary  *)
(* file depends on the definition only, so overlapping saves share it.     *)
(* A text is a tuple that starts with its kind:                            *)
(* <<"agent", agent_provider, llm.provider, llm.model>>, <<"type", v>> for *)
(* a document type, <<"nodes">> and <<"edges">> for the two flow schemas.  *)
(***************************************************************************)
EXTENDS Naturals, FiniteSets

CONSTANTS AgentIds, DocTypes, FlowIds, Editors,
          BuiltinTypes,                          \* document types in builtin_dir
          MaxEdits, MaxHandEdits, MaxDefCrashes  \* bounds

ASSUME DefinitionsAssumption == MaxEdits \in Nat /\ MaxHandEdits \in Nat /\ MaxDefCrashes \in Nat

Crony == "Crony"   \* CronyBuiltin::ID

Missing == <<>>
BadText == <<"torn">>   \* no parser accepts it

AgentFiles == {<<"agent.yaml", a>> : a \in AgentIds}
TypeFiles == {<<"md", d>> : d \in DocTypes} \cup {<<"yaml", d>> : d \in DocTypes}
FlowFiles == {<<"flow.yaml", f>> : f \in FlowIds}
DefPaths == AgentFiles \cup TypeFiles \cup FlowFiles

\* What a user may have written by hand.
HandTexts(p) ==
    CASE p \in AgentFiles -> {<<"agent", "x", "", "m">>, <<"agent", "Builtin", "", "m">>, <<"agent", "", "p", "m">>, BadText}
      [] p \in TypeFiles -> {<<"type", "by hand">>}
      [] OTHER -> {<<"nodes">>, <<"edges">>}

VARIABLES
    subject,   \* the files this behaviour edits; the three kinds share nothing
    defFiles,  \* the text under each path
    defTmp,    \* the text of its temporary file
    edits,     \* the request each editor waits for
    running,   \* flows with a Running run
    allowed,   \* ghost: what a reader of a definition may be given
    clash,     \* ghost: definitions with overlapping edits and no later edit
    editCount, handEdits, defCrashes

defVars == <<subject, defFiles, defTmp, edits, running, allowed, clash, editCount, handEdits, defCrashes>>

NoEdit == [pc |-> "idle", path |-> <<>>, text |-> Missing, on |-> "none", alone |-> TRUE, want |-> {}]

-----------------------------------------------------------------------------
(* What the editor and the runtime make of the files                       *)

\* A slip: the editor's parser does not know `agent_provider:`.
Mparse_agent_yaml(t) == <<"", t[4]>>
\* The editor's parser of an agent: provider and model.
parse_agent_yaml(t) == <<IF t[2] = "builtin" THEN "" ELSE t[2], t[4]>>
\* AgentRegistry::refresh skips a file that does not parse.
Listed(t) == t # Missing /\ t # BadText
\* handle_contribution_list: the agents the panel can open; Crony is sealed.
Shown(a, t) == a # Crony /\ Listed(t)

\* The runtime's parser: builtin, in any case, is the native engine, and an
\* agent with a provider ignores its model.
parse_agent_provider(id) == IF id \in {"builtin", "Builtin"} THEN "" ELSE id
into_agent_def(t) == IF parse_agent_provider(t[2]) # "" THEN <<t[2], "">> ELSE <<"", t[4]>>
DefaultAgent == <<"", "">>
\* load_from_path: what cannot be read or parsed is the default agent.
load_agent(t) == IF Listed(t) THEN into_agent_def(t) ELSE DefaultAgent
\* Crony's file can override peripheral settings only.
load_agent_with_builtin(a, t) == IF a = Crony THEN DefaultAgent ELSE load_agent(t)

\* onSave in the settings panel: the provider when there is one, else the model.
Sent(d) == IF d[1] # "" THEN <<d[1], "">> ELSE d
\* What a save from the panel sends and the engine it stands for: a new draft,
\* or one that handle_contribution_load filled and nobody changed, which stands
\* for the engine the file has.  `Builtin` is a provider to the editor and the
\* native engine to the loader: saving it unchanged loses the model.
Drafts(a, t) ==
    {[sent |-> d, engine |-> d] : d \in {<<"x", "">>, <<"", "m">>}}
    \cup {[sent |-> Sent(parse_agent_yaml(t)),
           engine |-> IF t[2] = "Builtin" THEN DefaultAgent ELSE load_agent(t)] : x \in IF Shown(a, t) THEN {0} ELSE {}}
\* The text that handle_contribution_save writes has one engine line; the
\* provider of a structured `llm:` is not written back.
ToYaml(d) == <<"agent", d[1], "", d[2]>>

\* scan_dir of the workspace: of two files of one type the last read wins.
Scanned(files, d) == {files[<<ext, d>>] : ext \in {"md", "yaml"}} \ {Missing, BadText}
\* refresh: workspace types override built-in ones.
DocTypeLoad(files, d) ==
    IF Scanned(files, d) # {} THEN Scanned(files, d)
    ELSE IF d \in BuiltinTypes THEN {<<"type", "built in">>} ELSE {Missing}

\* parse_flow_yaml reads both schemas; flow_yaml_to_string writes the legacy
\* one for a document without nodes.
FlowLoad(t) == IF t = BadText THEN Missing ELSE t
LegacyYaml == <<"edges">>

\* What is read where a definition is used.
Entity(p) == IF p \in TypeFiles THEN <<"md", p[2]>> ELSE p
Served(files, p) ==
    CASE p \in AgentFiles -> {load_agent_with_builtin(p[2], files[p])}
      [] p \in TypeFiles -> DocTypeLoad(files, p[2])
      [] OTHER -> {FlowLoad(files[p])}

-----------------------------------------------------------------------------
DefInit ==
    /\ subject \in {AgentFiles, TypeFiles, FlowFiles}
    /\ defFiles = [p \in DefPaths |-> Missing] /\ defTmp = [p \in DefPaths |-> Missing]
    /\ edits = [e \in Editors |-> NoEdit] /\ running = {}
    /\ allowed = [p \in DefPaths |-> Served(defFiles, p)]
    /\ clash = {} /\ editCount = 0 /\ handEdits = 0 /\ defCrashes = 0

Busy(p) == {e \in Editors : edits[e].pc # "idle" /\ Entity(edits[e].path) = Entity(p)}

\* A request arrives.  While it is under way a reader may be given the old
\* definition or the new one.
BeginEdit(e, pc, p, text, during, after) ==
    /\ p \in subject /\ edits[e].pc = "idle" /\ editCount < MaxEdits /\ editCount' = editCount + 1
    /\ LET new == [NoEdit EXCEPT !.pc = pc, !.path = p, !.text = text, !.want = after, !.alone = Busy(p) = {}]
       IN  edits' = [x \in Editors |-> IF x = e THEN new
                                       ELSE IF x \in Busy(p) THEN [edits[x] EXCEPT !.alone = FALSE] ELSE edits[x]]
    /\ allowed' = [allowed EXCEPT ![Entity(p)] = @ \cup during]
    /\ clash' = IF Busy(p) = {} THEN clash ELSE clash \cup {Entity(p)}
    /\ UNCHANGED <<subject, defFiles, defTmp, running, handEdits, defCrashes>>

\* AgentRegistry::save; Crony cannot be overwritten.
ContributionSave(e, a) ==
    /\ a # Crony
    /\ \E d \in Drafts(a, defFiles[<<"agent.yaml", a>>]) :
         BeginEdit(e, "open", <<"agent.yaml", a>>, ToYaml(d.sent), {d.engine}, {d.engine})
ContributionDelete(e, a) ==
    a # Crony /\ BeginEdit(e, "remove", <<"agent.yaml", a>>, Missing, {DefaultAgent}, {DefaultAgent})

\* DocTypeRegistry::save writes the .md file; a .yaml file of the type stays.
DocTypeSave(e, d) ==
    \E v \in {"v1", "v2"} :
       LET seen == {<<"type", v>>, defFiles[<<"yaml", d>>]} \ {Missing}
       IN  BeginEdit(e, "open", <<"md", d>>, <<"type", v>>, seen, seen)
\* DocTypeRegistry::delete removes the .md file, then the .yaml file.
DocTypeDelete(e, d) ==
    LET builtin == DocTypeLoad([p \in DefPaths |-> Missing], d)
    IN  BeginEdit(e, "remove", <<"md", d>>, Missing, builtin \cup ({defFiles[<<"yaml", d>>]} \ {Missing}), builtin)

\* handle_flow_save: agents and edges of the canvas, in the legacy schema.
FlowSave(e, f) == BeginEdit(e, "open", <<"flow.yaml", f>>, LegacyYaml, {LegacyYaml}, {LegacyYaml})
\* handle_flow_save_yaml: any text that is not blank, unless the flow runs now.
FlowSaveYaml(e, f) ==
    /\ f \notin running
    /\ \E t \in {<<"nodes">>, BadText} : BeginEdit(e, "open", <<"flow.yaml", f>>, t, {FlowLoad(t)}, {FlowLoad(t)})

-----------------------------------------------------------------------------
(* The steps of a save and of a delete                                     *)

At(e, pc) == edits[e].pc = pc
Rest == UNCHANGED <<subject, running, editCount, handEdits, defCrashes>>

\* fs::write: the temporary file is created, or truncated if it is there, ...
OpenTmp(e) ==
    LET p == edits[e].path IN
    /\ At(e, "open") /\ defTmp' = [defTmp EXCEPT ![p] = BadText]
    /\ edits' = [edits EXCEPT ![e].pc = "write", ![e].on = "tmp"]
    /\ UNCHANGED <<defFiles, allowed, clash>> /\ Rest

\* ... and written, wherever another save's rename has put it by now; over
\* what another save wrote the texts may mix.
WriteTmp(e) ==
    LET p == edits[e].path  t == edits[e].text IN
    /\ At(e, "write") /\ edits' = [edits EXCEPT ![e].pc = "rename"]
    /\ CASE edits[e].on = "tmp" ->
              /\ \E x \in IF defTmp[p] = BadText THEN {t} ELSE {t, BadText} : defTmp' = [defTmp EXCEPT ![p] = x]
              /\ UNCHANGED defFiles
         [] edits[e].on = "file" ->
              /\ \E x \in IF defFiles[p] = BadText THEN {t} ELSE {t, BadText} : defFiles' = [defFiles EXCEPT ![p] = x]
              /\ UNCHANGED defTmp
         [] OTHER -> UNCHANGED <<defFiles, defTmp>>
    /\ UNCHANGED <<allowed, clash>> /\ Rest

\* The request is answered.  After an edit that nothing overlapped, its
\* outcome is what readers are given.
Answered(e, ok) ==
    LET p == Entity(edits[e].path) IN
    IF ok /\ edits[e].alone THEN /\ allowed' = [allowed EXCEPT ![p] = edits[e].want] /\ clash' = clash \ {p}
    ELSE UNCHANGED <<allowed, clash>>

\* What a file that is open is after a rename: the temporary file has got its
\* name, and the one it replaced has none.
TmpRenamed == [none |-> "none", tmp |-> "file", file |-> "gone", gone |-> "gone"]
\* fs::rename.
RenameTmp(e) ==
    LET p == edits[e].path
        moved(x) == IF edits[x].path = p THEN TmpRenamed[edits[x].on] ELSE edits[x].on IN
    /\ At(e, "rename") /\ defTmp[p] # Missing
    /\ defFiles' = [defFiles EXCEPT ![p] = defTmp[p]] /\ defTmp' = [defTmp EXCEPT ![p] = Missing]
    /\ edits' = [x \in Editors |-> IF x = e THEN NoEdit ELSE [edits[x] EXCEPT !.on = moved(x)]]
    /\ Answered(e, TRUE) /\ Rest

\* fs::remove_file; what is not there is as good as removed.
RemoveFile(e) ==
    LET p == edits[e].path IN
    /\ At(e, "remove") /\ defFiles' = [defFiles EXCEPT ![p] = Missing]
    /\ IF p[1] = "md"
       THEN edits' = [edits EXCEPT ![e].path = <<"yaml", p[2]>>] /\ UNCHANGED <<allowed, clash>>
       ELSE edits' = [edits EXCEPT ![e] = NoEdit] /\ Answered(e, TRUE)
    /\ UNCHANGED defTmp /\ Rest

\* Any of these calls may fail; a rename does when the temporary file is gone.
EditFails(e) ==
    /\ ~At(e, "idle") /\ edits' = [edits EXCEPT ![e] = NoEdit]
    /\ UNCHANGED <<defFiles, defTmp, allowed, clash>> /\ Rest

-----------------------------------------------------------------------------
\* A user writes a file in another program.
WriteByHand(p) ==
    /\ p \in subject /\ handEdits < MaxHandEdits /\ handEdits' = handEdits + 1 /\ Busy(p) = {}
    /\ \E t \in HandTexts(p) :
         /\ defFiles' = [defFiles EXCEPT ![p] = t]
         /\ allowed' = [allowed EXCEPT ![Entity(p)] = Served(defFiles', p)]
    /\ UNCHANGED <<subject, defTmp, edits, running, clash, editCount, defCrashes>>

\* FlowDefinition::load_from_str refuses the legacy schema.
StartFlow(f) ==
    /\ defFiles[<<"flow.yaml", f>>] = <<"nodes">> /\ running' = running \cup {f} /\ f \notin running
    /\ UNCHANGED <<subject, defFiles, defTmp, edits, allowed, clash, editCount, handEdits, defCrashes>>
EndFlow(f) ==
    /\ f \in running /\ running' = running \ {f}
    /\ UNCHANGED <<subject, defFiles, defTmp, edits, allowed, clash, editCount, handEdits, defCrashes>>

\* The process ends; the files stay, temporary ones too.
DefCrash ==
    /\ defCrashes < MaxDefCrashes /\ defCrashes' = defCrashes + 1
    /\ edits' = [e \in Editors |-> NoEdit] /\ running' = {}
    /\ UNCHANGED <<subject, defFiles, defTmp, allowed, clash, editCount, handEdits>>

DefNext ==
    \/ \E e \in Editors :
         \/ \E a \in AgentIds : ContributionSave(e, a) \/ ContributionDelete(e, a)
         \/ \E d \in DocTypes : DocTypeSave(e, d) \/ DocTypeDelete(e, d)
         \/ \E f \in FlowIds : FlowSave(e, f) \/ FlowSaveYaml(e, f)
         \/ OpenTmp(e) \/ WriteTmp(e) \/ RenameTmp(e) \/ RemoveFile(e) \/ EditFails(e)
    \/ \E p \in DefPaths : WriteByHand(p)
    \/ \E f \in FlowIds : StartFlow(f) \/ EndFlow(f)
    \/ DefCrash
DefSpec == DefInit /\ [][DefNext]_defVars

-----------------------------------------------------------------------------
(* Properties                                                              *)

DefTypeOK ==
    /\ DOMAIN defFiles = DefPaths /\ DOMAIN defTmp = DefPaths /\ DOMAIN allowed = DefPaths
    /\ \A e \in Editors :
         /\ edits[e].pc \in {"idle", "open", "write", "rename", "remove"}
         /\ edits[e].on \in {"none", "tmp", "file", "gone"} /\ edits[e].pc # "idle" => edits[e].path \in DefPaths
    /\ running \subseteq FlowIds /\ clash \subseteq DefPaths
    /\ editCount \in 0..MaxEdits /\ handEdits \in 0..MaxHandEdits /\ defCrashes \in 0..MaxDefCrashes

\* An edit is served whole.  Whatever fails or crashes on the way, a run, the
\* list of document types and a flow are given the last definition that was
\* acknowledged or, during and after an edit that was not, that one or the one
\* of the edit, never a part of either; an agent that is saved unchanged keeps
\* its engine, and a deleted document type uncovers the built-in one; unless
\* edits of one definition overlapped, which share a temporary file
\* (AgentRegistry::save, DocTypeRegistry::delete, flow_ops.rs "Atomic write
\* via temp file + rename", parse_agent_yaml against load_agent).
EditsAreServed ==
    \A p \in DefPaths \ {<<"yaml", d>> : d \in DocTypes} :
        p \notin clash => Served(defFiles, p) \subseteq allowed[p]
=============================================================================
