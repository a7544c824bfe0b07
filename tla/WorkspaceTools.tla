--------------------------- MODULE WorkspaceTools ---------------------------
(***************************************************************************)
(* The tools by which the runs of one workspace touch its files and its    *)
(* repository: dispatch and its gate (capability/dispatcher.rs), the file  *)
(* tools behind the workspace scope and the sandbox policy                 *)
(* (filesystem.rs, sandbox/), run_shell (shell.rs), the git tools (git.rs) *)
(* and the test reports of a flow run (test_runner.rs).                    *)
(*                                                                         *)
(* Runs work in parallel and no lock is held between a tool's read and its *)
(* write.  A path is its sequence of components, "/" first if it is        *)
(* absolute; a text is a sequence of words; the index of the repository is *)
(* the set of staged names, the history the sequence of committed trees.   *)
(***************************************************************************)
EXTENDS Naturals, Sequences, FiniteSets, SequencesExt

CONSTANTS Runs,
          Root,               \* the workspace root, an absolute path
          Denied, Writable,   \* deny_paths and write_paths of the policy
          Rels,               \* paths that a tool call may name
          Names,              \* files that git tracks
          MaxCalls  \* bound: tool calls

HalfWritten == <<"torn">>            \* a file that is only partly written
Absent == <<"absent">>
Words == {"x", "y"}
Texts == [1..1 -> Words] \cup [1..2 -> Words]

\* What Path::components returns: "/" comes first or not at all.
IsPath(p) == p \in Seq({p[i] : i \in DOMAIN p}) /\ \A i \in DOMAIN p : p[i] = "/" => i = 1

\* The root is an absolute path without ".." and ".".
ASSUME WorkspaceToolsAssumption ==
    /\ MaxCalls \in Nat
    /\ \A p \in Rels \cup {Root} : IsPath(p)
    /\ Root # <<>> /\ Root[1] = "/" /\ \A i \in DOMAIN Root : Root[i] \notin {"..", "."}

VARIABLES
    rel,        \* the path under consideration
    file,       \* a file of the workspace
    tmp,        \* its sibling that str_replace writes, one name for all
    uses,       \* the tool call of each run
    spoilt,     \* ghost: write_file was cut short, or edits shared the sibling
    staging,      \* the index of the repository
    head,       \* commits on the branch
    remote,     \* commits on the remote
    report,     \* the last test report: who ran the suite
    calls

toolVars == <<rel, file, tmp, uses, spoilt, staging, head, remote, report, calls>>

NoUse == [tool |-> "none", pc |-> "idle", text |-> <<>>, on |-> "tmp", names |-> {}, base |-> 0]
Gated == {"git_commit", "git_push"}       \* registered with needs_approval
Tools == {"write_file", "str_replace", "run_shell", "git_add", "git_reset", "git_commit", "git_push", "run_suite"}

ToolsInit ==
    /\ rel \in Rels /\ file = <<"x">> /\ tmp = Absent
    /\ uses = [r \in Runs |-> NoUse] /\ spoilt = FALSE
    /\ staging = {} /\ head = <<{}>> /\ remote = 1 /\ report = "none" /\ calls = 0

WorkspaceToolsTypeOK ==
    /\ rel \in Rels /\ file \in Texts \cup {HalfWritten} /\ tmp \in Texts \cup {HalfWritten, Absent}
    /\ uses \in [Runs -> [tool : Tools \cup {"none"}, pc : {"idle", "asks", "call", "open", "write", "rename"},
                          text : Texts \cup {<<>>}, on : {"tmp", "file"}, names : SUBSET Names, base : Nat]]
    /\ spoilt \in BOOLEAN /\ staging \subseteq Names /\ head \in Seq(SUBSET Names) /\ remote \in 1..Len(head)
    /\ report \in Runs \cup {"none"} /\ calls \in 0..MaxCalls

-----------------------------------------------------------------------------
(* Paths                                                                   *)

\* PathBuf::join: an absolute path replaces what it is joined to.
join(root, path) == IF path # <<>> /\ path[1] = "/" THEN path ELSE root \o path

\* A slip: a ".." at the start of a path is kept.
MStep(path, c) ==
    CASE c = ".." -> IF Len(path) > 2 THEN Front(path) ELSE path
      [] c = "." -> path
      [] OTHER -> Append(path, c)
\* One turn of normalize_path's loop; popping "/" leaves it.
Step(path, c) ==
    CASE c = ".." -> IF Len(path) > 1 THEN Front(path) ELSE path
      [] c = "." -> path
      [] OTHER -> Append(path, c)

normalize_path(path) ==
    LET at[i \in 0..Len(path)] == IF i = 0 THEN <<>> ELSE Step(at[i - 1], path[i])
    IN at[Len(path)]

\* WorkspaceScope::resolve; LocalShell::run does the same with its cwd.
resolve(path) ==
    LET p == normalize_path(join(Root, path)) IN [ok |-> IsPrefix(Root, p), path |-> p]

\* SandboxPolicy::can_write: a deny path wins.
can_write(path) ==
    /\ \A d \in Denied : ~IsPrefix(d, path)
    /\ \E w \in Writable : IsPrefix(w, path)

\* Whether the file tools write at a path: the scope first, then the policy.
Writes(path) == resolve(path).ok /\ can_write(resolve(path).path)

-----------------------------------------------------------------------------
(* Calls                                                                   *)

Became(r, v) == uses' = [uses EXCEPT ![r] = v]
Returns(r) == Became(r, NoUse)
repoVars == <<staging, head, remote, report>>
fileVars == <<file, tmp, spoilt>>

\* dispatch: an unknown tool is an error, a gated one asks first.
dispatch(r, tool) ==
    /\ uses[r] = NoUse /\ calls < MaxCalls /\ calls' = calls + 1
    /\ Became(r, [NoUse EXCEPT !.tool = tool, !.pc = IF tool \in Gated THEN "asks" ELSE "call"])
    /\ UNCHANGED <<rel, fileVars, repoVars>>

\* dispatch_approved, or the call is turned down.
dispatch_approved(r) ==
    /\ uses[r].pc = "asks"
    /\ Became(r, [uses[r] EXCEPT !.pc = "call"]) \/ Returns(r)
    /\ UNCHANGED <<rel, fileVars, repoVars, calls>>

Ready(r, tool) == uses[r].tool = tool /\ uses[r].pc = "call"

\* write_file: opens the file, which empties it.
WriteOpens(r) ==
    /\ Ready(r, "write_file")
    /\ \/ ~Writes(rel) /\ Returns(r) /\ UNCHANGED file
       \/ /\ Writes(rel) /\ file' = HalfWritten
          /\ \E t \in {<<"x">>, <<"y", "x">>} : Became(r, [uses[r] EXCEPT !.pc = "write", !.text = t, !.on = "file"])
    /\ UNCHANGED <<rel, tmp, spoilt, repoVars, calls>>

Occurrences(text, w) == Cardinality({i \in DOMAIN text : text[i] = w})
Replaced(text, old, new) == [i \in DOMAIN text |-> IF text[i] = old THEN new ELSE text[i]]

\* str_replace: reads the text, which must hold the old words exactly once.
EditReads(r) ==
    /\ Ready(r, "str_replace")
    /\ \/ ~Writes(rel) /\ Returns(r)
       \/ /\ Writes(rel)
          /\ \E old, new \in Words :
               IF file = HalfWritten \/ Occurrences(file, old) # 1 THEN Returns(r)
               ELSE Became(r, [uses[r] EXCEPT !.pc = "open", !.text = Replaced(file, old, new)])
    /\ UNCHANGED <<rel, fileVars, repoVars, calls>>

\* A slip: the text is written in place.
MEditOpens(r) ==
    /\ uses[r].pc = "open"
    /\ file' = HalfWritten /\ tmp' = Absent /\ UNCHANGED spoilt
    /\ Became(r, [uses[r] EXCEPT !.pc = "write", !.on = "file"])
    /\ UNCHANGED <<rel, repoVars, calls>>
\* str_replace: opens the sibling, which empties it.
EditOpens(r) ==
    /\ uses[r].pc = "open"
    /\ tmp' = HalfWritten /\ UNCHANGED file
    /\ spoilt' = (spoilt \/ \E q \in Runs \ {r} : uses[q].tool = "str_replace" /\ uses[q].pc \in {"write", "rename"})
    /\ Became(r, [uses[r] EXCEPT !.pc = "write"])
    /\ UNCHANGED <<rel, repoVars, calls>>

\* The text is written to what was opened: the sibling, or the file itself if
\* the sibling has been renamed to it meanwhile.
WriteText(r) ==
    /\ uses[r].tool \in {"write_file", "str_replace"} /\ uses[r].pc = "write"
    /\ IF uses[r].on = "file" THEN file' = uses[r].text /\ UNCHANGED tmp ELSE tmp' = uses[r].text /\ UNCHANGED file
    /\ IF uses[r].tool = "write_file" THEN Returns(r) ELSE Became(r, [uses[r] EXCEPT !.pc = "rename"])
    /\ UNCHANGED <<rel, spoilt, repoVars, calls>>

\* str_replace: the sibling takes the file's place.
Rename(r) ==
    /\ uses[r].pc = "rename"
    /\ file' = IF tmp = Absent THEN file ELSE tmp
    /\ tmp' = Absent
    /\ uses' = [q \in Runs |-> IF q = r THEN NoUse
                               ELSE IF uses[q].tool = "str_replace" /\ uses[q].pc = "write" THEN [uses[q] EXCEPT !.on = "file"]
                               ELSE uses[q]]
    /\ UNCHANGED <<rel, spoilt, repoVars, calls>>

\* run_shell: a command that edits the file in the way of any program, or one
\* that times out and is killed.
Shell(r) ==
    /\ Ready(r, "run_shell")
    /\ file' \in {file, <<"y">>}
    /\ Returns(r)
    /\ UNCHANGED <<rel, tmp, spoilt, repoVars, calls>>

\* The process ends: what was half written stays so.
Killed ==
    /\ \E r \in Runs : uses[r] # NoUse
    /\ uses' = [r \in Runs |-> NoUse]
    /\ spoilt' = (spoilt \/ file = HalfWritten)
    /\ UNCHANGED <<rel, file, tmp, repoVars, calls>>

FileNext ==
    Killed \/ \E r \in Runs :
        \/ WriteOpens(r) \/ EditReads(r) \/ EditOpens(r) \/ WriteText(r) \/ Rename(r) \/ Shell(r)
        \/ \E t \in {"write_file", "str_replace", "run_shell"} : dispatch(r, t)

-----------------------------------------------------------------------------
(* The repository                                                          *)

\* git_add and git_reset: the index is read, changed and written back.
IndexReads(r) ==
    /\ uses[r].tool \in {"git_add", "git_reset"} /\ uses[r].pc = "call"
    /\ \E n \in Names :
         Became(r, [uses[r] EXCEPT !.pc = "write",
                                   !.names = IF uses[r].tool = "git_add" THEN staging \cup {n} ELSE staging \ {n}])
    /\ UNCHANGED <<rel, fileVars, repoVars, calls>>

IndexWrites(r) ==
    /\ uses[r].tool \in {"git_add", "git_reset"} /\ uses[r].pc = "write"
    /\ staging' = uses[r].names /\ Returns(r)
    /\ UNCHANGED <<rel, fileVars, head, remote, report, calls>>

\* git_commit: the tree of the index and the commit that HEAD names.
CommitReads(r) ==
    /\ Ready(r, "git_commit")
    /\ Became(r, [uses[r] EXCEPT !.pc = "write", !.names = staging, !.base = Len(head)])
    /\ UNCHANGED <<rel, fileVars, repoVars, calls>>

\* git_commit: Repository::commit with a reference to update fails when the
\* branch is no longer at the first parent.
CommitWrites(r) ==
    /\ uses[r].tool = "git_commit" /\ uses[r].pc = "write"
    /\ head' = IF Len(head) = uses[r].base THEN Append(head, uses[r].names) ELSE head
    /\ Returns(r)
    /\ UNCHANGED <<rel, fileVars, staging, remote, report, calls>>

\* run_git_push: counts the commits ahead, then pushes the branch as it is
\* when git runs, or is refused.
PushCounts(r) ==
    /\ Ready(r, "git_push")
    /\ Became(r, [uses[r] EXCEPT !.pc = "write", !.base = Len(head) - remote])
    /\ UNCHANGED <<rel, fileVars, repoVars, calls>>

Push(r) ==
    /\ uses[r].tool = "git_push" /\ uses[r].pc = "write"
    /\ remote' \in {remote, Len(head)} /\ Returns(r)
    /\ UNCHANGED <<rel, fileVars, staging, head, report, calls>>

\* tool_run_suite: a suite that could be run leaves the last report.
RunSuite(r) ==
    /\ Ready(r, "run_suite")
    /\ report' \in {report, r} /\ Returns(r)
    /\ UNCHANGED <<rel, fileVars, staging, head, remote, calls>>

GitNext ==
    \E r \in Runs :
        \/ dispatch_approved(r)
        \/ IndexReads(r) \/ IndexWrites(r) \/ CommitReads(r) \/ CommitWrites(r) \/ PushCounts(r) \/ Push(r) \/ RunSuite(r)
        \/ \E t \in {"git_add", "git_reset", "git_commit", "git_push", "run_suite"} : dispatch(r, t)

WorkspaceToolsSpec == ToolsInit /\ [][FileNext \/ GitNext]_toolVars

-----------------------------------------------------------------------------
(* Properties                                                              *)

\* The directory reached from d by the components of p, one at a time, in a
\* tree whose root is its own parent.
WalkPath(d, p) ==
    LET at[i \in 0..Len(p)] ==
            IF i = 0 THEN d
            ELSE IF p[i] = "/" THEN <<"/">>
            ELSE IF p[i] = ".." THEN (IF at[i - 1] = <<"/">> THEN <<"/">> ELSE Front(at[i - 1]))
            ELSE IF p[i] = "." THEN at[i - 1] ELSE Append(at[i - 1], p[i])
    IN at[Len(p)]

\* WorkspaceScope::resolve accepts a path exactly when walking it from the
\* workspace root, ".." by "..", ends in the workspace, and names the place
\* where the walk ends.
ResolveMeansWalk ==
    LET d == WalkPath(Root, rel) IN
    /\ resolve(rel).ok = IsPrefix(Root, d)
    /\ resolve(rel).ok => resolve(rel).path = d

\* str_replace is atomic: outside a write_file in progress the file is a whole
\* text, also after a crash, unless a write_file was cut short or two edits
\* used the sibling at once.
EditsAreAtomic ==
    file = HalfWritten => spoilt \/ \E r \in Runs : uses[r].tool = "write_file" /\ uses[r].pc = "write"

=============================================================================
