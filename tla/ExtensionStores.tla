--------------------------- MODULE ExtensionStores --------------------------
(***************************************************************************)
(* What extensions leave on disk: the registry of installed extensions     *)
(* (extensions/registry.rs, package.rs), shared by the app and by          *)
(* `cronymax ext` (bin/cronymax.rs), which each hold a copy of it in       *)
(* memory, and the key-value files of one extension (api/storage.rs and    *)
(* api/config.rs).                                                         *)
(*                                                                         *)
(* A registry entry is its flag, "on", "off" or "crash" (switched off by   *)
(* the crash budget), and the directory it was found in: the extension's   *)
(* own one or the staging directory of a .cmx archive, which lies under    *)
(* the registry root as well.  A directory is "none", "bare" (no manifest  *)
(* yet), "part" (a manifest that validates, files missing) or "whole".     *)
(***************************************************************************)
EXTENDS Naturals, FiniteSets

CONSTANTS ExtIds,
          Callers,              \* threads that use the key-value stores
          StoreKeys,
          MaxOpens, MaxSets  \* bounds

ASSUME StoresAssumption == MaxOpens \in Nat /\ MaxSets \in Nat

Procs == {"app", "cli"}
Flags == {"on", "off", "crash"}
NoEntry == [flag |-> "absent", dir |-> "none"]
Readable == {"part", "whole"}     \* Manifest::validate looks at no other file

VARIABLES
    regs,       \* entries of the registry of each process
    up,         \* the processes that run
    saved,      \* registry.json
    dirs,       \* <root>/<id>
    staged,     \* archives unpacked in a staging directory that still exists
    copying,    \* the install each process is in the middle of
    opens,
    off,        \* ghost: extensions switched off, with Ok, and not on again
    aware,      \* ghost: for each process, those whose switching off it knows
    forgot,     \* ghost: those saved since by a process that did not know
    kvCache,    \* the map of the store, in memory
    kvFile,     \* the file it is persisted to
    kvCall,     \* the set of each caller
    kvAcked,    \* ghost: newest value of a key whose set returned Ok
    kvStore     \* "storage" or "config"

installVars == <<regs, up, saved, dirs, staged, copying, opens, off, aware, forgot>>
kvVars == <<kvCache, kvFile, kvCall, kvAcked, kvStore>>
storesVars == <<installVars, kvVars>>

NoInstall == [id |-> "none", from |-> "none", pc |-> "idle"]
NoSet == [key |-> "none", map |-> [k \in StoreKeys |-> 0], pc |-> "idle"]

StoresTypeOK ==
    /\ regs \in [Procs -> [ExtIds -> {NoEntry} \cup [flag : Flags, dir : {"own", "staged"}]]]
    /\ up \subseteq Procs /\ saved \in [ExtIds -> Flags \cup {"absent"}]
    /\ dirs \in [ExtIds -> {"none", "bare", "part", "whole"}] /\ staged \subseteq ExtIds
    /\ copying \in [Procs -> [id : ExtIds \cup {"none"}, from : {"none", "dir", "cmx"}, pc : {"idle", "checked", "copy", "save"}]]
    /\ opens \in 0..MaxOpens /\ off \subseteq ExtIds /\ aware \in [Procs -> SUBSET ExtIds] /\ forgot \subseteq ExtIds
    /\ kvCache \in [StoreKeys -> 0..MaxSets] /\ kvFile \in [StoreKeys -> 0..MaxSets]
    /\ kvCall \in [Callers -> [key : StoreKeys \cup {"none"}, map : [StoreKeys -> 0..MaxSets], pc : {"idle", "persist"}]]
    /\ kvAcked \in [StoreKeys -> 0..MaxSets] /\ kvStore \in {"storage", "config"}

StoresInit ==
    /\ regs = [p \in Procs |-> [id \in ExtIds |-> NoEntry]] /\ up = {}
    /\ saved = [id \in ExtIds |-> "absent"] /\ dirs = [id \in ExtIds |-> "none"] /\ staged = {}
    /\ copying = [p \in Procs |-> NoInstall] /\ opens = 0
    /\ off = {} /\ aware = [p \in Procs |-> {}] /\ forgot = {}
    /\ kvCache = [k \in StoreKeys |-> 0] /\ kvFile = kvCache
    /\ kvCall = [c \in Callers |-> NoSet] /\ kvAcked = kvCache /\ kvStore \in {"storage", "config"}

-----------------------------------------------------------------------------
(* The registry                                                            *)

Unlocked(p) == p \in up /\ copying[p] = NoInstall   \* the registry's mutex

\* save: registry.json is replaced by what this process has in memory,
\* through a temporary file and a rename; or the write fails.
Save(p, entries, ok) ==
    /\ saved' = IF ok THEN [id \in ExtIds |-> entries[id].flag] ELSE saved
    /\ forgot' = IF ok THEN forgot \cup {id \in off' : id \notin aware'[p]} ELSE forgot

\* A slip: an extension found on disk is enabled, whatever was persisted.
MFoundFlag(id) == "on"
\* refresh: a directory that registry.json does not know is an install made
\* by other means, and enabled.
FoundFlag(id) == IF saved[id] = "absent" THEN "on" ELSE saved[id]

\* refresh: what the directories hold; of two with one id the later read wins.
Found(id, pick) ==
    IF dirs[id] \notin Readable /\ id \notin staged THEN NoEntry
    ELSE [flag |-> FoundFlag(id),
          dir |-> IF id \notin staged THEN "own" ELSE IF dirs[id] \notin Readable THEN "staged" ELSE pick]

\* A process opens the registry: refresh.  When registry.json cannot be read
\* the entries stay empty; the app goes on after either failure, the command
\* line ends.
OpenRegistry(p) ==
    /\ p \notin up /\ opens < MaxOpens /\ opens' = opens + 1
    /\ \E pick \in {"own", "staged"}, read, ok \in BOOLEAN :
         LET entries == [id \in ExtIds |-> IF read THEN Found(id, pick) ELSE NoEntry] IN
         /\ regs' = [regs EXCEPT ![p] = entries]
         /\ aware' = [aware EXCEPT ![p] = {id \in off : read /\ entries[id] # NoEntry /\ id \notin forgot}]
         /\ up' = IF (read /\ ok) \/ p = "app" THEN up \cup {p} ELSE up
         /\ off' = off
         /\ Save(p, entries, read /\ ok)
    /\ UNCHANGED <<dirs, staged, copying, kvVars>>

\* install_from_path: the archive is unpacked into a directory under the root.
Unpack(p, id) ==
    /\ Unlocked(p) /\ id \notin staged
    /\ staged' = staged \cup {id}
    /\ copying' = [copying EXCEPT ![p] = [id |-> id, from |-> "cmx", pc |-> "checked"]]
    /\ UNCHANGED <<regs, up, saved, dirs, opens, off, aware, forgot, kvVars>>

\* install, from a directory.
Install(p, id) ==
    /\ Unlocked(p)
    /\ copying' = [copying EXCEPT ![p] = [id |-> id, from |-> "dir", pc |-> "checked"]]
    /\ UNCHANGED <<regs, up, saved, dirs, staged, opens, off, aware, forgot, kvVars>>

\* The TempDir of an archive is removed when install_from_path returns.
Unstage(p) == IF copying[p].from = "cmx" THEN staged \ {copying[p].id} ELSE staged

\* install: an entry, or a directory without one, refuses it; else the copy
\* makes the directory.
CopyBegins(p) ==
    LET id == copying[p].id IN
    /\ copying[p].pc = "checked"
    /\ \/ /\ regs[p][id] # NoEntry \/ dirs[id] # "none"
          /\ copying' = [copying EXCEPT ![p] = NoInstall] /\ staged' = Unstage(p) /\ UNCHANGED dirs
       \/ /\ regs[p][id] = NoEntry /\ dirs[id] = "none"
          /\ dirs' = [dirs EXCEPT ![id] = "bare"]
          /\ copying' = [copying EXCEPT ![p].pc = "copy"] /\ UNCHANGED staged
    /\ UNCHANGED <<regs, up, saved, opens, off, aware, forgot, kvVars>>

\* copy_dir_recursive: file by file, the manifest among them; an error leaves
\* what was copied.
CopyStep(p) ==
    LET id == copying[p].id IN
    /\ copying[p].pc = "copy"
    /\ \/ /\ dirs[id] = "bare" /\ dirs' = [dirs EXCEPT ![id] = "part"] /\ UNCHANGED <<copying, staged>>
       \/ /\ dirs[id] = "part" /\ dirs' = [dirs EXCEPT ![id] = "whole"]
          /\ copying' = [copying EXCEPT ![p].pc = "save"] /\ UNCHANGED staged
       \/ /\ dirs[id] = "none"          \* removed by another process meanwhile
          /\ copying' = [copying EXCEPT ![p] = NoInstall] /\ staged' = Unstage(p) /\ UNCHANGED dirs
       \/ /\ copying' = [copying EXCEPT ![p] = NoInstall] /\ staged' = Unstage(p) /\ UNCHANGED dirs
    /\ UNCHANGED <<regs, up, saved, opens, off, aware, forgot, kvVars>>

\* The new entry is enabled and saved; a save that fails undoes the copy.
InstallEnds(p) ==
    LET id == copying[p].id IN
    /\ copying[p].pc = "save"
    /\ copying' = [copying EXCEPT ![p] = NoInstall] /\ staged' = Unstage(p)
    /\ \E ok \in BOOLEAN :
         /\ regs' = IF ok THEN [regs EXCEPT ![p][id] = [flag |-> "on", dir |-> "own"]] ELSE regs
         /\ dirs' = IF ok THEN dirs ELSE [dirs EXCEPT ![id] = "none"]
         /\ off' = IF ok THEN off \ {id} ELSE off
         /\ aware' = aware
         /\ Save(p, regs'[p], ok)
    /\ UNCHANGED <<up, opens, kvVars>>

\* uninstall: the entry goes first, then its directory, then registry.json; an
\* error in removing the directory ends it before the save.
Uninstall(p, id) ==
    /\ Unlocked(p) /\ regs[p][id] # NoEntry
    /\ regs' = [regs EXCEPT ![p][id] = NoEntry]
    /\ off' = off \ {id} /\ aware' = aware
    /\ \/ /\ dirs' = IF regs[p][id].dir = "own" THEN [dirs EXCEPT ![id] = "none"] ELSE dirs
          /\ staged' = IF regs[p][id].dir = "staged" THEN staged \ {id} ELSE staged
          /\ \E ok \in BOOLEAN : Save(p, regs'[p], ok)
       \/ /\ IF regs[p][id].dir = "own" /\ dirs[id] = "whole" THEN dirs' \in {dirs, [dirs EXCEPT ![id] = "part"], [dirs EXCEPT ![id] = "bare"]}
             ELSE UNCHANGED dirs
          /\ UNCHANGED <<staged, saved, forgot>>
    /\ UNCHANGED <<up, copying, opens, kvVars>>

\* set_enabled and set_disabled_by_crash: memory first, then the save.
SetFlag(p, id, flag) ==
    /\ Unlocked(p) /\ regs[p][id] # NoEntry
    /\ flag = "crash" => p = "app"
    /\ LET kept == IF flag = "off" /\ regs[p][id].flag = "crash" THEN "crash" ELSE flag IN
       regs' = [regs EXCEPT ![p][id].flag = kept]
    /\ \E ok \in BOOLEAN :
         /\ off' = IF flag = "on" THEN off \ {id} ELSE IF ok THEN off \cup {id} ELSE off
         /\ aware' = IF flag # "on" /\ ok
                     THEN [q \in Procs |-> IF q = p THEN aware[p] \cup {id} ELSE aware[q] \ {id}] ELSE aware
         /\ IF flag # "on" /\ ok
            THEN /\ saved' = [i \in ExtIds |-> regs'[p][i].flag]
                 /\ forgot' = (forgot \ {id}) \cup {i \in off' : i \notin aware'[p]}
            ELSE Save(p, regs'[p], ok)
    /\ UNCHANGED <<up, dirs, staged, copying, opens, kvVars>>

\* The process ends or is killed: a staging directory stays behind.
Exit(p) ==
    /\ p \in up
    /\ up' = up \ {p} /\ copying' = [copying EXCEPT ![p] = NoInstall]
    /\ regs' = [regs EXCEPT ![p] = [id \in ExtIds |-> NoEntry]] /\ aware' = [aware EXCEPT ![p] = {}]
    /\ UNCHANGED <<saved, dirs, staged, opens, off, forgot, kvVars>>

RegistryNext ==
    \E p \in Procs :
        \/ OpenRegistry(p) \/ CopyBegins(p) \/ CopyStep(p) \/ InstallEnds(p) \/ Exit(p)
        \/ \E id \in ExtIds : \/ Install(p, id) \/ Unpack(p, id) \/ Uninstall(p, id)
                              \/ \E flag \in Flags : SetFlag(p, id, flag)

-----------------------------------------------------------------------------
(* The key-value files of an extension                                     *)

\* ExtensionStorage persists under the mutex of its cache; ConfigStore clones
\* the map and lets the mutex go.
HoldsLock(c) == kvStore = "storage" /\ kvCall[c].pc = "persist"

\* set: the map is changed in memory.
SetKey(c, k) ==
    /\ kvCall[c].pc = "idle" /\ \A d \in Callers : ~HoldsLock(d)
    /\ kvCache[k] < MaxSets
    /\ kvCache' = [kvCache EXCEPT ![k] = @ + 1]
    /\ kvCall' = [kvCall EXCEPT ![c] = [key |-> k, map |-> kvCache', pc |-> "persist"]]
    /\ UNCHANGED <<installVars, kvFile, kvAcked, kvStore>>

\* persist: written to a temporary file and renamed, or it fails and the
\* change stays in memory.
Persist(c) ==
    /\ kvCall[c].pc = "persist"
    /\ kvCall' = [kvCall EXCEPT ![c] = NoSet]
    /\ \/ /\ kvFile' = kvCall[c].map
          /\ LET k == kvCall[c].key IN
             kvAcked' = [kvAcked EXCEPT ![k] = IF @ > kvCall[c].map[k] THEN @ ELSE kvCall[c].map[k]]
       \/ UNCHANGED <<kvFile, kvAcked>>
    /\ UNCHANGED <<installVars, kvCache, kvStore>>

\* The process is restarted: ensure_loaded reads the file.
Reload ==
    /\ kvCache' = kvFile /\ kvCache # kvFile
    /\ kvCall' = [c \in Callers |-> NoSet]
    /\ UNCHANGED <<installVars, kvFile, kvAcked, kvStore>>

KvNext == Reload \/ \E c \in Callers : Persist(c) \/ \E k \in StoreKeys : SetKey(c, k)

StoresNext == RegistryNext \/ KvNext
StoresSpec == StoresInit /\ [][StoresNext]_storesVars

-----------------------------------------------------------------------------
(* Properties                                                              *)

\* What was acknowledged stays.  An extension that was switched off with
\* success, by the user or by the crash budget, is off in registry.json and in
\* every process that knows, through restarts, failed saves and installs; only
\* a process whose copy of the registry is older can undo it (set_enabled,
\* refresh, save).  A value whose storage.set returned Ok is in the file,
\* whatever other callers do and whenever the process restarts (persist).
SettingsAreDurable ==
    /\ \A id \in off :
          /\ id \notin forgot => saved[id] \in {"off", "crash"}
          /\ \A p \in up : id \in aware[p] => regs[p][id].flag \in {"off", "crash"}
    /\ kvStore = "storage" => \A k \in StoreKeys : kvFile[k] >= kvAcked[k]
=============================================================================
