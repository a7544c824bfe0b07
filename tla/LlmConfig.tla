----------------------------- MODULE LlmConfig ------------------------------
(***************************************************************************)
(* How a run gets at a model: the registry of providers with its file, the *)
(* migration of the old flat configuration, and the cache of short-lived   *)
(* Copilot tokens with its background refresh.                             *)
(*                                                                         *)
(* A file is written to a temporary name and renamed: a write happens      *)
(* whole or not at all.  The keychain and GitHub may refuse.  Time is a    *)
(* counter; a token is its expiry time.                                    *)
(***************************************************************************)
EXTENDS Naturals, FiniteSets

CONSTANTS Providers,     \* ids of providers, "default" among them
          Builders,      \* concurrent calls of the provider factory
          TokenLife,     \* a token's life
          Window,        \* the refresh window before the expiry
          MaxTime,       \* bound: the clock
          MaxRefreshers, \* bound: refresh tasks spawned
          MaxCrashes     \* bound: crashes of the process

ASSUME LlmConfigAssumption ==
    /\ "default" \in Providers /\ Window \in Nat /\ TokenLife \in Nat /\ MaxTime \in Nat
    /\ MaxRefreshers \in Nat /\ MaxCrashes \in Nat

None == "none"

VARIABLES
    registry,   \* the registry in memory: its providers and the default
    disk,       \* providers.json
    legacy,     \* config.json: "absent", "key" or "scrubbed"
    keychain,   \* the migrated key is in the keychain
    migrating,  \* where run_migration is
    crashes,
    now,
    cached,     \* the cache entry: the token's expiry and its refresh task
    builder,    \* what each call of build is doing, and its token: 0 for none
    refresher   \* the refresh tasks: their place and wake-up time

regVars == <<registry, disk, legacy, keychain, migrating, crashes>>
tokVars == <<now, cached, builder, refresher>>
cfgVars == <<regVars, tokVars>>

NoToken == [exp |-> 0, task |-> 0]
Unbuilt == [pc |-> "idle", token |-> 0]

-----------------------------------------------------------------------------
(* The registry.                                                           *)

EmptyFile == [providers |-> {}, default |-> None]

\* persist: the file takes the memory's content, or the write fails.
persist(file) == disk' \in {file, disk}

\* load_from, in a new process.
load_from == registry' = disk

upsert(p, asDefault) ==
    /\ migrating = None
    /\ registry' = [providers |-> registry.providers \union {p},
                    default |-> IF asDefault THEN p ELSE registry.default]
    /\ persist(registry') /\ UNCHANGED <<legacy, keychain, migrating, crashes, tokVars>>

\* remove: a default that is removed is cleared.
Removed(p) == [providers |-> registry.providers \ {p},
               default |-> IF registry.default = p THEN None ELSE registry.default]

\* The file is written only when the provider was there.
remove(p) ==
    /\ migrating = None
    /\ registry' = Removed(p)
    /\ IF p \in registry.providers THEN persist(registry') ELSE UNCHANGED disk
    /\ UNCHANGED <<legacy, keychain, migrating, crashes, tokVars>>

set_default(p) ==
    /\ migrating = None /\ p \in registry.providers
    /\ registry' = [registry EXCEPT !.default = p]
    /\ persist(registry') /\ UNCHANGED <<legacy, keychain, migrating, crashes, tokVars>>

-----------------------------------------------------------------------------
(* run_migration: load, guard, create the entry, move the key.             *)

\* The entry is created only if there is none and a legacy file exists.
MigrationStarts ==
    /\ migrating = None /\ load_from
    /\ "default" \notin disk.providers /\ legacy # "absent"
    /\ migrating' = "entry"
    /\ UNCHANGED <<disk, legacy, keychain, crashes, tokVars>>

\* upsert of the entry; a failed write ends the migration with an error.
MigrateEntry ==
    /\ migrating = "entry"
    /\ registry' = [providers |-> registry.providers \union {"default"}, default |-> "default"]
    /\ \/ disk' = registry' /\ migrating' = IF legacy = "key" THEN "key" ELSE None
       \/ UNCHANGED disk /\ migrating' = None
    /\ UNCHANGED <<legacy, keychain, crashes, tokVars>>

\* store_token: a keychain that refuses ends the migration.
MigrateKey ==
    /\ migrating = "key"
    /\ \/ keychain' = TRUE /\ migrating' = "scrub"
       \/ migrating' = None /\ UNCHANGED keychain
    /\ UNCHANGED <<registry, disk, legacy, crashes, tokVars>>

\* The secret is removed from config.json, or the write fails.
MigrateScrub ==
    /\ migrating = "scrub"
    /\ legacy' \in {legacy, "scrubbed"} /\ migrating' = None
    /\ UNCHANGED <<registry, disk, keychain, crashes, tokVars>>

\* The process dies and starts again: memory, cache and tasks are gone.
Crash ==
    /\ crashes < MaxCrashes
    /\ crashes' = crashes + 1 /\ load_from /\ migrating' = None
    /\ cached' = NoToken /\ refresher' = [i \in {} |-> 0]
    /\ builder' = [b \in Builders |-> Unbuilt]
    /\ UNCHANGED <<disk, legacy, keychain, now>>

-----------------------------------------------------------------------------
(* CopilotTokenCache.  An entry with task 0 is no entry.                   *)

\* copilot_token_needs_refresh
NeedsRefresh(exp) == now + Window >= exp

\* A task is cancelled when the entry that holds its sender is replaced.
Cancelled(i) == cached.task # i

NextTask == Cardinality(DOMAIN refresher) + 1

\* A slip: the task of the entry that is replaced is kept.
MInserted(exp) ==
    /\ NextTask <= MaxRefreshers
    /\ cached' = [exp |-> exp, task |-> IF cached.task = 0 THEN NextTask ELSE cached.task]
    /\ refresher' = [i \in DOMAIN refresher \union {NextTask} |->
           IF i = NextTask THEN [pc |-> "new", wake |-> 0] ELSE refresher[i]]

\* A token is cached with a task of its own.
Inserted(exp) ==
    /\ NextTask <= MaxRefreshers
    /\ cached' = [exp |-> exp, task |-> NextTask]
    /\ refresher' = [i \in DOMAIN refresher \union {NextTask} |->
           IF i = NextTask THEN [pc |-> "new", wake |-> 0] ELSE refresher[i]]

\* get_token: a cached token outside the window is returned.
GetCached(b) ==
    /\ builder[b].pc = "idle" /\ cached.task # 0 /\ ~NeedsRefresh(cached.exp)
    /\ builder' = [builder EXCEPT ![b] = [pc |-> "built", token |-> cached.exp]]
    /\ UNCHANGED <<now, cached, refresher, regVars>>

\* get_token: otherwise an exchange starts, without the lock.
GetExchange(b) ==
    /\ builder[b].pc = "idle" /\ (cached.task = 0 \/ NeedsRefresh(cached.exp))
    /\ builder' = [builder EXCEPT ![b].pc = "exchange"]
    /\ UNCHANGED <<now, cached, refresher, regVars>>

\* exchange_for_copilot_token answers.
Exchanged(b) ==
    /\ builder[b].pc = "exchange"
    /\ Inserted(now + TokenLife)
    /\ builder' = [builder EXCEPT ![b] = [pc |-> "built", token |-> now + TokenLife]]
    /\ UNCHANGED <<now, regVars>>

\* The exchange fails: build falls back to the GitHub token itself.
ExchangeFails(b) ==
    /\ builder[b].pc = "exchange"
    /\ builder' = [builder EXCEPT ![b] = [pc |-> "built", token |-> 0]]
    /\ UNCHANGED <<now, cached, refresher, regVars>>

\* The provider is done with; the next run builds another.
Rebuild(b) ==
    /\ builder[b].pc = "built"
    /\ builder' = [builder EXCEPT ![b] = Unbuilt]
    /\ UNCHANGED <<now, cached, refresher, regVars>>

\* spawn_refresh: the task reads the entry of its key and sleeps.
RefreshSleeps(i) ==
    /\ refresher[i].pc = "new" /\ cached.task # 0
    /\ refresher' = [refresher EXCEPT ![i] =
           [pc |-> "sleep", wake |-> IF cached.exp > Window + now THEN cached.exp - Window ELSE now]]
    /\ UNCHANGED <<now, cached, builder, regVars>>

\* The select: cancelled, or time to refresh.
RefreshCancelled(i) ==
    /\ refresher[i].pc = "sleep" /\ Cancelled(i)
    /\ refresher' = [refresher EXCEPT ![i].pc = "ended"]
    /\ UNCHANGED <<now, cached, builder, regVars>>

RefreshWakes(i) ==
    /\ refresher[i].pc = "sleep" /\ now >= refresher[i].wake
    /\ refresher' = [refresher EXCEPT ![i].pc = "exchange"]
    /\ UNCHANGED <<now, cached, builder, regVars>>

\* The exchange succeeds: the entry is replaced and the next task spawned.
Refreshed(i) ==
    /\ refresher[i].pc = "exchange" /\ NextTask <= MaxRefreshers
    /\ cached' = [exp |-> now + TokenLife, task |-> NextTask]
    /\ refresher' = [x \in DOMAIN refresher \union {NextTask} |->
           CASE x = NextTask -> [pc |-> "new", wake |-> 0]
             [] x = i -> [refresher[i] EXCEPT !.pc = "ended"]
             [] OTHER -> refresher[x]]
    /\ UNCHANGED <<now, builder, regVars>>

\* A failure is logged and the chain of refreshes ends.
RefreshFails(i) ==
    /\ refresher[i].pc = "exchange"
    /\ refresher' = [refresher EXCEPT ![i].pc = "failed"]
    /\ UNCHANGED <<now, cached, builder, regVars>>

Tick ==
    /\ now < MaxTime /\ now' = now + 1
    /\ UNCHANGED <<cached, builder, refresher, regVars>>

-----------------------------------------------------------------------------
CfgInit ==
    /\ registry = EmptyFile /\ disk = EmptyFile /\ legacy \in {"absent", "key"}
    /\ keychain = FALSE /\ migrating = None /\ crashes = 0 /\ now = 0
    /\ cached = NoToken /\ refresher = [i \in {} |-> 0]
    /\ builder = [b \in Builders |-> Unbuilt]

RegNext ==
    \/ \E p \in Providers : (\E d \in BOOLEAN : upsert(p, d)) \/ remove(p) \/ set_default(p)
    \/ MigrationStarts \/ MigrateEntry \/ MigrateKey \/ MigrateScrub \/ Crash

TokNext ==
    \/ \E b \in Builders : GetCached(b) \/ GetExchange(b) \/ Exchanged(b) \/ ExchangeFails(b) \/ Rebuild(b)
    \/ \E i \in DOMAIN refresher :
          RefreshSleeps(i) \/ RefreshCancelled(i) \/ RefreshWakes(i) \/ Refreshed(i) \/ RefreshFails(i)
    \/ Tick

-----------------------------------------------------------------------------
CfgNext == RegNext \/ TokNext
CfgSpec == CfgInit /\ [][CfgNext]_cfgVars

-----------------------------------------------------------------------------
Times == 0..(MaxTime + TokenLife)

CfgTypeOK ==
    /\ {registry, disk} \subseteq [providers : SUBSET Providers, default : Providers \cup {None}]
    /\ legacy \in {"absent", "key", "scrubbed"} /\ keychain \in BOOLEAN
    /\ migrating \in {None, "entry", "key", "scrub"} /\ crashes \in 0..MaxCrashes /\ now \in 0..MaxTime
    /\ cached \in [exp : Times, task : 0..MaxRefreshers]
    /\ builder \in [Builders -> [pc : {"idle", "exchange", "built"}, token : Times]]
    /\ \E n \in 0..MaxRefreshers : DOMAIN refresher = 1..n
    /\ refresher \in [DOMAIN refresher -> [pc : {"new", "sleep", "exchange", "ended", "failed"}, wake : Times]]

\* However builds and refreshes overlap, the token in the cache is tended: the
\* task that holds its entry has not been cancelled and has not handed over to
\* another, unless an exchange of its own failed, and while it sleeps it is to
\* wake when this token enters the refresh window, not when the one before it
\* did (CopilotTokenCache::get_token, spawn_refresh).
TokenIsTended ==
    cached.task # 0 =>
        /\ cached.task \in DOMAIN refresher /\ refresher[cached.task].pc # "ended"
        /\ refresher[cached.task].pc = "sleep" =>
              refresher[cached.task].wake + Window = cached.exp \/ NeedsRefresh(cached.exp)
=============================================================================
