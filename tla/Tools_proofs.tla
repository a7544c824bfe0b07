---------------------------- MODULE Tools_proofs ----------------------------
(***************************************************************************)
(* Proofs about what the agents work with: the token cache (LlmConfig),    *)
(* the memory namespaces and the session (SessionMemory), the terminals    *)
(* (Terminals), the file and repository tools and the paths they resolve   *)
(* (WorkspaceTools), the documents of a flow (Documents), the definition   *)
(* files (Definitions) and the graphs (Orchestrator).  Each part has an    *)
(* inductive invariant of its own.                                         *)
(***************************************************************************)
EXTENDS LlmConfig, SessionMemory, Terminals, WorkspaceTools, Documents, Definitions, Orchestrator,
        RecursionLemmas, FiniteSetTheorems, SequenceTheorems, TLAPS

-----------------------------------------------------------------------------
(* LlmConfig: the cache of tokens                                          *)

ProviderFiles == [providers : SUBSET Providers, default : Providers \cup {None}]
RefreshTasks == [pc : {"new", "sleep", "exchange", "ended", "failed"}, wake : Times]

\* The registry, its file and the migration.
RegTypeOK ==
    /\ registry \in ProviderFiles /\ disk \in ProviderFiles
    /\ legacy \in {"absent", "key", "scrubbed"} /\ keychain \in BOOLEAN
    /\ migrating \in {None, "entry", "key", "scrub"} /\ crashes \in 0..MaxCrashes
\* The cache and its tasks, which are numbered from 1.
TokTypeOK ==
    /\ now \in 0..MaxTime /\ cached \in [exp : Times, task : 0..MaxRefreshers]
    /\ builder \in [Builders -> [pc : {"idle", "exchange", "built"}, token : Times]]
    /\ \E n \in 0..MaxRefreshers : DOMAIN refresher = 1..n
    /\ refresher \in [DOMAIN refresher -> RefreshTasks]

\* The type invariant of the module in two parts, one per group of variables.
LEMMA CfgTypeParts == CfgTypeOK <=> RegTypeOK /\ TokTypeOK
  BY DEF CfgTypeOK, RegTypeOK, TokTypeOK, ProviderFiles, RefreshTasks

\* A numbered set of tasks has a next number, which no task has.
LEMMA NumberedTasks ==
  ASSUME TokTypeOK
  PROVE  \E n \in Nat : DOMAIN refresher = 1..n /\ NextTask = n + 1
<1>1. PICK n \in Nat : DOMAIN refresher = 1..n
  BY LlmConfigAssumption DEF TokTypeOK
<1>2. Cardinality(1..n) = n
  BY FS_Interval
<1> QED BY <1>1, <1>2 DEF NextTask

\* The inductive invariant: TokenIsTended is inductive beside the types.
CfgInv == CfgTypeOK /\ TokenIsTended

LEMMA CfgInitial == CfgInit => CfgInv
<1> SUFFICES ASSUME CfgInit PROVE CfgInv
  OBVIOUS
<1>1. RegTypeOK
  <2>1. EmptyFile \in ProviderFiles
    BY DEF ProviderFiles, EmptyFile
  <2>2. 0 \in 0..MaxCrashes
    BY LlmConfigAssumption
  <2> QED BY <2>1, <2>2 DEF CfgInit, RegTypeOK
<1>2. TokTypeOK
  <2>1. DOMAIN refresher = 1..0 /\ refresher \in [DOMAIN refresher -> RefreshTasks]
    BY DEF CfgInit
  <2>2. now \in 0..MaxTime /\ cached \in [exp : Times, task : 0..MaxRefreshers] /\ 0 \in Times
    BY LlmConfigAssumption DEF CfgInit, NoToken, Times
  <2>3. builder \in [Builders -> [pc : {"idle", "exchange", "built"}, token : Times]]
    BY <2>2 DEF CfgInit, Unbuilt
  <2> QED BY <2>1, <2>2, <2>3, LlmConfigAssumption DEF TokTypeOK
<1>3. TokenIsTended
  BY DEF CfgInit, TokenIsTended, NoToken
<1> QED BY <1>1, <1>2, <1>3, CfgTypeParts DEF CfgInv

\* A step of the registry or the migration leaves the cache alone.
LEMMA RegistrySteps ==
  ASSUME RegTypeOK, RegNext, ~Crash
  PROVE  RegTypeOK' /\ UNCHANGED tokVars
<1>1. CASE \E p \in Providers : (\E d \in BOOLEAN : upsert(p, d)) \/ remove(p) \/ set_default(p)
  <2> PICK p \in Providers : (\E d \in BOOLEAN : upsert(p, d)) \/ remove(p) \/ set_default(p)
    BY <1>1
  <2>1. CASE \E d \in BOOLEAN : upsert(p, d)
    <3> PICK d \in BOOLEAN : upsert(p, d)
      BY <2>1
    <3>1. registry' \in ProviderFiles
      BY DEF upsert, RegTypeOK, ProviderFiles
    <3> QED BY <3>1 DEF upsert, persist, RegTypeOK
  <2>2. CASE remove(p)
    <3>1. registry' \in ProviderFiles
      BY <2>2 DEF remove, Removed, RegTypeOK, ProviderFiles
    <3>2. disk' \in ProviderFiles
      BY <2>2, <3>1 DEF remove, persist, RegTypeOK
    <3> QED BY <2>2, <3>1, <3>2 DEF remove, RegTypeOK
  <2>3. CASE set_default(p)
    <3>1. registry' \in ProviderFiles
      BY <2>3 DEF set_default, RegTypeOK, ProviderFiles
    <3> QED BY <2>3, <3>1 DEF set_default, persist, RegTypeOK
  <2> QED BY <2>1, <2>2, <2>3
<1>2. CASE MigrationStarts
  BY <1>2 DEF MigrationStarts, load_from, RegTypeOK
<1>3. CASE MigrateEntry
  <2>1. registry' \in ProviderFiles
    BY <1>3, LlmConfigAssumption DEF MigrateEntry, RegTypeOK, ProviderFiles
  <2> QED BY <1>3, <2>1 DEF MigrateEntry, RegTypeOK
<1>4. CASE MigrateKey
  BY <1>4 DEF MigrateKey, RegTypeOK
<1>5. CASE MigrateScrub
  BY <1>5 DEF MigrateScrub, RegTypeOK
<1> QED BY <1>1, <1>2, <1>3, <1>4, <1>5 DEF RegNext

\* Nothing is cached after a crash.
LEMMA CrashSteps ==
  ASSUME RegTypeOK, TokTypeOK, Crash
  PROVE  RegTypeOK' /\ TokTypeOK' /\ TokenIsTended'
<1>1. RegTypeOK'
  <2>1. crashes' \in 0..MaxCrashes
    BY LlmConfigAssumption DEF Crash, RegTypeOK
  <2> QED BY <2>1 DEF Crash, load_from, RegTypeOK
<1>2. 0 \in Times /\ 0 \in 0..MaxRefreshers
  BY LlmConfigAssumption DEF Times
<1>3. DOMAIN refresher' = 1..0 /\ refresher' \in [DOMAIN refresher' -> RefreshTasks]
  BY DEF Crash
<1>4. builder' \in [Builders -> [pc : {"idle", "exchange", "built"}, token : Times]]
  BY <1>2 DEF Crash, Unbuilt
<1>5. cached' = NoToken /\ now' = now
  BY DEF Crash
<1> QED BY <1>1, <1>2, <1>3, <1>4, <1>5 DEF TokTypeOK, TokenIsTended, NoToken

\* A step of a caller: the cache changes by an insert only.
LEMMA BuilderSteps ==
  ASSUME TokTypeOK, TokenIsTended, NEW b \in Builders,
         GetCached(b) \/ GetExchange(b) \/ Exchanged(b) \/ ExchangeFails(b) \/ Rebuild(b)
  PROVE  TokTypeOK' /\ TokenIsTended' /\ UNCHANGED regVars
<1>1. builder' \in [Builders -> [pc : {"idle", "exchange", "built"}, token : Times]]
  <2>1. 0 \in Times /\ now + TokenLife \in Times /\ cached.exp \in Times
    BY LlmConfigAssumption DEF Times, TokTypeOK
  <2> QED BY <2>1 DEF TokTypeOK, GetCached, GetExchange, Exchanged, ExchangeFails, Rebuild, Unbuilt
<1>2. CASE Exchanged(b)
  <2>1. PICK n \in Nat : DOMAIN refresher = 1..n /\ NextTask = n + 1
    BY NumberedTasks
  <2>2. /\ n + 1 \in 0..MaxRefreshers /\ cached' = [exp |-> now + TokenLife, task |-> n + 1]
        /\ DOMAIN refresher' = 1..(n + 1)
        /\ \A i \in 1..(n + 1) : refresher'[i] = IF i = n + 1 THEN [pc |-> "new", wake |-> 0] ELSE refresher[i]
        /\ now' = now
    BY <1>2, <2>1, LlmConfigAssumption DEF Exchanged, Inserted
  <2>3. refresher' = [i \in 1..(n + 1) |-> refresher'[i]]
    BY <1>2, <2>1 DEF Exchanged, Inserted
  <2>4. 0 \in Times /\ now + TokenLife \in Times
    BY LlmConfigAssumption DEF Times, TokTypeOK
  <2>5. \A i \in 1..(n + 1) : refresher'[i] \in RefreshTasks
    BY <2>1, <2>2, <2>4 DEF TokTypeOK, RefreshTasks
  <2>6. TokTypeOK'
    BY <1>1, <2>2, <2>3, <2>4, <2>5 DEF TokTypeOK
  <2>7. TokenIsTended'
    BY <2>2 DEF TokenIsTended
  <2> QED BY <1>2, <2>6, <2>7 DEF Exchanged
<1>3. CASE ~Exchanged(b)
  <2>1. UNCHANGED <<now, cached, refresher, regVars>>
    BY <1>3 DEF GetCached, GetExchange, ExchangeFails, Rebuild
  <2>2. TokTypeOK'
    BY <1>1, <2>1 DEF TokTypeOK
  <2>3. TokenIsTended'
    BY <2>1 DEF TokenIsTended, NeedsRefresh
  <2> QED BY <2>1, <2>2, <2>3
<1> QED BY <1>2, <1>3

\* A step of a task: the next one is spawned, or it changes its own place.  The
\* task of the entry ends only by handing the entry over.
LEMMA RefresherSteps ==
  ASSUME TokTypeOK, TokenIsTended, NEW i \in DOMAIN refresher,
         RefreshSleeps(i) \/ RefreshCancelled(i) \/ RefreshWakes(i) \/ Refreshed(i) \/ RefreshFails(i)
  PROVE  TokTypeOK' /\ TokenIsTended' /\ UNCHANGED regVars
<1>1. CASE Refreshed(i)
  <2>1. PICK n \in Nat : DOMAIN refresher = 1..n /\ NextTask = n + 1
    BY NumberedTasks
  <2>2. /\ n + 1 \in 0..MaxRefreshers /\ cached' = [exp |-> now + TokenLife, task |-> n + 1]
        /\ DOMAIN refresher' = 1..(n + 1)
        /\ now' = now /\ builder' = builder /\ UNCHANGED regVars
    BY <1>1, <2>1, LlmConfigAssumption, SMTT(30) DEF Refreshed
  <2>3. refresher'[n + 1] = [pc |-> "new", wake |-> 0]
    BY <1>1, <2>1 DEF Refreshed
  <2>4. \A x \in 1..n : refresher'[x] = IF x = i THEN [refresher[i] EXCEPT !.pc = "ended"] ELSE refresher[x]
    BY <1>1, <2>1 DEF Refreshed
  <2>5. refresher' = [x \in 1..(n + 1) |-> refresher'[x]]
    BY <1>1, <2>1 DEF Refreshed
  <2>6. 0 \in Times /\ now + TokenLife \in Times
    BY LlmConfigAssumption DEF Times, TokTypeOK
  <2>7. \A x \in 1..n : refresher'[x] \in RefreshTasks
    BY <2>1, <2>4 DEF TokTypeOK, RefreshTasks
  <2>8. refresher'[n + 1] \in RefreshTasks
    BY <2>3, <2>6 DEF RefreshTasks
  <2>9. \A x \in 1..(n + 1) : refresher'[x] \in RefreshTasks
    BY <2>7, <2>8
  <2>10. TokTypeOK'
    BY <2>2, <2>5, <2>6, <2>9 DEF TokTypeOK
  <2>11. TokenIsTended'
    BY <2>2, <2>3 DEF TokenIsTended
  <2> QED BY <2>2, <2>10, <2>11
<1>2. CASE ~Refreshed(i)
  <2>1. UNCHANGED <<now, cached, builder, regVars>>
    BY <1>2 DEF RefreshSleeps, RefreshCancelled, RefreshWakes, RefreshFails
  <2>2. PICK v : refresher' = [refresher EXCEPT ![i] = v] /\ v \in RefreshTasks /\
                  (i = cached.task => v.pc # "ended" /\
                      (v.pc = "sleep" => v.wake + Window = cached.exp \/ NeedsRefresh(cached.exp)))
    <3>1. CASE RefreshSleeps(i)
      <4> DEFINE w == IF cached.exp > Window + now THEN cached.exp - Window ELSE now
      <4>1. /\ w \in Times
            /\ w + Window = cached.exp \/ NeedsRefresh(cached.exp)
        BY LlmConfigAssumption, SMTT(30) DEF Times, TokTypeOK, NeedsRefresh
      <4>2. refresher' = [refresher EXCEPT ![i] = [pc |-> "sleep", wake |-> w]]
        BY <3>1 DEF RefreshSleeps
      <4> HIDE DEF w
      <4> DEFINE v == [pc |-> "sleep", wake |-> w]
      <4>3. v \in RefreshTasks /\ v.pc = "sleep" /\ v.wake = w /\ refresher' = [refresher EXCEPT ![i] = v]
        BY <4>1, <4>2 DEF RefreshTasks
      <4> HIDE DEF v
      <4> QED BY <4>1, <4>3
    <3>2. CASE RefreshCancelled(i) \/ RefreshWakes(i) \/ RefreshFails(i)
      <4>1. PICK pc \in {"ended", "exchange", "failed"} :
                refresher' = [refresher EXCEPT ![i].pc = pc] /\ (pc = "ended" => i # cached.task)
        BY <3>2 DEF RefreshCancelled, RefreshWakes, RefreshFails, Cancelled
      <4> DEFINE v == [refresher[i] EXCEPT !.pc = pc]
      <4>2. refresher' = [refresher EXCEPT ![i] = v] /\ v \in RefreshTasks /\ v.pc = pc
        BY <4>1 DEF TokTypeOK, RefreshTasks
      <4> HIDE DEF v
      <4> QED BY <4>1, <4>2
    <3> QED BY <1>2, <3>1, <3>2
  <2>3. /\ DOMAIN refresher' = DOMAIN refresher /\ refresher'[i] = v
        /\ \A x \in DOMAIN refresher : x # i => refresher'[x] = refresher[x]
        /\ refresher' \in [DOMAIN refresher' -> RefreshTasks]
    BY <2>2 DEF TokTypeOK
  <2>4. TokTypeOK'
    BY <2>1, <2>3 DEF TokTypeOK
  <2>5. TokenIsTended'
    BY <2>1, <2>2, <2>3 DEF TokenIsTended, NeedsRefresh
  <2> QED BY <2>1, <2>4, <2>5
<1> QED BY <1>1, <1>2

LEMMA CfgStep == CfgInv /\ [CfgNext]_cfgVars => CfgInv'
<1> SUFFICES ASSUME CfgInv, [CfgNext]_cfgVars PROVE CfgInv'
  OBVIOUS
<1>0. RegTypeOK /\ TokTypeOK /\ TokenIsTended
  BY CfgTypeParts DEF CfgInv
<1>1. ASSUME UNCHANGED tokVars PROVE TokTypeOK' /\ TokenIsTended'
  BY <1>0, <1>1 DEF tokVars, TokTypeOK, TokenIsTended, NeedsRefresh
<1>2. ASSUME UNCHANGED regVars PROVE RegTypeOK'
  BY <1>0, <1>2 DEF regVars, RegTypeOK
<1>3. RegTypeOK' /\ TokTypeOK' /\ TokenIsTended'
  <2>1. CASE RegNext
    BY <1>0, <1>1, <2>1, RegistrySteps, CrashSteps
  <2>2. CASE TokNext
    <3>1. CASE \E b \in Builders : GetCached(b) \/ GetExchange(b) \/ Exchanged(b) \/ ExchangeFails(b) \/ Rebuild(b)
      BY <1>0, <1>2, <3>1, BuilderSteps
    <3>2. CASE \E i \in DOMAIN refresher : RefreshSleeps(i) \/ RefreshCancelled(i) \/ RefreshWakes(i)
                                           \/ Refreshed(i) \/ RefreshFails(i)
      BY <1>0, <1>2, <3>2, RefresherSteps
    <3>3. CASE Tick
      <4>1. now' \in 0..MaxTime /\ now' = now + 1 /\ UNCHANGED <<cached, builder, refresher, regVars>>
        BY <1>0, <3>3, LlmConfigAssumption DEF Tick, TokTypeOK
      <4>2. NeedsRefresh(cached.exp) => NeedsRefresh(cached.exp)'
        BY <1>0, <4>1, LlmConfigAssumption DEF TokTypeOK, NeedsRefresh, Times
      <4>3. TokTypeOK'
        BY <1>0, <4>1 DEF TokTypeOK
      <4>4. TokenIsTended'
        BY <1>0, <4>1, <4>2 DEF TokenIsTended
      <4> QED BY <1>2, <4>1, <4>3, <4>4
    <3> QED BY <2>2, <3>1, <3>2, <3>3 DEF TokNext
  <2>3. CASE UNCHANGED cfgVars
    BY <1>1, <1>2, <2>3 DEF cfgVars
  <2> QED BY <2>1, <2>2, <2>3 DEF CfgNext
<1>4. CfgTypeOK'
  BY <1>3 DEF CfgTypeOK, RegTypeOK, TokTypeOK, ProviderFiles, RefreshTasks
<1> QED BY <1>3, <1>4 DEF CfgInv

\* The registry of providers and the token cache keep their types.
THEOREM CfgTypeCorrect == CfgSpec => []CfgTypeOK
<1>1. CfgInv => CfgTypeOK
  BY DEF CfgInv
<1> QED BY <1>1, CfgInitial, CfgStep, PTL DEF CfgSpec

\* For any number of builds and refreshes, in any order, the token in the
\* cache has a live task that wakes in time for it, unless an exchange of that
\* task failed (CopilotTokenCache).
THEOREM TokenCorrect == CfgSpec => []TokenIsTended
<1>1. CfgInv => TokenIsTended
  BY DEF CfgInv
<1> QED BY <1>1, CfgInitial, CfgStep, PTL DEF CfgSpec

-----------------------------------------------------------------------------
(* SessionMemory: the namespaces                                           *)

Stores == [loaded : BOOLEAN, entries : Entries, index : Entries]

\* The write that holds the mutex is in the loaded namespace and not yet
\* acknowledged.
Pending ==
    writing.pc # "idle" =>
        /\ writing.ns \in Namespaces /\ writing.key \in Keys /\ writing.value \in Values
        /\ stores[writing.ns].loaded /\ stores[writing.ns].entries[writing.key] = writing.value
\* The index is always built over the entries.
IndexIsFresh == \A n \in Namespaces : stores[n].index = stores[n].entries
\* The first part of AckedIsKept.
Durable ==
    \A n \in Namespaces, k \in Keys : acked[n][k] # Nothing =>
        /\ files[n] # Torn => files[n][k] = acked[n][k]
        /\ stores[n].loaded => stores[n].entries[k] = acked[n][k]
\* Legacy entries are migrated before anything can empty their map.
Migrates == \A k \in toMigrate : oldMemory[k] # Nothing

MemInv == MemTypeOK /\ Pending /\ IndexIsFresh /\ Durable /\ Migrates

\* What a search hits is what the loaded namespace holds.
LEMMA MemInvSuffices == MemInv => AckedIsKept
<1> SUFFICES ASSUME MemInv PROVE AckedIsKept
  OBVIOUS
<1>1. ASSUME NEW n \in Namespaces, NEW q \in Values, stores[n].loaded
      PROVE  Hits(n, q) = {k \in Keys \ {Summary} : stores[n].entries[k] = q}
  BY <1>1 DEF MemInv, IndexIsFresh, Hits, load
<1> QED BY <1>1 DEF MemInv, Durable, AckedIsKept

LEMMA MemInitial == MemoryInit => MemInv
<1> SUFFICES ASSUME MemoryInit PROVE MemInv
  OBVIOUS
<1>1. Empty \in Entries
  BY DEF Empty, Entries
<1>2. oldMemory \in Entries
  BY <1>1, MemoryAssumption DEF MemoryInit, Entries
<1>3. NotLoaded \in Stores /\ ~NotLoaded.loaded /\ NotLoaded.index = NotLoaded.entries
  BY <1>1 DEF Stores, NotLoaded
<1>4. stores \in [Namespaces -> Stores] /\ files \in [Namespaces -> Entries \cup {Torn}] /\ acked \in [Namespaces -> Entries]
  BY <1>1, <1>3 DEF MemoryInit
<1>5. MemTypeOK
  BY <1>1, <1>2, <1>4, MemoryAssumption DEF MemoryInit, MemTypeOK, NoWrite, Stores
<1>6. Pending
  BY DEF MemoryInit, Pending, NoWrite
<1>7. IndexIsFresh
  BY <1>3 DEF MemoryInit, IndexIsFresh
<1>8. Durable
  BY DEF MemoryInit, Durable, Empty
<1>9. Migrates
  BY DEF MemoryInit, Migrates
<1> QED BY <1>5, <1>6, <1>7, <1>8, <1>9 DEF MemInv

\* What a load gives, and which acknowledged writes it keeps.
LEMMA LoadFacts ==
  ASSUME MemInv, NEW n \in Namespaces
  PROVE  /\ load(n) \in Stores /\ load(n).loaded /\ load(n).index = load(n).entries
         /\ StillAcked(n) \in Entries
         /\ \A k \in Keys : StillAcked(n)[k] # Nothing =>
               /\ load(n).entries[k] = StillAcked(n)[k]
               /\ files[n] # Torn => files[n][k] = StillAcked(n)[k]
<1>1. Empty \in Entries /\ \A k \in Keys : Empty[k] = Nothing
  BY DEF Empty, Entries
<1>2. stores[n] \in Stores /\ files[n] \in Entries \cup {Torn} /\ acked[n] \in Entries
  BY DEF MemInv, MemTypeOK, Stores
<1>3. CASE stores[n].loaded
  <2>1. load(n) = stores[n] /\ StillAcked(n) = acked[n]
    BY <1>3 DEF load, StillAcked
  <2> QED BY <1>2, <1>3, <2>1 DEF MemInv, IndexIsFresh, Durable
<1>4. CASE ~stores[n].loaded
  <2> DEFINE e == IF files[n] = Torn THEN Empty ELSE files[n]
  <2>1. e \in Entries
    BY <1>1, <1>2
  <2>2. load(n) = [loaded |-> TRUE, entries |-> e, index |-> e]
    BY <1>4 DEF load
  <2>3. StillAcked(n) = IF files[n] = Torn THEN Empty ELSE acked[n]
    BY <1>4 DEF StillAcked
  <2>4. \A k \in Keys : StillAcked(n)[k] # Nothing => e[k] = StillAcked(n)[k] /\ (files[n] # Torn => files[n][k] = StillAcked(n)[k])
    BY <1>1, <2>3 DEF MemInv, Durable
  <2>5. StillAcked(n) \in Entries
    BY <1>1, <1>2, <2>3
  <2> HIDE DEF e
  <2>6. load(n) \in Stores /\ load(n).loaded /\ load(n).index = e /\ load(n).entries = e
    BY <2>1, <2>2 DEF Stores
  <2> QED BY <2>4, <2>5, <2>6
<1> QED BY <1>3, <1>4

\* MemoryManager::write up to the flush keeps the invariant, whoever calls it.
LEMMA WriteStep ==
  ASSUME MemInv, NEW n \in Namespaces, NEW k \in Keys, NEW v \in Values,
         write(n, k, v), UNCHANGED files
  PROVE  /\ stores' \in [Namespaces -> Stores] /\ acked' \in [Namespaces -> Entries]
         /\ writing' \in [ns : Namespaces \cup {Nothing}, key : Keys \cup {Nothing}, value : Values \cup {Nothing},
                          pc : {"idle", "flush", "open"}]
         /\ Pending' /\ IndexIsFresh' /\ Durable'
<1> DEFINE e == [load(n).entries EXCEPT ![k] = v]
           s == [load(n) EXCEPT !.entries = e, !.index = e]
           a == [StillAcked(n) EXCEPT ![k] = Nothing]
<1>1. load(n) \in Stores /\ load(n).loaded /\ StillAcked(n) \in Entries
  BY LoadFacts
<1>2. e \in Entries /\ e[k] = v /\ \A x \in Keys \ {k} : e[x] = load(n).entries[x]
  BY <1>1 DEF Stores, Entries
<1>3. a \in Entries /\ a[k] = Nothing /\ \A x \in Keys \ {k} : a[x] = StillAcked(n)[x]
  BY <1>1 DEF Entries
<1>4. s \in Stores /\ s.loaded /\ s.entries = e /\ s.index = e
  <2> HIDE DEF e
  <2> QED BY <1>1, <1>2 DEF Stores
<1>5. \A x \in Keys : a[x] # Nothing => e[x] = a[x] /\ (files[n] # Torn => files[n][x] = a[x])
  BY <1>2, <1>3, LoadFacts
<1>6. stores' = [stores EXCEPT ![n] = s] /\ acked' = [acked EXCEPT ![n] = a]
  BY DEF write, get_or_load, Indexed, MemInv, MemTypeOK
<1>7. writing' = [ns |-> n, key |-> k, value |-> v, pc |-> "flush"]
  BY DEF write
<1> HIDE DEF e, s, a
<1>8. /\ stores' \in [Namespaces -> Stores] /\ acked' \in [Namespaces -> Entries]
      /\ stores'[n] = s /\ acked'[n] = a
      /\ \A m \in Namespaces \ {n} : stores'[m] = stores[m] /\ acked'[m] = acked[m]
  BY <1>3, <1>4, <1>6 DEF MemInv, MemTypeOK, Stores
<1>9. Pending'
  BY <1>2, <1>4, <1>7, <1>8 DEF Pending
<1>10. IndexIsFresh'
  BY <1>4, <1>8 DEF MemInv, IndexIsFresh
<1>11. Durable'
  BY <1>4, <1>5, <1>8 DEF MemInv, Durable
<1> QED BY <1>7, <1>8, <1>9, <1>10, <1>11

\* The steps of the flush.  The file that is written is the loaded namespace,
\* in which every acknowledged entry still is.
LEMMA FlushSteps ==
  ASSUME MemInv, FlushOpens \/ FlushWrites \/ FlushFails
  PROVE  MemInv'
<1> DEFINE n == writing.ns
           k == writing.key
<1>1. CASE FlushOpens
  <2>1. n \in Namespaces
    BY <1>1 DEF FlushOpens, MemInv, Pending
  <2>2. /\ files' = [files EXCEPT ![n] = Torn] /\ writing' = [writing EXCEPT !.pc = "open"]
        /\ UNCHANGED <<stores, oldMemory, toMigrate, mapped, put, acked, writes, restarts>>
    BY <1>1 DEF FlushOpens
  <2>3. /\ files' \in [Namespaces -> Entries \cup {Torn}] /\ files'[n] = Torn
        /\ \A m \in Namespaces \ {n} : files'[m] = files[m]
    BY <2>1, <2>2 DEF MemInv, MemTypeOK
  <2>4. /\ writing'.ns = n /\ writing'.key = k /\ writing'.value = writing.value
        /\ writing' \in [ns : Namespaces \cup {Nothing}, key : Keys \cup {Nothing}, value : Values \cup {Nothing},
                         pc : {"idle", "flush", "open"}]
    BY <2>2 DEF MemInv, MemTypeOK
  <2>5. Pending'
    BY <1>1, <2>2, <2>4 DEF FlushOpens, MemInv, Pending
  <2>6. Durable'
    BY <2>2, <2>3 DEF MemInv, Durable
  <2> QED BY <2>2, <2>3, <2>4, <2>5, <2>6 DEF MemInv, MemTypeOK, IndexIsFresh, Migrates
<1>2. CASE FlushWrites
  <2>1. /\ n \in Namespaces /\ k \in Keys /\ writing.value \in Values
        /\ stores[n].loaded /\ stores[n].entries[k] = writing.value /\ stores[n].entries \in Entries
    BY <1>2 DEF FlushWrites, MemInv, MemTypeOK, Pending
  <2>2. /\ files' = [files EXCEPT ![n] = stores[n].entries] /\ acked' = [acked EXCEPT ![n][k] = writing.value]
        /\ writing' = NoWrite /\ UNCHANGED <<stores, oldMemory, toMigrate, mapped, put, writes, restarts>>
    BY <1>2 DEF FlushWrites
  <2>3. /\ files' \in [Namespaces -> Entries \cup {Torn}] /\ files'[n] = stores[n].entries
        /\ \A m \in Namespaces \ {n} : files'[m] = files[m]
    BY <2>1, <2>2 DEF MemInv, MemTypeOK
  <2>4. acked[n] \in Entries
    BY <2>1 DEF MemInv, MemTypeOK
  <2>5. [acked[n] EXCEPT ![k] = writing.value] \in Entries
    BY <2>1, <2>4 DEF Entries
  <2>6. /\ acked' \in [Namespaces -> Entries] /\ acked'[n][k] = writing.value
        /\ \A x \in Keys \ {k} : acked'[n][x] = acked[n][x]
        /\ \A m \in Namespaces \ {n} : acked'[m] = acked[m]
    <3>1. acked' = [acked EXCEPT ![n] = [acked[n] EXCEPT ![k] = writing.value]]
      BY <2>2
    <3>2. acked' \in [Namespaces -> Entries] /\ acked'[n] = [acked[n] EXCEPT ![k] = writing.value]
          /\ \A m \in Namespaces \ {n} : acked'[m] = acked[m]
      BY <2>1, <2>5, <3>1 DEF MemInv, MemTypeOK
    <3> QED BY <2>1, <2>4, <3>2 DEF Entries
  <2>7. MemTypeOK'
    BY <2>2, <2>3, <2>6 DEF MemInv, MemTypeOK, NoWrite
  <2>8. Pending'
    BY <2>2 DEF Pending, NoWrite
  <2>9. Durable'
    <3> SUFFICES ASSUME NEW m \in Namespaces, NEW x \in Keys, acked'[m][x] # Nothing
                 PROVE  /\ files'[m] # Torn => files'[m][x] = acked'[m][x]
                        /\ stores'[m].loaded => stores'[m].entries[x] = acked'[m][x]
      BY DEF Durable
    <3>1. CASE m # n
      BY <2>2, <2>3, <2>6, <3>1 DEF MemInv, Durable
    <3>2. CASE m = n
      BY <2>1, <2>2, <2>3, <2>6, <3>2 DEF MemInv, Durable
    <3> QED BY <3>1, <3>2
  <2> QED BY <2>2, <2>7, <2>8, <2>9 DEF MemInv, IndexIsFresh, Migrates
<1>3. CASE FlushFails
  <2>1. writing' = NoWrite /\ UNCHANGED <<stores, files, oldMemory, toMigrate, mapped, put, acked, writes, restarts>>
    BY <1>3 DEF FlushFails
  <2> QED BY <2>1 DEF MemInv, MemTypeOK, Pending, IndexIsFresh, Durable, NoWrite, Migrates
<1> QED BY <1>1, <1>2, <1>3

\* Loading a namespace to read it.
LEMMA LookStep ==
  ASSUME MemInv, NEW n \in Namespaces, Look(n)
  PROVE  MemInv'
<1>1. /\ load(n) \in Stores /\ load(n).loaded /\ load(n).index = load(n).entries /\ StillAcked(n) \in Entries
      /\ \A k \in Keys : StillAcked(n)[k] # Nothing =>
            /\ load(n).entries[k] = StillAcked(n)[k]
            /\ files[n] # Torn => files[n][k] = StillAcked(n)[k]
  BY LoadFacts
<1>2. /\ stores' = [stores EXCEPT ![n] = load(n)] /\ acked' = [acked EXCEPT ![n] = StillAcked(n)]
      /\ UNCHANGED <<files, writing, oldMemory, toMigrate, mapped, put, writes, restarts>> /\ writing.pc = "idle"
  BY DEF Look, get_or_load
<1>3. /\ stores' \in [Namespaces -> Stores] /\ acked' \in [Namespaces -> Entries]
      /\ stores'[n] = load(n) /\ acked'[n] = StillAcked(n)
      /\ \A m \in Namespaces \ {n} : stores'[m] = stores[m] /\ acked'[m] = acked[m]
  BY <1>1, <1>2 DEF MemInv, MemTypeOK, Stores
<1>4. MemTypeOK'
  BY <1>2, <1>3 DEF MemInv, MemTypeOK, Stores
<1>5. IndexIsFresh'
  BY <1>1, <1>3 DEF MemInv, IndexIsFresh
<1>6. Durable'
  BY <1>1, <1>2, <1>3 DEF MemInv, Durable
<1>7. Pending'
  BY <1>2 DEF Pending
<1> QED BY <1>4, <1>5, <1>6, <1>7, <1>2 DEF MemInv, Migrates

\* A restart forgets what was loaded and nothing else.
LEMMA RestartStep ==
  ASSUME MemInv, Restart
  PROVE  MemInv'
<1>1. NotLoaded \in Stores /\ ~NotLoaded.loaded /\ NotLoaded.index = NotLoaded.entries
  BY DEF Stores, NotLoaded, Empty, Entries
<1>2. /\ stores' = [n \in Namespaces |-> NotLoaded] /\ writing' = NoWrite /\ mapped' = oldMemory
      /\ toMigrate' \subseteq Keys /\ UNCHANGED <<files, oldMemory, put, acked, writes>>
      /\ Migrates'
  BY DEF Restart, Migrates
<1>3. stores' \in [Namespaces -> Stores] /\ \A n \in Namespaces : ~stores'[n].loaded /\ stores'[n].index = stores'[n].entries
  BY <1>1, <1>2
<1>4. restarts' \in 0..MaxRestarts
  BY MemoryAssumption DEF Restart, MemInv, MemTypeOK
<1>5. MemTypeOK'
  BY <1>2, <1>3, <1>4 DEF MemInv, MemTypeOK, Stores, NoWrite
<1> QED BY <1>2, <1>3, <1>5 DEF MemInv, Pending, IndexIsFresh, Durable, NoWrite

LEMMA MemStep == MemInv /\ [MemoryNext]_memoryVars => MemInv'
<1> SUFFICES ASSUME MemInv, [MemoryNext]_memoryVars PROVE MemInv'
  OBVIOUS
<1>1. ASSUME UNCHANGED memVars PROVE MemInv'
  BY <1>1 DEF memVars, MemInv, MemTypeOK, Pending, IndexIsFresh, Durable, Migrates
<1>2. ASSUME NEW n \in Namespaces, NEW k \in Keys, NEW v \in Values, Write(n, k, v) PROVE MemInv'
  <2>1. write(n, k, v) /\ UNCHANGED <<files, oldMemory, toMigrate, mapped, put, restarts>>
    BY <1>2 DEF Write
  <2>2. writes' \in 0..MaxWrites
    BY <1>2, MemoryAssumption DEF Write, MemInv, MemTypeOK
  <2> QED BY <2>1, <2>2, WriteStep DEF MemInv, MemTypeOK, Stores, Migrates
<1>3. ASSUME NEW k \in Keys, Migrate(k) PROVE MemInv'
  <2> DEFINE n == CHOOSE n \in Namespaces : TRUE
  <2>1. n \in Namespaces
    BY MemoryAssumption
  <2>2. toMigrate' \subseteq Keys /\ write(n, k, oldMemory[k]) /\ UNCHANGED <<files, oldMemory, mapped, put, writes, restarts>>
    BY <1>3 DEF Migrate, MemInv, MemTypeOK
  <2>3. k \in toMigrate /\ oldMemory[k] \in Values
    BY <1>3 DEF Migrate, MemInv, MemTypeOK, Migrates, Entries
  <2>4. Migrates'
    BY <1>3 DEF Migrate, MemInv, Migrates
  <2> HIDE DEF n
  <2> QED BY <2>1, <2>2, <2>3, <2>4, WriteStep DEF MemInv, MemTypeOK, Stores
<1>4. ASSUME NEW k \in Keys, NEW v \in Values, put_memory(k, v) PROVE MemInv'
  <2>1. writes' \in 0..MaxWrites
    BY <1>4, MemoryAssumption DEF put_memory, MemInv, MemTypeOK
  <2>2. mapped' \in Entries /\ put' \in Entries /\ oldMemory' \in Entries
    BY <1>4 DEF put_memory, MemInv, MemTypeOK, Entries, Empty
  <2>3. UNCHANGED <<stores, files, writing, toMigrate, acked, restarts>>
    BY <1>4 DEF put_memory
  <2>4. Migrates'
    BY <1>4 DEF put_memory, Migrates
  <2> QED BY <2>1, <2>2, <2>3, <2>4 DEF MemInv, MemTypeOK, Pending, IndexIsFresh, Durable
<1> QED BY <1>1, <1>2, <1>3, <1>4, FlushSteps, LookStep, RestartStep DEF MemoryNext, MemNext, memoryVars

\* A memory write that returned Ok stays in its namespace and in its file, for
\* any number of namespaces, keys, writes, failures and restarts, and search
\* sees exactly what read sees (NamespaceStore).
THEOREM MemoryCorrect == MemorySpec => []AckedIsKept
  BY MemInvSuffices, MemInitial, MemStep, PTL DEF MemorySpec

-----------------------------------------------------------------------------
(* SessionMemory: the session                                              *)

\* The flush of one run.
FlushTask == [pc : {"idle", "runs", "asks", "writes"}, thread : Seq(Kinds), ns : Namespaces \cup {Nothing}]

\* Decaying a thread keeps it a thread.
LEMMA DecayedType == ASSUME NEW t \in Seq(Kinds) PROVE Decayed(t) \in Seq(Kinds)
<1> DEFINE older == Older(t)
           at == [i \in DOMAIN t |-> IF i \in older THEN (IF \A j \in older : i <= j THEN <<"summary">> ELSE <<>>) ELSE <<t[i]>>]
<1>1. DOMAIN t = 1..Len(t) /\ Len(t) \in Nat /\ \A i \in DOMAIN t : t[i] \in Kinds
  OBVIOUS
<1>2. "summary" \in Kinds
  BY DEF Kinds
<1>3. ASSUME NEW i \in DOMAIN t
      PROVE  (IF i \in older THEN (IF \A j \in older : i <= j THEN <<"summary">> ELSE <<>>) ELSE <<t[i]>>) \in Seq(Kinds)
  <2> DEFINE s == "summary"
  <2>1. s \in Kinds /\ t[i] \in Kinds
    BY <1>1, <1>2
  <2> HIDE DEF s
  <2>2. <<s>> \in Seq(Kinds) /\ <<t[i]>> \in Seq(Kinds) /\ <<>> \in Seq(Kinds)
    BY <2>1
  <2> QED BY <2>2 DEF s
<1>4. at \in Seq(Seq(Kinds))
  <2>1. \A i \in 1..Len(t) : at[i] \in Seq(Kinds)
    BY <1>1, <1>3
  <2>2. at = [i \in 1..Len(t) |-> at[i]]
    BY <1>1
  <2> HIDE DEF at
  <2> QED BY <1>1, <2>1, <2>2
<1>5. FlattenSeq(at) \in Seq(Kinds)
  <2> HIDE DEF at
  <2> QED BY <1>4, FlattenType
<1> QED BY <1>5 DEF Decayed

LEMMA IdleType == Idle \in FlushTask
<1>1. <<>> \in Seq(Kinds)
  OBVIOUS
<1> QED BY <1>1 DEF Idle, FlushTask

LEMMA SesInitial == MemoryInit => SesTypeOK
<1> SUFFICES ASSUME MemoryInit PROVE SesTypeOK
  OBVIOUS
<1>1. work \in [Flushers -> FlushTask]
  BY IdleType DEF MemoryInit
<1>2. thread \in Seq(Kinds)
  BY DEF MemoryInit
<1> QED BY <1>1, <1>2 DEF MemoryInit, SesTypeOK, FlushTask

\* One flush after another leaves types alone.
LEMMA SesStep == SesTypeOK /\ [MemoryNext]_memoryVars => SesTypeOK'
<1> SUFFICES ASSUME SesTypeOK, [MemoryNext]_memoryVars PROVE SesTypeOK'
  OBVIOUS
<1>1. binding \in Namespaces /\ thread \in Seq(Kinds) /\ work \in [Flushers -> FlushTask]
  BY DEF SesTypeOK, FlushTask
<1>2. ASSUME binding' \in Namespaces, thread' \in Seq(Kinds), work' \in [Flushers -> FlushTask] PROVE SesTypeOK'
  BY <1>2 DEF SesTypeOK, FlushTask
<1>3. ASSUME NEW n \in Namespaces, SwapMemory(n) PROVE SesTypeOK'
  BY <1>1, <1>2, <1>3 DEF SwapMemory
<1>4. ASSUME NEW r \in Flushers, Begin(r) PROVE SesTypeOK'
  <2>1. [pc |-> "runs", thread |-> thread, ns |-> binding] \in FlushTask
    BY <1>1 DEF FlushTask
  <2>2. work' \in [Flushers -> FlushTask]
    BY <1>1, <1>4, <2>1 DEF Begin
  <2> QED BY <1>1, <1>2, <1>4, <2>2 DEF Begin
<1>5. ASSUME NEW r \in Flushers, NEW k \in {"turn", "reflection"}, Say(r, k) PROVE SesTypeOK'
  <2> DEFINE u == work[r]
  <2>1. u \in FlushTask
    BY <1>1
  <2>2. k \in Kinds
    BY DEF Kinds
  <2>3. u.thread \in Seq(Kinds)
    BY <2>1 DEF FlushTask
  <2>4. Append(u.thread, k) \in Seq(Kinds)
    BY <2>2, <2>3
  <2>5. [u EXCEPT !.thread = Append(@, k)] \in FlushTask
    BY <2>1, <2>4 DEF FlushTask
  <2>6. work' = [work EXCEPT ![r] = [u EXCEPT !.thread = Append(@, k)]]
    BY <1>1, <1>5 DEF Say
  <2>7. work' \in [Flushers -> FlushTask]
    BY <1>1, <2>5, <2>6
  <2> QED BY <1>1, <1>2, <1>5, <2>7 DEF Say
<1>6. ASSUME NEW r \in Flushers, FlushThread(r) \/ Summarised(r) \/ StoreDecayed(r) PROVE SesTypeOK'
  <2>1. work[r] \in FlushTask /\ work[r].thread \in Seq(Kinds)
    BY <1>1 DEF FlushTask
  <2>2. Decayed(work[r].thread) \in Seq(Kinds)
    BY <2>1, DecayedType
  <2>3. thread' \in Seq(Kinds)
    BY <1>1, <1>6, <2>1, <2>2 DEF FlushThread, Summarised, StoreDecayed
  <2>4. [work[r] EXCEPT !.pc = "asks"] \in FlushTask /\ [work[r] EXCEPT !.pc = "writes"] \in FlushTask
    BY <2>1 DEF FlushTask
  <2>5. \/ work' = [work EXCEPT ![r] = Idle] \/ work' = [work EXCEPT ![r] = [work[r] EXCEPT !.pc = "asks"]]
        \/ work' = [work EXCEPT ![r] = [work[r] EXCEPT !.pc = "writes"]]
    BY <1>1, <1>6 DEF FlushThread, Summarised, StoreDecayed
  <2>6. work' \in [Flushers -> FlushTask]
    BY <1>1, <2>4, <2>5, IdleType
  <2>7. binding' = binding
    BY <1>6 DEF FlushThread, Summarised, StoreDecayed
  <2> QED BY <1>1, <1>2, <2>3, <2>6, <2>7
<1>7. CASE UNCHANGED sesVars
  BY <1>1, <1>2, <1>7 DEF sesVars
<1>8. CASE SesNext
  BY <1>3, <1>4, <1>5, <1>6, <1>8 DEF SesNext
<1> QED BY <1>7, <1>8 DEF MemoryNext, memoryVars, sesVars

\* The namespaces, their files and the memory map keep their types, and so do
\* the session's thread and the runs that flush it (NamespaceStore,
\* SessionManager); the thread that reflections decayed from is a thread.
THEOREM MemoryTypeCorrect == MemorySpec => []MemoryTypeOK
<1>1. MemInv /\ SesTypeOK => MemoryTypeOK
  BY DEF MemInv, MemoryTypeOK
<1> QED BY <1>1, MemInitial, MemStep, SesInitial, SesStep, PTL DEF MemorySpec

-----------------------------------------------------------------------------
(* Terminals                                                               *)

ShellRecords ==
    [owner : {NoShell, "ui", "tool"}, up : BOOLEAN, open : BOOLEAN, hup : BOOLEAN,
     printed : 0..MaxChunks, read : 0..MaxChunks, got : 0..MaxChunks,
     reader : BOOLEAN, running : BOOLEAN, exit : {"no", "sent"}, due : 0..MaxChunks, sink : BOOLEAN]

\* Facts about one session: its counts are in order, and nothing is due to the
\* user interface that its task did not forward before it ended.
SoundSession(s) ==
    /\ s \in ShellRecords
    /\ s.got <= s.read /\ s.read <= s.printed /\ s.due <= s.read
    /\ s.exit = "no" => s.due = 0
    /\ s.owner = "ui" /\ ~s.sink => s.exit = "sent" /\ s.got >= s.due

\* A shell that a manager must be able to reach.
Wanted(s) ==
    s.owner # NoShell /\ s.up /\ s.running /\ ~s.hup /\ ~(s.owner = "tool" /\ s.sink)

\* A step of one session: it stays sound, keeps its owner, and is not wanted
\* if it was not.
SessionStep(c) ==
    \E v : /\ shell' = [shell EXCEPT ![c] = v] /\ SoundSession(v) /\ v.owner = shell[c].owner
           /\ Wanted(v) => Wanted(shell[c])

\* The shell, the two threads and the task of a session, each on its own.
LEMMA SessionSteps ==
  ASSUME NEW c \in Shells, SoundSession(shell[c]),
         \/ Prints(c) \/ Exits(c) \/ Detaches(c) \/ Reads(c) \/ ReaderEnds(c) \/ Waits(c) \/ Forwards(c) \/ ForwardEnds(c)
  PROVE  SessionStep(c) /\ UNCHANGED <<managers, sessions, lostShells>>
<1> DEFINE s == shell[c]
<1>0. s \in ShellRecords
  BY DEF SoundSession
<1>1. CASE Prints(c)
  <2> DEFINE v == [s EXCEPT !.printed = @ + 1]
  <2>1. shell' = [shell EXCEPT ![c] = v] /\ UNCHANGED <<managers, sessions, lostShells>>
    BY <1>1 DEF Prints, With
  <2>2. s.printed + 1 \in 0..MaxChunks
    BY <1>0, <1>1, TerminalsAssumption DEF Prints, ShellRecords, SoundSession
  <2>3. v \in ShellRecords
    BY <1>0, <2>2 DEF ShellRecords
  <2>4. /\ v.owner = s.owner /\ v.up = s.up /\ v.hup = s.hup /\ v.read = s.read /\ v.got = s.got
        /\ v.running = s.running /\ v.exit = s.exit /\ v.due = s.due /\ v.sink = s.sink
        /\ v.printed = s.printed + 1
    BY <1>0 DEF ShellRecords
  <2> HIDE DEF v
  <2>5. SoundSession(v)
    BY <1>0, <1>1, <2>3, <2>4 DEF SoundSession, ShellRecords, Prints
  <2>6. Wanted(v) => Wanted(s)
    BY <1>1, <2>4 DEF Wanted, Prints
  <2> QED BY <2>1, <2>4, <2>5, <2>6 DEF SessionStep
<1>2. CASE Exits(c)
  <2> DEFINE v == [s EXCEPT !.up = FALSE, !.open = FALSE]
  <2>1. shell' = [shell EXCEPT ![c] = v] /\ UNCHANGED <<managers, sessions, lostShells>>
    BY <1>2 DEF Exits, With
  <2>3. v \in ShellRecords
    BY <1>0 DEF ShellRecords
  <2>4. /\ v.owner = s.owner /\ v.hup = s.hup /\ v.printed = s.printed /\ v.read = s.read /\ v.got = s.got
        /\ v.running = s.running /\ v.exit = s.exit /\ v.due = s.due /\ v.sink = s.sink
        /\ v.up = FALSE
    BY <1>0 DEF ShellRecords
  <2> HIDE DEF v
  <2>5. SoundSession(v)
    BY <1>0, <1>2, <2>3, <2>4 DEF SoundSession, ShellRecords, Exits
  <2>6. Wanted(v) => Wanted(s)
    BY <1>2, <2>4 DEF Wanted, Exits
  <2> QED BY <2>1, <2>4, <2>5, <2>6 DEF SessionStep
<1>3. CASE Detaches(c)
  <2> DEFINE v == [s EXCEPT !.open = FALSE]
  <2>1. shell' = [shell EXCEPT ![c] = v] /\ UNCHANGED <<managers, sessions, lostShells>>
    BY <1>3 DEF Detaches, With
  <2>3. v \in ShellRecords
    BY <1>0 DEF ShellRecords
  <2>4. /\ v.owner = s.owner /\ v.up = s.up /\ v.hup = s.hup /\ v.printed = s.printed /\ v.read = s.read
        /\ v.got = s.got /\ v.running = s.running /\ v.exit = s.exit /\ v.due = s.due /\ v.sink = s.sink
    BY <1>0 DEF ShellRecords
  <2> HIDE DEF v
  <2>5. SoundSession(v)
    BY <1>0, <1>3, <2>3, <2>4 DEF SoundSession, ShellRecords, Detaches
  <2>6. Wanted(v) => Wanted(s)
    BY <1>3, <2>4 DEF Wanted, Detaches
  <2> QED BY <2>1, <2>4, <2>5, <2>6 DEF SessionStep
<1>4. CASE Reads(c)
  <2> DEFINE v == [s EXCEPT !.read = @ + 1]
  <2>1. shell' = [shell EXCEPT ![c] = v] /\ UNCHANGED <<managers, sessions, lostShells>>
    BY <1>4 DEF Reads, With
  <2>2. s.read + 1 \in 0..MaxChunks
    BY <1>0, <1>4, TerminalsAssumption DEF Reads, ShellRecords, SoundSession
  <2>3. v \in ShellRecords
    BY <1>0, <2>2 DEF ShellRecords
  <2>4. /\ v.owner = s.owner /\ v.up = s.up /\ v.hup = s.hup /\ v.printed = s.printed /\ v.got = s.got
        /\ v.running = s.running /\ v.exit = s.exit /\ v.due = s.due /\ v.sink = s.sink
        /\ v.read = s.read + 1
    BY <1>0 DEF ShellRecords
  <2> HIDE DEF v
  <2>5. SoundSession(v)
    BY <1>0, <1>4, <2>3, <2>4 DEF SoundSession, ShellRecords, Reads
  <2>6. Wanted(v) => Wanted(s)
    BY <1>4, <2>4 DEF Wanted, Reads
  <2> QED BY <2>1, <2>4, <2>5, <2>6 DEF SessionStep
<1>5. CASE ReaderEnds(c)
  <2> DEFINE v == [s EXCEPT !.reader = FALSE, !.running = FALSE]
  <2>1. shell' = [shell EXCEPT ![c] = v] /\ UNCHANGED <<managers, sessions, lostShells>>
    BY <1>5 DEF ReaderEnds, With
  <2>3. v \in ShellRecords
    BY <1>0 DEF ShellRecords
  <2>4. /\ v.owner = s.owner /\ v.up = s.up /\ v.hup = s.hup /\ v.printed = s.printed /\ v.read = s.read
        /\ v.got = s.got /\ v.exit = s.exit /\ v.due = s.due /\ v.sink = s.sink
        /\ v.running = FALSE
    BY <1>0 DEF ShellRecords
  <2> HIDE DEF v
  <2>5. SoundSession(v)
    BY <1>0, <1>5, <2>3, <2>4 DEF SoundSession, ShellRecords, ReaderEnds
  <2>6. Wanted(v) => Wanted(s)
    BY <1>5, <2>4 DEF Wanted, ReaderEnds
  <2> QED BY <2>1, <2>4, <2>5, <2>6 DEF SessionStep
<1>6. CASE Waits(c)
  <2> DEFINE v == [s EXCEPT !.running = FALSE, !.exit = "sent", !.due = s.read]
  <2>1. shell' = [shell EXCEPT ![c] = v] /\ UNCHANGED <<managers, sessions, lostShells>>
    BY <1>6 DEF Waits, With
  <2>3. v \in ShellRecords
    BY <1>0 DEF ShellRecords
  <2>4. /\ v.owner = s.owner /\ v.up = s.up /\ v.hup = s.hup /\ v.printed = s.printed /\ v.read = s.read
        /\ v.got = s.got /\ v.sink = s.sink
        /\ v.running = FALSE /\ v.exit = "sent" /\ v.due = s.read
    BY <1>0 DEF ShellRecords
  <2> HIDE DEF v
  <2>5. SoundSession(v)
    BY <1>0, <1>6, <2>3, <2>4 DEF SoundSession, ShellRecords, Waits
  <2>6. Wanted(v) => Wanted(s)
    BY <1>6, <2>4 DEF Wanted, Waits
  <2> QED BY <2>1, <2>4, <2>5, <2>6 DEF SessionStep
<1>7. CASE Forwards(c)
  <2> DEFINE v == [s EXCEPT !.got = @ + 1]
  <2>1. shell' = [shell EXCEPT ![c] = v] /\ UNCHANGED <<managers, sessions, lostShells>>
    BY <1>7 DEF Forwards, With
  <2>2. s.got + 1 \in 0..MaxChunks
    BY <1>0, <1>7, TerminalsAssumption DEF Forwards, ShellRecords, SoundSession
  <2>3. v \in ShellRecords
    BY <1>0, <2>2 DEF ShellRecords
  <2>4. /\ v.owner = s.owner /\ v.up = s.up /\ v.hup = s.hup /\ v.printed = s.printed /\ v.read = s.read
        /\ v.running = s.running /\ v.exit = s.exit /\ v.due = s.due /\ v.sink = s.sink
        /\ v.got = s.got + 1
    BY <1>0 DEF ShellRecords
  <2> HIDE DEF v
  <2>5. SoundSession(v)
    BY <1>0, <1>7, <2>3, <2>4 DEF SoundSession, ShellRecords, Forwards
  <2>6. Wanted(v) => Wanted(s)
    BY <1>7, <2>4 DEF Wanted, Forwards
  <2> QED BY <2>1, <2>4, <2>5, <2>6 DEF SessionStep
<1>8. CASE ForwardEnds(c)
  <2> DEFINE v == [s EXCEPT !.got = s.read, !.sink = FALSE]
  <2>1. shell' = [shell EXCEPT ![c] = v] /\ UNCHANGED <<managers, sessions, lostShells>>
    BY <1>8 DEF ForwardEnds, With
  <2>3. v \in ShellRecords
    BY <1>0 DEF ShellRecords
  <2>4. /\ v.owner = s.owner /\ v.up = s.up /\ v.hup = s.hup /\ v.printed = s.printed /\ v.read = s.read
        /\ v.running = s.running /\ v.exit = s.exit /\ v.due = s.due
        /\ v.got = s.read /\ v.sink = FALSE
    BY <1>0 DEF ShellRecords
  <2> HIDE DEF v
  <2>5. SoundSession(v)
    BY <1>0, <1>8, <2>3, <2>4 DEF SoundSession, ShellRecords, ForwardEnds
  <2>6. Wanted(v) => Wanted(s)
    BY <1>8, <2>4 DEF Wanted, ForwardEnds
  <2> QED BY <2>1, <2>4, <2>5, <2>6 DEF SessionStep
<1> QED BY <1>1, <1>2, <1>3, <1>4, <1>5, <1>6, <1>7, <1>8

\* stop: a shell that was signalled is no longer wanted.
LEMMA SignalStep ==
  ASSUME NEW s, SoundSession(s), s.owner # NoShell
  PROVE  SoundSession(Signalled(s)) /\ Signalled(s).owner = s.owner /\ Signalled(s).sink = s.sink
         /\ (Signalled(s).running => Signalled(s).hup)
<1> DEFINE v == [s EXCEPT !.hup = TRUE]
<1>1. s \in ShellRecords
  BY DEF SoundSession
<1>2. v \in ShellRecords /\ v.hup
  BY <1>1 DEF ShellRecords
<1>3. /\ v.owner = s.owner /\ v.printed = s.printed /\ v.read = s.read /\ v.got = s.got
      /\ v.exit = s.exit /\ v.due = s.due /\ v.sink = s.sink
  BY <1>1 DEF ShellRecords
<1> HIDE DEF v
<1>4. SoundSession(v)
  BY <1>2, <1>3 DEF SoundSession
<1>5. Signalled(s) = IF s.running THEN v ELSE s
  BY DEF Signalled, v
<1>6. CASE s.running
  BY <1>2, <1>3, <1>4, <1>5, <1>6
<1>7. CASE ~s.running
  BY <1>5, <1>7
<1> QED BY <1>6, <1>7

\* The sessions a manager holds were started for the user interface, and every
\* shell that is wanted is held by one.
Managed ==
    \A w \in Spaces, i \in TermIds : sessions[w][i] # NoShell => w \in managers /\ shell[sessions[w][i]].owner = "ui"
Held(c) == \E w \in managers, i \in TermIds : sessions[w][i] = c
Reachable == \A c \in Shells : Wanted(shell[c]) /\ c \notin lostShells => Held(c)

TermInv ==
    /\ managers \subseteq Spaces /\ sessions \in [Spaces -> [TermIds -> Shells \cup {NoShell}]]
    /\ lostShells \subseteq Shells /\ DOMAIN shell = Shells /\ shell = [c \in Shells |-> shell[c]]
    /\ \A c \in Shells : SoundSession(shell[c])
    /\ Managed /\ Reachable

LEMMA TermInvSuffices == TermInv => TermTypeOK /\ TerminalsAreServed
<1> SUFFICES ASSUME TermInv PROVE TermTypeOK /\ TerminalsAreServed
  OBVIOUS
<1>1. shell \in [Shells -> ShellRecords]
  BY DEF TermInv, SoundSession
<1>2. TermTypeOK
  BY <1>1 DEF TermInv, TermTypeOK, SoundSession, ShellRecords
<1>3. TerminalsAreServed
  <2> SUFFICES ASSUME NEW c \in Shells
               PROVE  /\ shell[c].owner = "ui" /\ ~shell[c].sink => shell[c].got >= shell[c].due
                      /\ Spawned(c) /\ shell[c].up /\ shell[c].running /\ ~shell[c].hup /\ c \notin lostShells
                         => \/ shell[c].owner = "tool" /\ shell[c].sink
                            \/ \E w \in managers, i \in TermIds : sessions[w][i] = c
    BY DEF TerminalsAreServed
  <2>1. shell[c].owner = "ui" /\ ~shell[c].sink => shell[c].got >= shell[c].due
    BY DEF TermInv, SoundSession
  <2>2. ASSUME Spawned(c), shell[c].up, shell[c].running, ~shell[c].hup, c \notin lostShells,
               ~(shell[c].owner = "tool" /\ shell[c].sink)
        PROVE  \E w \in managers, i \in TermIds : sessions[w][i] = c
    BY <2>2 DEF TermInv, Reachable, Wanted, Spawned, Held
  <2> QED BY <2>1, <2>2
<1> QED BY <1>2, <1>3

\* A session that has just been started.
LEMMA FreshSession ==
  /\ Fresh \in ShellRecords /\ SoundSession(Fresh) /\ ~Wanted(Fresh)
  /\ \A o \in {"ui", "tool"} : SoundSession([Fresh EXCEPT !.owner = o]) /\ [Fresh EXCEPT !.owner = o].owner = o
                               /\ [Fresh EXCEPT !.owner = o].sink
  /\ SoundSession([Fresh EXCEPT !.owner = "tool", !.sink = FALSE])
  /\ [Fresh EXCEPT !.owner = "tool", !.sink = FALSE].owner = "tool"
<1>0. Fresh \in ShellRecords
  BY TerminalsAssumption DEF Fresh, ShellRecords
<1>1. Fresh.got = 0 /\ Fresh.read = 0 /\ Fresh.printed = 0 /\ Fresh.due = 0 /\ Fresh.sink /\ Fresh.owner = NoShell
  BY DEF Fresh
<1>2. ASSUME NEW o \in {"ui", "tool"}
      PROVE  SoundSession([Fresh EXCEPT !.owner = o]) /\ [Fresh EXCEPT !.owner = o].owner = o
             /\ [Fresh EXCEPT !.owner = o].sink
  <2> DEFINE v == [Fresh EXCEPT !.owner = o]
  <2>1. v \in ShellRecords
    BY <1>0 DEF ShellRecords
  <2>2. v.owner = o /\ v.got = Fresh.got /\ v.read = Fresh.read /\ v.printed = Fresh.printed /\ v.due = Fresh.due /\ v.sink = Fresh.sink
    BY <1>0 DEF ShellRecords
  <2> HIDE DEF v
  <2>3. SoundSession(v) /\ v.owner = o /\ v.sink
    BY <1>1, <2>1, <2>2 DEF SoundSession
  <2> QED BY <2>3 DEF v
<1>3. /\ SoundSession([Fresh EXCEPT !.owner = "tool", !.sink = FALSE])
      /\ [Fresh EXCEPT !.owner = "tool", !.sink = FALSE].owner = "tool"
  <2> DEFINE v == [Fresh EXCEPT !.owner = "tool", !.sink = FALSE]
  <2>1. v \in ShellRecords
    BY <1>0 DEF ShellRecords
  <2>2. v.owner = "tool" /\ v.got = Fresh.got /\ v.read = Fresh.read /\ v.printed = Fresh.printed /\ v.due = Fresh.due
    BY <1>0 DEF ShellRecords
  <2> HIDE DEF v
  <2>3. SoundSession(v) /\ v.owner = "tool"
    BY <1>1, <2>1, <2>2 DEF SoundSession
  <2> QED BY <2>3 DEF v
<1>4. ~Wanted(Fresh)
  BY DEF Fresh, Wanted
<1>5. SoundSession(Fresh)
  BY <1>0, <1>1 DEF SoundSession, NoShell
<1> QED BY <1>0, <1>2, <1>3, <1>4, <1>5

LEMMA TermInitial == TermInit => TermInv
<1> SUFFICES ASSUME TermInit PROVE TermInv
  OBVIOUS
<1>1. \A c \in Shells : shell[c] = Fresh
  BY DEF TermInit
<1>2. \A c \in Shells : SoundSession(shell[c]) /\ ~Wanted(shell[c])
  BY <1>1, FreshSession
<1>3. \A w \in Spaces, i \in TermIds : sessions[w][i] = NoShell
  BY DEF TermInit
<1> QED BY <1>2, <1>3 DEF TermInit, TermInv, Managed, Reachable

\* One session changes: the others, and the managers, are as they were.
LEMMA OneSession ==
  ASSUME TermInv, NEW c \in Shells, SessionStep(c), UNCHANGED <<managers, sessions, lostShells>>
  PROVE  TermInv'
<1>1. PICK v : /\ shell' = [shell EXCEPT ![c] = v] /\ SoundSession(v) /\ v.owner = shell[c].owner
               /\ Wanted(v) => Wanted(shell[c])
  BY DEF SessionStep
<1>2. /\ DOMAIN shell' = Shells /\ shell' = [x \in Shells |-> shell'[x]] /\ shell'[c] = v
      /\ \A x \in Shells \ {c} : shell'[x] = shell[x]
  BY <1>1 DEF TermInv
<1>3. \A x \in Shells : SoundSession(shell'[x]) /\ shell'[x].owner = shell[x].owner /\ (Wanted(shell'[x]) => Wanted(shell[x]))
  BY <1>1, <1>2 DEF TermInv
<1>4. Managed'
  BY <1>3 DEF TermInv, Managed
<1>5. Reachable'
  BY <1>3 DEF TermInv, Reachable, Held
<1> QED BY <1>2, <1>3, <1>4, <1>5 DEF TermInv

\* Collecting ends with a signal to a shell that still runs.
LEMMA CollectStep ==
  ASSUME TermInv, NEW c \in Shells, Collected(c)
  PROVE  SessionStep(c) /\ UNCHANGED <<managers, sessions, lostShells>>
<1> DEFINE s == Signalled(shell[c])
           v == [s EXCEPT !.sink = FALSE]
<1>1. SoundSession(shell[c]) /\ shell[c].owner = "tool" /\ shell[c].owner # NoShell
  BY DEF TermInv, Collected, NoShell
<1>2. SoundSession(s) /\ s.owner = "tool" /\ (s.running => s.hup)
  BY <1>1, SignalStep
<1>3. shell' = [shell EXCEPT ![c] = v] /\ UNCHANGED <<managers, sessions, lostShells>>
  BY DEF Collected, With
<1> HIDE DEF s
<1>4. s \in ShellRecords
  BY <1>2 DEF SoundSession
<1>5. v \in ShellRecords
  BY <1>4 DEF ShellRecords
<1>6. /\ v.owner = s.owner /\ v.hup = s.hup /\ v.printed = s.printed /\ v.read = s.read /\ v.got = s.got
      /\ v.running = s.running /\ v.exit = s.exit /\ v.due = s.due
  BY <1>4 DEF ShellRecords
<1> HIDE DEF v
<1>7. SoundSession(v)
  BY <1>2, <1>5, <1>6 DEF SoundSession
<1>8. ~Wanted(v)
  BY <1>2, <1>6 DEF Wanted
<1> QED BY <1>1, <1>2, <1>3, <1>6, <1>7, <1>8 DEF SessionStep

\* A terminal is started: the shell it displaces is counted as lost.
LEMMA StartStep ==
  ASSUME TermInv, NEW w \in Spaces, NEW i \in TermIds, NEW c \in Shells, TerminalStart(w, i, c)
  PROVE  TermInv'
<1> DEFINE v == [Fresh EXCEPT !.owner = "ui"]
<1>1. SoundSession(v) /\ v.owner = "ui"
  BY FreshSession
<1>2. /\ managers' = managers \cup {w} /\ sessions' = [sessions EXCEPT ![w][i] = c]
      /\ lostShells' = lostShells \cup ({sessions[w][i]} \ {NoShell})
      /\ shell' = [shell EXCEPT ![c] = v] /\ shell[c].owner = NoShell
  BY DEF TerminalStart, With, Spawned
<1> HIDE DEF v
<1>3. /\ DOMAIN shell' = Shells /\ shell' = [x \in Shells |-> shell'[x]] /\ shell'[c] = v
      /\ \A x \in Shells \ {c} : shell'[x] = shell[x]
  BY <1>2 DEF TermInv
<1>4. /\ sessions' \in [Spaces -> [TermIds -> Shells \cup {NoShell}]] /\ sessions'[w][i] = c
      /\ \A u \in Spaces, j \in TermIds : u # w \/ j # i => sessions'[u][j] = sessions[u][j]
  BY <1>2 DEF TermInv
<1>5. lostShells' \subseteq Shells /\ managers' \subseteq Spaces
  BY <1>2 DEF TermInv
<1>6. \A x \in Shells : SoundSession(shell'[x])
  BY <1>1, <1>3 DEF TermInv
<1>7. Managed'
  <2> SUFFICES ASSUME NEW u \in Spaces, NEW j \in TermIds, sessions'[u][j] # NoShell
               PROVE  u \in managers' /\ shell'[sessions'[u][j]].owner = "ui"
    BY DEF Managed
  <2>1. CASE u = w /\ j = i
    BY <1>1, <1>2, <1>3, <1>4, <2>1
  <2>2. CASE u # w \/ j # i
    <3>1. sessions'[u][j] = sessions[u][j] /\ sessions[u][j] \in Shells /\ shell[sessions[u][j]].owner = "ui" /\ u \in managers
      BY <1>4, <2>2 DEF TermInv, Managed
    <3> QED BY <1>2, <1>3, <3>1 DEF NoShell
  <2> QED BY <2>1, <2>2
<1>8. Reachable'
  <2> SUFFICES ASSUME NEW x \in Shells, Wanted(shell'[x]), x \notin lostShells'
               PROVE  \E u \in managers', j \in TermIds : sessions'[u][j] = x
    BY DEF Reachable, Held
  <2>1. CASE x = c
    BY <1>2, <1>4, <2>1
  <2>2. CASE x # c
    <3>1. Wanted(shell[x]) /\ x \notin lostShells
      BY <1>2, <1>3, <2>2
    <3>2. PICK u \in managers, j \in TermIds : sessions[u][j] = x
      BY <3>1 DEF TermInv, Reachable, Held
    <3>3. u # w \/ j # i
      BY <1>2, <3>2, TerminalsAssumption
    <3> QED BY <1>2, <1>4, <3>2, <3>3 DEF TermInv
  <2> QED BY <2>1, <2>2
<1> QED BY <1>3, <1>4, <1>5, <1>6, <1>7, <1>8 DEF TermInv

\* A terminal is stopped: its shell was signalled if it still ran.
LEMMA StopStep ==
  ASSUME TermInv, NEW i \in TermIds, TerminalStop(i)
  PROVE  TermInv'
<1>1. PICK w \in managers : /\ sessions[w][i] # NoShell /\ sessions' = [sessions EXCEPT ![w][i] = NoShell]
                            /\ Hangup(sessions[w][i]) /\ UNCHANGED <<managers, lostShells>>
  BY DEF TerminalStop
<1> DEFINE c == sessions[w][i]
           v == Signalled(shell[c])
<1>2. w \in Spaces /\ c \in Shells /\ SoundSession(shell[c]) /\ shell[c].owner = "ui" /\ shell[c].owner # NoShell
  BY <1>1 DEF TermInv, Managed, NoShell
<1>3. SoundSession(v) /\ v.owner = "ui" /\ ~Wanted(v)
  BY <1>2, SignalStep DEF Wanted
<1>4. shell' = [shell EXCEPT ![c] = v]
  BY <1>1 DEF Hangup, With
<1> HIDE DEF c, v
<1>5. /\ DOMAIN shell' = Shells /\ shell' = [x \in Shells |-> shell'[x]] /\ shell'[c] = v
      /\ \A x \in Shells \ {c} : shell'[x] = shell[x]
  BY <1>4, <1>2 DEF TermInv
<1>6. /\ sessions' \in [Spaces -> [TermIds -> Shells \cup {NoShell}]] /\ sessions'[w][i] = NoShell
      /\ \A u \in Spaces, j \in TermIds : u # w \/ j # i => sessions'[u][j] = sessions[u][j]
  BY <1>1, <1>2 DEF TermInv
<1>7. \A x \in Shells : SoundSession(shell'[x]) /\ shell'[x].owner = shell[x].owner
  BY <1>2, <1>3, <1>5 DEF TermInv
<1>8. Managed'
  <2> SUFFICES ASSUME NEW u \in Spaces, NEW j \in TermIds, sessions'[u][j] # NoShell
               PROVE  u \in managers' /\ shell'[sessions'[u][j]].owner = "ui"
    BY DEF Managed
  <2>1. sessions'[u][j] = sessions[u][j] /\ sessions[u][j] \in Shells /\ shell[sessions[u][j]].owner = "ui" /\ u \in managers
    BY <1>6 DEF TermInv, Managed
  <2> QED BY <1>1, <1>7, <2>1
<1>9. Reachable'
  <2> SUFFICES ASSUME NEW x \in Shells, Wanted(shell'[x]), x \notin lostShells'
               PROVE  \E u \in managers', j \in TermIds : sessions'[u][j] = x
    BY DEF Reachable, Held
  <2>1. x # c /\ Wanted(shell[x]) /\ x \notin lostShells
    BY <1>1, <1>3, <1>5
  <2>2. PICK u \in managers, j \in TermIds : sessions[u][j] = x
    BY <2>1 DEF TermInv, Reachable, Held
  <2>3. u # w \/ j # i
    BY <2>1, <2>2 DEF c
  <2> QED BY <1>1, <1>6, <2>2, <2>3 DEF TermInv
<1> QED BY <1>1, <1>5, <1>6, <1>7, <1>8, <1>9 DEF TermInv

\* run_terminal: its shell is collected from, or lost when it cannot be told
\* its command.
LEMMA RunTerminalStep ==
  ASSUME TermInv, NEW c \in Shells, RunTerminal(c)
  PROVE  TermInv'
<1>1. PICK v : /\ shell' = [shell EXCEPT ![c] = v] /\ SoundSession(v) /\ v.owner = "tool"
               /\ \/ v.sink /\ lostShells' = lostShells
                  \/ lostShells' = lostShells \cup {c}
  BY FreshSession DEF RunTerminal, With
<1>2. managers' = managers /\ sessions' = sessions /\ shell[c].owner = NoShell
  BY DEF RunTerminal, Spawned
<1>3. /\ DOMAIN shell' = Shells /\ shell' = [x \in Shells |-> shell'[x]] /\ shell'[c] = v
      /\ \A x \in Shells \ {c} : shell'[x] = shell[x]
  BY <1>1 DEF TermInv
<1>4. \A x \in Shells : SoundSession(shell'[x])
  BY <1>1, <1>3 DEF TermInv
<1>5. Managed'
  <2> SUFFICES ASSUME NEW u \in Spaces, NEW j \in TermIds, sessions[u][j] # NoShell
               PROVE  u \in managers /\ shell'[sessions[u][j]].owner = "ui"
    BY <1>2 DEF Managed
  <2>1. sessions[u][j] \in Shells /\ shell[sessions[u][j]].owner = "ui" /\ u \in managers
    BY DEF TermInv, Managed
  <2> QED BY <1>2, <1>3, <2>1 DEF NoShell
<1>6. Reachable'
  <2> SUFFICES ASSUME NEW x \in Shells, Wanted(shell'[x]), x \notin lostShells'
               PROVE  \E u \in managers, j \in TermIds : sessions[u][j] = x
    BY <1>2 DEF Reachable, Held
  <2>1. x # c
    BY <1>1, <1>3 DEF Wanted
  <2> QED BY <1>1, <1>3, <2>1 DEF TermInv, Reachable, Held
<1>7. lostShells' \subseteq Shells
  BY <1>1 DEF TermInv
<1> QED BY <1>2, <1>3, <1>4, <1>5, <1>6, <1>7 DEF TermInv

LEMMA TermStep == TermInv /\ [TermNext]_termVars => TermInv'
<1> SUFFICES ASSUME TermInv, [TermNext]_termVars PROVE TermInv'
  OBVIOUS
<1>1. ASSUME NEW c \in Shells,
             \/ Prints(c) \/ Exits(c) \/ Detaches(c) \/ Reads(c) \/ ReaderEnds(c) \/ Waits(c) \/ Forwards(c) \/ ForwardEnds(c)
      PROVE  TermInv'
  <2>1. SoundSession(shell[c])
    BY DEF TermInv
  <2> QED BY <1>1, <2>1, SessionSteps, OneSession
<1>2. ASSUME NEW c \in Shells, Collected(c) PROVE TermInv'
  BY <1>2, CollectStep, OneSession
<1>3. ASSUME NEW w \in Spaces, TerminalStartFails(w) PROVE TermInv'
  <2>1. managers' = managers \cup {w} /\ UNCHANGED <<sessions, shell, lostShells>>
    BY <1>3 DEF TerminalStartFails
  <2>2. Managed'
    BY <2>1 DEF TermInv, Managed
  <2>3. Reachable'
    BY <2>1 DEF TermInv, Reachable, Held
  <2> QED BY <2>1, <2>2, <2>3 DEF TermInv
<1>4. CASE UNCHANGED termVars
  BY <1>4 DEF termVars, TermInv, Managed, Reachable, Held
<1> QED BY <1>1, <1>2, <1>3, <1>4, StartStep, StopStep, RunTerminalStep DEF TermNext

\* The managers, the sessions and the shells keep their types, and the counts
\* of a session stay in order.
THEOREM TermTypeCorrect == TermSpec => []TermTypeOK
  BY TermInvSuffices, TermInitial, TermStep, PTL DEF TermSpec

\* For any number of workspaces, terminals and tool calls: what was read when
\* the exit code was sent reaches the user interface, and a shell that runs on
\* unstopped can be reached (PtySessionManager::create, run_terminal).
THEOREM TerminalsCorrect == TermSpec => []TerminalsAreServed
  BY TermInvSuffices, TermInitial, TermStep, PTL DEF TermSpec

-----------------------------------------------------------------------------
(* WorkspaceTools: the files and the repository                            *)

Uses == [tool : Tools \cup {"none"}, pc : {"idle", "asks", "call", "open", "write", "rename"},
         text : Texts \cup {<<>>}, on : {"tmp", "file"}, names : SUBSET Names, base : Nat]

\* The stages of a call go with its tool; write_file writes the file itself.
Staged(u) ==
    /\ u.pc \in {"open", "rename"} => u.tool = "str_replace"
    /\ u.tool = "write_file" /\ u.pc = "write" => u.on = "file"
    /\ u.pc \in {"asks", "call", "open"} => u.on = "tmp"
    /\ u.tool \in {"write_file", "str_replace"} /\ u.pc \in {"open", "write"} => u.text \in Texts
WritingFile(u) == u.tool = "write_file" /\ u.pc = "write"
Editing(u) == u.tool = "str_replace" /\ u.pc \in {"write", "rename"}

\* Unless edits have shared the sibling, one edit at a time is in it, and the
\* sibling is whole when that edit comes to rename it.
OneEdit ==
    ~spoilt =>
        /\ \A q, r \in Runs : Editing(uses[q]) /\ Editing(uses[r]) => q = r
        /\ \A r \in Runs : Editing(uses[r]) =>
              (uses[r].pc = "write" => uses[r].on = "tmp") /\ (uses[r].pc = "rename" => tmp # HalfWritten)

FileInv ==
    /\ rel \in Rels /\ file \in Texts \cup {HalfWritten} /\ tmp \in Texts \cup {HalfWritten, Absent}
    /\ uses \in [Runs -> Uses] /\ spoilt \in BOOLEAN /\ calls \in 0..MaxCalls
    /\ \A r \in Runs : Staged(uses[r])
    /\ OneEdit /\ EditsAreAtomic
RepoTypeOK ==
    /\ staging \subseteq Names /\ head \in Seq(SUBSET Names) /\ remote \in 1..Len(head) /\ report \in Runs \cup {"none"}

LEMMA WholeTexts ==
  /\ <<"x">> \in Texts /\ <<"y">> \in Texts /\ <<"y", "x">> \in Texts
  /\ HalfWritten \notin Texts /\ Absent \notin Texts /\ <<>> \notin Texts
  /\ HalfWritten # Absent /\ HalfWritten # <<>>
  BY DEF Texts, Words, HalfWritten, Absent

\* Replacing a word of a text by another gives a text.
LEMMA ReplacedIsText ==
  ASSUME NEW t \in Texts, NEW old \in Words, NEW new \in Words
  PROVE  Replaced(t, old, new) \in Texts
<1>1. CASE t \in [1..1 -> Words]
  BY <1>1 DEF Replaced, Texts
<1>2. CASE t \in [1..2 -> Words]
  BY <1>2 DEF Replaced, Texts
<1> QED BY <1>1, <1>2 DEF Texts

LEMMA NoUseIsQuiet == NoUse \in Uses /\ Staged(NoUse) /\ ~Editing(NoUse) /\ ~WritingFile(NoUse)
  BY DEF NoUse, Uses, Staged, Editing, WritingFile

LEMMA ToolsInitial == ToolsInit => FileInv /\ RepoTypeOK
<1> SUFFICES ASSUME ToolsInit PROVE FileInv /\ RepoTypeOK
  OBVIOUS
<1>1. \A r \in Runs : uses[r] = NoUse
  BY DEF ToolsInit
<1>2. uses \in [Runs -> Uses]
  BY NoUseIsQuiet DEF ToolsInit
<1>3. FileInv
  <2>1. rel \in Rels /\ file \in Texts /\ tmp = Absent /\ spoilt \in BOOLEAN /\ calls \in 0..MaxCalls
    <3>1. calls \in 0..MaxCalls
      BY WorkspaceToolsAssumption DEF ToolsInit
    <3>2. spoilt \in BOOLEAN
      BY DEF ToolsInit
    <3>3. rel \in Rels /\ file \in Texts /\ tmp = Absent
      BY WholeTexts, Zenon DEF ToolsInit
    <3> QED BY <3>1, <3>2, <3>3
  <2>2. OneEdit
    BY <1>1, NoUseIsQuiet DEF OneEdit
  <2>3. EditsAreAtomic
    BY <2>1, WholeTexts DEF EditsAreAtomic
  <2>4. \A r \in Runs : Staged(uses[r])
    BY <1>1, NoUseIsQuiet
  <2> QED BY <1>2, <2>1, <2>2, <2>3, <2>4 DEF FileInv
<1>4. RepoTypeOK
  BY DEF ToolsInit, RepoTypeOK
<1> QED BY <1>3, <1>4

\* A call goes on without entering the sibling, and what it does to the file
\* leaves it whole: the invariant of the files stands.
LEMMA QuietStep ==
  ASSUME FileInv, NEW r \in Runs, NEW v \in Uses, Staged(v), ~Editing(v), ~WritingFile(uses[r]),
         uses' = [uses EXCEPT ![r] = v], UNCHANGED <<rel, tmp, spoilt>>, calls' \in 0..MaxCalls,
         file' = file \/ file' \in Texts
  PROVE  FileInv'
<1>1. /\ uses' \in [Runs -> Uses] /\ uses'[r] = v
      /\ \A q \in Runs \ {r} : uses'[q] = uses[q]
  BY DEF FileInv
<1>2. OneEdit'
  BY <1>1 DEF FileInv, OneEdit
<1>3. EditsAreAtomic'
  <2> SUFFICES ASSUME file' = HalfWritten, ~spoilt'
               PROVE  \E q \in Runs : uses'[q].tool = "write_file" /\ uses'[q].pc = "write"
    BY DEF EditsAreAtomic
  <2>1. PICK q \in Runs : uses[q].tool = "write_file" /\ uses[q].pc = "write"
    BY WholeTexts DEF FileInv, EditsAreAtomic
  <2> QED BY <1>1, <2>1 DEF WritingFile
<1> QED BY <1>1, <1>2, <1>3 DEF FileInv

\* The steps in which a call neither opens nor writes a file.
LEMMA QuietFileSteps ==
  ASSUME FileInv, NEW r \in Runs,
         \/ EditReads(r) \/ Shell(r) \/ dispatch_approved(r) \/ IndexReads(r) \/ IndexWrites(r) \/ CommitReads(r)
         \/ CommitWrites(r) \/ PushCounts(r) \/ Push(r) \/ RunSuite(r) \/ \E t \in Tools : dispatch(r, t),
         RepoTypeOK
  PROVE  FileInv'
<1> DEFINE u == uses[r]
<1>0. u \in Uses /\ Staged(u) /\ calls \in 0..MaxCalls
  BY DEF FileInv
<1>a. ASSUME uses' = [uses EXCEPT ![r] = NoUse], ~WritingFile(u), UNCHANGED <<rel, tmp, spoilt, calls>>,
             file' = file \/ file' \in Texts
      PROVE  FileInv'
  BY <1>0, <1>a, NoUseIsQuiet, QuietStep
<1>1. CASE EditReads(r)
  <2>1. ~WritingFile(u) /\ u.tool = "str_replace" /\ u.pc = "call" /\ UNCHANGED <<rel, file, tmp, spoilt, calls>>
    BY <1>1 DEF EditReads, Ready, WritingFile, fileVars
  <2>2. CASE Returns(r)
    BY <1>a, <2>1, <2>2 DEF Returns, Became
  <2>3. CASE ~Returns(r)
    <3>1. PICK old \in Words, new \in Words :
             file # HalfWritten /\ Became(r, [u EXCEPT !.pc = "open", !.text = Replaced(file, old, new)])
      BY <1>1, <2>3 DEF EditReads
    <3> DEFINE w == Replaced(file, old, new)
               v == [u EXCEPT !.pc = "open", !.text = w]
    <3>2. w \in Texts
      BY <3>1, ReplacedIsText DEF FileInv
    <3> HIDE DEF w
    <3>3. v \in Uses /\ v.pc = "open" /\ v.tool = u.tool /\ v.on = u.on /\ v.text \in Texts
      BY <1>0, <3>2 DEF Uses
    <3>4. uses' = [uses EXCEPT ![r] = v]
      BY <3>1 DEF Became, w
    <3> HIDE DEF v
    <3>5. Staged(v) /\ ~Editing(v)
      BY <1>0, <2>1, <3>3 DEF Staged, Editing
    <3> QED BY <1>0, <2>1, <3>3, <3>4, <3>5, QuietStep
  <2> QED BY <2>2, <2>3
<1>2. CASE Shell(r)
  <2>1. ~WritingFile(u) /\ uses' = [uses EXCEPT ![r] = NoUse] /\ UNCHANGED <<rel, tmp, spoilt, calls>>
        /\ file' \in {file, <<"y">>}
    BY <1>2 DEF Shell, Ready, WritingFile, Returns, Became
  <2> QED BY <1>a, <2>1, WholeTexts
<1>3. CASE dispatch_approved(r)
  <2>1. ~WritingFile(u) /\ u.pc = "asks" /\ UNCHANGED <<rel, file, tmp, spoilt, calls>>
    BY <1>3 DEF dispatch_approved, WritingFile, fileVars
  <2>2. CASE Returns(r)
    BY <1>a, <2>1, <2>2 DEF Returns, Became
  <2>3. CASE ~Returns(r)
    <3> DEFINE v == [u EXCEPT !.pc = "call"]
    <3>1. uses' = [uses EXCEPT ![r] = v]
      BY <1>3, <2>3 DEF dispatch_approved, Became
    <3>2. v \in Uses /\ v.pc = "call" /\ v.tool = u.tool /\ v.on = u.on
      BY <1>0 DEF Uses
    <3> HIDE DEF v
    <3>3. Staged(v) /\ ~Editing(v)
      BY <1>0, <2>1, <3>2 DEF Staged, Editing
    <3> QED BY <1>0, <2>1, <3>1, <3>2, <3>3, QuietStep
  <2> QED BY <2>2, <2>3
<1>4. CASE IndexReads(r)
  <2>1. u.tool \in {"git_add", "git_reset"} /\ UNCHANGED <<rel, file, tmp, spoilt, calls>>
    BY <1>4 DEF IndexReads, fileVars
  <2>2. PICK n \in Names : uses' = [uses EXCEPT ![r] = [u EXCEPT !.pc = "write",
                 !.names = IF u.tool = "git_add" THEN staging \cup {n} ELSE staging \ {n}]]
    BY <1>4 DEF IndexReads, Became
  <2> DEFINE s == IF u.tool = "git_add" THEN staging \cup {n} ELSE staging \ {n}
             v == [u EXCEPT !.pc = "write", !.names = s]
  <2>3. s \in SUBSET Names
    BY DEF RepoTypeOK
  <2>4. uses' = [uses EXCEPT ![r] = v]
    BY <2>2
  <2> HIDE DEF s
  <2>5. v \in Uses /\ v.tool = u.tool /\ v.pc = "write"
    BY <1>0, <2>3 DEF Uses
  <2> HIDE DEF v
  <2>6. Staged(v) /\ ~Editing(v) /\ ~WritingFile(u)
    BY <2>1, <2>5 DEF Staged, Editing, WritingFile
  <2> QED BY <1>0, <2>1, <2>4, <2>5, <2>6, QuietStep
<1>5. CASE IndexWrites(r) \/ CommitWrites(r) \/ Push(r) \/ RunSuite(r)
  <2>1. ~WritingFile(u) /\ uses' = [uses EXCEPT ![r] = NoUse] /\ UNCHANGED <<rel, file, tmp, spoilt, calls>>
    BY <1>5 DEF IndexWrites, CommitWrites, Push, RunSuite, Ready, WritingFile, Returns, Became, fileVars
  <2> QED BY <1>a, <2>1
<1>6. CASE CommitReads(r)
  <2> DEFINE v == [u EXCEPT !.pc = "write", !.names = staging, !.base = Len(head)]
  <2>1. u.tool = "git_commit" /\ uses' = [uses EXCEPT ![r] = v] /\ UNCHANGED <<rel, file, tmp, spoilt, calls>>
    BY <1>6 DEF CommitReads, Ready, Became, fileVars
  <2>2. staging \in SUBSET Names /\ Len(head) \in Nat
    BY DEF RepoTypeOK
  <2>3. v \in Uses /\ v.tool = u.tool /\ v.pc = "write"
    BY <1>0, <2>2 DEF Uses
  <2> HIDE DEF v
  <2>4. Staged(v) /\ ~Editing(v) /\ ~WritingFile(u)
    BY <2>1, <2>3 DEF Staged, Editing, WritingFile
  <2> QED BY <1>0, <2>1, <2>3, <2>4, QuietStep
<1>7. CASE PushCounts(r)
  <2> DEFINE b == Len(head) - remote
             v == [u EXCEPT !.pc = "write", !.base = b]
  <2>1. u.tool = "git_push" /\ uses' = [uses EXCEPT ![r] = v] /\ UNCHANGED <<rel, file, tmp, spoilt, calls>>
    BY <1>7 DEF PushCounts, Ready, Became, fileVars
  <2>2. b \in Nat
    BY DEF RepoTypeOK
  <2> HIDE DEF b
  <2>3. v \in Uses /\ v.tool = u.tool /\ v.pc = "write"
    BY <1>0, <2>2 DEF Uses
  <2> HIDE DEF v
  <2>4. Staged(v) /\ ~Editing(v) /\ ~WritingFile(u)
    BY <2>1, <2>3 DEF Staged, Editing, WritingFile
  <2> QED BY <1>0, <2>1, <2>3, <2>4, QuietStep
<1>8. CASE \E t \in Tools : dispatch(r, t)
  <2>1. PICK t \in Tools : dispatch(r, t)
    BY <1>8
  <2> DEFINE p == IF t \in Gated THEN "asks" ELSE "call"
             v == [NoUse EXCEPT !.tool = t, !.pc = p]
  <2>2. uses' = [uses EXCEPT ![r] = v] /\ u = NoUse /\ UNCHANGED <<rel, file, tmp, spoilt>> /\ calls < MaxCalls /\ calls' = calls + 1
    BY <2>1 DEF dispatch, Became, fileVars
  <2>3. p \in {"asks", "call"}
    OBVIOUS
  <2> HIDE DEF p
  <2>4. v \in Uses /\ v.pc = p /\ v.on = "tmp"
    BY <2>3 DEF NoUse, Uses
  <2> HIDE DEF v
  <2>5. Staged(v) /\ ~Editing(v)
    BY <2>3, <2>4 DEF Staged, Editing
  <2>6. calls' \in 0..MaxCalls
    BY <1>0, <2>2, WorkspaceToolsAssumption
  <2> QED BY <2>2, <2>4, <2>5, <2>6, NoUseIsQuiet, QuietStep
<1> QED BY <1>1, <1>2, <1>3, <1>4, <1>5, <1>6, <1>7, <1>8

\* write_file opens the file and is the call that the file waits for.
LEMMA WriteOpensStep ==
  ASSUME FileInv, NEW r \in Runs, WriteOpens(r)
  PROVE  FileInv'
<1> DEFINE u == uses[r]
<1>1. u \in Uses /\ u.tool = "write_file" /\ u.pc = "call" /\ UNCHANGED <<rel, tmp, spoilt, calls>>
  BY DEF FileInv, WriteOpens, Ready
<1>2. CASE Returns(r) /\ UNCHANGED file
  <2>1. uses' = [uses EXCEPT ![r] = NoUse] /\ ~WritingFile(u) /\ calls' \in 0..MaxCalls
    BY <1>1, <1>2 DEF Returns, Became, WritingFile, FileInv
  <2> QED BY <1>1, <1>2, <2>1, NoUseIsQuiet, QuietStep
<1>3. CASE ~(Returns(r) /\ UNCHANGED file)
  <2>1. file' = HalfWritten /\ \E t \in {<<"x">>, <<"y", "x">>} :
            uses' = [uses EXCEPT ![r] = [u EXCEPT !.pc = "write", !.text = t, !.on = "file"]]
    BY <1>3 DEF WriteOpens, Became
  <2>2. PICK t \in {<<"x">>, <<"y", "x">>} :
            uses' = [uses EXCEPT ![r] = [u EXCEPT !.pc = "write", !.text = t, !.on = "file"]]
    BY <2>1
  <2> DEFINE v == [u EXCEPT !.pc = "write", !.text = t, !.on = "file"]
  <2>3. t \in Texts
    BY WholeTexts
  <2>4. v \in Uses /\ v.tool = "write_file" /\ v.pc = "write" /\ v.on = "file" /\ v.text \in Texts
    BY <1>1, <2>3 DEF Uses
  <2>5. uses' = [uses EXCEPT ![r] = v]
    BY <2>2
  <2> HIDE DEF v
  <2>6. uses' \in [Runs -> Uses] /\ uses'[r] = v /\ \A q \in Runs \ {r} : uses'[q] = uses[q]
    BY <2>4, <2>5 DEF FileInv
  <2>7. Staged(v) /\ ~Editing(v)
    BY <2>4 DEF Staged, Editing
  <2>8. OneEdit'
    BY <1>1, <2>6, <2>7 DEF FileInv, OneEdit
  <2>9. EditsAreAtomic'
    BY <2>4, <2>6 DEF EditsAreAtomic
  <2> QED BY <1>1, <2>1, <2>6, <2>7, <2>8, <2>9 DEF FileInv
<1> QED BY <1>2, <1>3

\* str_replace opens the sibling: alone in it, or the sibling is spoilt.
LEMMA EditOpensStep ==
  ASSUME FileInv, NEW r \in Runs, EditOpens(r)
  PROVE  FileInv'
<1> DEFINE u == uses[r]
           v == [u EXCEPT !.pc = "write"]
<1>1. u \in Uses /\ u.tool = "str_replace" /\ u.pc = "open" /\ u.on = "tmp" /\ u.text \in Texts
  BY DEF FileInv, EditOpens, Staged
<1>2. /\ tmp' = HalfWritten /\ UNCHANGED <<rel, file, calls>> /\ uses' = [uses EXCEPT ![r] = v]
      /\ spoilt' = (spoilt \/ \E q \in Runs \ {r} : uses[q].tool = "str_replace" /\ uses[q].pc \in {"write", "rename"})
  BY DEF EditOpens, Became
<1>3. v \in Uses /\ v.tool = "str_replace" /\ v.pc = "write" /\ v.on = "tmp" /\ v.text \in Texts
  BY <1>1 DEF Uses
<1> HIDE DEF v
<1>4. uses' \in [Runs -> Uses] /\ uses'[r] = v /\ \A q \in Runs \ {r} : uses'[q] = uses[q]
  BY <1>2, <1>3 DEF FileInv
<1>5. spoilt' \in BOOLEAN
  BY <1>2
<1>6. OneEdit'
  <2> SUFFICES ASSUME ~spoilt'
               PROVE  /\ \A q, p \in Runs : Editing(uses'[q]) /\ Editing(uses'[p]) => q = p
                      /\ \A q \in Runs : Editing(uses'[q]) => (uses'[q].pc = "write" => uses'[q].on = "tmp")
                                                               /\ (uses'[q].pc = "rename" => tmp' # HalfWritten)
    BY DEF OneEdit
  <2>1. \A q \in Runs \ {r} : ~Editing(uses'[q])
    BY <1>2, <1>4 DEF Editing
  <2> QED BY <1>3, <1>4, <2>1
<1>7. EditsAreAtomic'
  <2> SUFFICES ASSUME file' = HalfWritten, ~spoilt'
               PROVE  \E q \in Runs : uses'[q].tool = "write_file" /\ uses'[q].pc = "write"
    BY DEF EditsAreAtomic
  <2>1. PICK q \in Runs : uses[q].tool = "write_file" /\ uses[q].pc = "write"
    BY <1>2 DEF FileInv, EditsAreAtomic
  <2> QED BY <1>1, <1>4, <2>1
<1>8. Staged(v)
  BY <1>3 DEF Staged
<1> QED BY <1>2, <1>4, <1>5, <1>6, <1>7, <1>8 DEF FileInv

\* A text is written whole to the file or to the sibling.
LEMMA WriteTextStep ==
  ASSUME FileInv, NEW r \in Runs, WriteText(r)
  PROVE  FileInv'
<1> DEFINE u == uses[r]
<1>1. /\ u \in Uses /\ Staged(u) /\ u.tool \in {"write_file", "str_replace"} /\ u.pc = "write"
      /\ UNCHANGED <<rel, spoilt, calls>>
  BY DEF FileInv, WriteText
<1> USE <1>1
<1>2. PICK v : /\ uses' = [uses EXCEPT ![r] = v] /\ v \in Uses /\ Staged(v)
               /\ u.tool = "write_file" => ~Editing(v)
               /\ u.tool = "str_replace" => v.tool = "str_replace" /\ v.pc = "rename" /\ Editing(u)
  <2>1. CASE u.tool = "write_file"
    BY <2>1, NoUseIsQuiet DEF WriteText, Returns, Became
  <2>2. CASE u.tool = "str_replace"
    <3> DEFINE v == [u EXCEPT !.pc = "rename"]
    <3>1. uses' = [uses EXCEPT ![r] = v]
      BY <2>2 DEF WriteText, Became
    <3>2. v \in Uses /\ v.tool = "str_replace" /\ v.pc = "rename"
      BY <2>2 DEF Uses
    <3> HIDE DEF v
    <3> QED BY <2>2, <3>1, <3>2 DEF Staged, Editing
  <2> QED BY <2>1, <2>2
<1>3. uses' \in [Runs -> Uses] /\ uses'[r] = v /\ \A q \in Runs \ {r} : uses'[q] = uses[q]
  BY <1>2 DEF FileInv
<1>4. \A q \in Runs : Staged(uses'[q])
  BY <1>2, <1>3 DEF FileInv
<1>5. u.text \in Texts
  BY DEF Staged
<1>6. u.text # HalfWritten
  BY <1>5, WholeTexts
<1>7. CASE u.on = "file"
  <2>1. file' = u.text /\ tmp' = tmp
    BY <1>7 DEF WriteText
  <2>2. OneEdit'
    <3> SUFFICES ASSUME ~spoilt'
                 PROVE  /\ \A q, p \in Runs : Editing(uses'[q]) /\ Editing(uses'[p]) => q = p
                        /\ \A q \in Runs : Editing(uses'[q]) => (uses'[q].pc = "write" => uses'[q].on = "tmp")
                                                                 /\ (uses'[q].pc = "rename" => tmp' # HalfWritten)
      BY DEF OneEdit
    <3>1. ~Editing(u)
      BY <1>7 DEF FileInv, OneEdit
    <3>2. ~Editing(uses'[r])
      BY <1>2, <1>3, <3>1
    <3> QED BY <1>3, <2>1, <3>2 DEF FileInv, OneEdit
  <2>3. EditsAreAtomic'
    BY <1>6, <2>1 DEF EditsAreAtomic
  <2>4. file' \in Texts \cup {HalfWritten}
    BY <1>5, <2>1
  <2> QED BY <1>3, <1>4, <2>1, <2>2, <2>3, <2>4 DEF FileInv
<1>8. CASE u.on # "file"
  <2>1. tmp' = u.text /\ file' = file /\ u.tool = "str_replace"
    BY <1>8 DEF WriteText, Staged
  <2>2. OneEdit'
    <3> SUFFICES ASSUME ~spoilt'
                 PROVE  /\ \A q, p \in Runs : Editing(uses'[q]) /\ Editing(uses'[p]) => q = p
                        /\ \A q \in Runs : Editing(uses'[q]) => (uses'[q].pc = "write" => uses'[q].on = "tmp")
                                                                 /\ (uses'[q].pc = "rename" => tmp' # HalfWritten)
      BY DEF OneEdit
    <3>1. \A q \in Runs \ {r} : ~Editing(uses'[q])
      BY <1>2, <1>3, <2>1 DEF FileInv, OneEdit
    <3> QED BY <1>2, <1>3, <1>6, <2>1, <3>1
  <2>3. EditsAreAtomic'
    <3> SUFFICES ASSUME file' = HalfWritten, ~spoilt'
                 PROVE  \E q \in Runs : uses'[q].tool = "write_file" /\ uses'[q].pc = "write"
      BY DEF EditsAreAtomic
    <3>1. PICK q \in Runs : uses[q].tool = "write_file" /\ uses[q].pc = "write"
      BY <2>1 DEF FileInv, EditsAreAtomic
    <3> QED BY <1>3, <2>1, <3>1
  <2>4. tmp' \in Texts \cup {HalfWritten, Absent}
    BY <1>5, <2>1
  <2> QED BY <1>3, <1>4, <2>1, <2>2, <2>3, <2>4 DEF FileInv
<1> QED BY <1>7, <1>8

\* str_replace renames the sibling, which is whole unless it is spoilt.
LEMMA RenameStep ==
  ASSUME FileInv, NEW r \in Runs, Rename(r)
  PROVE  FileInv'
<1>1. /\ uses[r].pc = "rename" /\ uses[r].tool = "str_replace" /\ UNCHANGED <<rel, spoilt, calls>>
      /\ file' = IF tmp = Absent THEN file ELSE tmp
      /\ tmp' = Absent
  BY DEF FileInv, Rename, Staged
<1>2. /\ uses' = [q \in Runs |-> uses'[q]] /\ uses'[r] = NoUse
      /\ \A q \in Runs \ {r} : uses'[q] = IF uses[q].tool = "str_replace" /\ uses[q].pc = "write"
                                          THEN [uses[q] EXCEPT !.on = "file"] ELSE uses[q]
  BY DEF Rename
<1>3. \A q \in Runs : uses'[q] \in Uses /\ Staged(uses'[q])
  <2> SUFFICES ASSUME NEW q \in Runs PROVE uses'[q] \in Uses /\ Staged(uses'[q])
    OBVIOUS
  <2>1. CASE q = r
    BY <1>2, <2>1, NoUseIsQuiet
  <2>2. CASE q # r /\ uses[q].tool = "str_replace" /\ uses[q].pc = "write"
    <3> DEFINE v == [uses[q] EXCEPT !.on = "file"]
    <3>1. uses'[q] = v
      BY <1>2, <2>2
    <3>2. uses[q] \in Uses /\ Staged(uses[q])
      BY DEF FileInv
    <3>3. v \in Uses /\ v.tool = uses[q].tool /\ v.pc = uses[q].pc /\ v.text = uses[q].text
      BY <3>2 DEF Uses
    <3> HIDE DEF v
    <3> QED BY <2>2, <3>1, <3>2, <3>3 DEF Staged
  <2>3. CASE q # r /\ ~(uses[q].tool = "str_replace" /\ uses[q].pc = "write")
    BY <1>2, <2>3 DEF FileInv
  <2> QED BY <2>1, <2>2, <2>3
<1>4. uses' \in [Runs -> Uses]
  BY <1>2, <1>3
<1>5. ~spoilt => \A q \in Runs \ {r} : uses'[q] = uses[q] /\ ~Editing(uses[q])
  BY <1>1, <1>2 DEF FileInv, OneEdit, Editing
<1>6. OneEdit'
  BY <1>1, <1>2, <1>5, NoUseIsQuiet DEF OneEdit
<1>7. EditsAreAtomic'
  <2> SUFFICES ASSUME file' = HalfWritten, ~spoilt'
               PROVE  \E q \in Runs : uses'[q].tool = "write_file" /\ uses'[q].pc = "write"
    BY DEF EditsAreAtomic
  <2>1. tmp # HalfWritten
    BY <1>1 DEF FileInv, OneEdit, Editing
  <2>2. PICK q \in Runs : uses[q].tool = "write_file" /\ uses[q].pc = "write"
    BY <1>1, <2>1 DEF FileInv, EditsAreAtomic
  <2> QED BY <1>1, <1>5, <2>2
<1>8. file' \in Texts \cup {HalfWritten} /\ tmp' \in Texts \cup {HalfWritten, Absent}
  BY <1>1 DEF FileInv
<1> QED BY <1>1, <1>3, <1>4, <1>6, <1>7, <1>8 DEF FileInv

\* The process ends: a file that is half written counts as spoilt.
LEMMA KilledStep ==
  ASSUME FileInv, Killed
  PROVE  FileInv'
<1>1. /\ uses' = [r \in Runs |-> NoUse] /\ spoilt' = (spoilt \/ file = HalfWritten)
      /\ UNCHANGED <<rel, file, tmp, calls>>
  BY DEF Killed
<1>2. \A r \in Runs : uses'[r] = NoUse
  BY <1>1
<1>3. uses' \in [Runs -> Uses] /\ spoilt' \in BOOLEAN
  BY <1>1, NoUseIsQuiet
<1>4. OneEdit'
  BY <1>2, NoUseIsQuiet DEF OneEdit
<1>5. EditsAreAtomic'
  BY <1>1 DEF EditsAreAtomic
<1>6. \A r \in Runs : Staged(uses'[r])
  BY <1>2, NoUseIsQuiet
<1> QED BY <1>1, <1>3, <1>4, <1>5, <1>6 DEF FileInv

\* The repository changes by whole commits, and a push takes them all.
LEMMA RepoSteps ==
  ASSUME FileInv, RepoTypeOK, NEW r \in Runs,
         IndexWrites(r) \/ CommitWrites(r) \/ Push(r) \/ RunSuite(r) \/ UNCHANGED repoVars
  PROVE  RepoTypeOK'
<1>0. uses[r].names \subseteq Names
  BY DEF FileInv, Uses
<1>1. CASE IndexWrites(r)
  BY <1>0, <1>1 DEF IndexWrites, RepoTypeOK
<1>2. CASE CommitWrites(r)
  <2>1. head' = head \/ head' = Append(head, uses[r].names)
    BY <1>2 DEF CommitWrites
  <2>2. head' \in Seq(SUBSET Names) /\ Len(head') >= Len(head) /\ Len(head) \in Nat /\ Len(head') \in Nat
    BY <1>0, <2>1 DEF RepoTypeOK
  <2>3. remote' \in 1..Len(head')
    BY <1>2, <2>2 DEF CommitWrites, RepoTypeOK
  <2> QED BY <1>2, <2>2, <2>3 DEF CommitWrites, RepoTypeOK
<1>3. CASE Push(r)
  <2>1. remote' \in 1..Len(head)
    BY <1>3 DEF Push, RepoTypeOK
  <2> QED BY <1>3, <2>1 DEF Push, RepoTypeOK
<1>4. CASE RunSuite(r)
  BY <1>4 DEF RunSuite, RepoTypeOK
<1>5. CASE UNCHANGED repoVars
  BY <1>5 DEF repoVars, RepoTypeOK
<1> QED BY <1>1, <1>2, <1>3, <1>4, <1>5

WorkspaceInv == FileInv /\ RepoTypeOK

LEMMA WorkspaceStep == WorkspaceInv /\ [FileNext \/ GitNext]_toolVars => WorkspaceInv'
<1> SUFFICES ASSUME FileInv, RepoTypeOK, [FileNext \/ GitNext]_toolVars PROVE FileInv' /\ RepoTypeOK'
  BY DEF WorkspaceInv
<1>1. CASE Killed
  <2>1. UNCHANGED repoVars
    BY <1>1 DEF Killed
  <2> QED BY <1>1, <2>1, KilledStep DEF repoVars, RepoTypeOK
<1>2. ASSUME NEW r \in Runs, WriteOpens(r) \/ EditOpens(r) \/ WriteText(r) \/ Rename(r)
      PROVE  FileInv' /\ RepoTypeOK'
  <2>1. UNCHANGED repoVars
    BY <1>2 DEF WriteOpens, EditOpens, WriteText, Rename
  <2>2. RepoTypeOK'
    BY <2>1 DEF repoVars, RepoTypeOK
  <2> QED BY <1>2, <2>2, WriteOpensStep, EditOpensStep, WriteTextStep, RenameStep
<1>3. ASSUME NEW r \in Runs,
             \/ EditReads(r) \/ Shell(r) \/ dispatch_approved(r) \/ IndexReads(r) \/ IndexWrites(r) \/ CommitReads(r)
             \/ CommitWrites(r) \/ PushCounts(r) \/ Push(r) \/ RunSuite(r) \/ \E t \in Tools : dispatch(r, t)
      PROVE  FileInv' /\ RepoTypeOK'
  <2>1. IndexWrites(r) \/ CommitWrites(r) \/ Push(r) \/ RunSuite(r) \/ UNCHANGED repoVars
    BY <1>3 DEF EditReads, Shell, dispatch_approved, IndexReads, CommitReads, PushCounts, dispatch
  <2> QED BY <1>3, <2>1, QuietFileSteps, RepoSteps
<1>4. CASE UNCHANGED toolVars
  BY <1>4 DEF toolVars, FileInv, OneEdit, EditsAreAtomic, RepoTypeOK
<1>5. \A t \in {"write_file", "str_replace", "run_shell", "git_add", "git_reset", "git_commit", "git_push", "run_suite"} : t \in Tools
  BY DEF Tools
<1> QED BY <1>1, <1>2, <1>3, <1>4, <1>5 DEF FileNext, GitNext

LEMMA WorkspaceInvSuffices == WorkspaceInv => WorkspaceToolsTypeOK /\ EditsAreAtomic
  BY DEF WorkspaceInv, FileInv, RepoTypeOK, WorkspaceToolsTypeOK, Uses

\* The workspace's files, the calls on their way and the repository keep their
\* types.
THEOREM WorkspaceTypeCorrect == WorkspaceToolsSpec => []WorkspaceToolsTypeOK
<1>1. ToolsInit => WorkspaceInv
  BY ToolsInitial DEF WorkspaceInv
<1> QED BY <1>1, WorkspaceStep, WorkspaceInvSuffices, PTL DEF WorkspaceToolsSpec

\* For any number of runs and calls, through crashes, an edit by str_replace
\* is atomic: the file is whole unless a write_file is at work or was cut
\* short, or edits shared the sibling (filesystem.rs).
THEOREM EditsCorrect == WorkspaceToolsSpec => []EditsAreAtomic
<1>1. ToolsInit => WorkspaceInv
  BY ToolsInitial DEF WorkspaceInv
<1> QED BY <1>1, WorkspaceStep, WorkspaceInvSuffices, PTL DEF WorkspaceToolsSpec

-----------------------------------------------------------------------------
(* WorkspaceTools: the paths                                               *)

\* One turn of WalkPath.
Turn(d, c) ==
    IF c = "/" THEN <<"/">>
    ELSE IF c = ".." THEN (IF d = <<"/">> THEN <<"/">> ELSE Front(d))
    ELSE IF c = "." THEN d ELSE Append(d, c)
\* The absolute paths with components in S.
Absolute(S) == {s \in Seq(S) : s # <<>> /\ s[1] = "/"}

LEMMA Fronts ==
    ASSUME NEW S, NEW s \in Seq(S), Len(s) > 1
    PROVE  Front(s) \in Seq(S) /\ Front(s) # <<>> /\ Front(s)[1] = s[1]
<1>1. Len(s) \in Nat
  OBVIOUS
<1>2. Len(s) - 1 \in 0..Len(s) /\ Len(s) - 1 >= 1
  BY <1>1
<1>3. SubSeq(s, 1, Len(s) - 1) \in Seq(S)
  BY <1>1, <1>2
<1>4. Len(SubSeq(s, 1, Len(s) - 1)) = Len(s) - 1
  BY <1>1, <1>2
<1>5. SubSeq(s, 1, Len(s) - 1)[1] = s[1]
  BY <1>1, <1>2
<1>6. Front(s) = SubSeq(s, 1, Len(s) - 1)
  BY DEF Front
<1>7. ASSUME SubSeq(s, 1, Len(s) - 1) = <<>> PROVE FALSE
  BY <1>2, <1>4, <1>7
<1> QED BY <1>3, <1>5, <1>6, <1>7

\* From an absolute path WalkPath and normalize_path take the same turns.
LEMMA SameTurns ==
    ASSUME NEW S, NEW s \in Absolute(S), NEW c \in S
    PROVE  Turn(s, c) \in Absolute(S) /\ (c # "/" => Step(s, c) = Turn(s, c))
<1>1. s \in Seq(S) /\ s # <<>> /\ s[1] = "/" /\ Len(s) \in Nat /\ Len(s) # 0
  BY DEF Absolute
<1>2. s = <<"/">> <=> ~(Len(s) > 1)
  <2>1. ASSUME ~(Len(s) > 1) PROVE s = <<"/">>
    <3> DEFINE l == Len(s)
    <3>1. l \in Nat /\ l # 0 /\ ~(l > 1)
      BY <1>1, <2>1
    <3> HIDE DEF l
    <3>3. l = 1
      BY <3>1
    <3>2. Len(s) = 1
      BY <3>3 DEF l
    <3> QED BY <1>1, <3>2
  <2>2. Len(<<"/">>) = 1
    OBVIOUS
  <2>3. ASSUME s = <<"/">> PROVE ~(Len(s) > 1)
    BY <2>2, <2>3
  <2> QED BY <2>1, <2>3
<1>3. <<"/">> \in Absolute(S)
  BY <1>1 DEF Absolute
<1>4. CASE c = "/"
  BY <1>3, <1>4 DEF Turn
<1>5. CASE c = ".."
  <2>1. CASE Len(s) > 1
    <3>1. Front(s) \in Absolute(S)
      BY <1>1, <2>1, Fronts DEF Absolute
    <3> QED BY <1>2, <1>5, <2>1, <3>1 DEF Turn, Step
  <2>2. CASE ~(Len(s) > 1)
    BY <1>2, <1>3, <1>5, <2>2 DEF Turn, Step
  <2> QED BY <2>1, <2>2
<1>6. CASE c = "."
  BY <1>6 DEF Turn, Step
<1>7. CASE c \notin {"/", "..", "."}
  <2>1. Append(s, c) \in Seq(S) /\ Append(s, c) # <<>> /\ Append(s, c)[1] = "/"
    BY <1>1
  <2>2. Append(s, c) \in Absolute(S)
    BY <2>1 DEF Absolute
  <2> QED BY <1>7, <2>2 DEF Turn, Step
<1> QED BY <1>4, <1>5, <1>6, <1>7

\* The directories on the way of WalkPath, one after every component.
LEMMA WalkTurns ==
    ASSUME NEW S, NEW d \in Absolute(S), NEW p \in Seq(S)
    PROVE  \E g \in [0..Len(p) -> Absolute(S)] :
             /\ g[0] = d /\ \A i \in 1..Len(p) : g[i] = Turn(g[i - 1], p[i])
             /\ WalkPath(d, p) = g[Len(p)]
<1> DEFINE n == Len(p)
           f == [x \in Absolute(S) \X (1..n) |-> Turn(x[1], p[x[2]])]
           Fix(h) == h = [i \in 0..n |-> IF i = 0 THEN d
                            ELSE IF p[i] = "/" THEN <<"/">>
                            ELSE IF p[i] = ".." THEN (IF h[i - 1] = <<"/">> THEN <<"/">> ELSE Front(h[i - 1]))
                            ELSE IF p[i] = "." THEN h[i - 1] ELSE Append(h[i - 1], p[i])]
           u == CHOOSE h : Fix(h)
<1>1. n \in Nat /\ \A i \in 1..n : p[i] \in S
  OBVIOUS
<1>2. f \in [Absolute(S) \X (1..n) -> Absolute(S)]
  BY <1>1, SameTurns
<1>3. \A s \in Absolute(S), i \in 1..n : f[<<s, i>>] = Turn(s, p[i])
  OBVIOUS
<1>4. WalkPath(d, p) = u[n]
  BY DEF WalkPath
<1> HIDE DEF f, u, n
<1>5. PICK g \in [0..n -> Absolute(S)] : g[0] = d /\ \A i \in 1..n : g[i] = f[<<g[i - 1], i>>]
  <2>1. n \in Nat
    BY <1>1
  <2>2. \E g : Follows(g, n, Absolute(S), d, f)
    BY <1>2, <2>1, Recursion
  <2> QED BY <2>2 DEF Follows
<1>6. \A i \in 1..n : i - 1 \in 0..n /\ g[i] = Turn(g[i - 1], p[i])
  <2> TAKE i \in 1..n
  <2>1. i - 1 \in 0..n
    BY <1>1
  <2>2. g[i] = f[<<g[i - 1], i>>]
    BY <1>5
  <2>3. f[<<g[i - 1], i>>] = Turn(g[i - 1], p[i])
    BY <1>3, <1>5, <2>1
  <2> QED BY <2>1, <2>2, <2>3
<1>7. g = [i \in 0..n |-> IF i = 0 THEN d ELSE Turn(g[i - 1], p[i])]
  BY <1>1, <1>5, <1>6
<1>8. Fix(g)
  BY <1>7 DEF Turn
<1>9. Fix(u)
  BY <1>8 DEF u
<1>10. u = [i \in 0..n |-> IF i = 0 THEN d ELSE Turn(u[i - 1], p[i])]
  BY <1>9 DEF Turn
<1> HIDE DEF Fix
<1>11. u[0] = d /\ \A i \in 1..n : u[i] = Turn(u[i - 1], p[i])
  BY <1>1, <1>10
<1> DEFINE G == {i \in 0..n : u[i] = g[i]}
<1>12. 0 \in G /\ \A m \in 0..n : m < n /\ m \in G => m + 1 \in G
  <2>1. 0 \in G
    BY <1>1, <1>5, <1>11
  <2>2. ASSUME NEW m \in 0..n, m < n, m \in G PROVE m + 1 \in G
    <3>1. m + 1 \in 1..n /\ m + 1 \in 0..n /\ (m + 1) - 1 = m
      BY <1>1, <2>2
    <3> QED BY <1>6, <1>11, <2>2, <3>1
  <2> QED BY <2>1, <2>2
<1> HIDE DEF G
<1>n. n \in Nat
  BY <1>1
<1>15. \A m \in 0..n : m \in G
  BY <1>n, <1>12, UpTo
<1>13. n \in G
  BY <1>n, <1>15
<1>14. u[n] = g[n]
  BY <1>13 DEF G
<1> QED BY <1>4, <1>5, <1>6, <1>14 DEF n

LEMMA StepType ==
    ASSUME NEW S, NEW s \in Seq(S), NEW c \in S
    PROVE  Step(s, c) \in Seq(S)
<1>1. CASE c = ".."
  <2>1. CASE Len(s) > 1
    BY <1>1, <2>1, Fronts DEF Step
  <2>2. CASE ~(Len(s) > 1)
    BY <1>1, <2>2 DEF Step
  <2> QED BY <2>1, <2>2
<1>2. CASE c = "."
  BY <1>2 DEF Step
<1>3. CASE c \notin {"..", "."}
  BY <1>3 DEF Step
<1> QED BY <1>1, <1>2, <1>3

\* What normalize_path has pushed after every component.
LEMMA PathTurns ==
    ASSUME NEW S, NEW p \in Seq(S)
    PROVE  \E g \in [0..Len(p) -> Seq(S)] :
             /\ g[0] = <<>> /\ \A i \in 1..Len(p) : g[i] = Step(g[i - 1], p[i])
             /\ normalize_path(p) = g[Len(p)]
<1> DEFINE n == Len(p)
           f == [x \in Seq(S) \X (1..n) |-> Step(x[1], p[x[2]])]
           Fix(h) == h = [i \in 0..n |-> IF i = 0 THEN <<>> ELSE Step(h[i - 1], p[i])]
           u == CHOOSE h : Fix(h)
<1>1. n \in Nat /\ \A i \in 1..n : p[i] \in S
  OBVIOUS
<1>2. f \in [Seq(S) \X (1..n) -> Seq(S)]
  BY <1>1, StepType
<1>3. \A s \in Seq(S), i \in 1..n : f[<<s, i>>] = Step(s, p[i])
  OBVIOUS
<1>4. normalize_path(p) = u[n]
  BY DEF normalize_path
<1>5. <<>> \in Seq(S)
  OBVIOUS
<1> HIDE DEF f, u, n
<1>6. PICK g \in [0..n -> Seq(S)] : g[0] = <<>> /\ \A i \in 1..n : g[i] = f[<<g[i - 1], i>>]
  <2>1. n \in Nat
    BY <1>1
  <2>2. \E g : Follows(g, n, Seq(S), <<>>, f)
    BY <1>2, <1>5, <2>1, Recursion
  <2> QED BY <2>2 DEF Follows
<1>7. \A i \in 1..n : i - 1 \in 0..n /\ g[i] = Step(g[i - 1], p[i])
  <2> TAKE i \in 1..n
  <2>1. i - 1 \in 0..n
    BY <1>1
  <2>2. g[i] = f[<<g[i - 1], i>>]
    BY <1>6
  <2>3. f[<<g[i - 1], i>>] = Step(g[i - 1], p[i])
    BY <1>3, <1>6, <2>1
  <2> QED BY <2>1, <2>2, <2>3
<1>8. Fix(g)
  BY <1>1, <1>6, <1>7
<1>9. Fix(u)
  BY <1>8 DEF u
<1>10. u[0] = <<>> /\ \A i \in 1..n : u[i] = Step(u[i - 1], p[i])
  BY <1>1, <1>9
<1> HIDE DEF Fix
<1> DEFINE G == {i \in 0..n : u[i] = g[i]}
<1>12. 0 \in G /\ \A m \in 0..n : m < n /\ m \in G => m + 1 \in G
  <2>1. 0 \in G
    BY <1>1, <1>6, <1>10
  <2>2. ASSUME NEW m \in 0..n, m < n, m \in G PROVE m + 1 \in G
    <3>1. m + 1 \in 1..n /\ m + 1 \in 0..n /\ (m + 1) - 1 = m
      BY <1>1, <2>2
    <3> QED BY <1>7, <1>10, <2>2, <3>1
  <2> QED BY <2>1, <2>2
<1> HIDE DEF G
<1>n. n \in Nat
  BY <1>1
<1>15. \A m \in 0..n : m \in G
  BY <1>n, <1>12, UpTo
<1>13. n \in G
  BY <1>n, <1>15
<1>14. u[n] = g[n]
  BY <1>13 DEF G
<1> QED BY <1>4, <1>6, <1>7, <1>14 DEF n

\* From place k + j of q on, the values of g follow one from the other in
\* normalize_path's turns; from place j of p on, the values of w in WalkPath's.
Pushes(g, q, k, j, n) == \A i \in 1..n : i > j => g[k + i] = Step(g[(k + i) - 1], q[k + i])
TakesTurns(w, p, j, n) == \A i \in 1..n : i > j => w[i] = Turn(w[i - 1], p[i])
\* The components of q from place k + j on are those of p, and none is "/".
Joined(q, p, k, j, n) == \A i \in 1..n : i > j => q[k + i] = p[i] /\ p[i] # "/"

InStep(S, g, q, k, w, p, j, n) ==
    /\ n \in Nat /\ k \in Nat /\ j \in 0..n
    /\ (\A i \in 1..n : p[i] \in S) /\ w \in [0..n -> Absolute(S)]
    /\ Joined(q, p, k, j, n) /\ Pushes(g, q, k, j, n) /\ TakesTurns(w, p, j, n)

LEMMA Joins ==
    ASSUME NEW S, NEW g, NEW q, NEW k, NEW w, NEW p, NEW j, NEW n, InStep(S, g, q, k, w, p, j, n),
           NEW a, a = k + j, g[a] = w[j], NEW b, b = k + n
    PROVE  g[b] = w[n]
<1>0. /\ n \in Nat /\ k \in Nat /\ j \in 0..n
      /\ (\A i \in 1..n : p[i] \in S) /\ w \in [0..n -> Absolute(S)]
      /\ Joined(q, p, k, j, n) /\ Pushes(g, q, k, j, n) /\ TakesTurns(w, p, j, n)
  BY DEF InStep
<1> DEFINE G == {m \in 0..n : m >= j => g[k + m] = w[m]}
<1>1. 0 \in G
  <2>1. 0 >= j => j = 0
    BY <1>0
  <2> QED BY <1>0, <2>1
<1>2. ASSUME NEW m \in 0..n, m < n, m \in G
      PROVE  m + 1 \in G
  <2>1. CASE m < j
    <3>1. m + 1 >= j => m + 1 = j
      BY <1>0, <2>1
    <3> QED BY <1>0, <1>2, <3>1
  <2>2. CASE m >= j
    <3>1. m + 1 \in 1..n /\ m + 1 > j /\ (m + 1) - 1 = m /\ (k + (m + 1)) - 1 = k + m
      BY <1>0, <1>2, <2>2
    <3>2. g[k + m] = w[m] /\ w[m] \in Absolute(S)
      BY <1>0, <1>2, <2>2
    <3> DEFINE i == m + 1
    <3>6. i \in 1..n /\ i > j /\ (k + i) - 1 = k + m
      BY <1>0, <3>1
    <3> HIDE DEF i
    <3>7. g[k + i] = Step(g[(k + i) - 1], q[k + i]) /\ q[k + i] = p[i]
      BY <1>0, <3>6 DEF Pushes, Joined
    <3>8. g[k + i] = Step(w[m], p[i])
      BY <3>2, <3>6, <3>7
    <3>3. g[k + (m + 1)] = Step(w[m], p[m + 1])
      BY <3>8 DEF i
    <3>4. w[m + 1] = Turn(w[m], p[m + 1]) /\ p[m + 1] # "/" /\ p[m + 1] \in S
      BY <1>0, <3>1 DEF TakesTurns, Joined
    <3>5. g[k + (m + 1)] = w[m + 1]
      BY <3>2, <3>3, <3>4, SameTurns
    <3> QED BY <1>0, <1>2, <3>1, <3>5
  <2> QED BY <1>0, <1>2, <2>1, <2>2
<1>3. n \in G
  <2> HIDE DEF G
  <2>1. \A m \in 0..n : m < n /\ m \in G => m + 1 \in G
    BY <1>2
  <2>2. \A m \in 0..n : m \in G
    BY <1>0, <1>1, <2>1, UpTo
  <2> QED BY <1>0, <2>2
<1> QED BY <1>0, <1>3

\* normalize_path over a path without ".." and "." gives the path back,
\* component by component.
Kept(r, q, g) == \A i \in 1..Len(r) : r[i] \notin {"..", "."} /\ g[i] = Step(g[i - 1], q[i]) /\ q[i] = r[i]

LEMMA RootTurns ==
    ASSUME NEW S, NEW r \in Seq(S), NEW q, NEW g, g[0] = <<>>, Kept(r, q, g)
    PROVE  g[Len(r)] = r
<1> DEFINE n == Len(r)
           G == {m \in 0..n : g[m] = SubSeq(r, 1, m)}
<1>1. n \in Nat
  OBVIOUS
<1>2. 0 \in G
  <2>1. SubSeq(r, 1, 0) = <<>>
    OBVIOUS
  <2>2. 0 \in 0..n
    BY <1>1
  <2> QED BY <2>1, <2>2
<1>3. ASSUME NEW m \in 0..n, m < n, m \in G
      PROVE  m + 1 \in G
  <2>1. m + 1 \in 1..n /\ m + 1 \in 0..n /\ (m + 1) - 1 = m /\ m \in Nat
    BY <1>1, <1>3
  <2>2. g[m + 1] = Append(SubSeq(r, 1, m), r[m + 1])
    BY <1>3, <2>1 DEF Step, Kept
  <2>3. SubSeq(r, 1, m + 1) = Append(SubSeq(r, 1, m), r[m + 1])
    BY <2>1
  <2> QED BY <2>1, <2>2, <2>3
<1> HIDE DEF G
<1>4. \A m \in 0..n : m < n /\ m \in G => m + 1 \in G
  BY <1>3
<1>5. \A m \in 0..n : m \in G
  BY <1>1, <1>2, <1>4, UpTo
<1>6. n \in G
  BY <1>1, <1>5
<1>7. SubSeq(r, 1, n) = r
  OBVIOUS
<1> QED BY <1>6, <1>7 DEF G

\* normalize_path of a path joined to the root is where walking it from the
\* root ends.
LEMMA NormalIsWalk ==
    ASSUME NEW p \in Rels
    PROVE  normalize_path(join(Root, p)) = WalkPath(Root, p)
<1> DEFINE S == {Root[i] : i \in DOMAIN Root} \cup {p[i] : i \in DOMAIN p} \cup {"/"}
<1>1. Root \in Seq(S) /\ p \in Seq(S) /\ Root \in Absolute(S) /\ <<"/">> \in Absolute(S)
  <2>1. Root \in Seq({Root[i] : i \in DOMAIN Root}) /\ p \in Seq({p[i] : i \in DOMAIN p})
    BY WorkspaceToolsAssumption DEF IsPath
  <2>2. Root \in Seq(S) /\ p \in Seq(S)
    BY <2>1
  <2>3. <<"/">> \in Seq(S) /\ <<"/">> # <<>> /\ <<"/">>[1] = "/"
    OBVIOUS
  <2> QED BY <2>2, <2>3, WorkspaceToolsAssumption DEF Absolute
<1>2. \A i \in 1..Len(p) : i > 1 => p[i] # "/"
  <2>1. \A i \in DOMAIN p : p[i] = "/" => i = 1
    BY WorkspaceToolsAssumption DEF IsPath
  <2>2. DOMAIN p = 1..Len(p) /\ Len(p) \in Nat
    BY <1>1
  <2> QED BY <2>1, <2>2
<1>3. \A i \in 1..Len(Root) : Root[i] \notin {"..", "."}
  BY <1>1, WorkspaceToolsAssumption
<1>4. \A i \in 1..Len(p) : p[i] \in S
  BY <1>1
<1>5. Len(p) \in Nat /\ Len(Root) \in Nat
  BY <1>1
<1> HIDE DEF S
<1>6. PICK w \in [0..Len(p) -> Absolute(S)] :
          /\ w[0] = Root /\ \A i \in 1..Len(p) : w[i] = Turn(w[i - 1], p[i])
          /\ WalkPath(Root, p) = w[Len(p)]
  BY <1>1, WalkTurns
<1>7. CASE p # <<>> /\ p[1] = "/"
  <2>1. PICK g \in [0..Len(p) -> Seq(S)] :
          /\ g[0] = <<>> /\ \A i \in 1..Len(p) : g[i] = Step(g[i - 1], p[i])
          /\ normalize_path(p) = g[Len(p)]
    BY <1>1, PathTurns
  <2>2. 1 \in 1..Len(p) /\ 1 - 1 = 0
    BY <1>1, <1>5, <1>7
  <2>3. g[1] = Append(<<>>, "/")
    BY <1>7, <2>1, <2>2 DEF Step
  <2>4. Append(<<>>, "/") = <<"/">>
    OBVIOUS
  <2>5. w[1] = <<"/">>
    BY <1>6, <1>7, <2>2 DEF Turn
  <2>6. Joined(p, p, 0, 1, Len(p))
    BY <1>2 DEF Joined
  <2>7. Pushes(g, p, 0, 1, Len(p))
    <3> SUFFICES ASSUME NEW i \in 1..Len(p) PROVE g[0 + i] = Step(g[(0 + i) - 1], p[0 + i])
      BY DEF Pushes
    <3>1. 0 + i = i /\ (0 + i) - 1 = i - 1
      OBVIOUS
    <3> QED BY <2>1, <3>1
  <2>8. TakesTurns(w, p, 1, Len(p))
    BY <1>6 DEF TakesTurns
  <2>9. 1 \in 0..Len(p) /\ 0 \in Nat /\ 1 = 0 + 1 /\ Len(p) = 0 + Len(p)
    BY <1>5, <2>2
  <2>10. g[1] = w[1]
    BY <2>3, <2>4, <2>5
  <2>11. InStep(S, g, p, 0, w, p, 1, Len(p))
    BY <1>4, <1>5, <2>6, <2>7, <2>8, <2>9 DEF InStep
  <2>12. g[Len(p)] = w[Len(p)]
    BY <2>9, <2>10, <2>11, Joins
  <2> QED BY <1>6, <1>7, <2>1, <2>12 DEF join
<1>8. CASE ~(p # <<>> /\ p[1] = "/")
  <2> DEFINE q == Root \o p
             k == Len(Root)
  <2>1. q \in Seq(S) /\ Len(q) = k + Len(p) /\ k \in Nat
    BY <1>1
  <2>2. /\ \A i \in 1..Len(Root) : i \in 1..Len(q) /\ q[i] = Root[i]
        /\ \A i \in 1..Len(p) : k + i \in 1..Len(q) /\ q[k + i] = p[i]
    BY <1>1
  <2>3. join(Root, p) = q
    BY <1>8 DEF join
  <2> HIDE DEF q, k
  <2>4. PICK g \in [0..Len(q) -> Seq(S)] :
          /\ g[0] = <<>> /\ \A i \in 1..Len(q) : g[i] = Step(g[i - 1], q[i])
          /\ normalize_path(q) = g[Len(q)]
    BY <2>1, PathTurns
  <2>5. g[k] = Root
    <3>1. Kept(Root, q, g)
      BY <1>3, <2>2, <2>4 DEF Kept
    <3>2. g[Len(Root)] = Root
      BY <1>1, <2>4, <3>1, RootTurns
    <3> QED BY <3>2 DEF k
  <2>6. \A i \in 1..Len(p) : p[i] \in S /\ (i > 0 => p[i] # "/")
    <3> TAKE i \in 1..Len(p)
    <3>1. CASE i = 1
      <4>1. p # <<>>
        BY <1>1, <3>1
      <4> QED BY <1>4, <1>8, <3>1, <4>1
    <3>2. CASE i # 1
      <4>1. i > 1
        BY <1>5, <3>2
      <4> QED BY <1>2, <1>4, <4>1
    <3> QED BY <3>1, <3>2
  <2>7. Joined(q, p, k, 0, Len(p))
    BY <2>2, <2>6 DEF Joined
  <2>8. Pushes(g, q, k, 0, Len(p))
    <3> SUFFICES ASSUME NEW i \in 1..Len(p) PROVE g[k + i] = Step(g[(k + i) - 1], q[k + i])
      BY DEF Pushes
    <3> DEFINE x == k + i
    <3>1. x \in 1..Len(q)
      BY <2>2
    <3> HIDE DEF x
    <3>2. g[x] = Step(g[x - 1], q[x])
      BY <2>4, <3>1
    <3> QED BY <3>2 DEF x
  <2>9. TakesTurns(w, p, 0, Len(p))
    BY <1>6 DEF TakesTurns
  <2>10. 0 \in 0..Len(p) /\ k = k + 0 /\ g[k] = w[0] /\ Len(q) = k + Len(p)
    BY <1>5, <1>6, <2>1, <2>5
  <2>12. InStep(S, g, q, k, w, p, 0, Len(p))
    BY <1>4, <1>5, <2>1, <2>7, <2>8, <2>9, <2>10 DEF InStep
  <2>11. g[Len(q)] = w[Len(p)]
    BY <2>10, <2>12, Joins
  <2> QED BY <1>6, <2>1, <2>3, <2>4, <2>11
<1> QED BY <1>7, <1>8

\* For every root and path: WorkspaceScope::resolve accepts a path
\* exactly when walking it from the workspace root ends in the workspace, and
\* names the place where the walk ends (filesystem.rs, shell.rs).
THEOREM ResolveCorrect == WorkspaceToolsSpec => []ResolveMeansWalk
<1>1. WorkspaceToolsTypeOK => ResolveMeansWalk
  <2> SUFFICES ASSUME rel \in Rels PROVE ResolveMeansWalk
    BY DEF WorkspaceToolsTypeOK
  <2>1. normalize_path(join(Root, rel)) = WalkPath(Root, rel)
    BY NormalIsWalk
  <2> QED BY <2>1 DEF resolve, ResolveMeansWalk
<1> QED BY <1>1, WorkspaceTypeCorrect, PTL

-----------------------------------------------------------------------------
(* Documents: the revisions of a document                                  *)

Jobs == [pc : {"idle", "lock", "count", "revisions", "doc", "signal"}, at : Places, text : 0..MaxTexts, rev : Nat]

Holding(j) == j.pc \in {"count", "revisions", "doc"}
Among(t, s) == \E r \in DOMAIN s : s[r] = t

\* The lock file serialises the writers of one history.
LocksAreHeld ==
    /\ \A a \in Authors : Holding(job[a]) => HistoryOf[job[a].at] \in held
    /\ \A a, b \in Authors :
          Holding(job[a]) /\ Holding(job[b]) /\ HistoryOf[job[a].at] = HistoryOf[job[b].at] => a = b
\* So the number a writer has counted is still the next one, and the text that
\* it is about to make current is in the history.
CountsAreCurrent ==
    \A a \in Authors :
        /\ job[a].pc # "idle" => job[a].text # 0
        /\ job[a].pc = "revisions" => job[a].rev = Latest(HistoryOf[job[a].at]) + 1
        /\ job[a].pc = "doc" => Among(job[a].text, revisions[HistoryOf[job[a].at]])
\* The current text of a place is one of the revisions.
CurrentIsKept == \A p \in Places : latest[p] # 0 => Among(latest[p], revisions[HistoryOf[p]])

DocsTypeOK ==
    /\ revisions \in [Shelves -> Seq(1..MaxTexts)] /\ latest \in [Places -> 0..MaxTexts]
    /\ held \subseteq Shelves \cup Places /\ texts \in 0..MaxTexts /\ signals \in 0..Capacity
    /\ job \in [Authors -> Jobs]
TraceTypeOK ==
    /\ appended \in 0..MaxEvents /\ traced \in 0..appended /\ seen \in Seq(1..MaxEvents)
    /\ listener \in [pc : {"none", "replays", "attached"}, next : 1..(MaxEvents + 1), last : 0..MaxEvents]

DocInv == DocsTypeOK /\ LocksAreHeld /\ CountsAreCurrent /\ CurrentIsKept

\* What a step may do to the documents (the body of RevisionsAreKept).
KeepsRevisions ==
    /\ \A h \in Shelves : \A r \in DOMAIN revisions[h] :
          r \in DOMAIN revisions'[h] /\ revisions'[h][r] = revisions[h][r]
    /\ \A p \in Places : latest'[p] # 0 =>
          Among(latest'[p], revisions'[HistoryOf[p]])

LEMMA DocTypeParts == DocTypeOK <=> DocsTypeOK /\ TraceTypeOK
  BY DEF DocTypeOK, DocsTypeOK, TraceTypeOK, Jobs

LEMMA NoJobIsIdle == NoJob \in Jobs /\ NoJob.pc = "idle" /\ ~Holding(NoJob)
  BY DocumentsAssumption DEF NoJob, Jobs, Holding

LEMMA DocInitial == DocInit => DocInv /\ TraceTypeOK
<1> SUFFICES ASSUME DocInit PROVE DocInv /\ TraceTypeOK
  OBVIOUS
<1>1. \A a \in Authors : job[a] = NoJob
  BY DEF DocInit
<1>2. DocsTypeOK
  <2>1. job \in [Authors -> Jobs]
    BY NoJobIsIdle DEF DocInit
  <2>2. revisions \in [Shelves -> Seq(1..MaxTexts)]
    BY DEF DocInit
  <2>3. texts \in 0..MaxTexts /\ signals \in 0..Capacity /\ latest \in [Places -> 0..MaxTexts]
    BY DocumentsAssumption DEF DocInit
  <2> QED BY <2>1, <2>2, <2>3 DEF DocInit, DocsTypeOK
<1>3. LocksAreHeld /\ CountsAreCurrent
  BY <1>1, NoJobIsIdle DEF LocksAreHeld, CountsAreCurrent
<1>4. CurrentIsKept
  BY DEF DocInit, CurrentIsKept
<1>5. TraceTypeOK
  <2>1. seen \in Seq(1..MaxEvents) /\ appended \in 0..MaxEvents /\ traced \in 0..appended
    BY DocumentsAssumption DEF DocInit
  <2>2. 0 \in 0..MaxEvents /\ 1 \in 1..(MaxEvents + 1)
    BY DocumentsAssumption
  <2>3. listener \in [pc : {"none", "replays", "attached"}, next : 1..(MaxEvents + 1), last : 0..MaxEvents]
    BY <2>2 DEF DocInit
  <2> QED BY <2>1, <2>3 DEF TraceTypeOK
<1> QED BY <1>2, <1>3, <1>4, <1>5 DEF DocInv

\* The histories and the current files stand still: only the place and the
\* locks of one job matter.
LEMMA JobStep ==
  ASSUME DocInv, NEW a \in Authors, NEW v \in Jobs, job' = [job EXCEPT ![a] = v],
         UNCHANGED <<revisions, latest>>, texts' \in 0..MaxTexts, signals' \in 0..Capacity,
         held' \subseteq Shelves \cup Places,
         v.pc # "idle" => v.text # 0,
         v.pc = "revisions" => v.rev = Latest(HistoryOf[v.at]) + 1, v.pc # "doc",
         Holding(v) => HistoryOf[v.at] \in held'
                       /\ \A b \in Authors \ {a} : Holding(job[b]) => HistoryOf[job[b].at] # HistoryOf[v.at],
         \A b \in Authors \ {a} : Holding(job[b]) => HistoryOf[job[b].at] \in held'
  PROVE  DocInv' /\ KeepsRevisions
<1>1. job' \in [Authors -> Jobs] /\ job'[a] = v /\ \A b \in Authors \ {a} : job'[b] = job[b]
  BY DEF DocInv, DocsTypeOK
<1>2. DocsTypeOK'
  BY <1>1 DEF DocInv, DocsTypeOK
<1>3. LocksAreHeld'
  BY <1>1 DEF DocInv, LocksAreHeld
<1>4. CountsAreCurrent'
  BY <1>1 DEF DocInv, CountsAreCurrent, Latest
<1>5. CurrentIsKept'
  BY DEF DocInv, CurrentIsKept
<1>6. KeepsRevisions
  BY DEF DocInv, CurrentIsKept, KeepsRevisions
<1> QED BY <1>2, <1>3, <1>4, <1>5, <1>6 DEF DocInv

\* The steps of a submission before its first write, and after its last.
LEMMA QuietDocSteps ==
  ASSUME DocInv, NEW a \in Authors,
         \/ \E p \in Places : Submit(a, p)
         \/ Suggest(a) \/ acquire_flock(a) \/ LockTimesOut(a) \/ CountRevisions(a) \/ WriteFails(a) \/ Signal(a)
  PROVE  DocInv' /\ KeepsRevisions
<1> DEFINE j == job[a]
<1>0. /\ j \in Jobs /\ texts \in 0..MaxTexts /\ signals \in 0..Capacity /\ held \subseteq Shelves \cup Places
      /\ \A b \in Authors \ {a} : Holding(job[b]) => HistoryOf[job[b].at] \in held
      /\ Holding(j) => \A b \in Authors \ {a} : Holding(job[b]) => HistoryOf[job[b].at] # HistoryOf[j.at]
      /\ j.pc # "idle" => j.text # 0
  BY DEF DocInv, DocsTypeOK, LocksAreHeld, CountsAreCurrent
<1>1. ASSUME job' = [job EXCEPT ![a] = NoJob], UNCHANGED <<revisions, latest>>, texts' = texts,
             signals' \in 0..Capacity, held' \subseteq held,
             \A b \in Authors \ {a} : Holding(job[b]) => HistoryOf[job[b].at] \in held'
      PROVE  DocInv' /\ KeepsRevisions
  <2>1. held' \subseteq Shelves \cup Places /\ texts' \in 0..MaxTexts
    BY <1>0, <1>1
  <2> QED BY <1>1, <2>1, NoJobIsIdle, JobStep
<1>2. CASE \E p \in Places : Submit(a, p) \/ Suggest(a)
  <2>1. PICK p \in Places : job' = [job EXCEPT ![a] = [pc |-> "lock", at |-> p, text |-> texts', rev |-> 0]]
    BY <1>2, DocumentsAssumption DEF Submit, Suggest, Goes
  <2>2. texts < MaxTexts /\ texts' = texts + 1 /\ UNCHANGED <<revisions, latest, held, signals>>
    BY <1>2 DEF Submit, Suggest
  <2>3. texts' \in 0..MaxTexts /\ texts' # 0
    BY <1>0, <2>2, DocumentsAssumption
  <2> DEFINE v == [pc |-> "lock", at |-> p, text |-> texts', rev |-> 0]
  <2>4. v \in Jobs /\ v.pc = "lock" /\ v.text = texts' /\ ~Holding(v)
    BY <2>3 DEF Jobs, Holding
  <2>5. job' = [job EXCEPT ![a] = v]
    BY <2>1
  <2> HIDE DEF v
  <2> QED BY <1>0, <2>2, <2>3, <2>4, <2>5, JobStep
<1>3. CASE acquire_flock(a)
  <2> DEFINE v == [j EXCEPT !.pc = "count"]
  <2>1. /\ j.pc = "lock" /\ HistoryOf[j.at] \notin held /\ held' = held \cup {HistoryOf[j.at]}
        /\ job' = [job EXCEPT ![a] = v] /\ UNCHANGED <<revisions, latest, texts, signals>>
    BY <1>3 DEF acquire_flock, LockOf, Goes
  <2>2. v \in Jobs /\ v.pc = "count" /\ v.at = j.at /\ v.text = j.text
    BY <1>0 DEF Jobs
  <2>3. held' \subseteq Shelves \cup Places
    <3>1. j.at \in Places
      BY <1>0 DEF Jobs
    <3> QED BY <1>0, <2>1, <3>1 DEF Shelves
  <2> HIDE DEF v
  <2>4. \A b \in Authors \ {a} : Holding(job[b]) => HistoryOf[job[b].at] # HistoryOf[v.at] /\ HistoryOf[job[b].at] \in held'
    BY <1>0, <2>1, <2>2
  <2> QED BY <1>0, <2>1, <2>2, <2>3, <2>4, JobStep
<1>4. CASE LockTimesOut(a)
  BY <1>0, <1>1, <1>4 DEF LockTimesOut, Goes
<1>5. CASE CountRevisions(a)
  <2> DEFINE n == Latest(HistoryOf[j.at]) + 1
             v == [j EXCEPT !.pc = "revisions", !.rev = n]
  <2>1. j.pc = "count" /\ job' = [job EXCEPT ![a] = v] /\ UNCHANGED <<revisions, latest, held, texts, signals>>
    BY <1>5 DEF CountRevisions, Goes
  <2>2. n \in Nat
    <3>1. HistoryOf[j.at] \in Shelves
      BY <1>0 DEF Jobs, Shelves
    <3>2. revisions[HistoryOf[j.at]] \in Seq(1..MaxTexts)
      BY <3>1 DEF DocInv, DocsTypeOK
    <3> QED BY <3>2 DEF Latest
  <2> HIDE DEF n
  <2>3. v \in Jobs /\ v.pc = "revisions" /\ v.at = j.at /\ v.text = j.text /\ v.rev = n
    BY <1>0, <2>2 DEF Jobs
  <2> HIDE DEF v
  <2>4. Holding(j) /\ HistoryOf[v.at] \in held
    BY <2>1, <2>3 DEF DocInv, LocksAreHeld, Holding
  <2>5. v.rev = Latest(HistoryOf[v.at]) + 1
    BY <2>3 DEF n
  <2> QED BY <1>0, <2>1, <2>3, <2>4, <2>5, JobStep
<1>6. CASE WriteFails(a)
  <2>1. Holding(j) /\ held' = held \ {HistoryOf[j.at]} /\ job' = [job EXCEPT ![a] = NoJob]
        /\ UNCHANGED <<revisions, latest, texts, signals>>
    BY <1>6 DEF WriteFails, Goes, LockOf, Holding
  <2> QED BY <1>0, <1>1, <2>1
<1>7. CASE Signal(a)
  <2>1. signals' \in 0..Capacity
    BY <1>0, <1>7, DocumentsAssumption DEF Signal
  <2> QED BY <1>0, <1>1, <1>7, <2>1 DEF Signal, Goes
<1> QED BY <1>2, <1>3, <1>4, <1>5, <1>6, <1>7, DocumentsAssumption

\* Writing the next number extends the history and overwrites nothing.
LEMMA NumberedAppends ==
  ASSUME NEW s \in Seq(1..MaxTexts), NEW t \in 1..MaxTexts
  PROVE  /\ Numbered(s, Len(s) + 1, t) \in Seq(1..MaxTexts)
         /\ DOMAIN s \subseteq DOMAIN Numbered(s, Len(s) + 1, t)
         /\ \A r \in DOMAIN s : Numbered(s, Len(s) + 1, t)[r] = s[r]
         /\ \E r \in DOMAIN Numbered(s, Len(s) + 1, t) : Numbered(s, Len(s) + 1, t)[r] = t
<1>1. Numbered(s, Len(s) + 1, t) = Append(s, t) /\ DOMAIN s = 1..Len(s) /\ Len(s) \in Nat
  BY DEF Numbered
<1>2. Append(s, t) \in Seq(1..MaxTexts) /\ DOMAIN Append(s, t) = 1..(Len(s) + 1)
  OBVIOUS
<1>3. Append(s, t)[Len(s) + 1] = t /\ \A r \in 1..Len(s) : Append(s, t)[r] = s[r]
  OBVIOUS
<1> HIDE <1>1
<1>4. Len(s) + 1 \in 1..(Len(s) + 1) /\ 1..Len(s) \subseteq 1..(Len(s) + 1)
  BY <1>1
<1> QED BY <1>1, <1>2, <1>3, <1>4

LEMMA WriteHistoryStep ==
  ASSUME DocInv, NEW a \in Authors, WriteHistory(a)
  PROVE  DocInv' /\ KeepsRevisions
<1> DEFINE j == job[a]
           h == HistoryOf[j.at]
           s == revisions[h]
           n == Numbered(s, j.rev, j.text)
           v == [j EXCEPT !.pc = "doc"]
<1>1. j \in Jobs /\ j.pc = "revisions" /\ h \in Shelves /\ s \in Seq(1..MaxTexts) /\ j.text \in 1..MaxTexts
  BY DEF DocInv, DocsTypeOK, CountsAreCurrent, Jobs, Shelves, WriteHistory
<1>2. j.rev = Len(s) + 1
  BY <1>1 DEF DocInv, CountsAreCurrent, Latest
<1>3. /\ n \in Seq(1..MaxTexts) /\ DOMAIN s \subseteq DOMAIN n /\ \A r \in DOMAIN s : n[r] = s[r]
      /\ \E r \in DOMAIN n : n[r] = j.text
  <2>1. n = Numbered(s, Len(s) + 1, j.text)
    BY <1>2
  <2> HIDE DEF n, s, h, j
  <2> QED BY <1>1, <2>1, NumberedAppends
<1>4. revisions' = [revisions EXCEPT ![h] = n] /\ job' = [job EXCEPT ![a] = v] /\ UNCHANGED <<latest, held, texts, signals>>
  BY DEF WriteHistory, Goes
<1>5. v \in Jobs /\ v.pc = "doc" /\ v.at = j.at /\ v.text = j.text
  BY <1>1 DEF Jobs
<1> HIDE DEF n, v
<1>6. job' \in [Authors -> Jobs] /\ job'[a] = v /\ \A b \in Authors \ {a} : job'[b] = job[b]
  BY <1>4, <1>5 DEF DocInv, DocsTypeOK
<1>7. revisions' \in [Shelves -> Seq(1..MaxTexts)] /\ revisions'[h] = n /\ \A x \in Shelves \ {h} : revisions'[x] = revisions[x]
  BY <1>1, <1>3, <1>4 DEF DocInv, DocsTypeOK
<1>8. \A x \in Shelves : \A t : Among(t, revisions[x]) => Among(t, revisions'[x])
  <2> SUFFICES ASSUME NEW x \in Shelves, NEW t, Among(t, revisions[x])
               PROVE  \E r \in DOMAIN revisions'[x] : revisions'[x][r] = t
    BY DEF Among
  <2>1. PICK r \in DOMAIN revisions[x] : revisions[x][r] = t
    BY DEF Among
  <2>2. CASE x = h
    BY <1>3, <1>7, <2>1, <2>2
  <2>3. CASE x # h
    BY <1>7, <2>1, <2>3
  <2> QED BY <2>2, <2>3
<1>9. Among(j.text, revisions'[h])
  BY <1>3, <1>7 DEF Among
<1>10. DocsTypeOK'
  BY <1>4, <1>6, <1>7 DEF DocInv, DocsTypeOK
<1>11. Holding(j) /\ Holding(v)
  BY <1>1, <1>5 DEF Holding
<1>12. LocksAreHeld'
  BY <1>4, <1>5, <1>6, <1>11 DEF DocInv, LocksAreHeld
<1>13. CountsAreCurrent'
  <2> SUFFICES ASSUME NEW b \in Authors
               PROVE  /\ job'[b].pc # "idle" => job'[b].text # 0
                      /\ job'[b].pc = "revisions" => job'[b].rev = Len(revisions'[HistoryOf[job'[b].at]]) + 1
                      /\ job'[b].pc = "doc" => Among(job'[b].text, revisions'[HistoryOf[job'[b].at]])
    BY DEF CountsAreCurrent, Latest
  <2>1. CASE b = a
    <3>1. job'[b].text # 0 /\ job'[b].pc = "doc"
      BY <1>1, <1>5, <1>6, <2>1
    <3>2. HistoryOf[job'[b].at] = h /\ job'[b].text = j.text
      BY <1>5, <1>6, <2>1
    <3> QED BY <1>9, <3>1, <3>2
  <2>2. CASE b # a
    <3>1. job'[b] = job[b] /\ job[b] \in Jobs /\ HistoryOf[job[b].at] \in Shelves
      BY <1>6, <2>2 DEF DocInv, DocsTypeOK, Jobs, Shelves
    <3>2. job[b].pc # "idle" => job[b].text # 0
      BY DEF DocInv, CountsAreCurrent
    <3>3. ASSUME job[b].pc = "revisions" PROVE job[b].rev = Len(revisions'[HistoryOf[job[b].at]]) + 1
      <4>1. HistoryOf[job[b].at] # h
        BY <1>11, <2>2, <3>3 DEF DocInv, LocksAreHeld, Holding
      <4> QED BY <1>7, <3>1, <3>3, <4>1 DEF DocInv, CountsAreCurrent, Latest
    <3>4. ASSUME job[b].pc = "doc" PROVE Among(job[b].text, revisions'[HistoryOf[job[b].at]])
      <4>1. Among(job[b].text, revisions[HistoryOf[job[b].at]])
        BY <3>4 DEF DocInv, CountsAreCurrent
      <4> QED BY <1>8, <3>1, <4>1
    <3> QED BY <3>1, <3>2, <3>3, <3>4
  <2> QED BY <2>1, <2>2
<1>14. CurrentIsKept'
  <2> SUFFICES ASSUME NEW p \in Places, latest'[p] # 0 PROVE Among(latest'[p], revisions'[HistoryOf[p]])
    BY DEF CurrentIsKept
  <2>1. Among(latest[p], revisions[HistoryOf[p]]) /\ latest'[p] = latest[p] /\ HistoryOf[p] \in Shelves
    BY <1>4 DEF DocInv, CurrentIsKept, Shelves
  <2> QED BY <1>8, <2>1
<1>15. KeepsRevisions
  <2>1. ASSUME NEW x \in Shelves, NEW r \in DOMAIN revisions[x]
        PROVE  r \in DOMAIN revisions'[x] /\ revisions'[x][r] = revisions[x][r]
    BY <1>3, <1>7, <2>1
  <2> QED BY <1>14, <2>1 DEF KeepsRevisions, CurrentIsKept
<1> QED BY <1>10, <1>12, <1>13, <1>14, <1>15 DEF DocInv

LEMMA WriteCurrentStep ==
  ASSUME DocInv, NEW a \in Authors, WriteCurrent(a)
  PROVE  DocInv' /\ KeepsRevisions
<1> DEFINE j == job[a]
<1>1. j \in Jobs /\ j.pc = "doc" /\ j.at \in Places /\ j.text \in 0..MaxTexts /\ j.text # 0
  BY DEF DocInv, DocsTypeOK, CountsAreCurrent, Jobs, WriteCurrent
<1>2. Among(j.text, revisions[HistoryOf[j.at]])
  BY <1>1 DEF DocInv, CountsAreCurrent
<1>3. /\ latest' = [latest EXCEPT ![j.at] = j.text] /\ held' = held \ {HistoryOf[j.at]}
      /\ UNCHANGED <<revisions, texts, signals>>
  BY DEF WriteCurrent, LockOf
<1>4. PICK v \in Jobs : job' = [job EXCEPT ![a] = v] /\ v.pc \in {"idle", "signal"} /\ (v.pc = "signal" => v.text # 0)
  <2>1. CASE j.at = Docs
    BY <2>1, NoJobIsIdle DEF WriteCurrent, Goes
  <2>2. CASE j.at # Docs
    <3> DEFINE v == [j EXCEPT !.pc = "signal"]
    <3>1. job' = [job EXCEPT ![a] = v]
      BY <2>2 DEF WriteCurrent, Goes
    <3>2. v \in Jobs /\ v.pc = "signal" /\ v.text = j.text
      BY <1>1 DEF Jobs
    <3> HIDE DEF v
    <3> QED BY <1>1, <3>1, <3>2
  <2> QED BY <2>1, <2>2
<1>5. job' \in [Authors -> Jobs] /\ job'[a] = v /\ \A b \in Authors \ {a} : job'[b] = job[b]
  BY <1>4 DEF DocInv, DocsTypeOK
<1>6. ~Holding(v) /\ Holding(j)
  BY <1>1, <1>4 DEF Holding
<1>7. latest' \in [Places -> 0..MaxTexts] /\ latest'[j.at] = j.text /\ \A p \in Places \ {j.at} : latest'[p] = latest[p]
  BY <1>1, <1>3 DEF DocInv, DocsTypeOK
<1>8. DocsTypeOK'
  BY <1>3, <1>5, <1>7 DEF DocInv, DocsTypeOK
<1>9. LocksAreHeld'
  BY <1>3, <1>5, <1>6 DEF DocInv, LocksAreHeld
<1>10. CountsAreCurrent'
  BY <1>3, <1>4, <1>5 DEF DocInv, CountsAreCurrent, Latest
<1>11. CurrentIsKept'
  BY <1>2, <1>3, <1>7 DEF DocInv, CurrentIsKept
<1>12. KeepsRevisions
  BY <1>3, <1>11 DEF KeepsRevisions, CurrentIsKept
<1> QED BY <1>8, <1>9, <1>10, <1>11, <1>12 DEF DocInv

\* The documents under any step of their own; the trace is another file.
LEMMA DocStep == DocInv /\ [DocNext]_docVars => DocInv' /\ KeepsRevisions
<1> SUFFICES ASSUME DocInv, [DocNext]_docVars PROVE DocInv' /\ KeepsRevisions
  OBVIOUS
<1>1. CASE Supervise
  <2>1. UNCHANGED <<revisions, latest, held, job, texts>>
    BY <1>1 DEF Supervise
  <2>2. signals' \in 0..Capacity
    BY <1>1, DocumentsAssumption DEF Supervise, DocInv, DocsTypeOK
  <2>3. DocInv'
    BY <2>1, <2>2 DEF DocInv, DocsTypeOK, LocksAreHeld, CountsAreCurrent, CurrentIsKept, Latest
  <2> QED BY <2>1, <2>3 DEF DocInv, KeepsRevisions, CurrentIsKept
<1>2. CASE ProcessDies
  <2>1. job' = [a \in Authors |-> NoJob] /\ held' = {} /\ signals' = 0 /\ UNCHANGED <<revisions, latest, texts>>
    BY <1>2 DEF ProcessDies
  <2>2. \A a \in Authors : job'[a] = NoJob
    BY <2>1
  <2>3. job' \in [Authors -> Jobs] /\ signals' \in 0..Capacity
    BY <2>1, NoJobIsIdle, DocumentsAssumption
  <2>4. LocksAreHeld' /\ CountsAreCurrent'
    BY <2>2, NoJobIsIdle DEF LocksAreHeld, CountsAreCurrent
  <2>5. DocInv'
    BY <2>1, <2>3, <2>4 DEF DocInv, DocsTypeOK, CurrentIsKept
  <2> QED BY <2>1, <2>5 DEF DocInv, KeepsRevisions, CurrentIsKept
<1>3. CASE UNCHANGED docVars
  <2>1. DocInv'
    BY <1>3 DEF docVars, DocInv, DocsTypeOK, LocksAreHeld, CountsAreCurrent, CurrentIsKept, Latest
  <2> QED BY <1>3, <2>1 DEF docVars, DocInv, KeepsRevisions, CurrentIsKept
<1> QED BY <1>1, <1>2, <1>3, QuietDocSteps, WriteHistoryStep, WriteCurrentStep DEF DocNext

LEMMA TraceStep == TraceTypeOK /\ [TraceNext]_traceVars => TraceTypeOK'
<1> SUFFICES ASSUME TraceTypeOK, [TraceNext]_traceVars PROVE TraceTypeOK'
  OBVIOUS
<1> DEFINE Listeners == [pc : {"none", "replays", "attached"}, next : 1..(MaxEvents + 1), last : 0..MaxEvents]
<1>1. CASE TraceAppend
  BY <1>1, DocumentsAssumption DEF TraceAppend, TraceTypeOK
<1>2. CASE TraceWrite
  <2>1. traced' \in 1..MaxEvents /\ traced' \in 0..appended /\ appended' = appended /\ listener' = listener
    BY <1>2, DocumentsAssumption DEF TraceWrite, TraceTypeOK
  <2>2. seen' \in Seq(1..MaxEvents)
    <3>1. seen' = Append(seen, traced') \/ seen' = seen
      BY <1>2 DEF TraceWrite
    <3>2. seen \in Seq(1..MaxEvents)
      BY DEF TraceTypeOK
    <3>3. \A t \in 1..MaxEvents : Append(seen, t) \in Seq(1..MaxEvents)
      BY <3>2
    <3>4. traced' \in 1..MaxEvents
      BY <2>1
    <3> QED BY <3>1, <3>2, <3>3, <3>4, Zenon
  <2> QED BY <2>1, <2>2 DEF TraceTypeOK
<1>3. CASE SubscribeReads
  <2>1. traced \in 0..MaxEvents /\ 1 \in 1..(MaxEvents + 1)
    BY DocumentsAssumption DEF TraceTypeOK
  <2>2. listener' \in Listeners
    BY <1>3, <2>1 DEF SubscribeReads, Replayed
  <2> QED BY <1>3, <2>2 DEF SubscribeReads, TraceTypeOK
<1>4. CASE Replay
  <2>1. listener \in Listeners
    BY DEF TraceTypeOK
  <2>2. listener.next \in 1..MaxEvents /\ listener.next + 1 \in 1..(MaxEvents + 1)
    BY <1>4, <2>1, DocumentsAssumption DEF Replay
  <2>3. listener' \in Listeners
    <3>1. listener' = [listener EXCEPT !.next = listener.next + 1]
      BY <1>4 DEF Replay
    <3> QED BY <2>1, <2>2, <3>1
  <2>4. seen' \in Seq(1..MaxEvents)
    BY <1>4, <2>2 DEF Replay, TraceTypeOK
  <2> QED BY <1>4, <2>3, <2>4 DEF Replay, TraceTypeOK
<1>5. CASE SubscribeAttaches
  <2>1. listener' \in Listeners
    BY <1>5 DEF SubscribeAttaches, TraceTypeOK
  <2> QED BY <1>5, <2>1 DEF SubscribeAttaches, TraceTypeOK
<1>6. CASE UNCHANGED traceVars
  BY <1>6 DEF traceVars, TraceTypeOK
<1> QED BY <1>1, <1>2, <1>3, <1>4, <1>5, <1>6 DEF TraceNext

\* A step of the documents leaves the trace alone, and the other way round.
LEMMA DocumentsParts ==
  ASSUME [DocumentsNext]_documentVars
  PROVE  [DocNext]_docVars /\ [TraceNext]_traceVars
<1>1. CASE DocNext
  <2>1. UNCHANGED traceVars
    BY <1>1 DEF DocNext, Supervise, ProcessDies, Suggest, acquire_flock, LockTimesOut, CountRevisions, WriteHistory,
                WriteCurrent, WriteFails, Signal, Submit
  <2> QED BY <1>1, <2>1
<1>2. CASE TraceNext
  <2>1. UNCHANGED docVars
    BY <1>2 DEF TraceNext, TraceAppend, TraceWrite, SubscribeReads, Replay, SubscribeAttaches
  <2> QED BY <1>2, <2>1
<1>3. CASE UNCHANGED documentVars
  BY <1>3 DEF documentVars
<1> QED BY <1>1, <1>2, <1>3 DEF DocumentsNext

LEMMA DocumentsStep == DocInv /\ TraceTypeOK /\ [DocumentsNext]_documentVars => DocInv' /\ TraceTypeOK' /\ KeepsRevisions
  BY DocStep, TraceStep, DocumentsParts

\* Histories, current files, jobs and the trace keep their types.
THEOREM DocTypeCorrect == DocumentsSpec => []DocTypeOK
<1>1. DocInv /\ TraceTypeOK => DocTypeOK
  BY DocTypeParts DEF DocInv
<1> QED BY <1>1, DocInitial, DocumentsStep, PTL DEF DocumentsSpec

\* For any number of authors and places that share histories, through failed
\* writes and crashes: no revision is overwritten, and the current text is
\* always one of the revisions (persist_flow_document, DocumentStore).
THEOREM RevisionsCorrect == DocumentsSpec => RevisionsAreKept
<1>1. KeepsRevisions => [/\ \A h \in Shelves : \A r \in DOMAIN revisions[h] :
                               r \in DOMAIN revisions'[h] /\ revisions'[h][r] = revisions[h][r]
                         /\ \A p \in Places : latest'[p] # 0 =>
                               \E r \in DOMAIN revisions'[HistoryOf[p]] : revisions'[HistoryOf[p]][r] = latest'[p]]_docVars
  BY DEF KeepsRevisions, Among
<1> QED BY <1>1, DocInitial, DocumentsStep, PTL DEF DocumentsSpec, RevisionsAreKept

-----------------------------------------------------------------------------
(* Definitions: edits of the definition files                           *)

\* A definition is its file, or the two files of a document type.
LEMMA Entities ==
  ASSUME NEW p \in DefPaths
  PROVE  /\ Entity(p) \in DefPaths /\ Entity(Entity(p)) = Entity(p)
         /\ Entity(p) \notin {<<"yaml", d>> : d \in DocTypes}
         /\ p \notin TypeFiles => Entity(p) = p /\ p[1] # "md" /\ \A x \in DefPaths : Entity(x) = p => x = p
<1>1. CASE p \in TypeFiles
  <2>1. PICK d \in DocTypes : p = <<"md", d>> \/ p = <<"yaml", d>>
    BY <1>1 DEF TypeFiles
  <2>2. Entity(p) = <<"md", d>> /\ <<"md", d>> \in TypeFiles
    BY <1>1, <2>1 DEF Entity, TypeFiles
  <2>3. Entity(<<"md", d>>) = <<"md", d>>
    BY <2>2 DEF Entity
  <2> QED BY <1>1, <2>2, <2>3 DEF DefPaths
<1>2. CASE p \notin TypeFiles
  <2>1. Entity(p) = p
    BY <1>2 DEF Entity
  <2>2. p \notin {<<"yaml", d>> : d \in DocTypes} /\ p \notin {<<"md", d>> : d \in DocTypes}
    BY <1>2 DEF TypeFiles
  <2>3. p[1] # "md"
    BY <1>2 DEF DefPaths, AgentFiles, FlowFiles
  <2>4. ASSUME NEW x \in DefPaths, Entity(x) = p PROVE x = p
    <3>1. CASE x \in TypeFiles
      <4>1. Entity(x) \in {<<"md", d>> : d \in DocTypes}
        BY <3>1 DEF Entity, TypeFiles
      <4> QED BY <2>2, <2>4, <4>1
    <3>2. CASE x \notin TypeFiles
      BY <2>4, <3>2 DEF Entity
    <3> QED BY <3>1, <3>2
  <2> QED BY <1>2, <2>1, <2>2, <2>3, <2>4
<1> QED BY <1>1, <1>2

\* What is read of a definition depends on its own files only.
LEMMA ServedLocally ==
  ASSUME NEW f, NEW g, NEW p \in DefPaths,
         \A x \in DefPaths : Entity(x) = Entity(p) => f[x] = g[x]
  PROVE  Served(f, p) = Served(g, p)
<1>1. CASE p \in TypeFiles
  <2>1. PICK d \in DocTypes : p = <<"md", d>> \/ p = <<"yaml", d>>
    BY <1>1 DEF TypeFiles
  <2>2. /\ <<"md", d>> \in TypeFiles /\ <<"yaml", d>> \in TypeFiles
        /\ <<"md", d>> \in DefPaths /\ <<"yaml", d>> \in DefPaths /\ p[2] = d /\ p \notin AgentFiles
    BY <2>1 DEF TypeFiles, DefPaths, AgentFiles
  <2>3. Entity(p) = <<"md", d>> /\ Entity(<<"md", d>>) = <<"md", d>> /\ Entity(<<"yaml", d>>) = <<"md", d>>
    BY <1>1, <2>2 DEF Entity
  <2>4. f[<<"md", d>>] = g[<<"md", d>>] /\ f[<<"yaml", d>>] = g[<<"yaml", d>>]
    BY <2>2, <2>3
  <2>5. Scanned(f, d) = Scanned(g, d)
    BY <2>4 DEF Scanned
  <2>6. DocTypeLoad(f, d) = DocTypeLoad(g, d)
    BY <2>5 DEF DocTypeLoad
  <2> QED BY <1>1, <2>2, <2>6 DEF Served
<1>2. CASE p \notin TypeFiles
  <2>1. f[p] = g[p]
    OBVIOUS
  <2> QED BY <1>2, <2>1 DEF Served
<1> QED BY <1>1, <1>2

LEMMA ServedOfEntity ==
  ASSUME NEW f, NEW p \in DefPaths
  PROVE  Served(f, Entity(p)) = Served(f, p)
<1>1. CASE p \in TypeFiles
  <2>1. PICK d \in DocTypes : p = <<"md", d>> \/ p = <<"yaml", d>>
    BY <1>1 DEF TypeFiles
  <2>2. Entity(p) = <<"md", d>> /\ <<"md", d>> \in TypeFiles /\ p[2] = d /\ <<"md", d>>[2] = d
        /\ p \notin AgentFiles /\ <<"md", d>> \notin AgentFiles
    BY <1>1, <2>1 DEF Entity, TypeFiles, AgentFiles
  <2> QED BY <1>1, <2>2 DEF Served
<1>2. CASE p \notin TypeFiles
  BY <1>2, Entities
<1> QED BY <1>1, <1>2

IsEdit(u) ==
  /\ u = [pc |-> u.pc, path |-> u.path, text |-> u.text, on |-> u.on, alone |-> u.alone, want |-> u.want]
  /\ u.pc \in {"idle", "open", "write", "rename", "remove"} /\ u.on \in {"none", "tmp", "file", "gone"}
  /\ u.alone \in BOOLEAN /\ (u.pc # "idle" => u.path \in DefPaths)
Undisturbed(u) == u.pc # "idle" /\ u.alone

\* The files once an edit is through, and after the first file of a delete.
Overwritten(fs, p, t) == [x \in DefPaths |-> IF x = p THEN t ELSE fs[x]]
Through(fs, pc, p, t) ==
  [x \in DefPaths |-> IF x = p \/ (pc = "remove" /\ p[1] = "md" /\ x = <<"yaml", p[2]>>) THEN t ELSE fs[x]]
\* An edit that nothing overlaps leads where it said.
OnCourse(u, fs, ts, may) ==
  /\ Served(Through(fs, u.pc, u.path, u.text), u.path) \subseteq u.want
  /\ u.pc = "remove" => u.text = Missing
  /\ u.pc = "remove" /\ u.path[1] = "md" => Served(Overwritten(fs, u.path, Missing), u.path) \subseteq may
  /\ u.pc = "write" => u.on = "tmp" /\ ts[u.path] = BadText
  /\ u.pc = "rename" => ts[u.path] = u.text

Sole ==
  \A x \in Editors, y \in Editors :
     Undisturbed(edits[x]) /\ edits[y].pc # "idle" /\ Entity(edits[y].path) = Entity(edits[x].path) => y = x
Clashing == \A x \in Editors : edits[x].pc # "idle" /\ ~edits[x].alone => Entity(edits[x].path) \in clash
Courses ==
  \A x \in Editors : Undisturbed(edits[x]) =>
     OnCourse(edits[x], defFiles, defTmp, allowed[Entity(edits[x].path)])
DefShapes ==
  /\ DOMAIN defFiles = DefPaths /\ DOMAIN defTmp = DefPaths /\ DOMAIN allowed = DefPaths
  /\ DOMAIN edits = Editors /\ \A x \in Editors : IsEdit(edits[x])
DefInv == DefShapes /\ Sole /\ Clashing /\ Courses /\ EditsAreServed

LEMMA ThroughLocally ==
  ASSUME NEW f, NEW g, NEW p \in DefPaths, NEW pc, NEW t,
         \A x \in DefPaths : Entity(x) = Entity(p) => f[x] = g[x]
  PROVE  /\ Served(Through(f, pc, p, t), p) = Served(Through(g, pc, p, t), p)
         /\ Served(Overwritten(f, p, t), p) = Served(Overwritten(g, p, t), p)
<1>1. \A x \in DefPaths : Entity(x) = Entity(p) => Through(f, pc, p, t)[x] = Through(g, pc, p, t)[x]
  BY DEF Through
<1>2. \A x \in DefPaths : Entity(x) = Entity(p) => Overwritten(f, p, t)[x] = Overwritten(g, p, t)[x]
  BY DEF Overwritten
<1> QED BY <1>1, <1>2, ServedLocally

LEMMA CourseKept ==
  ASSUME NEW u, NEW v, NEW f, NEW g, NEW s, NEW t, NEW may, NEW more,
         OnCourse(u, f, s, may), u.path \in DefPaths, may \subseteq more,
         v.pc = u.pc, v.path = u.path, v.text = u.text, v.on = u.on, v.want = u.want,
         \A x \in DefPaths : Entity(x) = Entity(u.path) => f[x] = g[x],
         s[u.path] = t[u.path]
  PROVE  OnCourse(v, g, t, more)
<1>1. /\ Served(Through(f, u.pc, u.path, u.text), u.path) = Served(Through(g, u.pc, u.path, u.text), u.path)
      /\ Served(Overwritten(f, u.path, Missing), u.path) = Served(Overwritten(g, u.path, Missing), u.path)
  BY ThroughLocally
<1> QED BY <1>1 DEF OnCourse

\* What a step of one edit may do to the others.
LEMMA EditSteps ==
  ASSUME DefInv, NEW e \in Editors, edits[e].pc # "idle",
         NEW p, p = edits[e].path,
         DOMAIN defFiles' = DefPaths, DOMAIN defTmp' = DefPaths, DOMAIN allowed' = DefPaths, DOMAIN edits' = Editors,
         \A x \in DefPaths : x # p => defFiles'[x] = defFiles[x] /\ defTmp'[x] = defTmp[x],
         \A x \in DefPaths : x # Entity(p) => allowed'[x] = allowed[x],
         \A x \in Editors : x # e =>
            /\ IsEdit(edits'[x]) /\ edits'[x].pc = edits[x].pc /\ edits'[x].path = edits[x].path
            /\ edits'[x].text = edits[x].text /\ edits'[x].alone = edits[x].alone /\ edits'[x].want = edits[x].want
            /\ edits[x].path # p => edits'[x].on = edits[x].on,
         IsEdit(edits'[e]),
         edits'[e].pc # "idle" =>
            /\ Entity(edits'[e].path) = Entity(p) /\ edits'[e].alone = edits[e].alone
            /\ edits[e].alone => OnCourse(edits'[e], defFiles', defTmp', allowed'[Entity(p)]),
         clash' = clash \/ (edits[e].alone /\ edits'[e].pc = "idle" /\ clash' = clash \ {Entity(p)}),
         Entity(p) \in clash' \/ Served(defFiles', Entity(p)) \subseteq allowed'[Entity(p)]
  PROVE  DefInv'
<1>0. p \in DefPaths /\ Entity(p) \in DefPaths /\ Entity(Entity(p)) = Entity(p)
  BY Entities DEF DefInv, DefShapes, IsEdit
<1>1. DefShapes'
  BY DEF DefShapes
<1>2. Sole'
  <2>1. \A x \in Editors : edits'[x].pc # "idle" =>
           /\ edits[x].pc # "idle" /\ Entity(edits'[x].path) = Entity(edits[x].path)
           /\ edits'[x].alone = edits[x].alone
    OBVIOUS
  <2> QED BY <2>1 DEF DefInv, Sole, Undisturbed
<1>3. Clashing'
  <2> SUFFICES ASSUME NEW x \in Editors, edits'[x].pc # "idle", ~edits'[x].alone
               PROVE  Entity(edits'[x].path) \in clash'
    BY DEF Clashing
  <2>1. edits[x].pc # "idle" /\ ~edits[x].alone /\ Entity(edits'[x].path) = Entity(edits[x].path)
    OBVIOUS
  <2>2. Entity(edits[x].path) \in clash
    BY <2>1 DEF DefInv, Clashing
  <2>3. CASE clash' = clash
    BY <2>1, <2>2, <2>3
  <2>4. CASE edits[e].alone /\ edits'[e].pc = "idle" /\ clash' = clash \ {Entity(p)}
    <3>1. x # e
      BY <2>4
    <3>2. Entity(edits[x].path) # Entity(p)
      BY <2>1, <2>4, <3>1 DEF DefInv, Sole, Undisturbed
    <3> QED BY <2>1, <2>2, <2>4, <3>2
  <2> QED BY <2>3, <2>4
<1>4. Courses'
  <2> SUFFICES ASSUME NEW x \in Editors, Undisturbed(edits'[x])
               PROVE  OnCourse(edits'[x], defFiles', defTmp', allowed'[Entity(edits'[x].path)])
    BY DEF Courses
  <2>1. CASE x = e
    BY <2>1 DEF Undisturbed
  <2>2. CASE x # e
    <3>1. Undisturbed(edits[x]) /\ edits[x].pc # "idle" /\ edits[x].path \in DefPaths
      BY <2>2 DEF Undisturbed, DefInv, DefShapes, IsEdit
    <3>2. Entity(edits[x].path) # Entity(p)
      BY <2>2, <3>1 DEF DefInv, Sole
    <3>3. Entity(edits[x].path) \in DefPaths
      BY <3>1, Entities
    <3>4. OnCourse(edits[x], defFiles, defTmp, allowed[Entity(edits[x].path)])
      BY <3>1 DEF DefInv, Courses
    <3>5. \A y \in DefPaths : Entity(y) = Entity(edits[x].path) => defFiles[y] = defFiles'[y]
      BY <3>2
    <3>6. defTmp[edits[x].path] = defTmp'[edits[x].path] /\ edits'[x].on = edits[x].on
      BY <2>2, <3>1, <3>2
    <3>7. allowed'[Entity(edits'[x].path)] = allowed[Entity(edits[x].path)]
      BY <2>2, <3>2, <3>3
    <3>8. /\ edits'[x].pc = edits[x].pc /\ edits'[x].path = edits[x].path /\ edits'[x].text = edits[x].text
          /\ edits'[x].want = edits[x].want
      BY <2>2
    <3> HIDE DEF Undisturbed, OnCourse
    <3> QED BY <3>1, <3>4, <3>5, <3>6, <3>7, <3>8, CourseKept
  <2> QED BY <2>1, <2>2
<1>5. EditsAreServed'
  <2> SUFFICES ASSUME NEW q \in DefPaths, q \notin {<<"yaml", d>> : d \in DocTypes}, q \notin clash'
               PROVE  Served(defFiles', q) \subseteq allowed'[q]
    BY DEF EditsAreServed
  <2>1. CASE q = Entity(p)
    BY <2>1
  <2>2. CASE q # Entity(p)
    <3>1. q \notin clash
      BY <2>2
    <3>2. Entity(q) = q
      <4>1. CASE q \in TypeFiles
        <5>1. PICK d \in DocTypes : q = <<"md", d>>
          BY <4>1 DEF TypeFiles
        <5> QED BY <4>1, <5>1 DEF Entity
      <4>2. CASE q \notin TypeFiles
        BY <4>2 DEF Entity
      <4> QED BY <4>1, <4>2
    <3>3. Served(defFiles', q) = Served(defFiles, q)
      BY <1>0, <2>2, <3>2, ServedLocally
    <3> QED BY <2>2, <3>1, <3>3 DEF DefInv, EditsAreServed
  <2> QED BY <2>1, <2>2
<1> QED BY <1>1, <1>2, <1>3, <1>4, <1>5 DEF DefInv

LEMMA OpenOrFails ==
  ASSUME DefInv, NEW e \in Editors, OpenTmp(e) \/ EditFails(e)
  PROVE  DefInv'
<1> DEFINE p == edits[e].path
           u == edits[e]
<1>1. /\ IsEdit(u) /\ u.pc # "idle" /\ p \in DefPaths /\ Entity(p) \in DefPaths /\ DOMAIN edits = Editors
      /\ DOMAIN defTmp = DefPaths /\ DOMAIN defFiles = DefPaths /\ DOMAIN allowed = DefPaths
  BY Entities DEF DefInv, DefShapes, IsEdit, OpenTmp, EditFails, At
<1>2. Entity(Entity(p)) = Entity(p) /\ Entity(p) \notin {<<"yaml", d>> : d \in DocTypes}
  BY <1>1, Entities
<1>3. Entity(p) \in clash \/ Served(defFiles, Entity(p)) \subseteq allowed[Entity(p)]
  BY <1>1, <1>2 DEF DefInv, EditsAreServed
<1>4. \A x \in Editors : IsEdit(edits[x])
  BY DEF DefInv, DefShapes
<1>5. CASE OpenTmp(e)
  <2>1. /\ u.pc = "open" /\ defTmp' = [defTmp EXCEPT ![p] = BadText] /\ UNCHANGED <<defFiles, allowed, clash>>
        /\ edits' = [edits EXCEPT ![e].pc = "write", ![e].on = "tmp"]
    BY <1>5 DEF OpenTmp, At
  <2>2. /\ edits'[e] = [pc |-> "write", path |-> p, text |-> u.text, on |-> "tmp", alone |-> u.alone, want |-> u.want]
        /\ DOMAIN edits' = Editors /\ \A x \in Editors : x # e => edits'[x] = edits[x]
    BY <1>1, <2>1 DEF IsEdit
  <2>3. DOMAIN defTmp' = DefPaths /\ defTmp'[p] = BadText /\ \A x \in DefPaths : x # p => defTmp'[x] = defTmp[x]
    BY <1>1, <2>1
  <2>4. IsEdit(edits'[e])
    BY <1>1, <2>2 DEF IsEdit
  <2>5. edits[e].alone => OnCourse(edits'[e], defFiles', defTmp', allowed'[Entity(p)])
    <3>1. HAVE edits[e].alone
    <3>2. OnCourse(u, defFiles, defTmp, allowed[Entity(p)])
      BY <1>1, <3>1 DEF DefInv, Courses, Undisturbed
    <3>3. Through(defFiles, "open", p, u.text) = Through(defFiles, "write", p, u.text)
      BY DEF Through
    <3> QED BY <2>1, <2>2, <2>3, <3>2, <3>3 DEF OnCourse
  <2>6. edits'[e].path = p /\ edits'[e].alone = edits[e].alone /\ edits'[e].pc = "write"
    BY <2>2
  <2>7. clash' = clash /\ defFiles' = defFiles /\ allowed' = allowed
    BY <2>1
  <2> HIDE DEF p, u
  <2> QED BY <1>1, <1>3, <1>4, <2>2, <2>3, <2>4, <2>5, <2>6, <2>7, EditSteps DEF p, u
<1>6. CASE EditFails(e)
  <2>1. edits' = [edits EXCEPT ![e] = NoEdit] /\ UNCHANGED <<defFiles, defTmp, allowed, clash>>
    BY <1>6 DEF EditFails
  <2>2. DOMAIN edits' = Editors /\ edits'[e] = NoEdit /\ \A x \in Editors : x # e => edits'[x] = edits[x]
    BY <1>1, <2>1
  <2>3. IsEdit(edits'[e]) /\ edits'[e].pc = "idle"
    BY <2>2 DEF IsEdit, NoEdit
  <2> QED BY <1>1, <1>3, <1>4, <2>1, <2>2, <2>3, EditSteps
<1> QED BY <1>5, <1>6

LEMMA WritesTmp ==
  ASSUME DefInv, NEW e \in Editors, WriteTmp(e)
  PROVE  DefInv'
<1> DEFINE p == edits[e].path
           u == edits[e]
<1>1. /\ IsEdit(u) /\ u.pc = "write" /\ p \in DefPaths /\ Entity(p) \in DefPaths /\ DOMAIN edits = Editors
      /\ DOMAIN defTmp = DefPaths /\ DOMAIN defFiles = DefPaths /\ DOMAIN allowed = DefPaths
  BY Entities DEF DefInv, DefShapes, IsEdit, WriteTmp, At
<1>2. Entity(Entity(p)) = Entity(p) /\ Entity(p) \notin {<<"yaml", d>> : d \in DocTypes}
  BY <1>1, Entities
<1>3. Entity(p) \in clash \/ Served(defFiles, Entity(p)) \subseteq allowed[Entity(p)]
  BY <1>1, <1>2 DEF DefInv, EditsAreServed
<1>4. \A x \in Editors : IsEdit(edits[x])
  BY DEF DefInv, DefShapes
<1>5. /\ edits' = [edits EXCEPT ![e].pc = "rename"] /\ UNCHANGED <<allowed, clash>>
      /\ \/ /\ u.on = "tmp" /\ defFiles' = defFiles
            /\ \E x \in IF defTmp[p] = BadText THEN {u.text} ELSE {u.text, BadText} : defTmp' = [defTmp EXCEPT ![p] = x]
         \/ /\ u.on = "file" /\ defTmp' = defTmp /\ \E x : defFiles' = [defFiles EXCEPT ![p] = x]
         \/ u.on # "tmp" /\ defTmp' = defTmp /\ defFiles' = defFiles
  BY DEF WriteTmp
<1>6. /\ edits'[e] = [pc |-> "rename", path |-> p, text |-> u.text, on |-> u.on, alone |-> u.alone, want |-> u.want]
      /\ DOMAIN edits' = Editors /\ \A x \in Editors : x # e => edits'[x] = edits[x]
  BY <1>1, <1>5 DEF IsEdit
<1>7. IsEdit(edits'[e]) /\ edits'[e].path = p /\ edits'[e].alone = u.alone /\ edits'[e].pc = "rename"
  BY <1>1, <1>6 DEF IsEdit
<1>8. /\ DOMAIN defFiles' = DefPaths /\ DOMAIN defTmp' = DefPaths
      /\ \A x \in DefPaths : x # p => defFiles'[x] = defFiles[x] /\ defTmp'[x] = defTmp[x]
  BY <1>1, <1>5
<1>9. CASE u.alone
  <2>1. OnCourse(u, defFiles, defTmp, allowed[Entity(p)])
    BY <1>1, <1>9 DEF DefInv, Courses, Undisturbed
  <2>2. u.on = "tmp" /\ defTmp[p] = BadText
    BY <1>1, <2>1 DEF OnCourse
  <2>3. defFiles' = defFiles /\ defTmp'[p] = u.text
    BY <1>1, <1>5, <2>2
  <2>4. Through(defFiles, "write", p, u.text) = Through(defFiles, "rename", p, u.text)
    BY DEF Through
  <2>5. OnCourse(edits'[e], defFiles', defTmp', allowed'[Entity(p)])
    BY <1>1, <1>5, <1>6, <2>1, <2>3, <2>4 DEF OnCourse
  <2> HIDE DEF p, u
  <2> QED BY <1>1, <1>3, <1>4, <1>5, <1>6, <1>7, <1>8, <1>9, <2>3, <2>5, EditSteps, ZenonT(40) DEF p, u
<1>10. CASE ~u.alone
  <2>1. Entity(p) \in clash
    BY <1>1, <1>10 DEF DefInv, Clashing
  <2> QED BY <1>1, <1>4, <1>5, <1>6, <1>7, <1>8, <1>10, <2>1, EditSteps
<1> QED BY <1>9, <1>10, <1>1 DEF IsEdit

LEMMA Renames ==
  ASSUME DefInv, NEW e \in Editors, RenameTmp(e)
  PROVE  DefInv'
<1> DEFINE p == edits[e].path
           u == edits[e]
           moved(x) == IF edits[x].path = p THEN TmpRenamed[edits[x].on] ELSE edits[x].on
<1>1. /\ IsEdit(u) /\ u.pc = "rename" /\ p \in DefPaths /\ Entity(p) \in DefPaths /\ DOMAIN edits = Editors
      /\ DOMAIN defTmp = DefPaths /\ DOMAIN defFiles = DefPaths /\ DOMAIN allowed = DefPaths
  BY Entities DEF DefInv, DefShapes, IsEdit, RenameTmp, At
<1>2. /\ defFiles' = [defFiles EXCEPT ![p] = defTmp[p]] /\ defTmp' = [defTmp EXCEPT ![p] = Missing]
      /\ edits' = [x \in Editors |-> IF x = e THEN NoEdit ELSE [edits[x] EXCEPT !.on = moved(x)]]
      /\ IF u.alone THEN /\ allowed' = [allowed EXCEPT ![Entity(p)] = u.want] /\ clash' = clash \ {Entity(p)}
         ELSE allowed' = allowed /\ clash' = clash
  BY DEF RenameTmp, Answered
<1>3. \A x \in Editors : IsEdit(edits[x])
  BY DEF DefInv, DefShapes
<1>4. \A x \in Editors : edits[x].path # p => moved(x) = edits[x].on
  OBVIOUS
<1>5. \A x \in Editors : moved(x) \in {"none", "tmp", "file", "gone"}
  <2>1. \A o \in {"none", "tmp", "file", "gone"} : TmpRenamed[o] \in {"none", "tmp", "file", "gone"}
    BY DEF TmpRenamed
  <2> QED BY <1>3, <2>1 DEF IsEdit
<1> HIDE DEF moved
<1>6. ASSUME NEW x \in Editors, x # e
      PROVE  edits'[x] = [pc |-> edits[x].pc, path |-> edits[x].path, text |-> edits[x].text, on |-> moved(x),
                          alone |-> edits[x].alone, want |-> edits[x].want]
  <2>1. edits'[x] = [edits[x] EXCEPT !.on = moved(x)]
    BY <1>2, <1>6
  <2>2. IsEdit(edits[x])
    BY <1>3
  <2> QED BY <2>1, <2>2 DEF IsEdit
<1>7. \A x \in Editors : x # e =>
         /\ IsEdit(edits'[x]) /\ edits'[x].pc = edits[x].pc /\ edits'[x].path = edits[x].path
         /\ edits'[x].text = edits[x].text /\ edits'[x].alone = edits[x].alone /\ edits'[x].want = edits[x].want
         /\ edits[x].path # p => edits'[x].on = edits[x].on
  <2> SUFFICES ASSUME NEW x \in Editors, x # e
               PROVE  /\ IsEdit(edits'[x]) /\ edits'[x].pc = edits[x].pc /\ edits'[x].path = edits[x].path
                      /\ edits'[x].text = edits[x].text /\ edits'[x].alone = edits[x].alone
                      /\ edits'[x].want = edits[x].want /\ (edits[x].path # p => edits'[x].on = edits[x].on)
    OBVIOUS
  <2> DEFINE o == moved(x)
  <2>1. edits'[x] = [pc |-> edits[x].pc, path |-> edits[x].path, text |-> edits[x].text, on |-> o,
                     alone |-> edits[x].alone, want |-> edits[x].want]
    BY <1>6
  <2>2. o \in {"none", "tmp", "file", "gone"} /\ (edits[x].path # p => o = edits[x].on) /\ IsEdit(edits[x])
    BY <1>3, <1>4, <1>5
  <2> HIDE DEF o, p
  <2> QED BY <2>1, <2>2 DEF IsEdit
<1>8. DOMAIN edits' = Editors /\ IsEdit(edits'[e]) /\ edits'[e].pc = "idle"
  BY <1>2 DEF IsEdit, NoEdit
<1>9. /\ DOMAIN defFiles' = DefPaths /\ DOMAIN defTmp' = DefPaths /\ DOMAIN allowed' = DefPaths
      /\ \A x \in DefPaths : x # p => defFiles'[x] = defFiles[x] /\ defTmp'[x] = defTmp[x]
      /\ \A x \in DefPaths : x # Entity(p) => allowed'[x] = allowed[x]
  BY <1>1, <1>2
<1>10. CASE u.alone
  <2>1. OnCourse(u, defFiles, defTmp, allowed[Entity(p)])
    BY <1>1, <1>10 DEF DefInv, Courses, Undisturbed
  <2>2. defTmp[p] = u.text /\ Served(Through(defFiles, "rename", p, u.text), p) \subseteq u.want
    BY <1>1, <2>1 DEF OnCourse
  <2>3. \A x \in DefPaths : defFiles'[x] = Through(defFiles, "rename", p, u.text)[x]
    BY <1>1, <1>2, <2>2 DEF Through
  <2>4. Served(defFiles', p) = Served(Through(defFiles, "rename", p, u.text), p)
    BY <1>1, <2>3, ServedLocally
  <2>5. Served(defFiles', Entity(p)) \subseteq u.want
    BY <1>1, <2>2, <2>4, ServedOfEntity
  <2>6. allowed'[Entity(p)] = u.want /\ clash' = clash \ {Entity(p)}
    BY <1>1, <1>2, <1>10
  <2> HIDE DEF p, u
  <2> QED BY <1>1, <1>7, <1>8, <1>9, <1>10, <2>5, <2>6, EditSteps DEF p, u
<1>11. CASE ~u.alone
  <2>1. Entity(p) \in clash /\ clash' = clash
    BY <1>1, <1>2, <1>11 DEF DefInv, Clashing
  <2> HIDE DEF p, u
  <2> QED BY <1>1, <1>7, <1>8, <1>9, <1>11, <2>1, EditSteps DEF p, u
<1> QED BY <1>10, <1>11, <1>1 DEF IsEdit

LEMMA Removes ==
  ASSUME DefInv, NEW e \in Editors, RemoveFile(e)
  PROVE  DefInv'
<1> DEFINE p == edits[e].path
           u == edits[e]
<1>1. /\ IsEdit(u) /\ u.pc = "remove" /\ p \in DefPaths /\ Entity(p) \in DefPaths /\ DOMAIN edits = Editors
      /\ DOMAIN defTmp = DefPaths /\ DOMAIN defFiles = DefPaths /\ DOMAIN allowed = DefPaths
  BY Entities DEF DefInv, DefShapes, IsEdit, RemoveFile, At
<1>2. /\ defFiles' = [defFiles EXCEPT ![p] = Missing] /\ defTmp' = defTmp
      /\ IF p[1] = "md" THEN edits' = [edits EXCEPT ![e].path = <<"yaml", p[2]>>] /\ allowed' = allowed /\ clash' = clash
         ELSE /\ edits' = [edits EXCEPT ![e] = NoEdit]
              /\ IF u.alone THEN /\ allowed' = [allowed EXCEPT ![Entity(p)] = u.want] /\ clash' = clash \ {Entity(p)}
                 ELSE allowed' = allowed /\ clash' = clash
  BY DEF RemoveFile, Answered
<1>3. \A x \in Editors : IsEdit(edits[x])
  BY DEF DefInv, DefShapes
<1>4. /\ DOMAIN defFiles' = DefPaths /\ DOMAIN defTmp' = DefPaths /\ DOMAIN allowed' = DefPaths
      /\ defFiles'[p] = Missing
      /\ \A x \in DefPaths : x # p => defFiles'[x] = defFiles[x] /\ defTmp'[x] = defTmp[x]
      /\ \A x \in DefPaths : x # Entity(p) => allowed'[x] = allowed[x]
      /\ DOMAIN edits' = Editors /\ \A x \in Editors : x # e => edits'[x] = edits[x]
  BY <1>1, <1>2
<1>5. ~u.alone => Entity(p) \in clash /\ clash' = clash
  BY <1>1, <1>2 DEF DefInv, Clashing
<1>6. u.alone => OnCourse(u, defFiles, defTmp, allowed[Entity(p)])
  BY <1>1 DEF DefInv, Courses, Undisturbed
<1>7. CASE p[1] = "md"
  <2>1. PICK d \in DocTypes : p = <<"md", d>>
    <3>1. p \in TypeFiles
      BY <1>1, <1>7, Entities
    <3> QED BY <1>7, <3>1 DEF TypeFiles
  <2> DEFINE q == <<"yaml", d>>
  <2>2. /\ p \in TypeFiles /\ q \in TypeFiles /\ q \in DefPaths /\ q[1] # "md" /\ p # q /\ p[2] = d
    BY <2>1 DEF TypeFiles, DefPaths
  <2>3. Entity(p) = p /\ Entity(q) = p
    BY <2>1, <2>2 DEF Entity
  <2>4. edits' = [edits EXCEPT ![e].path = q] /\ allowed' = allowed /\ clash' = clash
    BY <1>2, <1>7, <2>2
  <2>5. edits'[e] = [pc |-> "remove", path |-> q, text |-> u.text, on |-> u.on, alone |-> u.alone, want |-> u.want]
    BY <1>1, <2>4 DEF IsEdit
  <2> HIDE DEF q
  <2>6. IsEdit(edits'[e]) /\ edits'[e].path = q /\ edits'[e].alone = u.alone /\ edits'[e].pc = "remove"
    BY <1>1, <2>2, <2>5 DEF IsEdit
  <2>7. CASE u.alone
    <3>1. /\ u.text = Missing /\ Served(Overwritten(defFiles, p, Missing), p) \subseteq allowed[p]
          /\ Served(Through(defFiles, "remove", p, Missing), p) \subseteq u.want
      BY <1>1, <1>6, <1>7, <2>3, <2>7 DEF OnCourse
    <3>2. \A x \in DefPaths : defFiles'[x] = Overwritten(defFiles, p, Missing)[x]
      BY <1>4 DEF Overwritten
    <3>3. Served(defFiles', p) \subseteq allowed'[p]
      BY <1>1, <2>4, <3>1, <3>2, ServedLocally
    <3>4. \A x \in DefPaths : Through(defFiles', "remove", q, Missing)[x] = Through(defFiles, "remove", p, Missing)[x]
      BY <1>4, <1>7, <2>2 DEF Through, q
    <3>5. Served(Through(defFiles', "remove", q, Missing), q) = Served(Through(defFiles, "remove", p, Missing), q)
      BY <2>2, <3>4, ServedLocally
    <3>6. Served(Through(defFiles, "remove", p, Missing), q) = Served(Through(defFiles, "remove", p, Missing), p)
      BY <2>2, <2>3, ServedOfEntity
    <3>7. OnCourse(edits'[e], defFiles', defTmp', allowed'[Entity(p)])
      BY <2>2, <2>5, <3>1, <3>5, <3>6 DEF OnCourse
    <3> HIDE DEF p, u
    <3> QED BY <1>1, <1>3, <1>4, <2>3, <2>4, <2>6, <2>7, <3>3, <3>7, EditSteps DEF p, u
  <2>8. CASE ~u.alone
    <3> HIDE DEF p, u
    <3> QED BY <1>1, <1>3, <1>4, <1>5, <2>3, <2>6, <2>8, EditSteps DEF p, u
  <2> QED BY <2>7, <2>8, <1>1 DEF IsEdit
<1>8. CASE p[1] # "md"
  <2>1. IsEdit(edits'[e]) /\ edits'[e].pc = "idle"
    <3>1. edits'[e] = NoEdit
      BY <1>1, <1>2, <1>8
    <3> QED BY <3>1 DEF IsEdit, NoEdit
  <2>2. CASE u.alone
    <3>1. u.text = Missing /\ Served(Through(defFiles, "remove", p, Missing), p) \subseteq u.want
      BY <1>1, <1>6, <2>2 DEF OnCourse
    <3>2. \A x \in DefPaths : defFiles'[x] = Through(defFiles, "remove", p, Missing)[x]
      BY <1>4, <1>8 DEF Through
    <3>3. Served(defFiles', p) \subseteq u.want
      BY <1>1, <3>1, <3>2, ServedLocally
    <3>4. Served(defFiles', Entity(p)) \subseteq allowed'[Entity(p)] /\ clash' = clash \ {Entity(p)}
      BY <1>1, <1>2, <1>8, <2>2, <3>3, ServedOfEntity
    <3> HIDE DEF p, u
    <3> QED BY <1>1, <1>3, <1>4, <2>1, <2>2, <3>4, EditSteps DEF p, u
  <2>3. CASE ~u.alone
    <3> HIDE DEF p, u
    <3> QED BY <1>1, <1>3, <1>4, <1>5, <2>1, <2>3, EditSteps DEF p, u
  <2> QED BY <2>2, <2>3, <1>1 DEF IsEdit
<1> QED BY <1>7, <1>8

\* A request that arrives leads where it says, if nothing overlaps it.
LEMMA Begins ==
  ASSUME DefInv, NEW e \in Editors, NEW p \in DefPaths, NEW pc \in {"open", "remove"}, NEW text, NEW during, NEW after,
         BeginEdit(e, pc, p, text, during, after),
         Served(Through(defFiles, pc, p, text), p) \subseteq after,
         pc = "remove" => text = Missing,
         pc = "remove" /\ p[1] = "md" => Served(Overwritten(defFiles, p, Missing), p) \subseteq during
  PROVE  DefInv'
<1> DEFINE q == Entity(p)
           free == Busy(p) = {}
<1>1. /\ q \in DefPaths /\ DOMAIN edits = Editors /\ DOMAIN allowed = DefPaths /\ edits[e].pc = "idle"
      /\ \A x \in Editors : IsEdit(edits[x])
      /\ UNCHANGED <<defFiles, defTmp>> /\ DOMAIN defFiles = DefPaths /\ DOMAIN defTmp = DefPaths
      /\ free \in BOOLEAN
  BY Entities DEF DefInv, DefShapes, BeginEdit
<1>2. /\ edits'[e] = [NoEdit EXCEPT !.pc = pc, !.path = p, !.text = text, !.want = after, !.alone = free]
      /\ DOMAIN edits' = Editors
      /\ \A x \in Editors : x # e =>
            edits'[x] = IF x \in Busy(p) THEN [edits[x] EXCEPT !.alone = FALSE] ELSE edits[x]
      /\ allowed' = [allowed EXCEPT ![q] = @ \cup during]
      /\ clash' = IF free THEN clash ELSE clash \cup {q}
  BY DEF BeginEdit
<1>3. edits'[e] = [pc |-> pc, path |-> p, text |-> text, on |-> "none", alone |-> free, want |-> after]
  BY <1>2 DEF NoEdit
<1>4. /\ DOMAIN allowed' = DefPaths /\ allowed'[q] = allowed[q] \cup during
      /\ \A x \in DefPaths : x # q => allowed'[x] = allowed[x]
  BY <1>1, <1>2
<1>5. \A x \in Editors : x \in Busy(p) <=> edits[x].pc # "idle" /\ Entity(edits[x].path) = q
  BY DEF Busy
<1>6. free <=> \A x \in Editors : ~(edits[x].pc # "idle" /\ Entity(edits[x].path) = q)
  BY DEF Busy
<1> HIDE DEF free, q
<1>7. ASSUME NEW x \in Editors, x \in Busy(p)
      PROVE  edits'[x] = [pc |-> edits[x].pc, path |-> edits[x].path, text |-> edits[x].text, on |-> edits[x].on,
                          alone |-> FALSE, want |-> edits[x].want]
  <2>1. x # e
    BY <1>1, <1>5, <1>7
  <2>2. edits'[x] = [edits[x] EXCEPT !.alone = FALSE]
    BY <1>2, <1>7, <2>1
  <2> QED BY <1>1, <2>2 DEF IsEdit
<1>8. \A x \in Editors : x # e =>
         /\ IsEdit(edits'[x]) /\ edits'[x].pc = edits[x].pc /\ edits'[x].path = edits[x].path
         /\ x \in Busy(p) => ~edits'[x].alone
         /\ x \notin Busy(p) => edits'[x] = edits[x]
  <2> SUFFICES ASSUME NEW x \in Editors, x # e
               PROVE  /\ IsEdit(edits'[x]) /\ edits'[x].pc = edits[x].pc /\ edits'[x].path = edits[x].path
                      /\ x \in Busy(p) => ~edits'[x].alone
                      /\ x \notin Busy(p) => edits'[x] = edits[x]
    OBVIOUS
  <2>1. CASE x \in Busy(p)
    <3>1. IsEdit(edits[x])
      BY <1>1
    <3>2. edits'[x] = [pc |-> edits[x].pc, path |-> edits[x].path, text |-> edits[x].text, on |-> edits[x].on,
                       alone |-> FALSE, want |-> edits[x].want]
      BY <1>7, <2>1
    <3> QED BY <2>1, <3>1, <3>2 DEF IsEdit
  <2>2. CASE x \notin Busy(p)
    BY <1>1, <1>2, <2>2
  <2> QED BY <2>1, <2>2
<1>9. IsEdit(edits'[e]) /\ edits'[e].path = p /\ edits'[e].alone = free /\ edits'[e].pc = pc
  BY <1>1, <1>3 DEF IsEdit
<1>10. DefShapes'
  BY <1>1, <1>2, <1>4, <1>8, <1>9 DEF DefShapes
<1>11. Sole'
  <2> SUFFICES ASSUME NEW x \in Editors, NEW y \in Editors, Undisturbed(edits'[x]), edits'[y].pc # "idle",
                      Entity(edits'[y].path) = Entity(edits'[x].path), x # y
               PROVE  FALSE
    BY DEF Sole
  <2>1. CASE x = e
    BY <1>5, <1>6, <1>8, <1>9, <2>1 DEF Undisturbed, q
  <2>2. CASE y = e
    BY <1>5, <1>8, <1>9, <2>2 DEF Undisturbed, q
  <2>3. CASE x # e /\ y # e
    <3>1. x \notin Busy(p) /\ edits'[x] = edits[x]
      BY <1>8, <2>3 DEF Undisturbed
    <3> QED BY <1>8, <2>3, <3>1 DEF DefInv, Sole
  <2> QED BY <2>1, <2>2, <2>3
<1>12. Clashing'
  <2> SUFFICES ASSUME NEW x \in Editors, edits'[x].pc # "idle", ~edits'[x].alone
               PROVE  Entity(edits'[x].path) \in clash'
    BY DEF Clashing
  <2>1. CASE x = e
    BY <1>2, <1>9, <2>1 DEF q
  <2>2. CASE x # e /\ x \in Busy(p)
    BY <1>2, <1>5, <1>6, <1>8, <2>2
  <2>3. CASE x # e /\ x \notin Busy(p)
    <3>1. Entity(edits[x].path) \in clash /\ edits'[x] = edits[x]
      BY <1>8, <2>3 DEF DefInv, Clashing
    <3> QED BY <1>2, <3>1
  <2> QED BY <2>1, <2>2, <2>3
<1>13. Courses'
  <2> SUFFICES ASSUME NEW x \in Editors, Undisturbed(edits'[x])
               PROVE  OnCourse(edits'[x], defFiles', defTmp', allowed'[Entity(edits'[x].path)])
    BY DEF Courses
  <2>1. CASE x = e
    BY <1>1, <1>3, <1>4, <2>1 DEF OnCourse, q
  <2>2. CASE x # e
    <3>1. x \notin Busy(p) /\ edits'[x] = edits[x]
      BY <1>8, <2>2 DEF Undisturbed
    <3>2. edits[x].pc # "idle" /\ edits[x].path \in DefPaths /\ Entity(edits[x].path) # q
      BY <1>1, <1>5, <3>1 DEF Undisturbed, IsEdit
    <3>3. allowed'[Entity(edits[x].path)] = allowed[Entity(edits[x].path)]
      BY <1>4, <3>2, Entities
    <3>4. OnCourse(edits[x], defFiles, defTmp, allowed[Entity(edits[x].path)])
      BY <3>1 DEF DefInv, Courses
    <3> QED BY <1>1, <3>1, <3>3, <3>4
  <2> QED BY <2>1, <2>2
<1>14. EditsAreServed'
  <2> SUFFICES ASSUME NEW x \in DefPaths, x \notin {<<"yaml", d>> : d \in DocTypes}, x \notin clash'
               PROVE  Served(defFiles', x) \subseteq allowed'[x]
    BY DEF EditsAreServed
  <2>1. x \notin clash /\ allowed[x] \subseteq allowed'[x]
    BY <1>2, <1>4
  <2> QED BY <1>1, <2>1 DEF DefInv, EditsAreServed
<1> QED BY <1>10, <1>11, <1>12, <1>13, <1>14 DEF DefInv

\* The runtime loads what the panel wrote as the engine the draft stands for.
LEMMA DraftsAreLoaded ==
  ASSUME NEW a, a # Crony, NEW t, NEW d \in Drafts(a, t)
  PROVE  load_agent_with_builtin(a, ToYaml(d.sent)) = d.engine
<1>1. \A m, n : /\ Listed(ToYaml(<<m, n>>)) /\ ToYaml(<<m, n>>)[2] = m /\ ToYaml(<<m, n>>)[4] = n
  BY DEF Listed, ToYaml, Missing, BadText
<1>2. \A m, n : load_agent_with_builtin(a, ToYaml(<<m, n>>)) =
                IF parse_agent_provider(m) # "" THEN <<m, "">> ELSE <<"", n>>
  BY <1>1 DEF load_agent_with_builtin, load_agent, into_agent_def
<1>3. CASE d \in {[sent |-> x, engine |-> x] : x \in {<<"x", "">>, <<"", "m">>}}
  <2>1. CASE d = [sent |-> <<"x", "">>, engine |-> <<"x", "">>]
    <3>1. d.sent = <<"x", "">> /\ d.engine = <<"x", "">>
      BY <2>1
    <3> QED BY <1>2, <3>1, ZenonT(40) DEF parse_agent_provider
  <2>2. CASE d = [sent |-> <<"", "m">>, engine |-> <<"", "m">>]
    <3>1. d.sent = <<"", "m">> /\ d.engine = <<"", "m">>
      BY <2>2
    <3> QED BY <1>2, <3>1 DEF parse_agent_provider
  <2> QED BY <1>3, <2>1, <2>2
<1>4. CASE Shown(a, t) /\ d = [sent |-> Sent(parse_agent_yaml(t)),
                              engine |-> IF t[2] = "Builtin" THEN DefaultAgent ELSE load_agent(t)]
  <2>1. load_agent(t) = IF parse_agent_provider(t[2]) # "" THEN <<t[2], "">> ELSE <<"", t[4]>>
    BY <1>4 DEF Shown, load_agent, into_agent_def
  <2>2. CASE t[2] \in {"builtin", ""}
    <3>1. d.sent = <<"", t[4]>> /\ d.engine = <<"", t[4]>>
      BY <1>4, <2>1, <2>2 DEF Sent, parse_agent_yaml, parse_agent_provider
    <3> QED BY <1>2, <3>1 DEF parse_agent_provider
  <2>3. CASE t[2] = "Builtin"
    <3>1. d.sent = <<"Builtin", "">> /\ d.engine = <<"", "">>
      BY <1>4, <2>3 DEF Sent, parse_agent_yaml, DefaultAgent
    <3> QED BY <1>2, <3>1 DEF parse_agent_provider
  <2>4. CASE t[2] \notin {"builtin", "", "Builtin"}
    <3>1. d.sent = <<t[2], "">> /\ d.engine = <<t[2], "">>
      BY <1>4, <2>1, <2>4 DEF Sent, parse_agent_yaml, parse_agent_provider
    <3> QED BY <1>2, <2>4, <3>1 DEF parse_agent_provider
  <2> QED BY <2>2, <2>3, <2>4
<1> QED BY <1>3, <1>4 DEF Drafts

LEMMA AgentEdits ==
  ASSUME DefInv, NEW e \in Editors, NEW a \in AgentIds, ContributionSave(e, a) \/ ContributionDelete(e, a)
  PROVE  DefInv'
<1> DEFINE p == <<"agent.yaml", a>>
<1>1. p \in DefPaths /\ p \in AgentFiles /\ p \notin TypeFiles /\ p[1] # "md" /\ p[2] = a
  BY DEF DefPaths, AgentFiles, TypeFiles
<1>2. ASSUME NEW pc, NEW t PROVE Served(Through(defFiles, pc, p, t), p) = {load_agent_with_builtin(a, t)}
  <2> DEFINE g == Through(defFiles, pc, p, t)
  <2>1. g[p] = t
    BY <1>1 DEF Through
  <2> HIDE DEF g, p
  <2>2. Served(g, p) = {load_agent_with_builtin(p[2], g[p])}
    BY <1>1 DEF Served
  <2> QED BY <1>1, <2>1, <2>2 DEF g
<1> HIDE DEF p
<1>3. CASE ContributionSave(e, a)
  <2>1. PICK d \in Drafts(a, defFiles[p]) : BeginEdit(e, "open", p, ToYaml(d.sent), {d.engine}, {d.engine})
    BY <1>3 DEF ContributionSave, p
  <2>2. load_agent_with_builtin(a, ToYaml(d.sent)) = d.engine
    BY <1>3, DraftsAreLoaded DEF ContributionSave
  <2>3. Served(Through(defFiles, "open", p, ToYaml(d.sent)), p) \subseteq {d.engine}
    BY <1>2, <2>2
  <2> QED BY <1>1, <2>1, <2>3, Begins
<1>4. CASE ContributionDelete(e, a)
  <2>1. BeginEdit(e, "remove", p, Missing, {DefaultAgent}, {DefaultAgent})
    BY <1>4 DEF ContributionDelete, p
  <2>2. load_agent_with_builtin(a, Missing) = DefaultAgent
    BY DEF load_agent_with_builtin, load_agent, Listed
  <2>3. Served(Through(defFiles, "remove", p, Missing), p) \subseteq {DefaultAgent}
    BY <1>2, <2>2
  <2> QED BY <1>1, <2>1, <2>3, Begins
<1> QED BY <1>3, <1>4

LEMMA TypeEdits ==
  ASSUME DefInv, NEW e \in Editors, NEW d \in DocTypes, DocTypeSave(e, d) \/ DocTypeDelete(e, d)
  PROVE  DefInv'
<1> DEFINE p == <<"md", d>>
           q == <<"yaml", d>>
           built == IF d \in BuiltinTypes THEN {<<"type", "built in">>} ELSE {Missing}
<1>1. /\ p \in TypeFiles /\ p \in DefPaths /\ q \in DefPaths /\ p # q /\ p \notin AgentFiles
      /\ p[1] = "md" /\ p[2] = d
  BY DEF DefPaths, TypeFiles, AgentFiles
<1>2. ASSUME NEW g PROVE Served(g, p) = DocTypeLoad(g, d) /\ Scanned(g, d) = {g[p], g[q]} \ {Missing, BadText}
  BY <1>1 DEF Served, Scanned
<1>3. CASE DocTypeSave(e, d)
  <2>1. PICK v \in {"v1", "v2"} :
          BeginEdit(e, "open", p, <<"type", v>>, {<<"type", v>>, defFiles[q]} \ {Missing}, {<<"type", v>>, defFiles[q]} \ {Missing})
    BY <1>3 DEF DocTypeSave
  <2> DEFINE g == Through(defFiles, "open", p, <<"type", v>>)
  <2>2. g[p] = <<"type", v>> /\ g[q] = defFiles[q]
    BY <1>1 DEF Through
  <2>3. <<"type", v>> # Missing /\ <<"type", v>> # BadText
    BY DEF Missing, BadText
  <2> HIDE DEF g, p, q
  <2>4. Served(g, p) \subseteq {<<"type", v>>, defFiles[q]} \ {Missing}
    <3>1. Served(g, p) = DocTypeLoad(g, d) /\ Scanned(g, d) = {<<"type", v>>, defFiles[q]} \ {Missing, BadText}
      BY <1>2, <2>2
    <3>2. <<"type", v>> \in Scanned(g, d)
      BY <2>3, <3>1
    <3>3. DocTypeLoad(g, d) = Scanned(g, d)
      BY <3>2 DEF DocTypeLoad
    <3> QED BY <3>1, <3>3
  <2> QED BY <1>1, <2>1, <2>4, Begins DEF g
<1>4. CASE DocTypeDelete(e, d)
  <2> DEFINE none == [x \in DefPaths |-> Missing]
             uncovered == built \cup ({defFiles[q]} \ {Missing})
             g == Through(defFiles, "remove", p, Missing)
             h == Overwritten(defFiles, p, Missing)
  <2>1. none[p] = Missing /\ none[q] = Missing
    BY <1>1
  <2>2. g[p] = Missing /\ g[q] = Missing /\ h[p] = Missing /\ h[q] = defFiles[q]
    BY <1>1 DEF Through, Overwritten
  <2>3. BeginEdit(e, "remove", p, Missing, DocTypeLoad(none, d) \cup ({defFiles[q]} \ {Missing}), DocTypeLoad(none, d))
    BY <1>4 DEF DocTypeDelete
  <2> HIDE DEF none, g, h, p, q
  <2>4. DocTypeLoad(none, d) = built
    BY <1>2, <2>1 DEF DocTypeLoad
  <2>5. Served(g, p) \subseteq built
    BY <1>2, <2>2 DEF DocTypeLoad
  <2>6. Served(h, p) \subseteq uncovered
    <3>1. Served(h, p) = DocTypeLoad(h, d) /\ Scanned(h, d) = {Missing, defFiles[q]} \ {Missing, BadText}
      BY <1>2, <2>2
    <3>2. Scanned(h, d) \subseteq uncovered
      BY <3>1
    <3>3. DocTypeLoad(h, d) = IF Scanned(h, d) # {} THEN Scanned(h, d) ELSE built
      BY DEF DocTypeLoad
    <3> QED BY <3>1, <3>2, <3>3
  <2> HIDE DEF built, uncovered
  <2>7. BeginEdit(e, "remove", p, Missing, uncovered, built)
    BY <2>3, <2>4 DEF uncovered
  <2> QED BY <1>1, <2>5, <2>6, <2>7, Begins DEF g, h
<1> QED BY <1>3, <1>4

LEMMA FlowEdits ==
  ASSUME DefInv, NEW e \in Editors, NEW f \in FlowIds, FlowSave(e, f) \/ FlowSaveYaml(e, f)
  PROVE  DefInv'
<1> DEFINE p == <<"flow.yaml", f>>
<1>1. p \in DefPaths /\ p \notin TypeFiles /\ p \notin AgentFiles
  BY DEF DefPaths, TypeFiles, AgentFiles, FlowFiles
<1>2. \A t : Served(Through(defFiles, "open", p, t), p) = {FlowLoad(t)}
  BY <1>1 DEF Served, Through
<1>3. FlowLoad(LegacyYaml) = LegacyYaml
  BY DEF FlowLoad, LegacyYaml, BadText
<1> HIDE DEF p
<1>4. PICK t : BeginEdit(e, "open", p, t, {FlowLoad(t)}, {FlowLoad(t)})
  BY <1>3 DEF FlowSave, FlowSaveYaml, p
<1> QED BY <1>1, <1>2, <1>4, Begins

\* A user writes only where no edit is under way.
LEMMA HandWrites ==
  ASSUME DefInv, NEW p \in DefPaths, WriteByHand(p)
  PROVE  DefInv'
<1>1. /\ Entity(p) \in DefPaths /\ DOMAIN edits = Editors /\ DOMAIN allowed = DefPaths
      /\ \A x \in Editors : IsEdit(edits[x])
      /\ DOMAIN defFiles = DefPaths /\ DOMAIN defTmp = DefPaths
  BY Entities DEF DefInv, DefShapes
<1>2. PICK t : defFiles' = [defFiles EXCEPT ![p] = t] /\ allowed' = [allowed EXCEPT ![Entity(p)] = Served(defFiles', p)]
  BY DEF WriteByHand
<1>3. UNCHANGED <<defTmp, edits, clash>> /\ \A x \in Editors : ~(edits[x].pc # "idle" /\ Entity(edits[x].path) = Entity(p))
  BY DEF WriteByHand, Busy
<1>4. /\ DOMAIN defFiles' = DefPaths /\ DOMAIN allowed' = DefPaths /\ allowed'[Entity(p)] = Served(defFiles', p)
      /\ \A x \in DefPaths : x # p => defFiles'[x] = defFiles[x]
      /\ \A x \in DefPaths : x # Entity(p) => allowed'[x] = allowed[x]
  BY <1>1, <1>2
<1>5. DefShapes' /\ Sole' /\ Clashing'
  BY <1>1, <1>3, <1>4 DEF DefInv, DefShapes, Sole, Clashing, Undisturbed
<1>6. Courses'
  <2> SUFFICES ASSUME NEW x \in Editors, Undisturbed(edits[x])
               PROVE  OnCourse(edits[x], defFiles', defTmp', allowed'[Entity(edits[x].path)])
    BY <1>3 DEF Courses
  <2>1. edits[x].path \in DefPaths /\ Entity(edits[x].path) # Entity(p)
    BY <1>1, <1>3 DEF Undisturbed, IsEdit
  <2>2. allowed'[Entity(edits[x].path)] = allowed[Entity(edits[x].path)]
    BY <1>4, <2>1, Entities
  <2>3. \A y \in DefPaths : Entity(y) = Entity(edits[x].path) => defFiles[y] = defFiles'[y]
    BY <1>4, <2>1
  <2>4. OnCourse(edits[x], defFiles, defTmp, allowed[Entity(edits[x].path)])
    BY DEF DefInv, Courses
  <2> QED BY <1>3, <2>1, <2>2, <2>3, <2>4, CourseKept
<1>7. EditsAreServed'
  <2> SUFFICES ASSUME NEW q \in DefPaths, q \notin {<<"yaml", d>> : d \in DocTypes}, q \notin clash'
               PROVE  Served(defFiles', q) \subseteq allowed'[q]
    BY DEF EditsAreServed
  <2>1. CASE q = Entity(p)
    BY <1>4, <2>1, ServedOfEntity
  <2>2. CASE q # Entity(p)
    <3>1. Entity(q) = q
      <4>1. CASE q \in TypeFiles
        <5>1. PICK d \in DocTypes : q = <<"md", d>>
          BY <4>1 DEF TypeFiles
        <5> QED BY <4>1, <5>1 DEF Entity
      <4>2. CASE q \notin TypeFiles
        BY <4>2 DEF Entity
      <4> QED BY <4>1, <4>2
    <3>2. Served(defFiles', q) = Served(defFiles, q)
      BY <1>4, <2>2, <3>1, ServedLocally
    <3> QED BY <1>3, <1>4, <2>2, <3>2 DEF DefInv, EditsAreServed
  <2> QED BY <2>1, <2>2
<1> QED BY <1>5, <1>6, <1>7 DEF DefInv

LEMMA DefInitOK == DefInit => DefInv
<1> SUFFICES ASSUME DefInit PROVE DefInv
  OBVIOUS
<1>1. \A x \in Editors : edits[x] = NoEdit
  BY DEF DefInit
<1>2. NoEdit.pc = "idle" /\ IsEdit(NoEdit)
  BY DEF NoEdit, IsEdit
<1>3. DefShapes
  BY <1>1, <1>2 DEF DefInit, DefShapes
<1>4. Sole /\ Clashing /\ Courses
  BY <1>1, <1>2 DEF Sole, Clashing, Courses, Undisturbed
<1>5. EditsAreServed
  BY DEF DefInit, EditsAreServed
<1> QED BY <1>3, <1>4, <1>5 DEF DefInv

LEMMA DefStep == DefInv /\ [DefNext]_defVars => DefInv'
<1> SUFFICES ASSUME DefInv, [DefNext]_defVars PROVE DefInv'
  OBVIOUS
<1>1. ASSUME NEW e \in Editors, OpenTmp(e) \/ WriteTmp(e) \/ RenameTmp(e) \/ RemoveFile(e) \/ EditFails(e)
      PROVE  DefInv'
  BY <1>1, OpenOrFails, WritesTmp, Renames, Removes
<1>2. ASSUME UNCHANGED <<defFiles, defTmp, allowed, clash>>, edits' = edits \/ edits' = [e \in Editors |-> NoEdit]
      PROVE  DefInv'
  <2>1. CASE edits' = edits
    BY <1>2, <2>1 DEF DefInv, DefShapes, Sole, Clashing, Courses, EditsAreServed
  <2>2. CASE edits' = [e \in Editors |-> NoEdit]
    <3>1. \A x \in Editors : edits'[x] = NoEdit
      BY <2>2
    <3>2. NoEdit.pc = "idle" /\ IsEdit(NoEdit)
      BY DEF NoEdit, IsEdit
    <3>3. DefShapes'
      BY <1>2, <2>2, <3>1, <3>2 DEF DefInv, DefShapes
    <3>4. Sole' /\ Clashing' /\ Courses'
      BY <3>1, <3>2 DEF Sole, Clashing, Courses, Undisturbed
    <3> QED BY <1>2, <3>3, <3>4 DEF DefInv, EditsAreServed
  <2> QED BY <1>2, <2>1, <2>2
<1>3. CASE \E f \in FlowIds : StartFlow(f) \/ EndFlow(f)
  BY <1>2, <1>3 DEF StartFlow, EndFlow
<1>4. CASE DefCrash
  BY <1>2, <1>4 DEF DefCrash
<1>5. CASE UNCHANGED defVars
  BY <1>2, <1>5 DEF defVars
<1> QED BY <1>1, <1>3, <1>4, <1>5, AgentEdits, TypeEdits, FlowEdits, HandWrites DEF DefNext

\* However edits, hand edits, failures and crashes fall together, a reader of
\* a definition is given a whole one: the last acknowledged or the edit's own
\* (the saves of workspace/ and flow_ops.rs through a temporary file).
THEOREM DefinitionsCorrect == DefSpec => []EditsAreServed
<1>1. DefInv => EditsAreServed
  BY DEF DefInv
<1> QED BY <1>1, DefInitOK, DefStep, PTL DEF DefSpec

\* The flows that run, the definitions edits clashed on and the bounds.
DefBooks ==
    /\ running \subseteq FlowIds /\ clash \subseteq DefPaths
    /\ editCount \in 0..MaxEdits /\ handEdits \in 0..MaxHandEdits /\ defCrashes \in 0..MaxDefCrashes

\* One more below a bound stays within it.
LEMMA OneMore == ASSUME NEW m \in Nat, NEW n \in 0..m, n < m PROVE n + 1 \in 0..m
  OBVIOUS

\* A request adds its own definition at most to the clashes.
LEMMA BeginsBooks ==
    ASSUME DefBooks, NEW e, NEW pc, NEW p \in DefPaths, NEW t, NEW during, NEW after, BeginEdit(e, pc, p, t, during, after)
    PROVE  DefBooks'
<1>1. clash' \subseteq DefPaths
  BY Entities DEF DefBooks, BeginEdit
<1>2. editCount' \in 0..MaxEdits
  <2>1. editCount < MaxEdits /\ editCount' = editCount + 1
    BY DEF BeginEdit
  <2> QED BY <2>1, OneMore, DefinitionsAssumption DEF DefBooks
<1> QED BY <1>1, <1>2 DEF DefBooks, BeginEdit

LEMMA DefBooksInit == DefInit => DefBooks
  BY DefinitionsAssumption DEF DefInit, DefBooks

LEMMA DefBooksStep == DefBooks /\ [DefNext]_defVars => DefBooks'
<1> SUFFICES ASSUME DefBooks, [DefNext]_defVars PROVE DefBooks'
  OBVIOUS
<1>1. ASSUME NEW e \in Editors, NEW a \in AgentIds, ContributionSave(e, a) \/ ContributionDelete(e, a) PROVE DefBooks'
  <2>1. <<"agent.yaml", a>> \in DefPaths
    BY DEF DefPaths, AgentFiles
  <2> QED BY <1>1, <2>1, BeginsBooks DEF ContributionSave, ContributionDelete
<1>2. ASSUME NEW e \in Editors, NEW d \in DocTypes, DocTypeSave(e, d) \/ DocTypeDelete(e, d) PROVE DefBooks'
  <2>1. <<"md", d>> \in DefPaths
    BY DEF DefPaths, TypeFiles
  <2> QED BY <1>2, <2>1, BeginsBooks DEF DocTypeSave, DocTypeDelete
<1>3. ASSUME NEW e \in Editors, NEW f \in FlowIds, FlowSave(e, f) \/ FlowSaveYaml(e, f) PROVE DefBooks'
  <2>1. <<"flow.yaml", f>> \in DefPaths
    BY DEF DefPaths, FlowFiles
  <2> QED BY <1>3, <2>1, BeginsBooks DEF FlowSave, FlowSaveYaml
<1>4. ASSUME NEW e \in Editors, OpenTmp(e) \/ WriteTmp(e) \/ RenameTmp(e) \/ RemoveFile(e) \/ EditFails(e) PROVE DefBooks'
  <2>1. clash' \subseteq clash
    BY <1>4 DEF OpenTmp, WriteTmp, RenameTmp, RemoveFile, EditFails, Answered
  <2>2. Rest
    BY <1>4 DEF OpenTmp, WriteTmp, RenameTmp, RemoveFile, EditFails
  <2> QED BY <2>1, <2>2 DEF Rest, DefBooks
<1>5. ASSUME NEW p \in DefPaths, WriteByHand(p) PROVE DefBooks'
  <2>1. handEdits' \in 0..MaxHandEdits
    <3>1. handEdits < MaxHandEdits /\ handEdits' = handEdits + 1
      BY <1>5 DEF WriteByHand
    <3> QED BY <3>1, OneMore, DefinitionsAssumption DEF DefBooks
  <2> QED BY <1>5, <2>1 DEF WriteByHand, DefBooks
<1>6. ASSUME NEW f \in FlowIds, StartFlow(f) \/ EndFlow(f) PROVE DefBooks'
  BY <1>6 DEF StartFlow, EndFlow, DefBooks
<1>7. CASE DefCrash
  <2>1. defCrashes' \in 0..MaxDefCrashes
    <3>1. defCrashes < MaxDefCrashes /\ defCrashes' = defCrashes + 1
      BY <1>7 DEF DefCrash
    <3> QED BY <3>1, OneMore, DefinitionsAssumption DEF DefBooks
  <2> QED BY <1>7, <2>1 DEF DefCrash, DefBooks
<1>8. CASE UNCHANGED defVars
  BY <1>8 DEF defVars, DefBooks
<1> QED BY <1>1, <1>2, <1>3, <1>4, <1>5, <1>6, <1>7, <1>8 DEF DefNext

\* The type invariant of the definitions' state (workspace/, contribution_ops,
\* registry_ops and flow_ops).
THEOREM DefTypeCorrect == DefSpec => []DefTypeOK
<1>1. DefInv /\ DefBooks => DefTypeOK
  BY DEF DefInv, DefShapes, IsEdit, DefBooks, DefTypeOK
<1> QED BY <1>1, DefInitOK, DefStep, DefBooksInit, DefBooksStep, PTL DEF DefSpec

-----------------------------------------------------------------------------
(* Orchestrator: counting in sequences                                     *)

\* As many members go through a one-to-one map.
LEMMA Renumbered ==
    ASSUME NEW I, NEW J, IsFiniteSet(I), NEW g \in [I -> J],
           \A i, j \in I : g[i] = g[j] => i = j, \A y \in J : \E i \in I : g[i] = y
    PROVE  IsFiniteSet(J) /\ Cardinality(J) = Cardinality(I)
<1>1. g \in Bijection(I, J)
  BY DEF Bijection, Injection, Surjection, IsInjective
<1> QED BY <1>1, FS_Bijection DEF ExistsBijection

\* Places of a first part, and of a second one that begins after m.
LEMMA CountJoin ==
    ASSUME NEW m \in Nat, NEW l \in Nat, NEW I \in SUBSET (1..m), NEW J \in SUBSET (1..l)
    PROVE  /\ Cardinality(I) \in Nat /\ Cardinality(J) \in Nat
           /\ Cardinality(I \cup {m + j : j \in J}) = Cardinality(I) + Cardinality(J)
<1> DEFINE K == {m + j : j \in J}
<1>1. IsFiniteSet(I) /\ IsFiniteSet(J)
  <2>1. IsFiniteSet(1..m) /\ IsFiniteSet(1..l)
    BY FS_Interval
  <2> QED BY <2>1, FS_Subset
<1>2. IsFiniteSet(K) /\ Cardinality(K) = Cardinality(J)
  <2> DEFINE g == [j \in J |-> m + j]
  <2>1. g \in [J -> K] /\ \A y \in K : \E j \in J : g[j] = y
    OBVIOUS
  <2>2. \A i, j \in J : g[i] = g[j] => i = j
    OBVIOUS
  <2> HIDE DEF g, K
  <2> QED BY <1>1, <2>1, <2>2, Renumbered
<1>3. I \cap K = {}
  OBVIOUS
<1>4. Cardinality(I) \in Nat /\ Cardinality(J) \in Nat /\ Cardinality({}) = 0
  BY <1>1, FS_CardinalityType, FS_EmptySet
<1> HIDE DEF K
<1>5. Cardinality(I \cup K) = Cardinality(I) + Cardinality(K) - Cardinality(I \cap K)
  BY <1>1, <1>2, FS_Union
<1>6. Cardinality(I \cup K) = Cardinality(I) + Cardinality(J)
  BY <1>2, <1>3, <1>4, <1>5
<1> QED BY <1>4, <1>6 DEF K

LEMMA OccursNat ==
    ASSUME NEW S, NEW q \in Seq(S), NEW n
    PROVE  /\ Occurs(n, q) \in Nat /\ {i \in 1..Len(q) : q[i] = n} \in SUBSET (1..Len(q))
           /\ IsFiniteSet({i \in 1..Len(q) : q[i] = n})
           /\ (Occurs(n, q) = 0 <=> \A i \in 1..Len(q) : q[i] # n)
<1>1. IsFiniteSet({i \in 1..Len(q) : q[i] = n})
  <2>1. IsFiniteSet(1..Len(q))
    BY FS_Interval
  <2> QED BY <2>1, FS_Subset
<1>2. Cardinality({i \in 1..Len(q) : q[i] = n}) \in Nat
  BY <1>1, FS_CardinalityType
<1>3. Cardinality({i \in 1..Len(q) : q[i] = n}) = 0 <=> {i \in 1..Len(q) : q[i] = n} = {}
  BY <1>1, FS_EmptySet
<1> QED BY <1>1, <1>2, <1>3 DEF Occurs

\* Counting in two sequences, one after the other.
LEMMA OccursConcat ==
    ASSUME NEW S, NEW q \in Seq(S), NEW r \in Seq(S), NEW n
    PROVE  Occurs(n, q \o r) = Occurs(n, q) + Occurs(n, r)
<1> DEFINE I == {i \in 1..Len(q) : q[i] = n}
           J == {i \in 1..Len(r) : r[i] = n}
           K == {i \in 1..Len(q \o r) : (q \o r)[i] = n}
<1>1. Len(q) \in Nat /\ Len(r) \in Nat /\ Len(q \o r) = Len(q) + Len(r)
  BY ConcatProperties
<1>2. \A i \in 1..(Len(q) + Len(r)) : (q \o r)[i] = IF i <= Len(q) THEN q[i] ELSE r[i - Len(q)]
  BY ConcatProperties
<1>3. K = I \cup {Len(q) + j : j \in J}
  <2>1. ASSUME NEW i \in K PROVE i \in I \/ \E j \in J : i = Len(q) + j
    <3>1. CASE i <= Len(q)
      BY <3>1, <1>1, <1>2
    <3>2. CASE i > Len(q)
      <4>1. i - Len(q) \in 1..Len(r) /\ r[i - Len(q)] = n /\ i = Len(q) + (i - Len(q))
        BY <3>2, <1>1, <1>2
      <4> QED BY <4>1
    <3> QED BY <3>1, <3>2, <1>1
  <2>2. I \subseteq K
    BY <1>1, <1>2
  <2>3. ASSUME NEW j \in J PROVE Len(q) + j \in K
    <3>1. Len(q) + j \in 1..(Len(q) + Len(r)) /\ ~(Len(q) + j <= Len(q)) /\ (Len(q) + j) - Len(q) = j
      BY <1>1
    <3> QED BY <3>1, <1>1, <1>2
  <2> QED BY <2>1, <2>2, <2>3
<1>4. I \in SUBSET (1..Len(q)) /\ J \in SUBSET (1..Len(r))
  OBVIOUS
<1> HIDE DEF I, J, K
<1>5. Cardinality(K) = Cardinality(I) + Cardinality(J)
  BY <1>1, <1>3, <1>4, CountJoin, ZenonT(40)
<1> QED BY <1>5 DEF I, J, K, Occurs

LEMMA OccursOne ==
    ASSUME NEW S, NEW x \in S, NEW n
    PROVE  Occurs(n, <<x>>) = IF x = n THEN 1 ELSE 0
<1>1. {i \in 1..Len(<<x>>) : <<x>>[i] = n} = IF x = n THEN {1} ELSE {}
  OBVIOUS
<1> QED BY <1>1, FS_Singleton, FS_EmptySet DEF Occurs

LEMMA OccursAppend ==
    ASSUME NEW S, NEW q \in Seq(S), NEW x \in S, NEW n
    PROVE  Occurs(n, Append(q, x)) = Occurs(n, q) + IF x = n THEN 1 ELSE 0
<1>1. Append(q, x) = q \o <<x>> /\ <<x>> \in Seq(S)
  BY AppendIsConcat
<1>2. Occurs(n, q \o <<x>>) = Occurs(n, q) + Occurs(n, <<x>>)
  BY <1>1, OccursConcat
<1>3. Occurs(n, <<x>>) = IF x = n THEN 1 ELSE 0
  BY OccursOne
<1> QED BY <1>1, <1>2, <1>3

\* A part of a sequence from its beginning, cut in two.
LEMMA Cut ==
    ASSUME NEW S, NEW a \in Seq(S), NEW j \in 0..Len(a), NEW i \in 0..j
    PROVE  /\ SubSeq(a, 1, i) \in Seq(S) /\ SubSeq(a, 1, j) \in Seq(S) /\ SubSeq(a, i + 1, j) \in Seq(S)
           /\ Len(SubSeq(a, i + 1, j)) = j - i /\ \A x \in 1..(j - i) : SubSeq(a, i + 1, j)[x] = a[i + x]
           /\ SubSeq(a, 1, j) = SubSeq(a, 1, i) \o SubSeq(a, i + 1, j)
<1>1. Len(a) \in Nat /\ i \in Int /\ j \in Int /\ i <= j /\ j <= Len(a) /\ i >= 0
  BY LenProperties
<1>2. \A x \in 1..Len(a) : a[x] \in S
  BY ElementOfSeq
<1>3. SubSeq(a, 1, i) \in Seq(S) /\ SubSeq(a, 1, j) \in Seq(S)
  BY <1>1, <1>2, SubSeqProperties
<1>4. \A x \in (i + 1)..j : a[x] \in S
  BY <1>1, <1>2
<1>5. /\ SubSeq(a, i + 1, j) \in Seq(S) /\ Len(SubSeq(a, i + 1, j)) = IF i + 1 <= j THEN j - (i + 1) + 1 ELSE 0
      /\ \A x \in 1..(j - (i + 1) + 1) : SubSeq(a, i + 1, j)[x] = a[i + 1 + x - 1]
  BY <1>1, <1>4, SubSeqProperties
<1>6. SubSeq(a, 1, i) \o SubSeq(a, i + 1, j) = SubSeq(a, 1, j)
  <2>1. 1 \in 1..(Len(a) + 1) /\ i \in (1 - 1)..Len(a) /\ j \in i..Len(a)
    BY <1>1
  <2> QED BY <2>1, ConcatAdjacentSubSeq
<1>8. Len(SubSeq(a, i + 1, j)) = j - i
  BY <1>1, <1>5
<1>9. \A x \in 1..(j - i) : SubSeq(a, i + 1, j)[x] = a[i + x]
  <2>1. j - (i + 1) + 1 = j - i /\ \A x \in 1..(j - i) : i + 1 + x - 1 = i + x
    BY <1>1
  <2> QED BY <2>1, <1>5
<1> QED BY <1>3, <1>5, <1>6, <1>8, <1>9

\* How often n is met by place j and by an earlier place i: no less often, and
\* as often if none is between them; more often if n is at j.
LEMMA OccursSplit ==
    ASSUME NEW S, NEW a \in Seq(S), NEW j \in 0..Len(a), NEW i \in 0..j, NEW n
    PROVE  /\ Occurs(n, SubSeq(a, 1, i)) \in Nat /\ Occurs(n, SubSeq(a, 1, j)) \in Nat
           /\ Occurs(n, SubSeq(a, 1, i)) <= Occurs(n, SubSeq(a, 1, j))
           /\ (\A x \in (i + 1)..j : a[x] # n) => Occurs(n, SubSeq(a, 1, i)) = Occurs(n, SubSeq(a, 1, j))
           /\ i < j /\ a[j] = n => Occurs(n, SubSeq(a, 1, i)) < Occurs(n, SubSeq(a, 1, j))
<1> DEFINE before == SubSeq(a, 1, i)
           upto == SubSeq(a, 1, j)
           between == SubSeq(a, i + 1, j)
<1>1. /\ before \in Seq(S) /\ upto \in Seq(S) /\ between \in Seq(S) /\ upto = before \o between
      /\ Len(between) = j - i /\ \A x \in 1..(j - i) : between[x] = a[i + x]
  BY Cut
<1> HIDE DEF before, upto, between
<1>2. Occurs(n, upto) = Occurs(n, before) + Occurs(n, between)
  BY <1>1, OccursConcat
<1>3. Occurs(n, before) \in Nat /\ Occurs(n, between) \in Nat /\ Occurs(n, upto) \in Nat
  BY <1>1, OccursNat
<1>4. Occurs(n, between) = 0 <=> \A x \in 1..Len(between) : between[x] # n
  BY <1>1, OccursNat
<1>5. i \in Nat /\ j \in Nat /\ i <= j
  BY LenProperties
<1>6. Occurs(n, before) <= Occurs(n, upto)
  BY <1>2, <1>3
<1>7. (\A x \in (i + 1)..j : a[x] # n) => Occurs(n, before) = Occurs(n, upto)
  <2> SUFFICES ASSUME \A x \in (i + 1)..j : a[x] # n PROVE Occurs(n, before) = Occurs(n, upto)
    OBVIOUS
  <2>1. \A x \in 1..(j - i) : i + x \in (i + 1)..j
    BY <1>5
  <2>2. \A x \in 1..Len(between) : between[x] # n
    BY <2>1, <1>1
  <2>3. Occurs(n, between) = 0
    BY <2>2, <1>4
  <2> QED BY <2>3, <1>2, <1>3
<1>8. i < j /\ a[j] = n => Occurs(n, before) < Occurs(n, upto)
  <2> SUFFICES ASSUME i < j, a[j] = n PROVE Occurs(n, before) < Occurs(n, upto)
    OBVIOUS
  <2>1. j - i \in 1..(j - i) /\ i + (j - i) = j
    BY <1>5
  <2>2. between[j - i] = n
    BY <2>1, <1>1
  <2>3. Occurs(n, between) # 0
    BY <2>1, <2>2, <1>1, <1>4
  <2> QED BY <2>3, <1>2, <1>3
<1> QED BY <1>3, <1>6, <1>7, <1>8 DEF before, upto

\* A sequence without repetition is no longer than the set it is over, and when
\* it is as long it has all of it.
Distinct(q) == \A i, j \in 1..Len(q) : q[i] = q[j] => i = j

LEMMA Onto ==
    ASSUME NEW S, IsFiniteSet(S), NEW q \in Seq(S), Distinct(q)
    PROVE  /\ Len(q) <= Cardinality(S) /\ Cardinality(S) \in Nat
           /\ Len(q) = Cardinality(S) => \A x \in S : \E i \in 1..Len(q) : q[i] = x
<1>1. Len(q) \in Nat /\ q \in [1..Len(q) -> S]
  BY LenProperties
<1>2. q \in Injection(1..Len(q), S)
  BY <1>1 DEF Injection, IsInjective, Distinct
<1>3. Cardinality(1..Len(q)) = Len(q)
  BY <1>1, FS_Interval
<1>4. Len(q) <= Cardinality(S) /\ (Len(q) = Cardinality(S) <=> q \in Surjection(1..Len(q), S))
  BY <1>2, <1>3, FS_Injection
<1>5. Cardinality(S) \in Nat
  BY FS_CardinalityType
<1> QED BY <1>4, <1>5 DEF Surjection

\* Two such sequences that have nothing in common make one.
LEMMA DistinctConcat ==
    ASSUME NEW S, NEW q \in Seq(S), NEW r \in Seq(S), Distinct(q), Distinct(r),
           \A i \in 1..Len(q), j \in 1..Len(r) : q[i] # r[j]
    PROVE  Distinct(q \o r)
<1>1. Len(q) \in Nat /\ Len(r) \in Nat /\ Len(q \o r) = Len(q) + Len(r)
  BY ConcatProperties
<1>2. \A i \in 1..(Len(q) + Len(r)) : (q \o r)[i] = IF i <= Len(q) THEN q[i] ELSE r[i - Len(q)]
  BY ConcatProperties
<1> SUFFICES ASSUME NEW i \in 1..(Len(q) + Len(r)), NEW j \in 1..(Len(q) + Len(r)), (q \o r)[i] = (q \o r)[j] PROVE i = j
  BY <1>1 DEF Distinct
<1>3. CASE i <= Len(q) /\ j <= Len(q)
  BY <1>1, <1>2, <1>3 DEF Distinct
<1>4. CASE i > Len(q) /\ j > Len(q)
  <2>1. i - Len(q) \in 1..Len(r) /\ j - Len(q) \in 1..Len(r) /\ r[i - Len(q)] = r[j - Len(q)]
    BY <1>1, <1>2, <1>4
  <2>2. i - Len(q) = j - Len(q)
    BY <2>1 DEF Distinct
  <2> QED BY <2>2, <1>1
<1>5. CASE i <= Len(q) /\ j > Len(q)
  <2>1. i \in 1..Len(q) /\ j - Len(q) \in 1..Len(r) /\ q[i] = r[j - Len(q)]
    BY <1>1, <1>2, <1>5
  <2> QED BY <2>1
<1>6. CASE i > Len(q) /\ j <= Len(q)
  <2>1. j \in 1..Len(q) /\ i - Len(q) \in 1..Len(r) /\ q[j] = r[i - Len(q)]
    BY <1>1, <1>2, <1>6
  <2> QED BY <2>1
<1> QED BY <1>1, <1>3, <1>4, <1>5, <1>6

-----------------------------------------------------------------------------
(* Orchestrator: cycles                                                    *)

Graph == adjacency \in [NodeIds -> Seq(NodeIds)] /\ \A n \in NodeIds : Len(adjacency[n]) <= MaxFan

LEMMA EdgeFacts ==
    ASSUME Graph
    PROVE  /\ \A n, k : <<n, k>> \in Edges <=> n \in NodeIds /\ k \in Targets(n)
           /\ \A n \in NodeIds : Targets(n) \subseteq NodeIds
           /\ \A n \in NodeIds : \A i \in 1..Len(adjacency[n]) : adjacency[n][i] \in Targets(n) /\ <<n, adjacency[n][i]>> \in Edges
<1>1. \A n, k : <<n, k>> \in Edges <=> n \in NodeIds /\ k \in Targets(n)
  BY DEF Edges
<1>2. \A n \in NodeIds : Targets(n) \subseteq NodeIds
  BY DEF Graph, Targets
<1>3. \A n \in NodeIds : \A i \in 1..Len(adjacency[n]) : adjacency[n][i] \in Targets(n)
  BY DEF Targets
<1> QED BY <1>1, <1>2, <1>3

\* An edge back to an earlier node of a walk, or to its last one, closes a
\* cycle that is not longer than there are nodes.
LEMMA Closing ==
    ASSUME NEW q \in Seq(NodeIds), Distinct(q), Walk(q), NEW j \in 1..Len(q), NEW i \in 1..j, <<q[j], q[i]>> \in Edges
    PROVE  Cyclic
<1>1. PICK k \in Nat : k = j - i + 1
  OBVIOUS
<1>2. k \in 1..Len(q) /\ Len(q) \in Nat /\ i \in Nat /\ j \in Nat
  BY <1>1, LenProperties
<1>3. Len(q) <= Cardinality(NodeIds) /\ Cardinality(NodeIds) \in Nat
  BY OrchAssumption, Onto
<1>4. k \in 1..Cardinality(NodeIds)
  BY <1>2, <1>3
<1> DEFINE c == [x \in 1..(k + 1) |-> IF x = k + 1 THEN q[i] ELSE q[i + x - 1]]
<1>5. \A x \in 1..k : i + x - 1 \in 1..Len(q) /\ i + x - 1 \in 1..j
  BY <1>1, <1>2
<1>6. \A x \in 1..Len(q) : q[x] \in NodeIds
  BY ElementOfSeq
<1>7. c \in [1..(k + 1) -> NodeIds]
  BY <1>2, <1>5, <1>6
<1>8. c[1] = c[k + 1]
  BY <1>2
<1>9. Len(c) = k + 1
  BY <1>2
<1>10. ASSUME NEW x \in 1..k PROVE <<c[x], c[x + 1]>> \in Edges
  <2>1. c[x] = q[i + x - 1] /\ x \in 1..(k + 1) /\ x + 1 \in 1..(k + 1)
    BY <1>2
  <2>2. CASE x = k
    <3>1. i + x - 1 = j /\ c[x + 1] = q[i]
      BY <2>1, <2>2, <1>1, <1>2
    <3> QED BY <2>1, <3>1
  <2>3. CASE x # k
    <3>1. c[x + 1] = q[i + x] /\ i + x - 1 \in 1..(Len(q) - 1) /\ (i + x - 1) + 1 = i + x
      BY <2>1, <2>3, <1>1, <1>2
    <3> QED BY <2>1, <3>1 DEF Walk
  <2> QED BY <2>2, <2>3
<1> HIDE DEF c
<1>11. Walk(c)
  <2>1. Len(c) - 1 = k
    BY <1>9, <1>2
  <2> QED BY <2>1, <1>10 DEF Walk
<1> QED BY <1>4, <1>7, <1>8, <1>11 DEF Cyclic

\* Where each node of a set has a predecessor in it there is a cycle: a longest
\* walk without repetition cannot be led back any further.
LEMMA NoSource ==
    ASSUME Graph, NEW R \in SUBSET NodeIds, R # {}, \A k \in R : \E p \in R : <<p, k>> \in Edges
    PROVE  Cyclic
<1> DEFINE Simple(q) == Len(q) >= 1 /\ Distinct(q) /\ Walk(q)
           N == Cardinality(NodeIds)
           T == {d \in Nat : \E q \in Seq(R) : Simple(q) /\ d = N - Len(q)}
<1>1. \A q \in Seq(R) : q \in Seq(NodeIds) /\ Len(q) \in Nat
  BY SeqMonotonic, LenProperties
<1>2. \A q \in Seq(R) : Simple(q) => Len(q) <= N /\ N \in Nat
  BY <1>1, OrchAssumption, Onto
<1>3. T # {}
  <2>1. PICK x \in R : TRUE
    OBVIOUS
  <2>2. <<x>> \in Seq(R) /\ Len(<<x>>) = 1
    OBVIOUS
  <2>3. Simple(<<x>>)
    BY <2>2 DEF Distinct, Walk
  <2> HIDE DEF Simple, N
  <2>4. N - Len(<<x>>) \in Nat
    <3>1. Len(<<x>>) <= N /\ N \in Nat
      BY <1>2, <2>2, <2>3
    <3> QED BY <3>1, <2>2
  <2> QED BY <2>2, <2>3, <2>4
<1>4. PICK d \in T : \A e \in T : d <= e
  BY <1>3, Least
<1>5. PICK q \in Seq(R) : Simple(q) /\ d = N - Len(q)
  BY <1>4
<1>6. q \in Seq(NodeIds) /\ Len(q) \in Nat /\ 1 \in 1..Len(q) /\ q[1] \in R /\ Len(q) <= N /\ N \in Nat
  BY <1>1, <1>2, <1>5, ElementOfSeq
<1>7. PICK p \in R : <<p, q[1]>> \in Edges
  BY <1>6
<1>8. CASE \E j \in 1..Len(q) : q[j] = p
  <2>1. PICK j \in 1..Len(q) : q[j] = p
    BY <1>8
  <2>2. 1 \in 1..j /\ <<q[j], q[1]>> \in Edges
    BY <2>1, <1>6, <1>7
  <2> QED BY <2>1, <2>2, <1>5, <1>6, Closing
<1>9. CASE \A j \in 1..Len(q) : q[j] # p
  <2> DEFINE r == <<p>> \o q
  <2>1. <<p>> \in Seq(R) /\ Len(<<p>>) = 1 /\ <<p>>[1] = p
    OBVIOUS
  <2>2. /\ r \in Seq(R) /\ Len(r) = 1 + Len(q)
        /\ \A x \in 1..(1 + Len(q)) : r[x] = IF x <= 1 THEN <<p>>[x] ELSE q[x - 1]
    BY <2>1, ConcatProperties
  <2>3. Distinct(r)
    <3>1. Distinct(<<p>>)
      BY <2>1 DEF Distinct
    <3>2. \A x \in 1..Len(<<p>>), y \in 1..Len(q) : <<p>>[x] # q[y]
      BY <2>1, <1>9
    <3> QED BY <3>1, <3>2, <2>1, <1>5, DistinctConcat
  <2> HIDE DEF r
  <2>4. Walk(r)
    <3> SUFFICES ASSUME NEW x \in 1..Len(q) PROVE <<r[x], r[x + 1]>> \in Edges
      BY <2>2, <1>6 DEF Walk
    <3>1. r[x + 1] = q[x]
      BY <2>2, <1>6
    <3>2. CASE x = 1
      BY <3>1, <3>2, <2>1, <2>2, <1>6, <1>7
    <3>3. CASE x # 1
      <4>1. x - 1 \in 1..(Len(q) - 1) /\ (x - 1) + 1 = x /\ r[x] = q[x - 1]
        BY <3>3, <2>2, <1>6
      <4> QED BY <3>1, <4>1, <1>5 DEF Walk
    <3> QED BY <3>2, <3>3
  <2>5. Simple(r)
    BY <2>2, <2>3, <2>4, <1>6
  <2>6. Len(r) <= N
    BY <2>2, <2>5, <1>2
  <2> HIDE DEF Simple, N
  <2>7. N - Len(r) \in Nat /\ N - Len(r) < N - Len(q)
    BY <2>2, <2>6, <1>6
  <2>8. N - Len(r) \in T
    BY <2>2, <2>5, <2>7
  <2> QED BY <2>7, <2>8, <1>4, <1>5
<1> QED BY <1>8, <1>9

\* Where ranks fall along every edge there is no cycle.
LEMMA Ranked ==
    ASSUME Graph, NEW rank \in [NodeIds -> Nat], \A n \in NodeIds : \A k \in Targets(n) : rank[k] < rank[n]
    PROVE  ~Cyclic
<1> SUFFICES ASSUME Cyclic PROVE FALSE
  OBVIOUS
<1>1. PICK k \in 1..Cardinality(NodeIds) : \E q \in [1..(k + 1) -> NodeIds] : q[1] = q[k + 1] /\ Walk(q)
  BY DEF Cyclic
<1>2. PICK q \in [1..(k + 1) -> NodeIds] : q[1] = q[k + 1] /\ Walk(q)
  BY <1>1
<1>3. k \in Nat /\ k >= 1
  BY OrchAssumption, FS_CardinalityType
<1>4. Len(q) = k + 1
  BY <1>3
<1>5. \A i \in 1..k : rank[q[i + 1]] < rank[q[i]]
  <2> SUFFICES ASSUME NEW i \in 1..k PROVE rank[q[i + 1]] < rank[q[i]]
    OBVIOUS
  <2>1. <<q[i], q[i + 1]>> \in Edges
    BY <1>2, <1>3, <1>4 DEF Walk
  <2> QED BY <2>1, EdgeFacts
<1> DEFINE T == {rank[q[i]] : i \in 1..k}
<1>6. T \in SUBSET Nat /\ T # {}
  BY <1>3
<1>7. PICK x \in T : \A y \in T : x <= y
  BY <1>6, Least
<1>8. PICK i \in 1..k : x = rank[q[i]]
  BY <1>7
<1>9. rank[q[i + 1]] \in T
  <2>1. CASE i = k
    <3>1. rank[q[1]] \in T /\ q[1] = q[i + 1]
      BY <2>1, <1>2, <1>3
    <3> QED BY <3>1
  <2>2. CASE i # k
    <3>1. i + 1 \in 1..k
      BY <2>2, <1>3
    <3> QED BY <3>1
  <2> QED BY <2>1, <2>2
<1>10. x <= rank[q[i + 1]] /\ rank[q[i + 1]] < x
  BY <1>5, <1>7, <1>8, <1>9
<1>11. x \in Nat /\ rank[q[i + 1]] \in Nat
  BY <1>6, <1>7, <1>9
<1> QED BY <1>10, <1>11

-----------------------------------------------------------------------------
(* Orchestrator: the invariant                                             *)

\* The nodes of the pending branches.
LastNodes(t) == [i \in 1..Len(t) |-> t[i][2]]

Walks ==
    /\ Walk(Append(path, current))
    /\ \A i \in 1..Len(tails) : Walk(Append(tails[i][1], tails[i][2]))
    /\ result = "none" => \A n \in NodeIds :
          named[n] = Occurs(n, trace) + Occurs(n, LastNodes(tails)) + (IF n = current THEN 1 ELSE 0)
    /\ result \in {"Completed", "Cancelled"} => \A n \in NodeIds : named[n] = Occurs(n, trace)

\* The nodes that are in the order or ready for it.
OrderedOrReady == order \o ready
Done == {order[i] : i \in 1..Len(order)}

Sorts ==
    /\ Distinct(OrderedOrReady)
    /\ \A n \in NodeIds : indegree[n] = Cardinality(EdgesFrom(NodeIds \ Done, n))
    /\ \A n \in NodeIds : indegree[n] = 0 <=> \E i \in 1..Len(OrderedOrReady) : OrderedOrReady[i] = n
    /\ \A j \in 1..Len(order), n \in NodeIds : <<n, order[j]>> \in Edges => \E i \in 1..(j - 1) : order[i] = n
    /\ result = "Ok" => Len(order) = Cardinality(NodeIds)

\* Ranks say in which order the nodes were finished, each after its targets.
Finished == \E rank \in [NodeIds -> Nat], b \in Nat : \A n \in NodeIds : color[n] = "Black" =>
               rank[n] < b /\ \A k \in Targets(n) : color[k] = "Black" /\ rank[k] < rank[n]

\* The search is a walk without repetition, behind it lies what is finished.
Searches ==
    /\ \A i, j \in 1..Len(stack) : stack[i][1] = stack[j][1] => i = j
    /\ \A n \in NodeIds : color[n] = "Grey" <=> \E i \in 1..Len(stack) : stack[i][1] = n
    /\ \A i \in 1..(Len(stack) - 1) : <<stack[i][1], stack[i + 1][1]>> \in Edges
    /\ result = "none" => \A i \in 1..Len(stack) : \A j \in 1..Len(adjacency[stack[i][1]]) :
          j < stack[i][2] => \/ color[adjacency[stack[i][1]][j]] = "Black"
                             \/ i < Len(stack) /\ stack[i + 1][1] = adjacency[stack[i][1]][j]
    /\ Finished
    /\ result = "acyclic" => \A n \in NodeIds : color[n] = "Black"

ResultsOf == [walk |-> {"none", "Completed", "Cancelled", "StepError", "StepLimitExceeded", "InvalidNextNode"},
              order |-> {"none", "Ok", "Cycle"}, cycle |-> {"none", "cyclic", "acyclic"}]

OrchInv ==
    /\ OrchTypeOK /\ Graph /\ result \in ResultsOf[task]
    /\ result \in {"Cycle", "cyclic"} => Cyclic
    /\ task = "walk" => Walks
    /\ task = "order" => Sorts
    /\ task = "cycle" => Searches

LEMMA OrchFacts ==
    ASSUME OrchInv
    PROVE  /\ adjacency \in [NodeIds -> Seq(NodeIds)] /\ task \in {"walk", "order", "cycle"}
           /\ current \in NodeIds /\ path \in Seq(NodeIds) /\ trace \in Seq(NodeIds) /\ Len(trace) <= MaxSteps
           /\ tails \in Seq(Seq(NodeIds) \X NodeIds) /\ named \in [NodeIds -> Nat]
           /\ indegree \in [NodeIds -> Nat] /\ ready \in Seq(NodeIds) /\ order \in Seq(NodeIds)
           /\ color \in [NodeIds -> {"White", "Grey", "Black"}]
           /\ stack \in Seq(NodeIds \X (1..(MaxFan + 1)))
           /\ \A n \in NodeIds : Len(adjacency[n]) <= MaxFan /\ adjacency[n] \in Seq(NodeIds)
BY DEF OrchInv, OrchTypeOK, Graph

\* The graph stays as it is.
LEMMA SameGraph ==
    ASSUME adjacency' = adjacency
    PROVE  Edges' = Edges /\ Graph' = Graph /\ Cyclic' = Cyclic /\ \A n : Targets(n)' = Targets(n)
<1>1. \A n : Targets(n)' = Targets(n)
  BY DEF Targets
<1>2. Edges' = Edges
  BY <1>1 DEF Edges
<1>3. \A q : Walk(q)' = Walk(q)
  BY <1>2 DEF Walk
<1>4. Cyclic' = Cyclic
  BY <1>3 DEF Cyclic
<1>5. Graph' = Graph
  BY DEF Graph
<1> QED BY <1>1, <1>2, <1>4, <1>5

-----------------------------------------------------------------------------
(* Orchestrator: the beginning                                             *)

\* Edges are finitely many.
LEMMA FiniteEdges ==
    ASSUME NEW S \in SUBSET NodeIds, NEW n
    PROVE  IsFiniteSet(EdgesFrom(S, n)) /\ Cardinality(EdgesFrom(S, n)) \in Nat
<1>1. IsFiniteSet(S)
  BY OrchAssumption, FS_Subset
<1>2. IsFiniteSet(1..MaxFan)
  BY OrchAssumption, FS_Interval
<1>3. IsFiniteSet(S \X (1..MaxFan))
  BY <1>1, <1>2, FS_Product
<1>4. IsFiniteSet(EdgesFrom(S, n))
  BY <1>3, FS_Subset DEF EdgesFrom
<1> QED BY <1>4, FS_CardinalityType

LEMMA InitOrch == OrchInit => OrchInv
<1> SUFFICES ASSUME OrchInit PROVE OrchInv
  OBVIOUS
<1>1. Graph
  <2>1. adjacency \in [NodeIds -> Fans]
    BY OrchAssumption DEF OrchInit
  <2>2. \A f \in Fans : f \in Seq(NodeIds) /\ Len(f) <= MaxFan
    <3> SUFFICES ASSUME NEW k \in 0..MaxFan, NEW f \in [1..k -> NodeIds] PROVE f \in Seq(NodeIds) /\ Len(f) <= MaxFan
      BY DEF Fans
    <3>1. k \in Nat /\ k <= MaxFan
      BY OrchAssumption
    <3> QED BY <3>1
  <2> QED BY <2>1, <2>2 DEF Graph
<1>2. PICK q \in UNION {[1..k -> NodeIds] : k \in 0..Cardinality(NodeIds)} :
        /\ \A n \in NodeIds : (\E i \in DOMAIN q : q[i] = n) <=> InEdges(n) = 0
        /\ \A i, j \in DOMAIN q : q[i] = q[j] => i = j
        /\ ready = q
  BY DEF OrchInit
<1>3. ready \in Seq(NodeIds) /\ DOMAIN ready = 1..Len(ready)
  <2>1. PICK k \in 0..Cardinality(NodeIds) : q \in [1..k -> NodeIds]
    BY <1>2
  <2>2. k \in Nat
    BY OrchAssumption, FS_CardinalityType
  <2> QED BY <2>1, <2>2, <1>2
<1>4. \A n \in NodeIds : InEdges(n) \in Nat
  BY FiniteEdges DEF InEdges
<1>5. OrchTypeOK
  <2>1. named \in [NodeIds -> Nat] /\ indegree \in [NodeIds -> Nat] /\ color \in [NodeIds -> {"White", "Grey", "Black"}]
    BY <1>4 DEF OrchInit
  <2>2. /\ path \in Seq(NodeIds) /\ trace \in Seq(NodeIds) /\ Len(trace) <= MaxSteps /\ order \in Seq(NodeIds)
        /\ tails \in Seq(Seq(NodeIds) \X NodeIds) /\ stack \in Seq(NodeIds \X (1..(MaxFan + 1)))
    BY OrchAssumption DEF OrchInit
  <2> QED BY <1>1, <1>3, <2>1, <2>2 DEF OrchInit, OrchTypeOK, Graph
<1>6. result = "none" /\ result \in ResultsOf[task]
  BY DEF OrchInit, ResultsOf
<1>7. Walks
  <2>1. Len(Append(path, current)) = 1
    BY DEF OrchInit
  <2>2. Walk(Append(path, current))
    BY <2>1 DEF Walk
  <2>3. trace = <<>> /\ LastNodes(tails) = <<>> /\ Len(tails) = 0
    BY DEF OrchInit, LastNodes
  <2>4. \A n \in NodeIds : Occurs(n, <<>>) = 0
    BY FS_EmptySet DEF Occurs
  <2>5. \A n \in NodeIds : named[n] = IF n = current THEN 1 ELSE 0
    BY DEF OrchInit
  <2> QED BY <2>2, <2>3, <2>4, <2>5, <1>6 DEF Walks
<1>8. Sorts
  <2>1. order = <<>> /\ OrderedOrReady = ready
    BY <1>3 DEF OrchInit, OrderedOrReady
  <2>2. Done = {} /\ NodeIds \ Done = NodeIds
    BY <2>1 DEF Done
  <2>3. \A n \in NodeIds : indegree[n] = InEdges(n) /\ InEdges(n) = Cardinality(EdgesFrom(NodeIds \ Done, n))
    BY <2>2 DEF OrchInit, InEdges
  <2>4. Distinct(OrderedOrReady) /\ \A n \in NodeIds : InEdges(n) = 0 <=> \E i \in 1..Len(OrderedOrReady) : OrderedOrReady[i] = n
    BY <2>1, <1>2, <1>3 DEF Distinct
  <2>5. 1..Len(order) = {}
    BY <2>1
  <2> QED BY <2>3, <2>4, <2>5, <1>6 DEF Sorts
<1>9. Searches
  <2>1. stack = <<>> /\ 1..Len(stack) = {} /\ 1..(Len(stack) - 1) = {} /\ \A n \in NodeIds : color[n] = "White"
    BY DEF OrchInit
  <2>2. [n \in NodeIds |-> 0] \in [NodeIds -> Nat] /\ 0 \in Nat
    OBVIOUS
  <2>3. Finished
    BY <2>1, <2>2 DEF Finished
  <2> QED BY <2>1, <2>3, <1>6 DEF Searches
<1> QED BY <1>1, <1>5, <1>6, <1>7, <1>8, <1>9 DEF OrchInv

-----------------------------------------------------------------------------
(* Orchestrator: the walk                                                  *)

Tail2 == Seq(NodeIds) \X NodeIds

LEMMA LastNodesConcat ==
    ASSUME NEW t \in Seq(Tail2), NEW u \in Seq(Tail2)
    PROVE  LastNodes(t) \in Seq(NodeIds) /\ LastNodes(t \o u) = LastNodes(t) \o LastNodes(u)
<1>1. Len(t) \in Nat /\ Len(u) \in Nat /\ t \o u \in Seq(Tail2) /\ Len(t \o u) = Len(t) + Len(u)
  BY ConcatProperties
<1>2. \A i \in 1..(Len(t) + Len(u)) : (t \o u)[i] = IF i <= Len(t) THEN t[i] ELSE u[i - Len(t)]
  BY ConcatProperties
<1>3. \A v \in Seq(Tail2) : LastNodes(v) \in Seq(NodeIds) /\ Len(LastNodes(v)) = Len(v) /\ \A i \in 1..Len(v) : LastNodes(v)[i] = v[i][2]
  <2> SUFFICES ASSUME NEW v \in Seq(Tail2)
               PROVE  LastNodes(v) \in Seq(NodeIds) /\ Len(LastNodes(v)) = Len(v) /\ \A i \in 1..Len(v) : LastNodes(v)[i] = v[i][2]
    OBVIOUS
  <2>1. Len(v) \in Nat /\ \A i \in 1..Len(v) : v[i] \in Seq(NodeIds) \X NodeIds
    BY LenProperties, ElementOfSeq DEF Tail2
  <2>2. \A i \in 1..Len(v) : v[i][2] \in NodeIds
    BY <2>1
  <2> QED BY <2>1, <2>2 DEF LastNodes
<1> DEFINE p == LastNodes(t)
           r == LastNodes(u)
           w == LastNodes(t \o u)
<1>a. p \in Seq(NodeIds) /\ Len(p) = Len(t) /\ \A i \in 1..Len(t) : p[i] = t[i][2]
  BY <1>3
<1>b. r \in Seq(NodeIds) /\ Len(r) = Len(u) /\ \A i \in 1..Len(u) : r[i] = u[i][2]
  BY <1>3
<1>c. w \in Seq(NodeIds) /\ Len(w) = Len(t) + Len(u) /\ \A i \in 1..(Len(t) + Len(u)) : w[i] = (t \o u)[i][2]
  BY <1>1, <1>3
<1> HIDE DEF p, r, w
<1>d. p \o r \in Seq(NodeIds) /\ Len(p \o r) = Len(t) + Len(u)
  <2>1. p \in Seq(NodeIds) /\ r \in Seq(NodeIds)
    BY <1>a, <1>b
  <2>2. p \o r \in Seq(NodeIds) /\ Len(p \o r) = Len(p) + Len(r)
    BY <2>1, ConcatProperties
  <2> QED BY <2>2, <1>a, <1>b
<1>5. \A i \in 1..(Len(t) + Len(u)) : (p \o r)[i] = IF i <= Len(t) THEN p[i] ELSE r[i - Len(t)]
  BY <1>a, <1>b, ConcatProperties
<1>6. \A i \in 1..Len(w) : w[i] = (p \o r)[i]
  <2> SUFFICES ASSUME NEW i \in 1..(Len(t) + Len(u)) PROVE w[i] = (p \o r)[i]
    BY <1>c
  <2>0. w[i] = (t \o u)[i][2]
    BY <1>c
  <2>1. CASE i <= Len(t)
    <3>1. i \in 1..Len(t)
      BY <2>1, <1>1
    <3>2. (t \o u)[i] = t[i]
      BY <2>1, <1>2
    <3>3. (p \o r)[i] = p[i]
      BY <2>1, <1>5
    <3> QED BY <3>1, <3>2, <3>3, <2>0, <1>a
  <2>2. CASE ~(i <= Len(t))
    <3>1. i - Len(t) \in 1..Len(u)
      BY <2>2, <1>1
    <3>2. (t \o u)[i] = u[i - Len(t)] /\ (p \o r)[i] = r[i - Len(t)]
      BY <2>2, <1>2, <1>5
    <3> QED BY <3>1, <3>2, <2>0, <1>b
  <2> QED BY <2>1, <2>2
<1>7. w = p \o r
  BY <1>c, <1>d, <1>6, SeqEqual
<1> QED BY <1>a, <1>7 DEF p, r, w

\* A walk and an edge from its end.
LEMMA WalkOn ==
    ASSUME NEW q \in Seq(NodeIds), NEW x \in NodeIds, NEW y \in NodeIds, Walk(Append(q, x)), <<x, y>> \in Edges
    PROVE  Walk(Append(Append(q, x), y))
<1> DEFINE r == Append(q, x)
           t == Append(r, y)
<1>1. r \in Seq(NodeIds) /\ Len(q) \in Nat /\ Len(r) = Len(q) + 1 /\ r[Len(q) + 1] = x
  BY AppendProperties
<1>2. Len(t) = Len(r) + 1 /\ t[Len(r) + 1] = y /\ \A i \in 1..Len(r) : t[i] = r[i]
  BY <1>1, AppendProperties
<1>3. \A i \in 1..(Len(r) - 1) : <<r[i], r[i + 1]>> \in Edges
  BY DEF Walk
<1> HIDE DEF r, t
<1>4. ASSUME NEW i \in 1..Len(r) PROVE <<t[i], t[i + 1]>> \in Edges
  <2>1. CASE i = Len(r)
    BY <2>1, <1>1, <1>2
  <2>2. CASE i # Len(r)
    <3>1. i \in 1..(Len(r) - 1) /\ i + 1 \in 1..Len(r)
      BY <2>2, <1>1
    <3> QED BY <3>1, <1>2, <1>3
  <2> QED BY <2>1, <2>2
<1>5. Len(t) - 1 = Len(r)
  BY <1>1, <1>2
<1>6. Walk(t)
  BY <1>4, <1>5 DEF Walk
<1> QED BY <1>6 DEF r, t

\* Of the successors of a branch all but the first are pushed.
LEMMA PushedRest ==
    ASSUME NEW ns \in Seq(NodeIds), ns # <<>>, path \in Seq(NodeIds), current \in NodeIds
    PROVE  /\ Pushed(ns) \in Seq(Tail2) /\ ns[1] \in NodeIds
           /\ \A i \in 1..Len(Pushed(ns)) : Pushed(ns)[i][1] = Made /\ \E j \in 1..Len(ns) : Pushed(ns)[i][2] = ns[j]
           /\ \A n : Occurs(n, ns) = Occurs(n, LastNodes(Pushed(ns))) + (IF ns[1] = n THEN 1 ELSE 0)
<1>1. PICK l \in Nat : l = Len(ns) /\ l >= 1 /\ \A i \in 1..l : ns[i] \in NodeIds
  <2>1. Len(ns) \in Nat /\ Len(ns) >= 1 /\ \A i \in 1..Len(ns) : ns[i] \in NodeIds
    BY EmptySeq, LenProperties, ElementOfSeq
  <2> QED BY <2>1
<1>2. Made \in Seq(NodeIds)
  BY AppendProperties DEF Made
<1> DEFINE u == [i \in 1..(l - 1) |-> <<Made, ns[l + 1 - i]>>]
<1>3. Pushed(ns) = u
  BY <1>1 DEF Pushed
<1>4. \A i \in 1..(l - 1) : l + 1 - i \in 1..l
  BY <1>1
<1>5. u \in Seq(Tail2) /\ Len(u) = l - 1 /\ \A i \in 1..(l - 1) : u[i] = <<Made, ns[l + 1 - i]>>
  BY <1>1, <1>2, <1>4 DEF Tail2
<1> HIDE DEF u
<1>6. \A i \in 1..Len(u) : u[i][1] = Made /\ \E j \in 1..Len(ns) : u[i][2] = ns[j]
  BY <1>1, <1>4, <1>5
<1>7. ASSUME NEW n PROVE Occurs(n, ns) = Occurs(n, LastNodes(u)) + (IF ns[1] = n THEN 1 ELSE 0)
  <2> DEFINE r == LastNodes(u)
             I == {i \in 1..Len(r) : r[i] = n}
             J == {i \in 2..l : ns[i] = n}
             K == {i \in 1..Len(ns) : ns[i] = n}
  <2>1. r \in Seq(NodeIds) /\ Len(r) = l - 1 /\ \A i \in 1..(l - 1) : r[i] = ns[l + 1 - i]
    <3>1. r \in Seq(NodeIds)
      BY <1>5, LastNodesConcat
    <3> QED BY <3>1, <1>5, <1>1 DEF LastNodes
  <2>2. Occurs(n, r) = Cardinality(I) /\ IsFiniteSet(I)
    BY <2>1, OccursNat DEF Occurs
  <2>3. Cardinality(J) = Cardinality(I) /\ IsFiniteSet(J)
    <3> HIDE DEF r
    <3> DEFINE g == [i \in I |-> l + 1 - i]
    <3>1. g \in [I -> J]
      <4>1. \A i \in I : l + 1 - i \in 2..l /\ ns[l + 1 - i] = n
        BY <2>1, <1>1
      <4> QED BY <4>1
    <3>2. \A i, j \in I : g[i] = g[j] => i = j
      BY <2>1, <1>1
    <3>3. \A y \in J : \E i \in I : g[i] = y
      <4> SUFFICES ASSUME NEW y \in J PROVE \E i \in I : g[i] = y
        OBVIOUS
      <4>1. l + 1 - y \in 1..(l - 1) /\ l + 1 - (l + 1 - y) = y
        BY <1>1
      <4>2. l + 1 - y \in I
        BY <4>1, <2>1
      <4> QED BY <4>1, <4>2
    <3> HIDE DEF g, I, J
    <3> QED BY <2>2, <3>1, <3>2, <3>3, Renumbered
  <2>4. K = IF ns[1] = n THEN J \cup {1} ELSE J
    <3>1. 1..Len(ns) = 2..l \cup {1} /\ 1 \notin 2..l
      BY <1>1
    <3> QED BY <3>1
  <2>5. 1 \notin J
    OBVIOUS
  <2>6. Cardinality(J) \in Nat
    BY <2>3, FS_CardinalityType
  <2> HIDE DEF I, J, K, r
  <2>7. Cardinality(K) = Cardinality(J) + (IF ns[1] = n THEN 1 ELSE 0)
    <3>1. Cardinality(J \cup {1}) = Cardinality(J) + 1
      BY <2>3, <2>5, FS_AddElement
    <3>2. CASE ns[1] = n
      BY <3>1, <3>2, <2>4
    <3>3. CASE ns[1] # n
      BY <3>3, <2>4, <2>6
    <3> QED BY <3>2, <3>3
  <2>8. Occurs(n, ns) = Cardinality(K)
    BY DEF Occurs, K
  <2>9. Occurs(n, ns) = Occurs(n, r) + (IF ns[1] = n THEN 1 ELSE 0)
    BY <2>2, <2>3, <2>7, <2>8
  <2> QED BY <2>9 DEF r
<1>8. ns[1] \in NodeIds
  BY <1>1
<1> QED BY <1>3, <1>5, <1>6, <1>7, <1>8

\* What a step of the walk leaves alone.
LEMMA WalkFrame ==
    ASSUME OrchInv, task = "walk", WalkOnly, result' \in ResultsOf["walk"],
           current' \in NodeIds, path' \in Seq(NodeIds), trace' \in Seq(NodeIds), Len(trace') <= MaxSteps,
           tails' \in Seq(Seq(NodeIds) \X NodeIds), named' \in [NodeIds -> Nat], Walks'
    PROVE  OrchInv'
<1>1. /\ adjacency' = adjacency /\ task' = "walk" /\ UNCHANGED <<indegree, ready, order, color, stack>>
      /\ result' \notin {"Cycle", "cyclic"} /\ result' \in ResultsOf[task']
  BY DEF WalkOnly, orderVars, cycleVars, ResultsOf
<1>2. Graph' /\ Cyclic' = Cyclic
  BY <1>1, SameGraph DEF OrchInv
<1>3. OrchTypeOK'
  BY <1>1, OrchFacts DEF OrchTypeOK, ResultsOf
<1> QED BY <1>1, <1>2, <1>3 DEF OrchInv, ResultsOf

\* A step that ends the walk.
LEMMA EndKeeps ==
    ASSUME OrchInv, task = "walk", WalkOnly, NEW r, Ends(r), r \in ResultsOf["walk"] \ {"none"},
           trace' \in Seq(NodeIds), Len(trace') <= MaxSteps,
           r \in {"Completed", "Cancelled"} => result = "none" /\ tails = <<>> /\ trace' = Append(trace, current)
    PROVE  OrchInv'
<1>1. UNCHANGED <<current, path, tails, named>> /\ result' = r /\ adjacency' = adjacency
  BY DEF Ends, WalkOnly
<1>2. Edges' = Edges
  BY <1>1, SameGraph
<1>3. Walks
  BY DEF OrchInv
<1>4. Walk(Append(path, current))' /\ \A i \in 1..Len(tails) : Walk(Append(tails[i][1], tails[i][2]))'
  BY <1>1, <1>2, <1>3 DEF Walks, Walk
<1>5. ASSUME r \in {"Completed", "Cancelled"}, NEW n \in NodeIds PROVE named[n] = Occurs(n, trace')
  <2>1. named[n] = Occurs(n, trace) + Occurs(n, LastNodes(tails)) + (IF n = current THEN 1 ELSE 0)
    BY <1>3, <1>5 DEF Walks
  <2>2. LastNodes(tails) = <<>>
    BY <1>5 DEF LastNodes
  <2>3. Occurs(n, <<>>) = 0
    BY FS_EmptySet DEF Occurs
  <2>4. Occurs(n, Append(trace, current)) = Occurs(n, trace) + (IF current = n THEN 1 ELSE 0)
    BY OrchFacts, OccursAppend
  <2>5. Occurs(n, trace) \in Nat
    BY OrchFacts, OccursNat
  <2>6. Occurs(n, trace') = Occurs(n, trace) + (IF current = n THEN 1 ELSE 0)
    BY <1>5, <2>4
  <2> QED BY <2>1, <2>2, <2>3, <2>5, <2>6
<1>6. Walks'
  BY <1>1, <1>4, <1>5 DEF Walks
<1>7. /\ current' \in NodeIds /\ path' \in Seq(NodeIds) /\ tails' \in Seq(Seq(NodeIds) \X NodeIds)
      /\ named' \in [NodeIds -> Nat] /\ result' \in ResultsOf["walk"]
  BY <1>1, OrchFacts
<1> QED BY <1>6, <1>7, WalkFrame

\* Goto and Branch: the first successor is next, the others wait.
LEMMA BranchKeeps ==
    ASSUME OrchInv, Visit, WalkOnly, NEW ns \in Seq(NodeIds), ns # <<>>, \A i \in 1..Len(ns) : check_edge(ns[i]),
           current' = ns[1], path' = Made, tails' = tails \o Pushed(ns), named' = Count(ns), result' = result
    PROVE  OrchInv'
<1>1. task = "walk" /\ result = "none" /\ Len(trace) < MaxSteps /\ trace' = Append(trace, current) /\ adjacency' = adjacency
  BY DEF Visit, WalkOnly
<1>2. /\ path \in Seq(NodeIds) /\ current \in NodeIds /\ trace \in Seq(NodeIds) /\ tails \in Seq(Tail2)
      /\ named \in [NodeIds -> Nat]
  BY OrchFacts DEF Tail2
<1> DEFINE u == Pushed(ns)
<1>3. /\ u \in Seq(Tail2) /\ ns[1] \in NodeIds
      /\ \A i \in 1..Len(u) : u[i][1] = Made /\ \E j \in 1..Len(ns) : u[i][2] = ns[j]
      /\ \A n : Occurs(n, ns) = Occurs(n, LastNodes(u)) + (IF ns[1] = n THEN 1 ELSE 0)
  BY <1>2, PushedRest
<1> HIDE DEF u
<1>4. tails' = tails \o u
  BY DEF u
<1>5. Edges' = Edges
  BY <1>1, SameGraph
<1>6. Walks
  BY <1>1 DEF OrchInv
<1>7. Made \in Seq(NodeIds) /\ trace' \in Seq(NodeIds) /\ Len(trace') = Len(trace) + 1
  BY <1>1, <1>2, AppendProperties DEF Made
<1>8. \A y \in NodeIds : <<current, y>> \in Edges => Walk(Append(Made, y))
  BY <1>2, <1>6, WalkOn DEF Walks, Made
<1>9. 1 \in 1..Len(ns)
  BY EmptySeq, LenProperties
<1>10. Walk(Append(Made, ns[1]))
  BY <1>3, <1>8, <1>9 DEF check_edge
<1>11. Len(tails) \in Nat /\ Len(u) \in Nat /\ tails' \in Seq(Tail2) /\ Len(tails') = Len(tails) + Len(u)
  BY <1>2, <1>3, <1>4, ConcatProperties
<1>12. \A i \in 1..(Len(tails) + Len(u)) : tails'[i] = IF i <= Len(tails) THEN tails[i] ELSE u[i - Len(tails)]
  BY <1>2, <1>3, <1>4, ConcatProperties
<1>13. ASSUME NEW i \in 1..Len(tails') PROVE Walk(Append(tails'[i][1], tails'[i][2]))
  <2>1. CASE i <= Len(tails)
    <3>1. i \in 1..Len(tails) /\ tails'[i] = tails[i]
      BY <2>1, <1>11, <1>12
    <3> QED BY <3>1, <1>6 DEF Walks
  <2>2. CASE ~(i <= Len(tails))
    <3>1. i - Len(tails) \in 1..Len(u) /\ tails'[i] = u[i - Len(tails)]
      BY <2>2, <1>11, <1>12
    <3>2. PICK j \in 1..Len(ns) : u[i - Len(tails)][2] = ns[j]
      BY <3>1, <1>3
    <3>3. ns[j] \in NodeIds /\ <<current, ns[j]>> \in Edges
      BY ElementOfSeq DEF check_edge
    <3>4. tails'[i][1] = Made /\ tails'[i][2] = ns[j]
      BY <3>1, <3>2, <1>3
    <3> QED BY <3>3, <3>4, <1>8
  <2> QED BY <2>1, <2>2
<1>14. ASSUME NEW n \in NodeIds
       PROVE  named'[n] = Occurs(n, trace') + Occurs(n, LastNodes(tails')) + (IF n = ns[1] THEN 1 ELSE 0)
  <2>1. named'[n] = named[n] + Occurs(n, ns)
    <3>1. DOMAIN ns = 1..Len(ns)
      BY LenProperties
    <3> QED BY <3>1 DEF Count, Occurs
  <2>2. named[n] = Occurs(n, trace) + Occurs(n, LastNodes(tails)) + (IF n = current THEN 1 ELSE 0)
    BY <1>1, <1>6 DEF Walks
  <2>3. Occurs(n, trace') = Occurs(n, trace) + (IF current = n THEN 1 ELSE 0)
    BY <1>1, <1>2, OccursAppend
  <2>4. LastNodes(tails') = LastNodes(tails) \o LastNodes(u) /\ LastNodes(tails) \in Seq(NodeIds) /\ LastNodes(u) \in Seq(NodeIds)
    BY <1>2, <1>3, <1>4, LastNodesConcat
  <2>5. Occurs(n, LastNodes(tails')) = Occurs(n, LastNodes(tails)) + Occurs(n, LastNodes(u))
    BY <2>4, OccursConcat
  <2>6. Occurs(n, LastNodes(tails)) \in Nat /\ Occurs(n, LastNodes(u)) \in Nat /\ Occurs(n, trace) \in Nat
    BY <2>4, <1>2, OccursNat
  <2>7. Occurs(n, ns) = Occurs(n, LastNodes(u)) + (IF ns[1] = n THEN 1 ELSE 0)
    BY <1>3
  <2> DEFINE a == Occurs(n, trace)
             b == Occurs(n, LastNodes(tails))
             c == Occurs(n, LastNodes(u))
  <2>8. /\ named'[n] = (a + b + (IF n = current THEN 1 ELSE 0)) + (c + (IF ns[1] = n THEN 1 ELSE 0))
        /\ Occurs(n, trace') = a + (IF current = n THEN 1 ELSE 0) /\ Occurs(n, LastNodes(tails')) = b + c
        /\ a \in Nat /\ b \in Nat /\ c \in Nat
    BY <2>1, <2>2, <2>3, <2>5, <2>6, <2>7
  <2> HIDE DEF a, b, c
  <2> QED BY <2>8
<1>15. Walks'
  <2>1. Walk(Append(path, current))'
    BY <1>10, <1>5 DEF Walk
  <2>2. (\A i \in 1..Len(tails) : Walk(Append(tails[i][1], tails[i][2])))'
    BY <1>13, <1>5 DEF Walk
  <2>3. (\A n \in NodeIds : named[n] = Occurs(n, trace) + Occurs(n, LastNodes(tails)) + (IF n = current THEN 1 ELSE 0))'
    BY <1>14
  <2>4. result' = "none"
    BY <1>1
  <2> QED BY <2>1, <2>2, <2>3, <2>4 DEF Walks
<1>16. named' \in [NodeIds -> Nat]
  <2>1. \A n \in NodeIds : Occurs(n, ns) \in Nat
    BY OccursNat
  <2>2. named' = [n \in NodeIds |-> named[n] + Occurs(n, ns)]
    <3>1. DOMAIN ns = 1..Len(ns)
      BY LenProperties
    <3> QED BY <3>1 DEF Count, Occurs
  <2> QED BY <2>1, <2>2, <1>2, SMTT(30)
<1>17. result' \in ResultsOf["walk"] /\ current' \in NodeIds /\ path' \in Seq(NodeIds) /\ Len(trace') <= MaxSteps
  <2>1. Len(trace) \in Nat
    BY <1>2, LenProperties
  <2> QED BY <2>1, <1>1, <1>3, <1>7, OrchAssumption DEF ResultsOf
<1> QED BY <1>1, <1>7, <1>11, <1>15, <1>16, <1>17, WalkFrame DEF Tail2

\* The last pending branch goes on.
LEMMA ResumeKeeps ==
    ASSUME OrchInv, Visit, WalkOnly, tails # <<>>, Resume
    PROVE  OrchInv'
<1>1. task = "walk" /\ result = "none" /\ Len(trace) < MaxSteps /\ trace' = Append(trace, current) /\ adjacency' = adjacency
  BY DEF Visit, WalkOnly
<1>2. /\ path \in Seq(NodeIds) /\ current \in NodeIds /\ trace \in Seq(NodeIds) /\ tails \in Seq(Tail2)
      /\ named \in [NodeIds -> Nat]
  BY OrchFacts DEF Tail2
<1>3. PICK l \in Nat : l = Len(tails) /\ l >= 1
  BY <1>2, EmptySeq, LenProperties
<1>4. tails[l] \in Seq(NodeIds) \X NodeIds
  BY <1>2, <1>3, ElementOfSeq DEF Tail2
<1>5. path' = tails[l][1] /\ current' = tails[l][2] /\ tails' = SubSeq(tails, 1, l - 1) /\ named' = named /\ result' = "none"
  BY <1>1, <1>3 DEF Resume
<1> DEFINE u == SubSeq(tails, (l - 1) + 1, l)
<1>6. /\ tails' \in Seq(Tail2) /\ u \in Seq(Tail2) /\ tails = tails' \o u /\ Len(u) = 1 /\ u[1] = tails[l]
  <2>1. l \in 0..Len(tails) /\ l - 1 \in 0..l /\ l - (l - 1) = 1 /\ 1 \in 1..1 /\ (l - 1) + 1 = l
    BY <1>3
  <2>2. SubSeq(tails, 1, l) = tails
    BY <1>2, <1>3, SubSeqFull
  <2>3. /\ SubSeq(tails, 1, l - 1) \in Seq(Tail2) /\ u \in Seq(Tail2)
        /\ Len(u) = l - (l - 1) /\ \A x \in 1..(l - (l - 1)) : u[x] = tails[(l - 1) + x]
        /\ SubSeq(tails, 1, l) = SubSeq(tails, 1, l - 1) \o u
    BY <2>1, <1>2, Cut
  <2> QED BY <2>1, <2>2, <2>3, <1>5
<1> HIDE DEF u
<1>7. Len(tails') = l - 1 /\ \A i \in 1..(l - 1) : tails'[i] = tails[i]
  <2>1. Len(tails' \o u) = Len(tails') + Len(u) /\ Len(tails') \in Nat
    <3>1. tails' \in Seq(Tail2) /\ u \in Seq(Tail2)
      BY <1>6
    <3> QED BY <3>1, ConcatProperties, LenProperties
  <2>2. Len(tails') = l - 1
    BY <2>1, <1>3, <1>6
  <2>3. \A i \in 1..(Len(tails') + Len(u)) : (tails' \o u)[i] = IF i <= Len(tails') THEN tails'[i] ELSE u[i - Len(tails')]
    BY <1>6, ConcatProperties
  <2> QED BY <2>2, <2>3, <1>3, <1>6
<1>8. Edges' = Edges
  BY <1>1, SameGraph
<1>9. Walks
  BY <1>1 DEF OrchInv
<1>10. \A i \in 1..l : Walk(Append(tails[i][1], tails[i][2]))
  BY <1>3, <1>9 DEF Walks
<1>11. l \in 1..l /\ \A i \in 1..Len(tails') : i \in 1..l /\ tails'[i] = tails[i]
  BY <1>3, <1>7
<1>12. ASSUME NEW n \in NodeIds
       PROVE  named[n] = Occurs(n, trace') + Occurs(n, LastNodes(tails')) + (IF n = tails[l][2] THEN 1 ELSE 0)
  <2>1. named[n] = Occurs(n, trace) + Occurs(n, LastNodes(tails)) + (IF n = current THEN 1 ELSE 0)
    BY <1>1, <1>9 DEF Walks
  <2>2. Occurs(n, trace') = Occurs(n, trace) + (IF current = n THEN 1 ELSE 0)
    BY <1>1, <1>2, OccursAppend
  <2>3. LastNodes(tails) = LastNodes(tails') \o LastNodes(u) /\ LastNodes(tails') \in Seq(NodeIds) /\ LastNodes(u) \in Seq(NodeIds)
    BY <1>6, LastNodesConcat
  <2>4. Occurs(n, LastNodes(tails)) = Occurs(n, LastNodes(tails')) + Occurs(n, LastNodes(u))
    BY <2>3, OccursConcat
  <2>5. LastNodes(u) = <<tails[l][2]>>
    <3>1. LastNodes(u) = [i \in 1..1 |-> u[i][2]]
      BY <1>6 DEF LastNodes
    <3>2. \A i \in 1..1 : i = 1
      OBVIOUS
    <3>3. LastNodes(u) = [i \in 1..1 |-> tails[l][2]]
      BY <3>1, <3>2, <1>6
    <3> QED BY <3>3
  <2>6. Occurs(n, LastNodes(u)) = IF tails[l][2] = n THEN 1 ELSE 0
    BY <2>5, <1>4, OccursOne
  <2>7. Occurs(n, LastNodes(tails')) \in Nat /\ Occurs(n, trace) \in Nat
    BY <2>3, <1>2, OccursNat
  <2> QED BY <2>1, <2>2, <2>4, <2>6, <2>7
<1>13. Walks'
  <2>1. Walk(Append(path, current))'
    BY <1>5, <1>8, <1>10, <1>11 DEF Walk
  <2>2. (\A i \in 1..Len(tails) : Walk(Append(tails[i][1], tails[i][2])))'
    <3>1. ASSUME NEW i \in 1..Len(tails') PROVE Walk(Append(tails'[i][1], tails'[i][2]))
      BY <1>10, <1>11
    <3> QED BY <3>1, <1>8 DEF Walk
  <2>3. (\A n \in NodeIds : named[n] = Occurs(n, trace) + Occurs(n, LastNodes(tails)) + (IF n = current THEN 1 ELSE 0))'
    BY <1>5, <1>12
  <2> QED BY <2>1, <2>2, <2>3, <1>5 DEF Walks
<1>14. trace' \in Seq(NodeIds) /\ Len(trace') <= MaxSteps
  <2>1. Len(trace) \in Nat /\ trace' \in Seq(NodeIds) /\ Len(trace') = Len(trace) + 1
    BY <1>1, <1>2, AppendProperties, LenProperties
  <2> QED BY <2>1, <1>1, OrchAssumption
<1>15. current' \in NodeIds /\ path' \in Seq(NodeIds) /\ result' \in ResultsOf["walk"] /\ named' \in [NodeIds -> Nat]
  BY <1>2, <1>4, <1>5 DEF ResultsOf
<1> QED BY <1>1, <1>6, <1>13, <1>14, <1>15, WalkFrame DEF Tail2

LEMMA WalkStepKeeps == OrchInv /\ WalkStep => OrchInv'
<1> SUFFICES ASSUME OrchInv, WalkStep PROVE OrchInv'
  OBVIOUS
<1>1. trace \in Seq(NodeIds) /\ Len(trace) \in Nat /\ Len(trace) <= MaxSteps /\ current \in NodeIds
  BY OrchFacts, LenProperties
<1>2. Visit => trace' \in Seq(NodeIds) /\ Len(trace') <= MaxSteps /\ task = "walk" /\ result = "none" /\ trace' = Append(trace, current)
  <2>1. Append(trace, current) \in Seq(NodeIds) /\ Len(Append(trace, current)) = Len(trace) + 1
    BY <1>1, AppendProperties
  <2> QED BY <2>1, <1>1, OrchAssumption DEF Visit
<1>3. CASE StepLimit
  <2>1. task = "walk" /\ Ends("StepLimitExceeded") /\ trace' = trace /\ WalkOnly
    BY <1>3 DEF StepLimit
  <2> QED BY <2>1, <1>1, EndKeeps DEF ResultsOf
<1>4. CASE StepFails
  <2>1. Visit /\ Ends("StepError") /\ WalkOnly
    BY <1>4 DEF StepFails
  <2> QED BY <2>1, <1>2, EndKeeps DEF ResultsOf
<1>5. ASSUME NEW n \in NodeIds, Goto(n) PROVE OrchInv'
  <2>1. Visit /\ WalkOnly
    BY <1>5 DEF Goto
  <2>2. CASE check_edge(n)
    <3>1. /\ current' = n /\ path' = Made /\ named' = Count(<<n>>) /\ tails' = tails /\ result' = result
      BY <1>5, <2>2 DEF Goto
    <3>2. <<n>> \in Seq(NodeIds) /\ <<n>> # <<>> /\ Len(<<n>>) = 1 /\ <<n>>[1] = n
      OBVIOUS
    <3>3. Pushed(<<n>>) = <<>>
      BY <3>2 DEF Pushed
    <3>4. tails \o Pushed(<<n>>) = tails
      <4>1. tails \in Seq(Tail2)
        BY OrchFacts DEF Tail2
      <4> QED BY <4>1, <3>3, ConcatEmptySeq
    <3>5. \A i \in 1..Len(<<n>>) : check_edge(<<n>>[i])
      BY <3>2, <2>2
    <3> QED BY <2>1, <3>1, <3>2, <3>4, <3>5, BranchKeeps
  <2>3. CASE ~check_edge(n)
    <3>1. Ends("InvalidNextNode")
      BY <1>5, <2>3 DEF Goto
    <3> QED BY <2>1, <3>1, <1>2, EndKeeps DEF ResultsOf
  <2> QED BY <2>2, <2>3
<1>6. ASSUME NEW r \in {"Completed", "Cancelled"}, BranchOver(r) PROVE OrchInv'
  <2>1. Visit /\ WalkOnly /\ r \in ResultsOf["walk"] \ {"none"}
    BY <1>6 DEF BranchOver, ResultsOf
  <2>2. CASE tails = <<>>
    <3>1. Ends(r)
      BY <1>6, <2>2 DEF BranchOver
    <3> QED BY <2>1, <2>2, <3>1, <1>2, EndKeeps
  <2>3. CASE tails # <<>>
    BY <1>6, <2>1, <2>3, ResumeKeeps DEF BranchOver
  <2> QED BY <2>2, <2>3
<1>7. ASSUME NEW ns \in Fans \ {<<>>}, Branch(ns) PROVE OrchInv'
  <2>1. Visit /\ WalkOnly
    BY <1>7 DEF Branch
  <2>2. ns \in Seq(NodeIds) /\ ns # <<>> /\ DOMAIN ns = 1..Len(ns)
    <3>1. PICK k \in 0..MaxFan : ns \in [1..k -> NodeIds]
      BY DEF Fans
    <3>2. k \in Nat
      BY OrchAssumption
    <3> QED BY <3>1, <3>2
  <2>3. CASE \A i \in DOMAIN ns : check_edge(ns[i])
    <3>1. /\ current' = ns[1] /\ path' = Made /\ tails' = tails \o Pushed(ns) /\ named' = Count(ns) /\ result' = result
      BY <1>7, <2>3 DEF Branch
    <3> QED BY <2>1, <2>2, <2>3, <3>1, BranchKeeps
  <2>4. CASE ~(\A i \in DOMAIN ns : check_edge(ns[i]))
    <3>1. Ends("InvalidNextNode")
      BY <1>7, <2>4 DEF Branch
    <3> QED BY <2>1, <3>1, <1>2, EndKeeps DEF ResultsOf
  <2> QED BY <2>3, <2>4
<1> QED BY <1>3, <1>4, <1>5, <1>6, <1>7 DEF WalkStep

-----------------------------------------------------------------------------
(* Orchestrator: topological_order                                         *)

\* The edges to k are those from n and those from the others.
LEMMA EdgesWithout ==
    ASSUME Graph, NEW S \in SUBSET NodeIds, NEW n \in S, NEW k
    PROVE  /\ Cardinality(EdgesFrom(S, k)) = Cardinality(EdgesFrom(S \ {n}, k)) + Occurs(k, adjacency[n])
           /\ Occurs(k, adjacency[n]) \in Nat
<1> DEFINE I == {i \in 1..Len(adjacency[n]) : adjacency[n][i] = k}
           A == EdgesFrom(S \ {n}, k)
           B == EdgesFrom({n}, k)
<1>1. n \in NodeIds /\ adjacency[n] \in Seq(NodeIds) /\ Len(adjacency[n]) <= MaxFan /\ Len(adjacency[n]) \in Nat
  BY LenProperties DEF Graph
<1>2. IsFiniteSet(I) /\ Occurs(k, adjacency[n]) = Cardinality(I) /\ Occurs(k, adjacency[n]) \in Nat
  BY <1>1, OccursNat DEF Occurs
<1>3. Cardinality(B) = Cardinality(I)
  <2> DEFINE g == [i \in I |-> <<n, i>>]
  <2>1. g \in [I -> B]
    <3>1. \A i \in I : i \in 1..MaxFan
      BY <1>1, OrchAssumption
    <3> QED BY <3>1 DEF EdgesFrom
  <2>2. \A i, j \in I : g[i] = g[j] => i = j
    OBVIOUS
  <2>3. \A y \in B : \E i \in I : g[i] = y
    <3> SUFFICES ASSUME NEW y \in B PROVE \E i \in I : g[i] = y
      OBVIOUS
    <3>1. y = <<n, y[2]>> /\ y[2] \in 1..MaxFan /\ y[2] <= Len(adjacency[n]) /\ adjacency[n][y[2]] = k
      BY DEF EdgesFrom
    <3>2. y[2] \in I
      BY <3>1, <1>1
    <3> QED BY <3>1, <3>2
  <2> HIDE DEF g, I, B
  <2> QED BY <1>2, <2>1, <2>2, <2>3, Renumbered
<1>4. EdgesFrom(S, k) = A \cup B /\ A \cap B = {}
  BY DEF EdgesFrom
<1>5. S \ {n} \in SUBSET NodeIds /\ {n} \in SUBSET NodeIds
  BY <1>1
<1>6. IsFiniteSet(A) /\ IsFiniteSet(B) /\ Cardinality(A) \in Nat /\ Cardinality(B) \in Nat
  BY <1>5, FiniteEdges
<1> HIDE DEF A, B, I
<1>7. Cardinality(A \cup B) = Cardinality(A) + Cardinality(B) - Cardinality(A \cap B)
  BY <1>6, FS_Union
<1>8. Cardinality(A \cap B) = 0
  BY <1>4, FS_EmptySet
<1>9. Cardinality(EdgesFrom(S, k)) = Cardinality(A) + Cardinality(B)
  BY <1>4, <1>6, <1>7, <1>8
<1> QED BY <1>2, <1>3, <1>9 DEF A

\* Where no edges from a set are left, none of it leads there.
LEMMA NoEdges ==
    ASSUME Graph, NEW S \in SUBSET NodeIds, NEW k
    PROVE  Cardinality(EdgesFrom(S, k)) = 0 <=> \A p \in S : <<p, k>> \notin Edges
<1>1. Cardinality(EdgesFrom(S, k)) = 0 <=> EdgesFrom(S, k) = {}
  BY FiniteEdges, FS_EmptySet
<1>2. ASSUME NEW e \in EdgesFrom(S, k) PROVE \E p \in S : <<p, k>> \in Edges
  <2>1. e[1] \in S /\ e[2] \in 1..MaxFan /\ e[2] <= Len(adjacency[e[1]]) /\ adjacency[e[1]][e[2]] = k
    BY DEF EdgesFrom
  <2>2. Len(adjacency[e[1]]) \in Nat
    BY <2>1, LenProperties DEF Graph
  <2>3. e[2] \in 1..Len(adjacency[e[1]])
    BY <2>1, <2>2
  <2> QED BY <2>1, <2>3, EdgeFacts
<1>3. ASSUME NEW p \in S, <<p, k>> \in Edges PROVE EdgesFrom(S, k) # {}
  <2>1. k \in Targets(p)
    BY <1>3, EdgeFacts
  <2>2. PICK i \in 1..Len(adjacency[p]) : adjacency[p][i] = k
    BY <2>1 DEF Targets
  <2>3. Len(adjacency[p]) \in Nat /\ Len(adjacency[p]) <= MaxFan
    BY LenProperties DEF Graph
  <2>4. <<p, i>> \in S \X (1..MaxFan) /\ i <= Len(adjacency[p])
    BY <2>2, <2>3, OrchAssumption
  <2>5. <<p, i>> \in EdgesFrom(S, k)
    BY <2>2, <2>4 DEF EdgesFrom
  <2> QED BY <2>5
<1> QED BY <1>1, <1>2, <1>3

\* What a step of the sort leaves alone.
LEMMA SortFrame ==
    ASSUME OrchInv, task = "order", UNCHANGED <<adjacency, task, walkVars, cycleVars>>, result' \in ResultsOf["order"],
           result' = "Cycle" => Cyclic,
           indegree' \in [NodeIds -> Nat], ready' \in Seq(NodeIds), order' \in Seq(NodeIds), Sorts'
    PROVE  OrchInv'
<1>1. /\ adjacency' = adjacency /\ task' = "order" /\ UNCHANGED <<current, path, tails, trace, named, color, stack>>
      /\ result' \in ResultsOf[task'] /\ result' # "cyclic"
  BY DEF walkVars, cycleVars, ResultsOf
<1>2. Graph' /\ Cyclic' = Cyclic
  BY <1>1, SameGraph DEF OrchInv
<1>3. OrchTypeOK'
  BY <1>1, OrchFacts DEF OrchTypeOK, ResultsOf
<1> QED BY <1>1, <1>2, <1>3 DEF OrchInv, ResultsOf

\* What two sequences contain, one after the other.
Has(q, x) == \E i \in 1..Len(q) : q[i] = x

LEMMA InConcat ==
    ASSUME NEW S, NEW q \in Seq(S), NEW r \in Seq(S), NEW x
    PROVE  Has(q \o r, x) <=> Has(q, x) \/ Has(r, x)
<1>1. Len(q) \in Nat /\ Len(r) \in Nat /\ Len(q \o r) = Len(q) + Len(r)
  BY ConcatProperties
<1>2. \A i \in 1..(Len(q) + Len(r)) : (q \o r)[i] = IF i <= Len(q) THEN q[i] ELSE r[i - Len(q)]
  BY ConcatProperties
<1>3. ASSUME NEW i \in 1..Len(q \o r), (q \o r)[i] = x PROVE (\E j \in 1..Len(q) : q[j] = x) \/ (\E j \in 1..Len(r) : r[j] = x)
  <2>1. CASE i <= Len(q)
    BY <2>1, <1>1, <1>2, <1>3
  <2>2. CASE ~(i <= Len(q))
    <3>1. i - Len(q) \in 1..Len(r) /\ r[i - Len(q)] = x
      BY <2>2, <1>1, <1>2, <1>3
    <3> QED BY <3>1
  <2> QED BY <2>1, <2>2
<1>4. ASSUME NEW i \in 1..Len(q), q[i] = x PROVE \E j \in 1..Len(q \o r) : (q \o r)[j] = x
  BY <1>1, <1>2, <1>4
<1>5. ASSUME NEW i \in 1..Len(r), r[i] = x PROVE \E j \in 1..Len(q \o r) : (q \o r)[j] = x
  <2>1. Len(q) + i \in 1..(Len(q) + Len(r)) /\ ~(Len(q) + i <= Len(q)) /\ (Len(q) + i) - Len(q) = i
    BY <1>1
  <2>2. (q \o r)[Len(q) + i] = x
    BY <2>1, <1>2, <1>5
  <2> QED BY <2>1, <2>2, <1>1
<1> QED BY <1>3, <1>4, <1>5 DEF Has

LEMMA PopKeeps ==
    ASSUME OrchInv, KahnPop
    PROVE  OrchInv'
<1>1. /\ task = "order" /\ result = "none" /\ ready # <<>> /\ Sorts /\ Graph
      /\ UNCHANGED <<adjacency, task, result, walkVars, cycleVars>>
  BY DEF KahnPop, OrchInv
<1>2. /\ ready \in Seq(NodeIds) /\ order \in Seq(NodeIds) /\ indegree \in [NodeIds -> Nat]
      /\ Len(ready) \in Nat /\ Len(ready) >= 1 /\ Len(order) \in Nat
  BY <1>1, OrchFacts, EmptySeq, LenProperties, SMTT(30)
<1>3. PICK n \in NodeIds : n = Head(ready) /\ n = ready[1]
  BY <1>1, <1>2, HeadTailProperties, ElementOfSeq
<1>4. PICK a \in Seq(NodeIds) : a = adjacency[n] /\ Len(a) \in Nat
  BY <1>1, LenProperties DEF Graph
<1>5. /\ order' = Append(order, n)
      /\ indegree' = [k \in NodeIds |-> indegree[k] - Occurs(k, a)]
  BY <1>3, <1>4 DEF KahnPop
<1> DEFINE zero == LowersToZero(n)
<1>6. PICK freed \in [1..Cardinality(zero) -> zero] :
        /\ Ascending(freed, zero)
        /\ ready' = Tail(ready) \o [j \in DOMAIN freed |-> a[freed[j]]]
  BY <1>3, <1>4 DEF KahnPop
<1>7. /\ zero \subseteq 1..Len(a) /\ IsFiniteSet(zero)
      /\ \A i \in 1..Len(a) : i \in zero <=> indegree[a[i]] = Occurs(a[i], SubSeq(a, 1, i))
  <2>1. zero = {i \in 1..Len(a) : indegree[a[i]] = Occurs(a[i], SubSeq(a, 1, i))}
    BY <1>4 DEF LowersToZero
  <2>2. IsFiniteSet(1..Len(a)) /\ zero \in SUBSET (1..Len(a))
    BY <2>1, <1>4, FS_Interval
  <2>3. IsFiniteSet(zero)
    BY <2>2, FS_Subset
  <2> QED BY <2>1, <2>2, <2>3
<1> HIDE DEF zero
<1>8. PICK c \in Nat : c = Cardinality(zero)
  BY <1>7, FS_CardinalityType
<1> DEFINE F == [j \in 1..c |-> a[freed[j]]]
<1>9. /\ freed \in [1..c -> zero] /\ {freed[i] : i \in 1..c} = zero
      /\ \A i, j \in 1..c : i < j => freed[i] < freed[j]
      /\ ready' = Tail(ready) \o F
  BY <1>6, <1>8 DEF Ascending
<1>10. \A i \in 1..Len(a) : a[i] \in NodeIds
  BY ElementOfSeq
<1>11. F \in Seq(NodeIds) /\ Len(F) = c /\ \A j \in 1..c : F[j] = a[freed[j]] /\ freed[j] \in zero /\ freed[j] \in 1..Len(a)
  <2>1. \A j \in 1..c : freed[j] \in zero /\ freed[j] \in 1..Len(a) /\ a[freed[j]] \in NodeIds
    BY <1>7, <1>9, <1>10
  <2>2. F \in [1..c -> NodeIds]
    BY <2>1
  <2> QED BY <2>1, <2>2
<1> HIDE DEF F
<1>12. Tail(ready) \in Seq(NodeIds) /\ ready = <<n>> \o Tail(ready) /\ order' = order \o <<n>> /\ <<n>> \in Seq(NodeIds)
  <2>1. Tail(ready) \in Seq(NodeIds) /\ <<n>> \in Seq(NodeIds)
    BY <1>1, <1>2, HeadTailProperties
  <2>2. ready = <<n>> \o Tail(ready)
    <3>1. 1 \in 1..Len(ready) /\ Len(ready) \in 1..Len(ready)
      BY <1>2
    <3>2. SubSeq(ready, 1, Len(ready)) = <<ready[1]>> \o SubSeq(ready, 1 + 1, Len(ready))
      BY <3>1, <1>2, SubSeqRecursiveFirst
    <3>3. SubSeq(ready, 1, Len(ready)) = ready /\ Tail(ready) = SubSeq(ready, 2, Len(ready))
      BY <1>1, <1>2, SubSeqFull, TailIsSubSeq
    <3> QED BY <3>2, <3>3, <1>3
  <2> QED BY <2>1, <2>2, <1>2, <1>5, AppendIsConcat
<1>13. order' \in Seq(NodeIds) /\ ready' \in Seq(NodeIds) /\ OrderedOrReady \in Seq(NodeIds) /\ OrderedOrReady' = OrderedOrReady \o F
  <2>1. order' \in Seq(NodeIds) /\ ready' \in Seq(NodeIds) /\ OrderedOrReady \in Seq(NodeIds)
    BY <1>2, <1>9, <1>11, <1>12, ConcatProperties DEF OrderedOrReady
  <2>2. OrderedOrReady' = (order \o <<n>>) \o (Tail(ready) \o F)
    BY <1>9, <1>12 DEF OrderedOrReady
  <2>3. (order \o <<n>>) \o (Tail(ready) \o F) = ((order \o <<n>>) \o Tail(ready)) \o F
    <3>1. order \o <<n>> \in Seq(NodeIds)
      BY <1>2, <1>12, ConcatProperties
    <3>2. PICK p \in Seq(NodeIds), q \in Seq(NodeIds), r \in Seq(NodeIds) : p = order \o <<n>> /\ q = Tail(ready) /\ r = F
      BY <3>1, <1>11, <1>12
    <3>3. (p \o q) \o r = p \o (q \o r)
      BY ConcatAssociative
    <3> QED BY <3>2, <3>3
  <2>4. (order \o <<n>>) \o Tail(ready) = order \o (<<n>> \o Tail(ready))
    <3>1. <<n>> \in Seq(NodeIds)
      BY <1>12
    <3>2. PICK p \in Seq(NodeIds), q \in Seq(NodeIds), r \in Seq(NodeIds) : p = order /\ q = <<n>> /\ r = Tail(ready)
      BY <1>2, <1>12, <3>1
    <3>3. (p \o q) \o r = p \o (q \o r)
      BY ConcatAssociative
    <3> QED BY <3>2, <3>3
  <2>5. order \o (<<n>> \o Tail(ready)) = OrderedOrReady
    BY <1>12 DEF OrderedOrReady
  <2> QED BY <2>1, <2>2, <2>3, <2>4, <2>5
<1>14. /\ \A i \in 1..Len(order) : OrderedOrReady[i] = order[i] /\ i \in 1..Len(OrderedOrReady)
       /\ Len(order) + 1 \in 1..Len(OrderedOrReady) /\ OrderedOrReady[Len(order) + 1] = n
  <2>1. Len(OrderedOrReady) = Len(order) + Len(ready)
    BY <1>2, ConcatProperties DEF OrderedOrReady
  <2>2. \A i \in 1..(Len(order) + Len(ready)) : OrderedOrReady[i] = IF i <= Len(order) THEN order[i] ELSE ready[i - Len(order)]
    BY <1>2, ConcatProperties DEF OrderedOrReady
  <2>3. Len(order) + 1 \in 1..(Len(order) + Len(ready)) /\ ~(Len(order) + 1 <= Len(order)) /\ (Len(order) + 1) - Len(order) = 1
    BY <1>2
  <2>4. \A i \in 1..Len(order) : i \in 1..(Len(order) + Len(ready)) /\ i <= Len(order)
    BY <1>2
  <2> QED BY <2>1, <2>2, <2>3, <2>4, <1>3
<1>15. indegree[n] = 0
  BY <1>1, <1>14 DEF Sorts
<1>16. n \notin Done
  <2> SUFFICES ASSUME NEW i \in 1..Len(order), order[i] = n PROVE FALSE
    BY DEF Done
  <2>1. OrderedOrReady[i] = OrderedOrReady[Len(order) + 1] /\ i # Len(order) + 1
    BY <1>2, <1>14
  <2> QED BY <2>1, <1>1, <1>14 DEF Sorts, Distinct
<1>17. /\ Done' = Done \cup {n} /\ Len(order') = Len(order) + 1 /\ order'[Len(order) + 1] = n
       /\ \A i \in 1..Len(order) : order'[i] = order[i]
  <2>1. /\ Len(order') = Len(order) + 1 /\ order'[Len(order) + 1] = n
        /\ \A i \in 1..Len(order) : order'[i] = order[i]
    BY <1>2, <1>5, AppendProperties
  <2>2. 1..Len(order') = 1..Len(order) \cup {Len(order) + 1}
    BY <2>1, <1>2
  <2> QED BY <2>1, <2>2 DEF Done
<1> DEFINE R == NodeIds \ Done
<1>18. n \in R /\ R \in SUBSET NodeIds /\ NodeIds \ Done' = R \ {n}
  BY <1>16, <1>17
<1>19. ASSUME NEW k \in NodeIds
       PROVE  /\ indegree'[k] = Cardinality(EdgesFrom(R \ {n}, k)) /\ indegree'[k] \in Nat /\ Occurs(k, a) \in Nat
              /\ indegree[k] = indegree'[k] + Occurs(k, a)
  <2>1. indegree[k] = Cardinality(EdgesFrom(R, k))
    BY <1>1 DEF Sorts
  <2>2. Cardinality(EdgesFrom(R, k)) = Cardinality(EdgesFrom(R \ {n}, k)) + Occurs(k, a) /\ Occurs(k, a) \in Nat
    BY <1>1, <1>4, <1>18, EdgesWithout
  <2>3. R \ {n} \in SUBSET NodeIds
    OBVIOUS
  <2>4. Cardinality(EdgesFrom(R \ {n}, k)) \in Nat
    BY <2>3, FiniteEdges
  <2>5. indegree'[k] = indegree[k] - Occurs(k, a)
    BY <1>5
  <2> HIDE DEF R
  <2> QED BY <2>1, <2>2, <2>4, <2>5
<1>20. ASSUME NEW k, NEW i \in 1..Len(a), NEW j \in 1..Len(a), i <= j
       PROVE  /\ Occurs(k, SubSeq(a, 1, j)) <= Occurs(k, a) /\ Occurs(k, SubSeq(a, 1, i)) \in Nat /\ Occurs(k, SubSeq(a, 1, j)) \in Nat
              /\ a[j] = k => Occurs(k, SubSeq(a, 1, j)) > 0
              /\ i < j /\ a[j] = k => Occurs(k, SubSeq(a, 1, i)) < Occurs(k, SubSeq(a, 1, j))
              /\ (\A x \in (j + 1)..Len(a) : a[x] # k) => Occurs(k, SubSeq(a, 1, j)) = Occurs(k, a)
  <2>1. SubSeq(a, 1, Len(a)) = a
    BY SubSeqFull
  <2>2. Len(a) \in 0..Len(a) /\ j \in 0..Len(a) /\ i \in 0..j /\ 0 \in 0..j
    BY <1>4, <1>20
  <2>3. Occurs(k, SubSeq(a, 1, j)) <= Occurs(k, SubSeq(a, 1, Len(a))) /\ Occurs(k, SubSeq(a, 1, j)) \in Nat
    BY <2>2, OccursSplit
  <2>4. (\A x \in (j + 1)..Len(a) : a[x] # k) => Occurs(k, SubSeq(a, 1, j)) = Occurs(k, SubSeq(a, 1, Len(a)))
    BY <2>2, OccursSplit
  <2>5. Occurs(k, SubSeq(a, 1, i)) \in Nat /\ (i < j /\ a[j] = k => Occurs(k, SubSeq(a, 1, i)) < Occurs(k, SubSeq(a, 1, j)))
    BY <2>2, OccursSplit
  <2>6. Occurs(k, SubSeq(a, 1, 0)) \in Nat /\ (0 < j /\ a[j] = k => Occurs(k, SubSeq(a, 1, 0)) < Occurs(k, SubSeq(a, 1, j)))
    BY <2>2, OccursSplit
  <2> DEFINE u == Occurs(k, SubSeq(a, 1, 0))
             v == Occurs(k, SubSeq(a, 1, j))
  <2>7. a[j] = k => v > 0
    <3>1. u \in Nat /\ v \in Nat /\ 0 < j /\ (0 < j /\ a[j] = k => u < v)
      BY <2>3, <2>6, <1>4
    <3> HIDE DEF u, v
    <3> QED BY <3>1
  <2> HIDE DEF v
  <2>8. Occurs(k, SubSeq(a, 1, j)) <= Occurs(k, a)
    BY <2>1, <2>3
  <2>9. (\A x \in (j + 1)..Len(a) : a[x] # k) => Occurs(k, SubSeq(a, 1, j)) = Occurs(k, a)
    BY <2>1, <2>4
  <2> QED BY <2>3, <2>5, <2>7, <2>8, <2>9 DEF v
<1>21. ASSUME NEW j \in 1..c PROVE indegree'[F[j]] = 0 /\ indegree[F[j]] # 0 /\ F[j] \in NodeIds
  <2>1. PICK i \in 1..Len(a) : i = freed[j] /\ F[j] = a[i] /\ a[i] \in NodeIds /\ i \in zero
    BY <1>10, <1>11
  <2>2. indegree[a[i]] = Occurs(a[i], SubSeq(a, 1, i))
    BY <2>1, <1>7
  <2>3. i <= i
    BY <1>4
  <2>4. Occurs(a[i], SubSeq(a, 1, i)) <= Occurs(a[i], a) /\ Occurs(a[i], SubSeq(a, 1, i)) > 0
    BY <2>3, <1>20
  <2>5. indegree[a[i]] = indegree'[a[i]] + Occurs(a[i], a) /\ indegree'[a[i]] \in Nat /\ Occurs(a[i], a) \in Nat
    BY <2>1, <1>19
  <2> DEFINE u == Occurs(a[i], a)
             v == indegree'[a[i]]
             w == indegree[a[i]]
  <2>6. w <= u /\ w > 0 /\ w = v + u /\ v \in Nat /\ u \in Nat
    BY <2>2, <2>4, <2>5
  <2>7. v = 0 /\ w # 0
    <3> HIDE DEF u, v, w
    <3> QED BY <2>6
  <2> QED BY <2>1, <2>7
<1>22. Distinct(F)
  <2> SUFFICES ASSUME NEW i \in 1..c, NEW j \in 1..c, F[i] = F[j] PROVE i = j
    BY <1>11 DEF Distinct
  <2>1. ASSUME NEW x \in 1..c, NEW y \in 1..c, x < y, F[x] = F[y] PROVE FALSE
    <3>1. PICK p \in 1..Len(a) : p = freed[x] /\ F[x] = a[p] /\ p \in zero
      BY <1>11
    <3>2. PICK q \in 1..Len(a) : q = freed[y] /\ F[y] = a[q] /\ q \in zero
      BY <1>11
    <3>3. p < q /\ p <= q
      BY <2>1, <3>1, <3>2, <1>4, <1>9
    <3>4. a[p] = a[q]
      BY <2>1, <3>1, <3>2
    <3>5. indegree[a[q]] = Occurs(a[q], SubSeq(a, 1, q)) /\ indegree[a[q]] = Occurs(a[q], SubSeq(a, 1, p))
      BY <3>1, <3>2, <3>4, <1>7
    <3>6. Occurs(a[q], SubSeq(a, 1, p)) < Occurs(a[q], SubSeq(a, 1, q)) /\ Occurs(a[q], SubSeq(a, 1, p)) \in Nat
      BY <3>3, <1>20
    <3>7. indegree[a[q]] \in Nat /\ indegree[a[q]] < indegree[a[q]]
      BY <3>5, <3>6
    <3> QED BY <3>7
  <2>2. ~(i < j) /\ ~(j < i)
    BY <2>1
  <2> QED BY <2>2, <1>8
<1>23. Distinct(OrderedOrReady')
  <2>1. ASSUME NEW i \in 1..Len(OrderedOrReady), NEW j \in 1..Len(F) PROVE OrderedOrReady[i] # F[j]
    <3>1. j \in 1..c
      BY <1>11
    <3>2. indegree[F[j]] # 0 /\ F[j] \in NodeIds
      BY <3>1, <1>21
    <3> QED BY <3>2, <1>1 DEF Sorts
  <2>2. Distinct(OrderedOrReady)
    BY <1>1 DEF Sorts
  <2>3. Distinct(OrderedOrReady \o F)
    BY <2>1, <2>2, <1>11, <1>13, <1>22, DistinctConcat
  <2> QED BY <2>3, <1>13
<1>24. \A k : (\E i \in 1..Len(OrderedOrReady') : OrderedOrReady'[i] = k)
             <=> (\E i \in 1..Len(OrderedOrReady) : OrderedOrReady[i] = k) \/ (\E j \in 1..c : F[j] = k)
  <2> SUFFICES ASSUME NEW k
               PROVE  (\E i \in 1..Len(OrderedOrReady') : OrderedOrReady'[i] = k)
                      <=> (\E i \in 1..Len(OrderedOrReady) : OrderedOrReady[i] = k) \/ (\E j \in 1..c : F[j] = k)
    OBVIOUS
  <2>0. OrderedOrReady \in Seq(NodeIds) /\ F \in Seq(NodeIds)
    BY <1>11, <1>13
  <2>1. PICK l \in Seq(NodeIds), f \in Seq(NodeIds) : l = OrderedOrReady /\ f = F
    BY <2>0
  <2>2. Has(l \o f, k) <=> Has(l, k) \/ Has(f, k)
    BY InConcat
  <2>3. OrderedOrReady' = l \o f /\ Len(f) = c
    BY <2>1, <1>11, <1>13
  <2> QED BY <2>1, <2>2, <2>3 DEF Has
<1>25. ASSUME NEW k \in NodeIds, indegree'[k] = 0 PROVE \E i \in 1..Len(OrderedOrReady') : OrderedOrReady'[i] = k
  <2>1. CASE indegree[k] = 0
    BY <2>1, <1>1, <1>24 DEF Sorts
  <2>2. CASE indegree[k] # 0
    <3>1. indegree[k] = Occurs(k, a) /\ Occurs(k, a) # 0
      BY <2>2, <1>19, <1>25
    <3> DEFINE T == {i \in 1..Len(a) : a[i] = k}
    <3>2. \A i \in T : i \in 0..Len(a)
      BY <1>4
    <3>2a. T # {}
      BY <3>1, OccursNat
    <3>2b. \E x \in T : \A y \in T : y <= x
      <4> HIDE DEF T
      <4> QED BY <3>2, <3>2a, <1>4, Greatest
    <3>3. PICK x \in T : \A y \in T : y <= x
      BY <3>2b
    <3>4. x \in 1..Len(a) /\ a[x] = k /\ x <= x
      BY <3>3, <1>4
    <3>5. \A y \in (x + 1)..Len(a) : a[y] # k
      BY <3>3, <1>4
    <3>6. Occurs(k, SubSeq(a, 1, x)) = Occurs(k, a)
      BY <3>4, <3>5, <1>20
    <3>7. x \in zero
      BY <3>1, <3>4, <3>6, <1>7
    <3>8. PICK j \in 1..c : freed[j] = x
      BY <3>7, <1>9
    <3>9. F[j] = k
      BY <3>4, <3>8, <1>11
    <3> QED BY <3>9, <1>24
  <2> QED BY <2>1, <2>2
<1>26. ASSUME NEW k \in NodeIds, \E i \in 1..Len(OrderedOrReady') : OrderedOrReady'[i] = k PROVE indegree'[k] = 0
  <2>1. CASE \E i \in 1..Len(OrderedOrReady) : OrderedOrReady[i] = k
    <3>1. indegree[k] = 0
      BY <2>1, <1>1 DEF Sorts
    <3>2. indegree[k] = indegree'[k] + Occurs(k, a) /\ indegree'[k] \in Nat /\ Occurs(k, a) \in Nat
      BY <1>19
    <3> QED BY <3>1, <3>2
  <2>2. CASE \E j \in 1..c : F[j] = k
    BY <2>2, <1>21
  <2> QED BY <2>1, <2>2, <1>24, <1>26
<1>27. ASSUME NEW j \in 1..Len(order'), NEW p \in NodeIds, <<p, order'[j]>> \in Edges
       PROVE  \E i \in 1..(j - 1) : order'[i] = p
  <2>1. CASE j = Len(order) + 1
    <3>1. <<p, n>> \in Edges
      BY <2>1, <1>17, <1>27
    <3>2. Cardinality(EdgesFrom(R, n)) = 0
      BY <1>1, <1>15 DEF Sorts
    <3>3. \A x \in R : <<x, n>> \notin Edges
      BY <3>2, <1>1, <1>18, NoEdges
    <3>4. p \in Done
      BY <3>1, <3>3
    <3>5. PICK i \in 1..Len(order) : order[i] = p
      BY <3>4 DEF Done
    <3> QED BY <3>5, <2>1, <1>2, <1>17
  <2>2. CASE j # Len(order) + 1
    <3>1. j \in 1..Len(order)
      BY <2>2, <1>2, <1>17
    <3>2. PICK i \in 1..(j - 1) : order[i] = p
      BY <3>1, <1>1, <1>17, <1>27 DEF Sorts
    <3>3. i \in 1..Len(order)
      BY <3>1, <1>2
    <3> QED BY <3>2, <3>3, <1>17
  <2> QED BY <2>1, <2>2
<1>28. adjacency' = adjacency /\ result' = "none" /\ Edges' = Edges
  BY <1>1, SameGraph
<1>29. Sorts'
  <2>1. (\A k \in NodeIds : indegree[k] = Cardinality(EdgesFrom(NodeIds \ Done, k)))'
    <3>1. ASSUME NEW k \in NodeIds PROVE EdgesFrom(NodeIds \ Done, k)' = EdgesFrom(R \ {n}, k)
      BY <1>18, <1>28 DEF EdgesFrom
    <3> QED BY <3>1, <1>19
  <2>2. (\A k \in NodeIds : indegree[k] = 0 <=> \E i \in 1..Len(OrderedOrReady) : OrderedOrReady[i] = k)'
    BY <1>25, <1>26
  <2>3. (\A j \in 1..Len(order), p \in NodeIds : <<p, order[j]>> \in Edges => \E i \in 1..(j - 1) : order[i] = p)'
    BY <1>27, <1>28
  <2>4. Distinct(OrderedOrReady)'
    BY <1>23 DEF Distinct
  <2>5. (result = "Ok" => Len(order) = Cardinality(NodeIds))'
    BY <1>28
  <2> QED BY <2>1, <2>2, <2>3, <2>4, <2>5 DEF Sorts
<1>30. indegree' \in [NodeIds -> Nat]
  <2>1. indegree' = [k \in NodeIds |-> indegree'[k]]
    BY <1>5
  <2> QED BY <2>1, <1>19
<1> QED BY <1>1, <1>13, <1>28, <1>29, <1>30, SortFrame DEF ResultsOf

\* When no node is ready, what is left over has no source.
LEMMA SortEnds ==
    ASSUME OrchInv, KahnEnds
    PROVE  OrchInv'
<1>1. /\ task = "order" /\ result = "none" /\ ready = <<>> /\ Sorts /\ Graph
      /\ result' = IF Len(order) = Cardinality(NodeIds) THEN "Ok" ELSE "Cycle"
      /\ UNCHANGED <<adjacency, task, walkVars, orderVars, cycleVars>>
  BY DEF KahnEnds, OrchInv
<1>2. order \in Seq(NodeIds) /\ Len(order) \in Nat /\ UNCHANGED <<indegree, ready, order>>
  BY <1>1, OrchFacts, LenProperties DEF orderVars
<1>3. OrderedOrReady = order
  BY <1>1, <1>2, ConcatEmptySeq DEF OrderedOrReady
<1>4. ASSUME Len(order) # Cardinality(NodeIds) PROVE Cyclic
  <2> DEFINE R == NodeIds \ Done
  <2>1. R # {}
    <3> SUFFICES ASSUME R = {} PROVE FALSE
      OBVIOUS
    <3>1. order \in [1..Len(order) -> NodeIds] /\ \A k \in NodeIds : \E i \in 1..Len(order) : order[i] = k
      BY <1>2, LenProperties DEF Done
    <3>2. \A i, j \in 1..Len(order) : order[i] = order[j] => i = j
      BY <1>1, <1>3 DEF Sorts, Distinct
    <3>3. IsFiniteSet(1..Len(order)) /\ Cardinality(1..Len(order)) = Len(order)
      BY <1>2, FS_Interval
    <3>4. Cardinality(NodeIds) = Cardinality(1..Len(order))
      BY <3>1, <3>2, <3>3, Renumbered
    <3> QED BY <3>3, <3>4, <1>4
  <2>2. ASSUME NEW k \in R PROVE \E p \in R : <<p, k>> \in Edges
    <3>1. indegree[k] # 0
      BY <1>1, <1>3 DEF Sorts, Done
    <3>2. Cardinality(EdgesFrom(R, k)) # 0
      BY <3>1, <1>1 DEF Sorts
    <3> QED BY <3>2, <1>1, NoEdges
  <2>3. Cyclic
    <3> HIDE DEF R
    <3>1. R \in SUBSET NodeIds
      BY DEF R
    <3> QED BY <3>1, <2>1, <2>2, <1>1, NoSource
  <2> QED BY <2>3
<1>5. result' = "Cycle" => Cyclic
  BY <1>1, <1>4
<1>6. Edges' = Edges /\ adjacency' = adjacency
  BY <1>1, SameGraph
<1>7. Sorts'
  <2>1. (\A k \in NodeIds : indegree[k] = Cardinality(EdgesFrom(NodeIds \ Done, k)))'
    <3>1. Done' = Done
      BY <1>2 DEF Done
    <3>2. \A k : EdgesFrom(NodeIds \ Done, k)' = EdgesFrom(NodeIds \ Done, k)
      BY <3>1, <1>6 DEF EdgesFrom
    <3> QED BY <3>2, <1>1, <1>2 DEF Sorts
  <2>2. OrderedOrReady' = OrderedOrReady
    BY <1>2 DEF OrderedOrReady
  <2>3. Distinct(OrderedOrReady)' /\ (\A k \in NodeIds : indegree[k] = 0 <=> \E i \in 1..Len(OrderedOrReady) : OrderedOrReady[i] = k)'
    BY <2>2, <1>1, <1>2 DEF Sorts, Distinct
  <2>4. (\A j \in 1..Len(order), p \in NodeIds : <<p, order[j]>> \in Edges => \E i \in 1..(j - 1) : order[i] = p)'
    BY <1>1, <1>2, <1>6 DEF Sorts
  <2>5. (result = "Ok" => Len(order) = Cardinality(NodeIds))'
    BY <1>1, <1>2
  <2> QED BY <2>1, <2>3, <2>4, <2>5 DEF Sorts
<1>8. result' \in ResultsOf["order"]
  BY <1>1 DEF ResultsOf
<1>9. indegree' \in [NodeIds -> Nat] /\ ready' \in Seq(NodeIds) /\ order' \in Seq(NodeIds)
  BY <1>2, OrchFacts
<1> QED BY <1>1, <1>5, <1>7, <1>8, <1>9, SortFrame

-----------------------------------------------------------------------------
(* Orchestrator: has_cycle                                                 *)

\* What a step of the search leaves alone.
LEMMA SearchFrame ==
    ASSUME OrchInv, task = "cycle", UNCHANGED <<adjacency, task, walkVars, orderVars>>, result' \in ResultsOf["cycle"],
           result' = "cyclic" => Cyclic,
           color' \in [NodeIds -> {"White", "Grey", "Black"}], stack' \in Seq(NodeIds \X (1..(MaxFan + 1))), Searches'
    PROVE  OrchInv'
<1>1. /\ adjacency' = adjacency /\ task' = "cycle" /\ UNCHANGED <<current, path, tails, trace, named, indegree, ready, order>>
      /\ result' \in ResultsOf[task'] /\ result' # "Cycle"
  BY DEF walkVars, orderVars, ResultsOf
<1>2. Graph' /\ Cyclic' = Cyclic
  BY <1>1, SameGraph DEF OrchInv
<1>3. OrchTypeOK'
  BY <1>1, OrchFacts DEF OrchTypeOK, ResultsOf
<1> QED BY <1>1, <1>2, <1>3 DEF OrchInv, ResultsOf

\* The ranks of what is finished stay where no node becomes finished.
LEMMA FinishedKept ==
    ASSUME Finished, Graph, adjacency' = adjacency, \A n \in NodeIds : color'[n] = "Black" <=> color[n] = "Black"
    PROVE  Finished'
<1>1. PICK rank \in [NodeIds -> Nat], b \in Nat : \A n \in NodeIds : color[n] = "Black" =>
               rank[n] < b /\ \A k \in Targets(n) : color[k] = "Black" /\ rank[k] < rank[n]
  BY DEF Finished
<1>2. \A n \in NodeIds : Targets(n) \subseteq NodeIds
  BY EdgeFacts
<1>3. \A n \in NodeIds : color'[n] = "Black" => rank[n] < b /\ \A k \in Targets(n) : color'[k] = "Black" /\ rank[k] < rank[n]
  BY <1>1, <1>2
<1>4. \A n : Targets(n)' = Targets(n)
  BY SameGraph
<1> QED BY <1>3, <1>4 DEF Finished

LEMMA StartKeeps ==
    ASSUME OrchInv, NEW n \in NodeIds, CycleStart(n)
    PROVE  OrchInv'
<1>1. /\ task = "cycle" /\ result = "none" /\ stack = <<>> /\ color[n] = "White" /\ Searches /\ Graph
      /\ color' = [color EXCEPT ![n] = "Grey"] /\ stack' = <<<<n, 1>>>>
      /\ UNCHANGED <<adjacency, task, result, walkVars, orderVars>>
  BY DEF CycleStart, OrchInv
<1>2. color \in [NodeIds -> {"White", "Grey", "Black"}]
  BY OrchFacts
<1>3. stack' \in Seq(NodeIds \X (1..(MaxFan + 1))) /\ Len(stack') = 1 /\ stack'[1] = <<n, 1>>
  <2>1. 1 \in 1..(MaxFan + 1)
    BY OrchAssumption
  <2> QED BY <2>1, <1>1
<1>4. Searches'
  <2>1. (\A i, j \in 1..Len(stack) : stack[i][1] = stack[j][1] => i = j)'
    BY <1>3
  <2>2. (\A m \in NodeIds : color[m] = "Grey" <=> \E i \in 1..Len(stack) : stack[i][1] = m)'
    <3>1. \A m \in NodeIds : color[m] # "Grey"
      <4>1. 1..Len(stack) = {}
        BY <1>1
      <4> QED BY <4>1, <1>1 DEF Searches
    <3>2. \A m \in NodeIds : color'[m] = "Grey" <=> m = n
      BY <3>1, <1>1, <1>2
    <3> QED BY <3>2, <1>3
  <2>3. 1..(Len(stack') - 1) = {} /\ \A i \in 1..Len(stack') : i = 1
    BY <1>3
  <2>4. (\A i \in 1..Len(stack) : \A j \in 1..Len(adjacency[stack[i][1]]) : ~(j < stack[i][2]))'
    BY <2>3, <1>3
  <2>5. Finished'
    <3>1. \A m \in NodeIds : color'[m] = "Black" <=> color[m] = "Black"
      BY <1>1, <1>2
    <3>2. Finished
      BY <1>1 DEF Searches
    <3> QED BY <3>1, <3>2, <1>1, FinishedKept
  <2>6. result' = "none"
    BY <1>1
  <2> QED BY <2>1, <2>2, <2>3, <2>4, <2>5, <2>6 DEF Searches
<1>5. color' \in [NodeIds -> {"White", "Grey", "Black"}] /\ result' \in ResultsOf["cycle"] /\ result' # "cyclic"
  BY <1>1, <1>2 DEF ResultsOf
<1> QED BY <1>1, <1>3, <1>4, <1>5, SearchFrame

LEMMA SearchEnds ==
    ASSUME OrchInv, CycleEnds
    PROVE  OrchInv'
<1>1. /\ task = "cycle" /\ stack = <<>> /\ (\A n \in NodeIds : color[n] # "White") /\ Searches /\ Graph
      /\ result' = "acyclic" /\ UNCHANGED <<adjacency, task, walkVars, orderVars, cycleVars>>
  BY DEF CycleEnds, OrchInv
<1>2. /\ color \in [NodeIds -> {"White", "Grey", "Black"}] /\ stack \in Seq(NodeIds \X (1..(MaxFan + 1)))
      /\ UNCHANGED <<color, stack, adjacency>>
  BY <1>1, OrchFacts DEF cycleVars
<1>3. 1..Len(stack) = {} /\ 1..(Len(stack) - 1) = {}
  BY <1>1
<1>4. \A n \in NodeIds : color[n] = "Black"
  BY <1>1, <1>2, <1>3 DEF Searches
<1>5. Finished'
  <2>1. Finished
    BY <1>1 DEF Searches
  <2> QED BY <2>1, <1>1, <1>2, FinishedKept
<1>6. Searches'
  BY <1>1, <1>2, <1>3, <1>4, <1>5 DEF Searches
<1>7. result' \in ResultsOf["cycle"] /\ result' # "cyclic"
  BY <1>1 DEF ResultsOf
<1> QED BY <1>1, <1>2, <1>6, <1>7, SearchFrame

\* One turn of the search: the top of the stack is finished, or its next
\* target is grey (a cycle), black (passed over) or white (pushed).
LEMMA StepKeeps ==
    ASSUME OrchInv, CycleStep
    PROVE  OrchInv'
<1>1. /\ task = "cycle" /\ result = "none" /\ stack # <<>> /\ Searches /\ Graph
      /\ UNCHANGED <<adjacency, task, walkVars, orderVars>>
  BY DEF CycleStep, OrchInv
<1>2. /\ color \in [NodeIds -> {"White", "Grey", "Black"}] /\ stack \in Seq(NodeIds \X (1..(MaxFan + 1)))
      /\ \A m \in NodeIds : Len(adjacency[m]) <= MaxFan /\ adjacency[m] \in Seq(NodeIds)
  BY <1>1, OrchFacts
<1>3. PICK l \in Nat : l = Len(stack) /\ l >= 1
  BY <1>1, <1>2, EmptySeq, LenProperties
<1>4. \A i \in 1..l : stack[i] \in NodeIds \X (1..(MaxFan + 1))
  BY <1>2, <1>3, ElementOfSeq
<1>5. PICK t \in NodeIds, x \in 1..(MaxFan + 1) : stack[l] = <<t, x>> /\ stack[l][1] = t /\ stack[l][2] = x
  <2>1. stack[l] \in NodeIds \X (1..(MaxFan + 1))
    BY <1>3, <1>4
  <2> QED BY <2>1
<1>6. PICK a \in Seq(NodeIds) : a = adjacency[t] /\ Len(a) \in Nat /\ Len(a) <= MaxFan
  BY <1>2, LenProperties
<1>7. PICK below \in Seq(NodeIds \X (1..(MaxFan + 1))) :
        below = SubSeq(stack, 1, l - 1) /\ Len(below) = l - 1 /\ \A i \in 1..(l - 1) : below[i] = stack[i]
  <2>1. l - 1 \in Int /\ \A i \in 1..(l - 1) : stack[i] \in NodeIds \X (1..(MaxFan + 1))
    BY <1>3, <1>4
  <2>2. /\ SubSeq(stack, 1, l - 1) \in Seq(NodeIds \X (1..(MaxFan + 1)))
        /\ Len(SubSeq(stack, 1, l - 1)) = IF 1 <= l - 1 THEN l - 1 - 1 + 1 ELSE 0
        /\ \A i \in 1..(l - 1 - 1 + 1) : SubSeq(stack, 1, l - 1)[i] = stack[1 + i - 1]
    BY <2>1, <1>2, SubSeqProperties
  <2>3. Len(SubSeq(stack, 1, l - 1)) = l - 1
    BY <2>2, <1>3
  <2>4. l - 1 - 1 + 1 = l - 1 /\ \A i \in 1..(l - 1) : 1 + i - 1 = i
    BY <1>3
  <2> QED BY <2>2, <2>3, <2>4
<1>8. /\ (\A i, j \in 1..l : stack[i][1] = stack[j][1] => i = j)
      /\ (\A m \in NodeIds : color[m] = "Grey" <=> \E i \in 1..l : stack[i][1] = m)
      /\ (\A i \in 1..(l - 1) : <<stack[i][1], stack[i + 1][1]>> \in Edges)
      /\ Finished
  BY <1>1, <1>3 DEF Searches
<1>9. \A i \in 1..l : \A j \in 1..Len(adjacency[stack[i][1]]) :
          j < stack[i][2] => \/ color[adjacency[stack[i][1]][j]] = "Black"
                             \/ i < l /\ stack[i + 1][1] = adjacency[stack[i][1]][j]
  BY <1>1, <1>3 DEF Searches
<1>10. Edges' = Edges /\ adjacency' = adjacency
  BY <1>1, SameGraph
<1>11. /\ color[t] = "Grey" /\ l \in 1..l
       /\ \A j \in 1..Len(a) : j < x => color[a[j]] = "Black"
  <2>1. l \in 1..l
    BY <1>3
  <2>2. color[t] = "Grey"
    BY <2>1, <1>5, <1>8
  <2>3. \A j \in 1..Len(a) : j < x => color[a[j]] = "Black" \/ l < l
    BY <2>1, <1>5, <1>6, <1>9
  <2> QED BY <2>1, <2>2, <2>3, <1>3
<1>12. CASE x > Len(a)
  <2>1. color' = [color EXCEPT ![t] = "Black"] /\ stack' = below /\ result' = "none"
    BY <1>12, <1>1, <1>3, <1>5, <1>6, <1>7 DEF CycleStep
  <2>2. /\ \A m \in NodeIds : color'[m] = IF m = t THEN "Black" ELSE color[m]
        /\ color' \in [NodeIds -> {"White", "Grey", "Black"}]
    BY <2>1, <1>2
  <2>3. \A k \in Targets(t) : color[k] = "Black"
    <3>1. \A j \in 1..Len(a) : j < x
      BY <1>6, <1>12
    <3> QED BY <3>1, <1>6, <1>11 DEF Targets
  <2>4. Finished'
    <3>1. PICK rank \in [NodeIds -> Nat], b \in Nat : \A m \in NodeIds : color[m] = "Black" =>
               rank[m] < b /\ \A k \in Targets(m) : color[k] = "Black" /\ rank[k] < rank[m]
      BY <1>8 DEF Finished
    <3> DEFINE r == [rank EXCEPT ![t] = b]
    <3>2. r \in [NodeIds -> Nat] /\ b + 1 \in Nat /\ \A m \in NodeIds : r[m] = IF m = t THEN b ELSE rank[m]
      OBVIOUS
    <3> HIDE DEF r
    <3>3. \A m \in NodeIds : Targets(m) \subseteq NodeIds
      BY <1>1, EdgeFacts
    <3>4. ASSUME NEW m \in NodeIds, color'[m] = "Black"
          PROVE  r[m] < b + 1 /\ \A k \in Targets(m) : color'[k] = "Black" /\ r[k] < r[m]
      <4>1. ASSUME NEW k \in Targets(m) PROVE color[k] = "Black" /\ k # t /\ k \in NodeIds
        BY <2>2, <2>3, <3>1, <3>3, <3>4, <1>11
      <4>2. CASE m = t
        <5>1. \A k \in Targets(m) : rank[k] < b
          BY <4>1, <3>1
        <5>2. r[m] = b /\ b < b + 1
          BY <4>2, <3>2
        <5>3. ASSUME NEW k \in Targets(m) PROVE color'[k] = "Black" /\ r[k] < b
          <6>1. color[k] = "Black" /\ k # t /\ k \in NodeIds
            BY <4>1
          <6>2. rank[k] < b /\ r[k] = rank[k]
            BY <6>1, <5>1, <3>2
          <6> QED BY <6>1, <6>2, <2>2
        <5> QED BY <5>2, <5>3
      <4>3. CASE m # t
        <5>1. color[m] = "Black"
          BY <4>3, <2>2, <3>4
        <5>2. rank[m] < b /\ \A k \in Targets(m) : rank[k] < rank[m]
          BY <5>1, <3>1
        <5>3. rank[m] \in Nat /\ r[m] = rank[m] /\ rank[m] < b + 1
          BY <5>2, <4>3, <3>2
        <5> QED BY <4>1, <5>2, <5>3, <2>2, <3>2
      <4> QED BY <4>2, <4>3
    <3>5. \A m : Targets(m)' = Targets(m)
      BY <1>10, SameGraph
    <3> QED BY <3>2, <3>4, <3>5 DEF Finished
  <2>5. Len(stack') = l - 1 /\ \A i \in 1..(l - 1) : stack'[i] = stack[i] /\ i \in 1..l
    BY <2>1, <1>3, <1>7
  <2>6. Searches'
    <3>1. (\A i, j \in 1..Len(stack) : stack[i][1] = stack[j][1] => i = j)'
      BY <2>5, <1>8
    <3>2. (\A m \in NodeIds : color[m] = "Grey" <=> \E i \in 1..Len(stack) : stack[i][1] = m)'
      <4> SUFFICES ASSUME NEW m \in NodeIds PROVE color'[m] = "Grey" <=> \E i \in 1..(l - 1) : stack[i][1] = m
        BY <2>5
      <4>1. color'[m] = "Grey" <=> color[m] = "Grey" /\ m # t
        BY <2>2
      <4>2. \A i \in 1..l : i \in 1..(l - 1) \/ i = l
        BY <1>3
      <4>3. \A i \in 1..(l - 1) : i # l /\ i \in 1..l
        BY <1>3
      <4> QED BY <4>1, <4>2, <4>3, <1>5, <1>8, <1>11
    <3>3. (\A i \in 1..(Len(stack) - 1) : <<stack[i][1], stack[i + 1][1]>> \in Edges)'
      <4>1. \A i \in 1..(l - 1 - 1) : i \in 1..(l - 1) /\ i + 1 \in 1..(l - 1)
        BY <1>3
      <4> QED BY <4>1, <2>5, <1>8, <1>10
    <3>4. ASSUME NEW i \in 1..Len(stack'), NEW j \in 1..Len(adjacency[stack[i][1]]), j < stack[i][2]
          PROVE  \/ color'[adjacency[stack[i][1]][j]] = "Black"
                 \/ i < Len(stack') /\ stack'[i + 1][1] = adjacency[stack[i][1]][j]
      <4>1. i \in 1..l /\ i \in 1..(l - 1) /\ stack[i][1] \in NodeIds
        BY <2>5, <1>4
      <4>2. PICK k \in NodeIds : k = adjacency[stack[i][1]][j]
        BY <4>1, <1>2, ElementOfSeq
      <4>3. color[k] = "Black" \/ stack[i + 1][1] = k
        BY <4>1, <4>2, <3>4, <1>9
      <4>4. CASE color[k] = "Black"
        BY <4>2, <4>4, <2>2
      <4>5. CASE stack[i + 1][1] = k /\ i = l - 1
        <5>1. i + 1 = l
          BY <4>5, <1>3
        <5> QED BY <4>2, <4>5, <5>1, <2>2, <1>5
      <4>6. CASE stack[i + 1][1] = k /\ i # l - 1
        <5>1. i < Len(stack') /\ i + 1 \in 1..(l - 1)
          BY <4>1, <4>6, <2>5, <1>3
        <5> QED BY <4>2, <4>6, <5>1, <2>5
      <4> QED BY <4>3, <4>4, <4>5, <4>6
    <3>5. (\A i \in 1..Len(stack) : \A j \in 1..Len(adjacency[stack[i][1]]) :
            j < stack[i][2] => \/ color[adjacency[stack[i][1]][j]] = "Black"
                               \/ i < Len(stack) /\ stack[i + 1][1] = adjacency[stack[i][1]][j])'
      <4> SUFFICES ASSUME NEW i \in 1..Len(stack'), NEW j \in 1..Len(adjacency[stack'[i][1]]), j < stack'[i][2]
                   PROVE  \/ color'[adjacency[stack'[i][1]][j]] = "Black"
                          \/ i < Len(stack') /\ stack'[i + 1][1] = adjacency[stack'[i][1]][j]
        BY <1>10
      <4>1. stack'[i] = stack[i]
        BY <2>5
      <4> QED BY <4>1, <3>4
    <3> QED BY <3>1, <3>2, <3>3, <3>5, <2>1, <2>4 DEF Searches
  <2> QED BY <2>1, <2>2, <2>6, <1>1, <1>7, SearchFrame DEF ResultsOf
<1>13. CASE ~(x > Len(a))
  <2>1. x \in 1..Len(a) /\ x + 1 \in 1..(MaxFan + 1) /\ x \in Nat
    BY <1>6, <1>13, OrchAssumption
  <2>2. PICK y \in NodeIds : y = a[x]
    BY <2>1, ElementOfSeq
  <2>3. <<t, y>> \in Edges
    BY <2>1, <2>2, <1>1, <1>6, EdgeFacts
  <2>4. PICK s \in Seq(NodeIds \X (1..(MaxFan + 1))) :
          /\ s = Append(below, <<t, x + 1>>) /\ Len(s) = l /\ s[l] = <<t, x + 1>> /\ s[l][1] = t /\ s[l][2] = x + 1
          /\ \A i \in 1..(l - 1) : s[i] = stack[i]
    <3>1. <<t, x + 1>> \in NodeIds \X (1..(MaxFan + 1))
      BY <2>1
    <3> DEFINE e == <<t, x + 1>>
    <3>2. e[1] = t /\ e[2] = x + 1
      OBVIOUS
    <3> HIDE DEF e
    <3>3. /\ Append(below, e) \in Seq(NodeIds \X (1..(MaxFan + 1))) /\ Len(Append(below, e)) = Len(below) + 1
          /\ (\A i \in 1..Len(below) : Append(below, e)[i] = below[i]) /\ Append(below, e)[Len(below) + 1] = e
      BY <3>1, AppendProperties DEF e
    <3>4. Len(below) + 1 = l
      BY <1>3, <1>7
    <3>5. /\ Append(below, e) \in Seq(NodeIds \X (1..(MaxFan + 1))) /\ Len(Append(below, e)) = l
          /\ Append(below, e)[l] = e /\ \A i \in 1..(l - 1) : Append(below, e)[i] = stack[i]
      BY <3>3, <3>4, <1>7
    <3>6. PICK s \in Seq(NodeIds \X (1..(MaxFan + 1))) : s = Append(below, e)
      BY <3>5
    <3>7. /\ Len(s) = l /\ s[l] = e /\ s[l][1] = t /\ s[l][2] = x + 1 /\ \A i \in 1..(l - 1) : s[i] = stack[i]
      BY <3>2, <3>5, <3>6
    <3> QED BY <3>6, <3>7 DEF e
  <2>5. /\ stack' = s \o IF color[y] = "White" THEN <<<<y, 1>>>> ELSE <<>>
        /\ color' = IF color[y] = "White" THEN [color EXCEPT ![y] = "Grey"] ELSE color
        /\ result' = IF color[y] = "Grey" THEN "cyclic" ELSE result
    BY <2>2, <2>4, <1>13, <1>3, <1>5, <1>6, <1>7 DEF CycleStep
  <2>6. \A i \in 1..l : s[i][1] = stack[i][1] /\ (i \in 1..(l - 1) \/ i = l)
    <3>1. \A i \in 1..l : i \in 1..(l - 1) \/ i = l
      BY <1>3
    <3> QED BY <3>1, <2>4, <1>5
  <2>7. ASSUME NEW i \in 1..l, NEW j \in 1..Len(adjacency[stack[i][1]]), j < s[i][2]
        PROVE  \/ color[adjacency[stack[i][1]][j]] = "Black"
               \/ i < l /\ stack[i + 1][1] = adjacency[stack[i][1]][j]
               \/ i = l /\ y = adjacency[stack[i][1]][j]
    <3>1. CASE i \in 1..(l - 1)
      BY <3>1, <2>4, <2>7, <1>9
    <3>2. CASE i = l
      <4>1. j \in 1..Len(a) /\ j < x + 1 /\ adjacency[stack[i][1]][j] = a[j]
        BY <3>2, <2>4, <2>7, <1>5, <1>6
      <4>2. j < x \/ j = x
        BY <4>1, <2>1
      <4> QED BY <4>1, <4>2, <3>2, <2>2, <1>11
    <3> QED BY <3>1, <3>2, <2>6
  <2>8. ASSUME color[y] # "White"
        PROVE  /\ stack' = s /\ color' = color /\ Finished'
               /\ (\A i, j \in 1..Len(stack) : stack[i][1] = stack[j][1] => i = j)'
               /\ (\A m \in NodeIds : color[m] = "Grey" <=> \E i \in 1..Len(stack) : stack[i][1] = m)'
               /\ (\A i \in 1..(Len(stack) - 1) : <<stack[i][1], stack[i + 1][1]>> \in Edges)'
    <3>1. stack' = s /\ color' = color
      BY <2>5, <2>8, <2>4, ConcatEmptySeq
    <3>2. Finished'
      BY <3>1, <1>1, <1>8, <1>10, FinishedKept
    <3>a. Len(stack') = l /\ \A i \in 1..l : stack'[i][1] = stack[i][1]
      BY <3>1, <2>4, <2>6
    <3>3. (\A i, j \in 1..Len(stack) : stack[i][1] = stack[j][1] => i = j)'
      BY <3>a, <1>8
    <3>4. (\A m \in NodeIds : color[m] = "Grey" <=> \E i \in 1..Len(stack) : stack[i][1] = m)'
      <4> SUFFICES ASSUME NEW m \in NodeIds PROVE color'[m] = "Grey" <=> \E i \in 1..l : stack'[i][1] = m
        BY <3>a
      <4>1. color'[m] = "Grey" <=> \E i \in 1..l : stack[i][1] = m
        BY <3>1, <1>8
      <4> QED BY <4>1, <3>a
    <3>5. (\A i \in 1..(Len(stack) - 1) : <<stack[i][1], stack[i + 1][1]>> \in Edges)'
      <4>1. \A i \in 1..(l - 1) : i \in 1..l /\ i + 1 \in 1..l
        BY <1>3
      <4> QED BY <4>1, <3>1, <2>4, <2>6, <1>8, <1>10, ZenonT(40)
    <3> QED BY <3>1, <3>2, <3>3, <3>4, <3>5
  <2>9. CASE color[y] = "Grey"
    <3>1. stack' = s /\ color' = color /\ result' = "cyclic"
      BY <2>5, <2>8, <2>9
    <3>2. Searches'
      BY <2>8, <2>9, <3>1 DEF Searches
    <3>3. Cyclic
      <4> DEFINE q == [i \in 1..l |-> stack[i][1]]
      <4>1. \A i \in 1..l : stack[i][1] \in NodeIds
        BY <1>4
      <4>2. q \in Seq(NodeIds) /\ Len(q) = l /\ \A i \in 1..l : q[i] = stack[i][1]
        BY <4>1, <1>3
      <4> HIDE DEF q
      <4>3. Distinct(q)
        BY <4>2, <1>8 DEF Distinct
      <4>4. Walk(q)
        <5>1. \A i \in 1..(l - 1) : i \in 1..l /\ i + 1 \in 1..l
          BY <1>3
        <5>2. ASSUME NEW i \in 1..(l - 1) PROVE <<q[i], q[i + 1]>> \in Edges
          <6>1. q[i] = stack[i][1] /\ q[i + 1] = stack[i + 1][1]
            BY <5>1, <4>2
          <6> QED BY <6>1, <1>8
        <5> QED BY <5>2, <4>2 DEF Walk
      <4>5. PICK i \in 1..l : q[i] = y
        <5>1. PICK i \in 1..l : stack[i][1] = y
          BY <2>9, <1>8
        <5>2. q[i] = y
          BY <5>1, <4>2
        <5> QED BY <5>2
      <4>6. l \in 1..Len(q) /\ <<q[l], q[i]>> \in Edges
        BY <4>2, <4>5, <1>5, <1>11, <2>3
      <4> QED BY <4>2, <4>3, <4>4, <4>6, Closing
    <3> QED BY <3>1, <3>2, <3>3, <1>1, <1>2, <2>4, SearchFrame DEF ResultsOf
  <2>10. CASE color[y] = "Black"
    <3>1. stack' = s /\ color' = color /\ result' = "none"
      BY <2>5, <2>8, <2>10, <1>1
    <3>2. (\A i \in 1..Len(stack) : \A j \in 1..Len(adjacency[stack[i][1]]) :
            j < stack[i][2] => \/ color[adjacency[stack[i][1]][j]] = "Black"
                               \/ i < Len(stack) /\ stack[i + 1][1] = adjacency[stack[i][1]][j])'
      <4> SUFFICES ASSUME NEW i \in 1..l, NEW j \in 1..Len(adjacency[s[i][1]]), j < s[i][2]
                   PROVE  \/ color[adjacency[s[i][1]][j]] = "Black"
                          \/ i < l /\ s[i + 1][1] = adjacency[s[i][1]][j]
        BY <3>1, <2>4, <1>10
      <4>1. \/ color[adjacency[stack[i][1]][j]] = "Black"
            \/ i < l /\ stack[i + 1][1] = adjacency[stack[i][1]][j]
        BY <2>6, <2>7, <2>10
      <4>2. i < l => i + 1 \in 1..l
        BY <1>3
      <4> QED BY <4>1, <4>2, <2>6
    <3>3. Searches'
      BY <2>8, <2>10, <3>1, <3>2 DEF Searches
    <3> QED BY <3>1, <3>3, <1>1, <1>2, <2>4, SearchFrame DEF ResultsOf
  <2>11. CASE color[y] = "White"
    <3>1. stack' = s \o <<<<y, 1>>>> /\ color' = [color EXCEPT ![y] = "Grey"] /\ result' = "none"
      BY <2>5, <2>11, <1>1
    <3>2. PICK e \in NodeIds \X (1..(MaxFan + 1)) : e = <<y, 1>> /\ e[1] = y /\ e[2] = 1
      <4>1. <<y, 1>> \in NodeIds \X (1..(MaxFan + 1))
        BY OrchAssumption
      <4> DEFINE d == <<y, 1>>
      <4>2. d[1] = y /\ d[2] = 1
        OBVIOUS
      <4> HIDE DEF d
      <4>3. d \in NodeIds \X (1..(MaxFan + 1)) /\ d = <<y, 1>>
        BY <4>1 DEF d
      <4> QED BY <4>2, <4>3
    <3>3. /\ stack' \in Seq(NodeIds \X (1..(MaxFan + 1))) /\ Len(stack') = l + 1 /\ stack'[l + 1] = e
          /\ \A i \in 1..l : stack'[i] = s[i]
      <4>1. s \o <<e>> = Append(s, e)
        BY AppendIsConcat
      <4>2. /\ Append(s, e) \in Seq(NodeIds \X (1..(MaxFan + 1))) /\ Len(Append(s, e)) = Len(s) + 1
            /\ (\A i \in 1..Len(s) : Append(s, e)[i] = s[i]) /\ Append(s, e)[Len(s) + 1] = e
        BY AppendProperties
      <4> QED BY <4>1, <4>2, <3>1, <3>2, <2>4
    <3>4. \A i \in 1..(l + 1) : i \in 1..l \/ i = l + 1
      BY <1>3
    <3>5. \A i \in 1..l : stack'[i][1] = stack[i][1] /\ stack[i][1] # y /\ i # l + 1 /\ i \in 1..(l + 1)
      <4>1. ASSUME NEW i \in 1..l PROVE stack'[i][1] = stack[i][1]
        <5>1. stack'[i] = s[i]
          BY <3>3
        <5>2. s[i][1] = stack[i][1]
          BY <2>6
        <5> QED BY <5>1, <5>2
      <4>2. \A i \in 1..l : stack[i][1] # y
        BY <2>11, <1>8
      <4>3. \A i \in 1..l : i # l + 1 /\ i \in 1..(l + 1)
        BY <1>3
      <4> QED BY <4>1, <4>2, <4>3
    <3>6. stack'[l + 1][1] = y /\ l + 1 \in 1..(l + 1)
      BY <3>2, <3>3, <1>3
    <3>7. /\ \A m \in NodeIds : color'[m] = IF m = y THEN "Grey" ELSE color[m]
          /\ color' \in [NodeIds -> {"White", "Grey", "Black"}]
      BY <3>1, <1>2
    <3>8. (\A i, j \in 1..Len(stack) : stack[i][1] = stack[j][1] => i = j)'
      BY <3>3, <3>4, <3>5, <3>6, <1>8
    <3>9. (\A m \in NodeIds : color[m] = "Grey" <=> \E i \in 1..Len(stack) : stack[i][1] = m)'
      <4> SUFFICES ASSUME NEW m \in NodeIds PROVE color'[m] = "Grey" <=> \E i \in 1..(l + 1) : stack'[i][1] = m
        BY <3>3
      <4>1. color'[m] = "Grey" <=> m = y \/ color[m] = "Grey"
        BY <3>7
      <4>2. color[m] = "Grey" <=> \E i \in 1..l : stack[i][1] = m
        BY <1>8
      <4> QED BY <4>1, <4>2, <3>4, <3>5, <3>6
    <3>10. (\A i \in 1..(Len(stack) - 1) : <<stack[i][1], stack[i + 1][1]>> \in Edges)'
      <4> SUFFICES ASSUME NEW i \in 1..l PROVE <<stack'[i][1], stack'[i + 1][1]>> \in Edges
        <5>1. Len(stack') - 1 = l
          BY <3>3, <1>3
        <5> QED BY <5>1, <1>10
      <4>1. CASE i = l
        BY <4>1, <3>5, <3>6, <2>3, <1>5
      <4>2. CASE i # l
        <5>1. i \in 1..(l - 1) /\ i + 1 \in 1..l
          BY <4>2, <1>3
        <5> QED BY <5>1, <3>5, <1>8
      <4> QED BY <4>1, <4>2
    <3>11. (\A i \in 1..Len(stack) : \A j \in 1..Len(adjacency[stack[i][1]]) :
            j < stack[i][2] => \/ color[adjacency[stack[i][1]][j]] = "Black"
                               \/ i < Len(stack) /\ stack[i + 1][1] = adjacency[stack[i][1]][j])'
      <4> SUFFICES ASSUME NEW i \in 1..(l + 1), NEW j \in 1..Len(adjacency[stack'[i][1]]), j < stack'[i][2]
                   PROVE  \/ color'[adjacency[stack'[i][1]][j]] = "Black"
                          \/ i < l + 1 /\ stack'[i + 1][1] = adjacency[stack'[i][1]][j]
        BY <3>3, <1>10
      <4>1. CASE i = l + 1
        <5>1. j < 1 /\ j >= 1
          BY <4>1, <3>2, <3>3
        <5> QED BY <5>1
      <4>2. CASE i \in 1..l
        <5>1. j \in 1..Len(adjacency[stack[i][1]]) /\ j < s[i][2] /\ stack'[i][1] = stack[i][1] /\ stack[i][1] \in NodeIds
          BY <4>2, <3>3, <3>5, <1>4
        <5>2. PICK k \in NodeIds : k = adjacency[stack[i][1]][j]
          BY <5>1, <1>2, ElementOfSeq
        <5>3. color[k] = "Black" \/ (i < l /\ stack[i + 1][1] = k) \/ (i = l /\ y = k)
          BY <4>2, <5>1, <5>2, <2>7
        <5>4. CASE color[k] = "Black"
          BY <5>1, <5>2, <5>4, <3>7, <2>11
        <5>5. CASE i < l /\ stack[i + 1][1] = k
          <6>1. i + 1 \in 1..l /\ i < l + 1
            BY <5>5, <4>2, <1>3
          <6> QED BY <5>1, <5>2, <5>5, <6>1, <3>5
        <5>6. CASE i = l /\ y = k
          <6>1. i < l + 1
            BY <5>6, <1>3
          <6> QED BY <5>1, <5>2, <5>6, <6>1, <3>6
        <5> QED BY <5>3, <5>4, <5>5, <5>6
      <4> QED BY <4>1, <4>2, <3>4
    <3>12. Finished'
      <4>1. \A m \in NodeIds : color'[m] = "Black" <=> color[m] = "Black"
        BY <3>7, <2>11
      <4> QED BY <4>1, <1>1, <1>8, <1>10, FinishedKept
    <3>13. Searches'
      BY <3>1, <3>8, <3>9, <3>10, <3>11, <3>12 DEF Searches
    <3> QED BY <3>1, <3>3, <3>7, <3>13, <1>1, SearchFrame DEF ResultsOf
  <2> QED BY <2>9, <2>10, <2>11, <1>2
<1> QED BY <1>12, <1>13

-----------------------------------------------------------------------------
(* Orchestrator: the theorems                                              *)

LEMMA NextOrchInv == OrchInv /\ [OrchNext]_orchVars => OrchInv'
<1> SUFFICES ASSUME OrchInv, [OrchNext]_orchVars PROVE OrchInv'
  OBVIOUS
<1>1. CASE OrchNext
  BY <1>1, WalkStepKeeps, PopKeeps, SortEnds, StartKeeps, StepKeeps, SearchEnds DEF OrchNext
<1>2. CASE UNCHANGED orchVars
  <2>1. /\ adjacency' = adjacency /\ task' = task /\ result' = result
        /\ UNCHANGED <<current, path, tails, trace, named>> /\ UNCHANGED <<indegree, ready, order>> /\ UNCHANGED <<color, stack>>
    BY <1>2 DEF orchVars, walkVars, orderVars, cycleVars
  <2>2. Edges' = Edges /\ Graph' = Graph /\ Cyclic' = Cyclic /\ \A n : Targets(n)' = Targets(n)
    BY <2>1, SameGraph
  <2>3. OrchTypeOK'
    BY <2>1 DEF OrchInv, OrchTypeOK
  <2>4. Walks' = Walks
    <3>1. LastNodes(tails)' = LastNodes(tails)
      BY <2>1 DEF LastNodes
    <3>2. \A n : Occurs(n, trace)' = Occurs(n, trace) /\ Occurs(n, LastNodes(tails))' = Occurs(n, LastNodes(tails))
      BY <2>1, <3>1 DEF Occurs
    <3>3. Walk(Append(path, current))' = Walk(Append(path, current))
      BY <2>1, <2>2 DEF Walk
    <3>4. (\A i \in 1..Len(tails) : Walk(Append(tails[i][1], tails[i][2])))' = \A i \in 1..Len(tails) : Walk(Append(tails[i][1], tails[i][2]))
      BY <2>1, <2>2 DEF Walk
    <3> QED BY <2>1, <3>2, <3>3, <3>4 DEF Walks
  <2>5. Sorts' = Sorts
    <3>1. OrderedOrReady' = OrderedOrReady /\ Done' = Done
      BY <2>1 DEF OrderedOrReady, Done
    <3>2. \A n : EdgesFrom(NodeIds \ Done, n)' = EdgesFrom(NodeIds \ Done, n)
      BY <2>1, <3>1 DEF EdgesFrom
    <3>3. Distinct(OrderedOrReady)' = Distinct(OrderedOrReady)
      BY <3>1 DEF Distinct
    <3>4. (\A n \in NodeIds : indegree[n] = Cardinality(EdgesFrom(NodeIds \ Done, n)))' =
              \A n \in NodeIds : indegree[n] = Cardinality(EdgesFrom(NodeIds \ Done, n))
      BY <2>1, <3>2
    <3>5. (\A n \in NodeIds : indegree[n] = 0 <=> \E i \in 1..Len(OrderedOrReady) : OrderedOrReady[i] = n)' =
              \A n \in NodeIds : indegree[n] = 0 <=> \E i \in 1..Len(OrderedOrReady) : OrderedOrReady[i] = n
      BY <2>1, <3>1
    <3>6. (\A j \in 1..Len(order), n \in NodeIds : <<n, order[j]>> \in Edges => \E i \in 1..(j - 1) : order[i] = n)' =
              \A j \in 1..Len(order), n \in NodeIds : <<n, order[j]>> \in Edges => \E i \in 1..(j - 1) : order[i] = n
      BY <2>1, <2>2
    <3> QED BY <2>1, <3>3, <3>4, <3>5, <3>6 DEF Sorts
  <2>6. Searches' = Searches
    <3>1. Finished' = Finished
      BY <2>1, <2>2 DEF Finished
    <3> QED BY <2>1, <2>2, <3>1 DEF Searches
  <2> QED BY <2>1, <2>2, <2>3, <2>4, <2>5, <2>6 DEF OrchInv
<1> QED BY <1>1, <1>2

\* The parts of the invariant say what the property means.
LEMMA OrchHonours ==
    ASSUME OrchInv
    PROVE  GraphsAreHonoured
<1>1. Graph /\ result \in ResultsOf[task] /\ task \in {"walk", "order", "cycle"} /\ (result \in {"Cycle", "cyclic"} => Cyclic)
  BY OrchFacts DEF OrchInv
<1>2. /\ tails \in Seq(Tail2) /\ order \in Seq(NodeIds) /\ Len(order) \in Nat /\ ready \in Seq(NodeIds)
      /\ color \in [NodeIds -> {"White", "Grey", "Black"}]
  BY OrchFacts, LenProperties DEF Tail2
<1>3. BranchesKeepTheirState
  <2> SUFFICES ASSUME task = "walk" PROVE BranchesKeepTheirState
    BY DEF BranchesKeepTheirState
  <2>1. Walks
    BY DEF OrchInv
  <2>2. \A n : Occurs(n, LastNodes(tails)) = Cardinality({i \in 1..Len(tails) : tails[i][2] = n})
    <3> SUFFICES ASSUME NEW n PROVE {i \in 1..Len(LastNodes(tails)) : LastNodes(tails)[i] = n} = {i \in 1..Len(tails) : tails[i][2] = n}
      BY DEF Occurs
    <3>1. Len(LastNodes(tails)) = Len(tails) /\ \A i \in 1..Len(tails) : LastNodes(tails)[i] = tails[i][2]
      BY <1>2, LenProperties DEF LastNodes
    <3> QED BY <3>1
  <2> QED BY <2>1, <2>2 DEF Walks, BranchesKeepTheirState
<1>4. result = "acyclic" => ~Cyclic
  <2> SUFFICES ASSUME result = "acyclic" PROVE ~Cyclic
    OBVIOUS
  <2>1. task = "cycle"
    BY <1>1 DEF ResultsOf
  <2>2. Finished /\ \A n \in NodeIds : color[n] = "Black"
    BY <2>1 DEF OrchInv, Searches
  <2>3. PICK rank \in [NodeIds -> Nat] : \A n \in NodeIds : \A k \in Targets(n) : rank[k] < rank[n]
    BY <2>2 DEF Finished
  <2> QED BY <2>3, <1>1, Ranked
<1>5. ASSUME result = "Ok"
      PROVE  /\ \A n \in NodeIds : Occurs(n, order) = 1
             /\ \A i, j \in 1..Len(order) : <<order[i], order[j]>> \in Edges => i < j
  <2>1. task = "order"
    BY <1>1, <1>5 DEF ResultsOf
  <2>2. Sorts /\ Len(order) = Cardinality(NodeIds)
    BY <2>1, <1>5 DEF OrchInv, Sorts
  <2>3. Distinct(order)
    <3>1. \A i \in 1..Len(order) : i \in 1..Len(OrderedOrReady) /\ OrderedOrReady[i] = order[i]
      <4>1. Len(ready) \in Nat /\ Len(OrderedOrReady) = Len(order) + Len(ready)
        BY <1>2, ConcatProperties, LenProperties DEF OrderedOrReady
      <4>2. \A i \in 1..(Len(order) + Len(ready)) : OrderedOrReady[i] = IF i <= Len(order) THEN order[i] ELSE ready[i - Len(order)]
        BY <1>2, ConcatProperties DEF OrderedOrReady
      <4>3. \A i \in 1..Len(order) : i \in 1..(Len(order) + Len(ready)) /\ i <= Len(order)
        BY <4>1, <1>2
      <4> QED BY <4>1, <4>2, <4>3
    <3> QED BY <3>1, <2>2 DEF Sorts, Distinct
  <2>4. \A n \in NodeIds : \E i \in 1..Len(order) : order[i] = n
    BY <2>2, <2>3, <1>2, OrchAssumption, Onto
  <2>5. ASSUME NEW n \in NodeIds PROVE Occurs(n, order) = 1
    <3>1. PICK i \in 1..Len(order) : order[i] = n
      BY <2>4
    <3>2. {j \in 1..Len(order) : order[j] = n} = {i}
      BY <3>1, <2>3 DEF Distinct
    <3> QED BY <3>2, FS_Singleton DEF Occurs
  <2>6. ASSUME NEW i \in 1..Len(order), NEW j \in 1..Len(order), <<order[i], order[j]>> \in Edges PROVE i < j
    <3>1. order[i] \in NodeIds
      BY <1>2, ElementOfSeq
    <3>2. PICK k \in 1..(j - 1) : order[k] = order[i]
      BY <3>1, <2>2, <2>6 DEF Sorts
    <3>3. k \in 1..Len(order) /\ k < j
      BY <1>2
    <3>4. k = i
      BY <3>2, <3>3, <2>3 DEF Distinct
    <3> QED BY <3>3, <3>4
  <2> QED BY <2>5, <2>6
<1>6. CyclesAreFound
  BY <1>1, <1>4, <1>5 DEF CyclesAreFound
<1> QED BY <1>3, <1>6 DEF GraphsAreHonoured

\* Every variable of the orchestrator and of the graph algorithms keeps its type.
THEOREM OrchTypeCorrect == OrchSpec => []OrchTypeOK
<1>1. OrchInv => OrchTypeOK
  BY DEF OrchInv
<1> QED BY <1>1, InitOrch, NextOrchInv, PTL DEF OrchSpec

\* For every graph: a branch's state is the walk that led to it, no named node
\* is dropped or visited twice, and the order and the cycle test agree with the
\* definition of a cycle (Orchestrator::run, topological_order, has_cycle).
THEOREM GraphsCorrect == OrchSpec => []GraphsAreHonoured
BY InitOrch, NextOrchInv, OrchHonours, PTL DEF OrchSpec
=============================================================================
