--------------------------- MODULE SessionMemory ----------------------------
(***************************************************************************)
(* Agent memory and the session threads it is distilled from: the          *)
(* namespaces of MemoryManager (memory/mod.rs, memory/namespace.rs), the   *)
(* older memory map of the authority's snapshot, and SessionManager's      *)
(* flush that decays reflections (runtime/sessions.rs).                    *)
(*                                                                         *)
(* One MemoryManager holds one mutex, so one write is on its way at a      *)
(* time.  A message of a thread is "turn", "reflection" or "summary".      *)
(***************************************************************************)
EXTENDS Naturals, Sequences, FiniteSets, SequencesExt

CONSTANTS Namespaces, Keys, Values,
          Flushers,                   \* the runs of the session
          MaxWrites, MaxThread, MaxRestarts  \* bounds

Nothing == "nothing"

ASSUME MemoryAssumption ==
    /\ Namespaces # {} /\ Keys # {} /\ Values # {} /\ {Nothing, "torn"} \cap Values = {}
    /\ MaxWrites \in Nat /\ MaxRestarts \in Nat

Torn == [k \in Keys |-> "torn"]   \* a file that does not parse
Empty == [k \in Keys |-> Nothing]
Entries == [Keys -> Values \cup {Nothing}]
Summary == "__summary__"

VARIABLES
    stores,     \* namespaces: what is loaded, and the BM25 index over it
    files,      \* entries.json of each namespace
    writing,    \* the write that holds the mutex
    oldMemory,     \* the memory map in the snapshot file, from schema 1
    toMigrate,  \* legacy entries that MemoryManager::new has still to write
    mapped,   \* the authority's memory map
    put,        \* ghost: what put_memory stored
    acked,      \* ghost: the newest write of a key, once it returned Ok
    writes, restarts,
    binding,      \* the session's write_namespace
    thread,     \* the session's thread
    work        \* the flush of each run

memVars == <<stores, files, writing, oldMemory, toMigrate, mapped, put, acked, writes, restarts>>
sesVars == <<binding, thread, work>>
memoryVars == <<memVars, sesVars>>

NotLoaded == [loaded |-> FALSE, entries |-> Empty, index |-> Empty]
NoWrite == [ns |-> Nothing, key |-> Nothing, value |-> Nothing, pc |-> "idle"]
Idle == [pc |-> "idle", thread |-> <<>>, ns |-> Nothing]
Kinds == {"turn", "reflection", "summary"}

MemTypeOK ==
    /\ stores \in [Namespaces -> [loaded : BOOLEAN, entries : Entries, index : Entries]]
    /\ files \in [Namespaces -> Entries \cup {Torn}]
    /\ writing \in [ns : Namespaces \cup {Nothing}, key : Keys \cup {Nothing}, value : Values \cup {Nothing},
                    pc : {"idle", "flush", "open"}]
    /\ oldMemory \in Entries /\ toMigrate \subseteq Keys /\ mapped \in Entries /\ put \in Entries
    /\ acked \in [Namespaces -> Entries] /\ writes \in 0..MaxWrites /\ restarts \in 0..MaxRestarts
SesTypeOK ==
    /\ binding \in Namespaces /\ thread \in Seq(Kinds)
    /\ work \in [Flushers -> [pc : {"idle", "runs", "asks", "writes"}, thread : Seq(Kinds), ns : Namespaces \cup {Nothing}]]

MemoryTypeOK == MemTypeOK /\ SesTypeOK

MemoryInit ==
    /\ stores = [n \in Namespaces |-> NotLoaded] /\ files = [n \in Namespaces |-> Empty]
    /\ writing = NoWrite
    /\ oldMemory \in {Empty, [Empty EXCEPT ![CHOOSE k \in Keys : TRUE] = CHOOSE v \in Values : TRUE]}
    /\ toMigrate = {k \in Keys : oldMemory[k] # Nothing} /\ mapped = oldMemory /\ put = Empty
    /\ acked = [n \in Namespaces |-> Empty] /\ writes = 0 /\ restarts = 0
    /\ binding \in Namespaces /\ thread = <<>> /\ work = [r \in Flushers |-> Idle]

-----------------------------------------------------------------------------
(* NamespaceStore                                                          *)

\* NamespaceStore::load: a file that cannot be parsed is an empty namespace.
load(n) ==
    IF stores[n].loaded THEN stores[n]
    ELSE LET e == IF files[n] = Torn THEN Empty ELSE files[n] IN [loaded |-> TRUE, entries |-> e, index |-> e]

\* The entry is inserted and the index built again.
Indexed(s, k, v) == LET e == [s.entries EXCEPT ![k] = v] IN [s EXCEPT !.entries = e, !.index = e]

get_or_load(n) == [stores EXCEPT ![n] = load(n)]

\* What a load leaves of the acknowledged writes: loading a file that was cut
\* short forgets them.
StillAcked(n) == IF ~stores[n].loaded /\ files[n] = Torn THEN Empty ELSE acked[n]

\* MemoryManager::write up to the flush.
write(n, k, v) ==
    /\ writing.pc = "idle"
    /\ stores' = [get_or_load(n) EXCEPT ![n] = Indexed(@, k, v)]
    /\ writing' = [ns |-> n, key |-> k, value |-> v, pc |-> "flush"]
    /\ acked' = [acked EXCEPT ![n] = [StillAcked(n) EXCEPT ![k] = Nothing]]

Write(n, k, v) ==
    /\ toMigrate = {} /\ writes < MaxWrites /\ writes' = writes + 1
    /\ write(n, k, v)
    /\ UNCHANGED <<files, oldMemory, toMigrate, mapped, put, restarts>>

\* MemoryManager::new writes the legacy entries before anybody gets the manager.
Migrate(k) ==
    /\ k \in toMigrate
    /\ write(CHOOSE n \in Namespaces : TRUE, k, oldMemory[k])
    /\ toMigrate' = toMigrate \ {k}
    /\ UNCHANGED <<files, oldMemory, mapped, put, writes, restarts>>

\* read, get_summary and search load the namespace.
Look(n) ==
    /\ writing.pc = "idle" /\ toMigrate = {} /\ ~stores[n].loaded
    /\ stores' = get_or_load(n) /\ acked' = [acked EXCEPT ![n] = StillAcked(n)]
    /\ UNCHANGED <<files, writing, oldMemory, toMigrate, mapped, put, writes, restarts>>

\* flush: the file is opened and truncated, then written in place.  Either
\* may fail.
FlushOpens ==
    /\ writing.pc = "flush"
    /\ files' = [files EXCEPT ![writing.ns] = Torn] /\ writing' = [writing EXCEPT !.pc = "open"]
    /\ UNCHANGED <<stores, oldMemory, toMigrate, mapped, put, acked, writes, restarts>>
\* A slip: only the entry that was written reaches the file.
MFlushWrites ==
    /\ writing.pc = "open"
    /\ files' = [files EXCEPT ![writing.ns] = [Empty EXCEPT ![writing.key] = writing.value]]
    /\ acked' = [acked EXCEPT ![writing.ns][writing.key] = writing.value]
    /\ writing' = NoWrite
    /\ UNCHANGED <<stores, oldMemory, toMigrate, mapped, put, writes, restarts>>
FlushWrites ==
    /\ writing.pc = "open"
    /\ files' = [files EXCEPT ![writing.ns] = stores[writing.ns].entries]
    /\ acked' = [acked EXCEPT ![writing.ns][writing.key] = writing.value]
    /\ writing' = NoWrite
    /\ UNCHANGED <<stores, oldMemory, toMigrate, mapped, put, writes, restarts>>
FlushFails ==
    /\ writing.pc # "idle" /\ writing' = NoWrite
    /\ UNCHANGED <<stores, files, oldMemory, toMigrate, mapped, put, acked, writes, restarts>>

\* NamespaceStore::search: the best n entries that hold the word q, without the
\* summary.  Which are best is left open.
Hits(n, q) == {k \in Keys \ {Summary} : load(n).index[k] = q}

\* RuntimeAuthority::put_memory.  Saving the snapshot leaves its memory map out
\* of the file.
put_memory(k, v) ==
    /\ toMigrate = {} /\ writes < MaxWrites /\ writes' = writes + 1
    /\ mapped' = [mapped EXCEPT ![k] = v] /\ put' = [put EXCEPT ![k] = v]
    /\ oldMemory' = Empty
    /\ UNCHANGED <<stores, files, writing, toMigrate, acked, restarts>>

\* The process stops, in a flush too, and starts again: rehydrate, then
\* MemoryManager::new.
Restart ==
    /\ restarts < MaxRestarts /\ restarts' = restarts + 1
    /\ stores' = [n \in Namespaces |-> NotLoaded] /\ writing' = NoWrite
    /\ mapped' = oldMemory /\ toMigrate' = {k \in Keys : oldMemory[k] # Nothing}
    /\ UNCHANGED <<files, oldMemory, put, acked, writes>>

-----------------------------------------------------------------------------
(* SessionManager                                                          *)

\* SwapMemory: runs that have started keep the namespace they were given.
SwapMemory(n) == binding' = n /\ UNCHANGED <<thread, work>>

\* get_or_create_session and the start of a run.
Begin(r) ==
    /\ work[r].pc = "idle"
    /\ work' = [work EXCEPT ![r] = [pc |-> "runs", thread |-> thread, ns |-> binding]]
    /\ UNCHANGED <<binding, thread>>

Say(r, kind) ==
    /\ work[r].pc = "runs" /\ Len(work[r].thread) < MaxThread
    /\ work' = [work EXCEPT ![r].thread = Append(@, kind)]
    /\ UNCHANGED <<binding, thread>>

Reflections(t) == {i \in DOMAIN t : t[i] = "reflection"}
Older(t) == {i \in Reflections(t) : \E j \in Reflections(t) : j > i}

\* The first of the older reflections becomes the summary, the others go.
Decayed(t) ==
    LET older == Older(t)
        at == [i \in DOMAIN t |-> IF i \in older THEN (IF \A j \in older : i <= j THEN <<"summary">> ELSE <<>>) ELSE <<t[i]>>]
    IN  FlattenSeq(at)

\* flush_thread_with_reflections: with fewer than two reflections the thread is
\* stored, else the model is asked first.
FlushThread(r) ==
    /\ work[r].pc = "runs"
    /\ IF Older(work[r].thread) = {}
       THEN thread' = work[r].thread /\ work' = [work EXCEPT ![r] = Idle]
       ELSE UNCHANGED thread /\ work' = [work EXCEPT ![r].pc = "asks"]
    /\ UNCHANGED binding

\* The summary is there (the texts joined, when the model fails); it is written
\* to memory, whatever comes of that, and the thread is stored.
Summarised(r) ==
    /\ work[r].pc = "asks" /\ work' = [work EXCEPT ![r].pc = "writes"]
    /\ UNCHANGED <<binding, thread>>
StoreDecayed(r) ==
    /\ work[r].pc = "writes"
    /\ thread' = Decayed(work[r].thread) /\ work' = [work EXCEPT ![r] = Idle]
    /\ UNCHANGED binding

-----------------------------------------------------------------------------
MemNext ==
    \/ \E n \in Namespaces : Look(n) \/ \E k \in Keys, v \in Values : Write(n, k, v)
    \/ \E k \in Keys : Migrate(k) \/ \E v \in Values : put_memory(k, v)
    \/ FlushOpens \/ FlushWrites \/ FlushFails \/ Restart

SesNext ==
    \/ \E n \in Namespaces : SwapMemory(n)
    \/ \E r \in Flushers : Begin(r) \/ FlushThread(r) \/ Summarised(r) \/ StoreDecayed(r)
                        \/ \E k \in {"turn", "reflection"} : Say(r, k)

MemoryNext ==
    \/ MemNext /\ UNCHANGED sesVars
    \/ SesNext /\ UNCHANGED memVars
MemorySpec == MemoryInit /\ [][MemoryNext]_memoryVars

-----------------------------------------------------------------------------
(* Properties                                                              *)

\* A write that returned Ok is in entries.json and in the loaded namespace
\* until the key is written again, through failed flushes, restarts and the
\* legacy migration; only loading a file that a flush left cut short forgets
\* it, and what is written from then on is kept again (NamespaceStore::write,
\* flush, load).  What is loaded can be found: search
\* hits exactly the entries that read returns, the summary apart (build_index).
AckedIsKept ==
    /\ \A n \in Namespaces, k \in Keys : acked[n][k] # Nothing =>
          /\ files[n] # Torn => files[n][k] = acked[n][k]
          /\ stores[n].loaded => stores[n].entries[k] = acked[n][k]
    /\ \A n \in Namespaces, q \in Values : stores[n].loaded =>
          Hits(n, q) = {k \in Keys \ {Summary} : stores[n].entries[k] = q}
=============================================================================
