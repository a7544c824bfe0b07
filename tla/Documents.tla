------------------------------ MODULE Documents -----------------------------
(***************************************************************************)
(* The documents of a flow and its trace.  A document has a current file  *)
(* per place, the specs directory of a run (capability/submit_document.rs) *)
(* or the flow's docs directory (flow/document.rs, document_ops.rs), and   *)
(* numbered revisions in a history, which the runs of a flow share when    *)
(* there is a cache directory.  A lock file beside the history serialises  *)
(* its writers.  The trace of a run (flow/trace.rs) is a file that one     *)
(* task appends to and tells its subscribers of.                           *)
(*                                                                         *)
(* A text is the number of the submission that made it.                    *)
(***************************************************************************)
EXTENDS Naturals, Sequences, FiniteSets

CONSTANTS Authors,          \* agents that submit, and requests of the user interface
          Places,           \* run directories, and Docs
          Docs,             \* the flow's docs directory
          HistoryOf,        \* the history behind a place
          MaxTexts, Capacity, MaxEvents  \* bounds; the channel holds 64 in the code

ASSUME DocumentsAssumption ==
    Docs \in Places /\ MaxTexts \in Nat /\ Capacity \in Nat /\ MaxEvents \in Nat

Shelves == {HistoryOf[p] : p \in Places}

VARIABLES
    revisions,  \* the texts in the numbered files of a history, which has no gaps
    latest,     \* the current file of a place: 0, or the text
    held,       \* lock files that are locked
    job,        \* the submission of each author
    texts,      \* submissions so far
    signals,    \* the supervision loop's channel
    appended,   \* trace events appended
    traced,     \* events in the trace file
    listener,   \* what subscribe_replay is doing
    seen        \* events the subscriber was called with

docVars == <<revisions, latest, held, job, texts, signals>>
traceVars == <<appended, traced, listener, seen>>
documentVars == <<docVars, traceVars>>

NoJob == [pc |-> "idle", at |-> Docs, text |-> 0, rev |-> 0]

DocInit ==
    /\ revisions = [h \in Shelves |-> <<>>] /\ latest = [p \in Places |-> 0]
    /\ held = {} /\ job = [a \in Authors |-> NoJob] /\ texts = 0 /\ signals = 0
    /\ appended = 0 /\ traced = 0 /\ listener = [pc |-> "none", next |-> 1, last |-> 0] /\ seen = <<>>

DocTypeOK ==
    /\ revisions \in [Shelves -> Seq(1..MaxTexts)] /\ latest \in [Places -> 0..MaxTexts]
    /\ held \subseteq Shelves \cup Places /\ texts \in 0..MaxTexts /\ signals \in 0..Capacity
    /\ job \in [Authors -> [pc : {"idle", "lock", "count", "revisions", "doc", "signal"}, at : Places,
                            text : 0..MaxTexts, rev : Nat]]
    /\ appended \in 0..MaxEvents /\ traced \in 0..appended /\ seen \in Seq(1..MaxEvents)
    /\ listener \in [pc : {"none", "replays", "attached"}, next : 1..(MaxEvents + 1), last : 0..MaxEvents]

-----------------------------------------------------------------------------
(* Documents                                                               *)

Goes(a, v) == job' = [job EXCEPT ![a] = v]

\* submit_document and document/submit.
Submit(a, p) ==
    /\ job[a] = NoJob /\ texts < MaxTexts /\ texts' = texts + 1
    /\ Goes(a, [pc |-> "lock", at |-> p, text |-> texts', rev |-> 0])
    /\ UNCHANGED <<revisions, latest, held, signals, traceVars>>

\* suggestion_apply: the current text is read, and the block replaced, before
\* the lock is taken; an unknown block ends it.
Suggest(a) ==
    /\ job[a] = NoJob /\ texts < MaxTexts /\ latest[Docs] # 0 /\ texts' = texts + 1
    /\ Goes(a, [pc |-> "lock", at |-> Docs, text |-> texts', rev |-> 0])
    /\ UNCHANGED <<revisions, latest, held, signals, traceVars>>

\* A slip: the lock file lies beside the current file.
MLockOf(p) == p
\* The lock file lies beside the history.
LockOf(p) == HistoryOf[p]

acquire_flock(a) ==
    /\ job[a].pc = "lock" /\ LockOf(job[a].at) \notin held
    /\ held' = held \cup {LockOf(job[a].at)}
    /\ Goes(a, [job[a] EXCEPT !.pc = "count"])
    /\ UNCHANGED <<revisions, latest, texts, signals, traceVars>>

\* DocumentStore polls for five seconds.
LockTimesOut(a) ==
    /\ job[a].pc = "lock" /\ job[a].at = Docs /\ LockOf(Docs) \in held
    /\ Goes(a, NoJob)
    /\ UNCHANGED <<revisions, latest, held, texts, signals, traceVars>>

\* latest_revision, count_history_revisions: the highest number in use.
Latest(h) == Len(revisions[h])

\* The file with number n is written, whether or not it is there.
Numbered(s, n, t) == IF n \in DOMAIN s THEN [s EXCEPT ![n] = t] ELSE Append(s, t)

CountRevisions(a) ==
    /\ job[a].pc = "count"
    /\ Goes(a, [job[a] EXCEPT !.pc = "revisions", !.rev = Latest(HistoryOf[job[a].at]) + 1])
    /\ UNCHANGED <<revisions, latest, held, texts, signals, traceVars>>

\* The history is written first, so that a snapshot is never missing.
WriteHistory(a) ==
    /\ job[a].pc = "revisions"
    /\ revisions' = [revisions EXCEPT ![HistoryOf[job[a].at]] = Numbered(@, job[a].rev, job[a].text)]
    /\ Goes(a, [job[a] EXCEPT !.pc = "doc"])
    /\ UNCHANGED <<latest, held, texts, signals, traceVars>>

\* The lock is released with the last write; an agent's tool call then tells
\* the supervision loop.
WriteCurrent(a) ==
    /\ job[a].pc = "doc"
    /\ latest' = [latest EXCEPT ![job[a].at] = job[a].text]
    /\ held' = held \ {LockOf(job[a].at)}
    /\ Goes(a, IF job[a].at = Docs THEN NoJob ELSE [job[a] EXCEPT !.pc = "signal"])
    /\ UNCHANGED <<revisions, texts, signals, traceVars>>

\* atomic_write fails: the submission is an error, what it wrote stays.
WriteFails(a) ==
    /\ job[a].pc \in {"revisions", "doc"}
    /\ held' = held \ {LockOf(job[a].at)} /\ Goes(a, NoJob)
    /\ UNCHANGED <<revisions, latest, texts, signals, traceVars>>

\* handle: try_send; a full channel is an error although the document is there.
Signal(a) ==
    /\ job[a].pc = "signal" /\ Goes(a, NoJob)
    /\ signals' = IF signals < Capacity THEN signals + 1 ELSE signals
    /\ UNCHANGED <<revisions, latest, held, texts, traceVars>>

Supervise ==
    /\ signals > 0 /\ signals' = signals - 1
    /\ UNCHANGED <<revisions, latest, held, job, texts, traceVars>>

ProcessDies ==
    /\ \E a \in Authors : job[a] # NoJob
    /\ job' = [a \in Authors |-> NoJob] /\ held' = {} /\ signals' = 0
    /\ UNCHANGED <<revisions, latest, texts, traceVars>>

DocNext ==
    \/ Supervise \/ ProcessDies
    \/ \E a \in Authors :
        \/ Suggest(a) \/ acquire_flock(a) \/ LockTimesOut(a) \/ CountRevisions(a) \/ WriteHistory(a)
        \/ WriteCurrent(a) \/ WriteFails(a) \/ Signal(a)
        \/ \E p \in Places : Submit(a, p)

-----------------------------------------------------------------------------
(* The trace                                                               *)

TraceAppend ==
    /\ appended < MaxEvents /\ appended' = appended + 1
    /\ UNCHANGED <<docVars, traced, listener, seen>>

\* TraceWriter's task: an event into the file, then to who is attached.
TraceWrite ==
    /\ traced < appended /\ traced' = traced + 1
    /\ seen' = IF listener.pc = "attached" THEN Append(seen, traced') ELSE seen
    /\ UNCHANGED <<docVars, appended, listener>>

\* subscribe_replay: the file is read, its events handed over one by one.
Replayed == [pc |-> "replays", next |-> 1, last |-> traced]

SubscribeReads ==
    /\ listener.pc = "none" /\ listener' = Replayed
    /\ UNCHANGED <<docVars, appended, traced, seen>>

Replay ==
    /\ listener.next <= listener.last
    /\ seen' = Append(seen, listener.next)
    /\ listener' = [listener EXCEPT !.next = @ + 1]
    /\ UNCHANGED <<docVars, appended, traced>>

SubscribeAttaches ==
    /\ listener.pc = "replays" /\ listener.next > listener.last
    /\ listener' = [listener EXCEPT !.pc = "attached"]
    /\ UNCHANGED <<docVars, appended, traced, seen>>

TraceNext == TraceAppend \/ TraceWrite \/ SubscribeReads \/ Replay \/ SubscribeAttaches

DocumentsNext == DocNext \/ TraceNext
DocumentsSpec == DocInit /\ [][DocumentsNext]_documentVars

-----------------------------------------------------------------------------
(* Properties                                                              *)

\* A revision, once written, is never overwritten, although the runs of a flow
\* number their revisions in one history and any of them may fail or be killed
\* between counting and writing; and the current text of a place is always one
\* of the revisions, also after a crash between the two writes ("History first
\* - never lose a snapshot").
RevisionsAreKept ==
    [][/\ \A h \in Shelves : \A r \in DOMAIN revisions[h] :
             r \in DOMAIN revisions'[h] /\ revisions'[h][r] = revisions[h][r]
       /\ \A p \in Places : latest'[p] # 0 =>
             \E r \in DOMAIN revisions'[HistoryOf[p]] : revisions'[HistoryOf[p]][r] = latest'[p]]_docVars
=============================================================================
