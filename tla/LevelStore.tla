----------------------------- MODULE LevelStore -----------------------------
(***************************************************************************)
(* The write path of the storage engine (Pods/leveldb-library): the queue  *)
(* of writers and its groups, the log and the memtable, the memtable's     *)
(* flush, the compactions that run in the one background thread, the       *)
(* MANIFEST, the files that are deleted, crashes, and recovery.            *)
(*                                                                         *)
(* Each action is the code between two places where DBImpl::mutex_ is      *)
(* taken or given up, or one call on a file made without it.  A batch is   *)
(* its call's identity, a table the set of batches in it; keys, which      *)
(* decide what a compaction drops and at which level a table may go, are   *)
(* LevelCompaction's subject.                                              *)
(***************************************************************************)
EXTENDS Naturals, Sequences, FiniteSets, Functions, SequencesExt

CONSTANTS
    Calls,        \* the calls of DBImpl::Write
    Sync,         \* those with WriteOptions::sync
    Forced,       \* those with a NULL batch (TEST_CompactMemTable)
    MemLimit,     \* batches at which write_buffer_size is exceeded
    L0Trigger, L0Slowdown, L0Stop,   \* config::kL0_...
    Faults,       \* the operations on files that may fail
    MaxFaults, MaxCrashes, MaxUpsets \* bounds: of each, and of both

ASSUME StoreAssumption ==
    /\ Sync \subseteq Calls /\ Forced \subseteq Calls \ Sync
    /\ {MemLimit, L0Trigger, L0Slowdown, L0Stop} \subseteq Nat \ {0}
    /\ L0Trigger <= L0Stop
    /\ {MaxFaults, MaxCrashes, MaxUpsets} \subseteq Nat

VARIABLES
    logs,     \* log files: number -> [recs, synced]; a record is a group
    ghosts,   \* removed logs that a machine crash may bring back
    tables,   \* table files: number -> the batches in it
    man,      \* the synced contents of the MANIFEST that CURRENT names
    tail,     \* the edits appended to it and not yet synced, each with the
              \* version that the MANIFEST then describes
    phase,    \* "down", "replay" (DB::Open is running) or "open"
    mem, imm, hasImm, logfile,   \* mem_, *imm_, imm_ # NULL, logfile_number_
    vs,       \* VersionSet: next_file_number_, last_sequence_, current_...
    pins,     \* the files of the versions that readers hold references to
    pending,  \* pending_outputs_
    bgErr, shutting,   \* bg_error_, shutting_down_
    queue, pc, slept,  \* writers_, where each call is, allow_delay = false
    group,    \* the calls whose batches the front writer is logging
    seqOf,    \* the sequence number each batch was given; of a forced
              \* flush, the last one when it was called
    status,   \* what each call returned, "gone" with its process if nothing
    owed,     \* acknowledged writes that no crash has excused
    sched, fl, fnum,         \* bg_compaction_scheduled_; CompactMemTable
    cp, cin, cout,           \* BackgroundCompaction: stage, inputs, output
    replay,   \* DBImpl::Recover: logs to read, what was read so far
    faults, crashes

disk  == <<logs, ghosts, tables, man, tail>>
core  == <<mem, imm, hasImm, logfile, vs>>
calls == <<queue, pc, slept, group, seqOf, status, owed>>
bg    == <<sched, fl, fnum, cp, cin, cout>>
flags == <<phase, pins, pending, bgErr, shutting, replay>>
env   == <<faults, crashes>>
vars  == <<disk, core, calls, bg, flags, env>>

Torn == {}                    \* a record that was cut short
Batches == Calls \ Forced

(***************************************************************************)
(* What is in files.                                                       *)
(***************************************************************************)
NoVersions == [log |-> 0, next |-> 2, last |-> 0, l0 |-> {}, l1 |-> {}]
NoInputs == [files |-> {}, base |-> {}]
NoReplay == [todo |-> {}, add |-> {}, max |-> 0, err |-> FALSE]
Live(v)  == v.l0 \cup v.l1
In(F, tb) == UNION {tb[n] : n \in F \cap DOMAIN tb}
MaxNat(S) == CHOOSE n \in S \cup {0} : \A m \in S : m <= n

\* VersionEdit applied to a version (VersionSet::Builder).
Apply(v, e) ==
    [log |-> e.log, next |-> e.next, last |-> e.last,
     l0 |-> (v.l0 \ e.del) \cup e.add0, l1 |-> (v.l1 \ e.del) \cup e.add1]

\* The MANIFEST read from its start, to its end or as far as a machine crash
\* may leave it.
Described == IF tail = <<>> THEN man ELSE Last(tail).ver
Describable == {man} \cup {tail[k].ver : k \in DOMAIN tail}

\* The batches log::Reader returns (LogFormat).  A torn record hides those
\* that follow: the rest of its block is dropped, and after it the writer's
\* block_offset_ is no longer where the file's blocks begin.
ReadLog(recs) ==
    UNION {recs[i] : i \in {j \in DOMAIN recs :
                            \A k \in 1..j : recs[k] # Torn}}

\* What DBImpl::Recover finds in a file system.
LogsToRead(m, lg) == {n \in DOMAIN lg : n >= m.log}
Recoverable(m, lg, tb) ==
    In(Live(m), tb) \cup UNION {ReadLog(lg[n].recs) : n \in LogsToRead(m, lg)}

OnDisk == Recoverable(Described, logs, tables)

\* What it would find after a machine crash that keeps keep[n] records of
\* log n.
Cut(lg, keep) ==
    [n \in DOMAIN lg |-> [recs |-> SubSeq(lg[n].recs, 1, keep[n]),
                          synced |-> keep[n]]]
Synced == [n \in DOMAIN logs |-> logs[n].synced]
Surviving ==
    {c \in Batches : \A v \in Describable :
        c \in Recoverable(v, Cut(logs, Synced), tables)}

\* What a read that starts now sees: the memtables and the current version,
\* up to the last sequence number.
Held == mem \cup imm \cup In(Live(vs), tables)
Visible == {c \in Held : seqOf[c] <= vs.last}
Present == IF phase = "open" THEN Visible ELSE OnDisk

TypeOK ==
    /\ \A n \in DOMAIN logs : /\ logs[n].recs \in Seq(SUBSET Batches)
                              /\ logs[n].synced \in 0..Len(logs[n].recs)
    /\ \A n \in DOMAIN tables : tables[n] \subseteq Batches
    /\ phase \in {"down", "replay", "open"}
    /\ mem \subseteq Batches /\ imm \subseteq Batches /\ hasImm \in BOOLEAN
    /\ logfile \in Nat /\ pending \subseteq Nat
    /\ queue \in Seq(Calls) /\ group \in Seq(Calls)
    /\ pc \in [Calls -> {"idle", "wait", "room", "stall", "append", "sync",
                         "insert", "finish", "failed", "syncfailed",
                         "flush", "flushstall", "done"}]
    /\ status \in [Calls -> {"none", "ok", "err", "gone"}]
    /\ seqOf \in [Calls -> Nat]
    /\ fl \in {"no", "build", "manifest"}
    /\ cp \in {"no", "merge", "out", "merged", "manifest", "move"}

\* A new database: NewDB has written MANIFEST-1 and CURRENT.
Init ==
    /\ logs = <<>> /\ ghosts = <<>> /\ tables = <<>>
    /\ man = NoVersions /\ tail = <<>>
    /\ phase = "down"
    /\ mem = {} /\ imm = {} /\ hasImm = FALSE /\ logfile = 0
    /\ vs = NoVersions /\ pins = {} /\ pending = {}
    /\ bgErr = FALSE /\ shutting = FALSE
    /\ queue = <<>> /\ pc = [c \in Calls |-> "idle"] /\ slept = FALSE
    /\ group = <<>> /\ seqOf = [c \in Calls |-> 0]
    /\ status = [c \in Calls |-> "none"] /\ owed = {}
    /\ sched = FALSE /\ fl = "no" /\ fnum = 0
    /\ cp = "no" /\ cin = NoInputs /\ cout = 0
    /\ replay = NoReplay
    /\ faults = 0 /\ crashes = 0

CanUpset == faults + crashes < MaxUpsets
Fault(f) ==
    f \in Faults /\ CanUpset /\ faults < MaxFaults /\ faults' = faults + 1
Restart == CanUpset /\ crashes < MaxCrashes /\ crashes' = crashes + 1

(***************************************************************************)
(* Shared steps.                                                           *)
(***************************************************************************)
NeedsWork_WhenClosed(has, v, err) ==
    ~err /\ (has \/ Cardinality(v.l0) >= L0Trigger)
NeedsWork(has, v, err) ==
    ~shutting /\ ~err /\ (has \/ Cardinality(v.l0) >= L0Trigger)

\* bg_cv_.SignalAll: waiters look again.
Woken_Nobody(p) == p
Woken(p) ==
    [c \in Calls |-> IF p[c] = "stall" THEN "room"
                     ELSE IF p[c] = "flushstall" THEN "flush" ELSE p[c]]

\* DeleteObsoleteFiles: which logs and tables go.  AddLiveFiles takes every
\* version that is still referenced.
LiveFiles(v, base) == Live(v) \cup base \cup UNION pins
KeepsTable_NotPending(n, v, base, pend) == n \in LiveFiles(v, base)
KeepsTable(n, v, base, pend) == n \in LiveFiles(v, base) \cup pend
KeepsLog_Newer(n, v) == n > v.log
KeepsLog(n, v) == n >= v.log
DeleteObsoleteFiles(v, base, pend, tb) ==
    IF bgErr
    THEN /\ tables' = tb
         /\ UNCHANGED <<logs, ghosts>>
    ELSE /\ tables' = [n \in {m \in DOMAIN tb : KeepsTable(m, v, base, pend)}
                          |-> tb[n]]
         /\ logs' = [n \in {m \in DOMAIN logs : KeepsLog(m, v)} |-> logs[n]]
         /\ ghosts' = [n \in {m \in DOMAIN logs : ~KeepsLog(m, v)} |-> logs[n]]

\* The end of BackgroundCall.
BackgroundEnd_Once(has, v, err) ==
    /\ sched' = FALSE
    /\ pc' = Woken(pc)
BackgroundEnd(has, v, err) ==
    /\ sched' = NeedsWork(has, v, err)
    /\ pc' = Woken(pc)

Put(f, n, x) == [m \in DOMAIN f \cup {n} |-> IF m = n THEN x ELSE f[m]]

(***************************************************************************)
(* DBImpl::Write.                                                          *)
(***************************************************************************)
Enqueue_NotFirst(c) ==
    /\ phase = "open" /\ ~shutting /\ pc[c] = "idle"
    /\ queue' = Append(queue, c)
    /\ pc' = [pc EXCEPT ![c] = "room"]
    /\ seqOf' = IF c \in Forced THEN [seqOf EXCEPT ![c] = vs.last] ELSE seqOf
    /\ UNCHANGED <<disk, core, slept, group, status, owed, bg, flags, env>>
Enqueue(c) ==
    /\ phase = "open" /\ ~shutting /\ pc[c] = "idle"
    /\ queue' = Append(queue, c)
    /\ pc' = [pc EXCEPT ![c] = IF queue = <<>> THEN "room" ELSE "wait"]
    /\ seqOf' = IF c \in Forced THEN [seqOf EXCEPT ![c] = vs.last] ELSE seqOf
    /\ UNCHANGED <<disk, core, slept, group, status, owed, bg, flags, env>>

\* The first n writers leave with a status and the next is signalled.  A
\* NULL batch that returned ok goes on to wait in TEST_CompactMemTable.
Leave(n, st, p) ==
    LET gone == Range(SubSeq(queue, 1, n))
        rest == SubSeq(queue, n + 1, Len(queue))
    IN  /\ queue' = rest
        /\ pc' = [c \in Calls |->
                     IF c \in gone
                     THEN IF st = "ok" /\ c \in Forced THEN "flush" ELSE "done"
                     ELSE IF rest # <<>> /\ c = rest[1] THEN "room" ELSE p[c]]
        /\ status' = [c \in Calls |-> IF c \in gone THEN st ELSE status[c]]
        /\ owed' = IF st = "ok" THEN owed \cup (gone \ Forced) ELSE owed
        /\ slept' = FALSE
        /\ group' = <<>>

\* BuildBatchGroup: how many writers the front one may take along.  It
\* stops before a sync writer unless it is one itself, and before a batch
\* that would make the group too large, which any may.
Joins_Any(i) == TRUE
Joins(i) == queue[i] \in Sync => queue[1] \in Sync
GroupLengths ==
    {n \in 1..Len(queue) :
        /\ \A i \in 2..n : Joins(i)
        /\ n < Len(queue) => (queue[n + 1] \in Batches \/ ~Joins(n + 1))}

InGroup(g) == Range(g) \ Forced
StartLogging(c) ==
    \E n \in GroupLengths :
        /\ group' = SubSeq(queue, 1, n)
        /\ seqOf' = [d \in Calls |->
              IF d \in InGroup(group')
              THEN vs.last + Cardinality({i \in 1..n : queue[i] \in Batches /\
                                \E j \in i..n : queue[j] = d})
              ELSE seqOf[d]]
        /\ pc' = [pc EXCEPT ![c] = "append"]
        /\ UNCHANGED <<queue, slept, status, owed>>

\* MakeRoomForWrite, one action for each way a turn of its loop can end.
AtFront(c) == phase = "open" /\ pc[c] = "room"
MustDelay(c) == c \in Batches /\ ~slept /\ Cardinality(vs.l0) >= L0Slowdown
HasRoom(c) == c \in Batches /\ Cardinality(mem) < MemLimit

RoomError(c) ==
    /\ AtFront(c) /\ bgErr
    /\ Leave(1, "err", pc)
    /\ UNCHANGED <<disk, core, seqOf, bg, flags, env>>

RoomDelay(c) ==
    /\ AtFront(c) /\ ~bgErr /\ MustDelay(c)
    /\ slept' = TRUE
    /\ UNCHANGED <<disk, core, queue, pc, group, seqOf, status, owed, bg, flags, env>>

RoomFound(c) ==
    /\ AtFront(c) /\ ~bgErr /\ ~MustDelay(c) /\ HasRoom(c)
    /\ StartLogging(c)
    /\ UNCHANGED <<disk, core, bg, flags, env>>

RoomStall(c) ==
    /\ AtFront(c) /\ ~bgErr /\ ~MustDelay(c) /\ ~HasRoom(c)
    /\ hasImm \/ Cardinality(vs.l0) >= L0Stop
    /\ pc' = [pc EXCEPT ![c] = "stall"]
    /\ UNCHANGED <<disk, core, queue, slept, group, seqOf, status, owed, bg, flags, env>>

CanSwitch(c) ==
    /\ AtFront(c) /\ ~bgErr /\ ~MustDelay(c) /\ ~HasRoom(c)
    /\ ~hasImm /\ Cardinality(vs.l0) < L0Stop

RoomSwitch(c) ==
    /\ CanSwitch(c)
    /\ logs' = Put(logs, vs.next, [recs |-> <<>>, synced |-> 0])
    /\ logfile' = vs.next
    /\ vs' = [vs EXCEPT !.next = @ + 1]
    /\ imm' = mem /\ hasImm' = TRUE
    /\ mem' = {}
    /\ sched' = (sched \/ NeedsWork(TRUE, vs, bgErr))
    /\ IF c \in Forced
       THEN Leave(1, "ok", pc) /\ UNCHANGED seqOf
       ELSE StartLogging(c)
    /\ UNCHANGED <<ghosts, tables, man, tail, fl, fnum, cp, cin, cout, flags, env>>

\* The new log file cannot be created.
RoomSwitchFails(c) ==
    /\ CanSwitch(c) /\ Fault("newlog")
    /\ Leave(1, "err", pc)
    /\ UNCHANGED <<disk, core, seqOf, bg, flags, crashes>>

\* Without the mutex: the record, the sync, the memtable.
Append1(rec) == logs' = [logs EXCEPT ![logfile].recs = Append(@, rec)]
AfterLog_NoSync(c) == "insert"
AfterLog(c) == IF c \in Sync THEN "sync" ELSE "insert"

AddRecord(c) ==
    /\ pc[c] = "append"
    /\ Append1(InGroup(group))
    /\ pc' = [pc EXCEPT ![c] = AfterLog(c)]
    /\ UNCHANGED <<ghosts, tables, man, tail, core, queue, slept, group, seqOf,
                   status, owed, bg, flags, env>>

\* It fails: with nothing written, with the record left in stdio's buffer
\* for the next flush, or with a part of it in the file.
AddRecordFails(c) ==
    /\ pc[c] = "append"
    /\ \/ Fault("append") /\ (UNCHANGED logs \/ Append1(InGroup(group)))
       \/ Fault("torn") /\ Append1(Torn)
    /\ pc' = [pc EXCEPT ![c] = "failed"]
    /\ UNCHANGED <<ghosts, tables, man, tail, core, queue, slept, group, seqOf,
                   status, owed, bg, flags, crashes>>

Durable_OneMore == Len(logs[logfile].recs) + 1
Durable == Len(logs[logfile].recs)
SyncLog(c) ==
    /\ pc[c] = "sync"
    /\ logs' = [logs EXCEPT ![logfile].synced = Durable]
    /\ pc' = [pc EXCEPT ![c] = "insert"]
    /\ UNCHANGED <<ghosts, tables, man, tail, core, queue, slept, group, seqOf,
                   status, owed, bg, flags, env>>

SyncLogFails(c) ==
    /\ pc[c] = "sync" /\ Fault("sync")
    /\ pc' = [pc EXCEPT ![c] = "syncfailed"]
    /\ UNCHANGED <<disk, core, queue, slept, group, seqOf, status, owed, bg,
                   flags, crashes>>

InsertInto(c) ==
    /\ pc[c] = "insert"
    /\ mem' = mem \cup InGroup(group)
    /\ pc' = [pc EXCEPT ![c] = "finish"]
    /\ UNCHANGED <<disk, imm, hasImm, logfile, vs, queue, slept, group, seqOf,
                   status, owed, bg, flags, env>>

\* With the mutex again: the last sequence is advanced whatever happened,
\* and the group leaves.  A failed sync stops all later writes.
FinishWrite(c) ==
    /\ pc[c] \in {"finish", "failed", "syncfailed"}
    /\ vs' = [vs EXCEPT !.last = @ + Cardinality(InGroup(group))]
    /\ bgErr' = (bgErr \/ pc[c] = "syncfailed")
    /\ Leave(Len(group), IF pc[c] = "finish" THEN "ok" ELSE "err",
             IF bgErr' # bgErr THEN Woken(pc) ELSE pc)
    /\ UNCHANGED <<disk, mem, imm, hasImm, logfile, seqOf, bg, phase, pins,
                   pending, shutting, replay, env>>

\* TEST_CompactMemTable waits for the memtable it has handed over.
ForceWaits(c) ==
    /\ pc[c] = "flush" /\ hasImm /\ ~bgErr
    /\ pc' = [pc EXCEPT ![c] = "flushstall"]
    /\ UNCHANGED <<disk, core, queue, slept, group, seqOf, status, owed, bg, flags, env>>

ForceReturns(c) ==
    /\ pc[c] = "flush" /\ (~hasImm \/ bgErr)
    /\ pc' = [pc EXCEPT ![c] = "done"]
    /\ status' = [status EXCEPT ![c] = IF hasImm THEN "err" ELSE "ok"]
    /\ UNCHANGED <<disk, core, queue, slept, group, seqOf, owed, bg, flags, env>>

(***************************************************************************)
(* A reader between taking and dropping its reference to a version (Get,   *)
(* an iterator).                                                           *)
(***************************************************************************)
Pin ==
    /\ phase = "open" /\ ~shutting /\ pins = {}
    /\ pins' = {Live(vs)}
    /\ UNCHANGED <<disk, core, calls, bg, phase, pending, bgErr, shutting, replay, env>>

Unpin ==
    /\ pins # {} /\ pins' = {}
    /\ UNCHANGED <<disk, core, calls, bg, phase, pending, bgErr, shutting, replay, env>>

(***************************************************************************)
(* The background thread.                                                  *)
(***************************************************************************)
Edit(add0, add1, del, log) ==
    [add0 |-> add0, add1 |-> add1, del |-> del, log |-> log,
     next |-> vs.next, last |-> vs.last]

\* LogAndApply: the edit is appended without the mutex, ...
LogEdit(e) == tail' = Append(tail, [edit |-> e, ver |-> Apply(Described, e)])

\* ... and once it is synced the new version is installed.
Installed == [Apply(vs, Last(tail).edit) EXCEPT !.next = vs.next, !.last = vs.last]
SyncManifest == man' = Described /\ tail' = <<>>

Idle == sched /\ cp = "no" /\ fl = "no"

BackgroundNothing ==
    /\ Idle /\ (shutting \/ bgErr)
    /\ BackgroundEnd(hasImm, vs, bgErr)
    /\ UNCHANGED <<disk, core, queue, slept, group, seqOf, status, owed,
                   fl, fnum, cp, cin, cout, flags, env>>

\* CompactMemTable is called first thing, and from inside DoCompactionWork's
\* loop, where bg_error_ is not looked at.
InLoop == cp \in {"merge", "out", "merged"} /\ fl = "no"
FlushStart ==
    /\ hasImm /\ ~shutting
    /\ (Idle /\ ~bgErr) \/ InLoop
    /\ fnum' = vs.next
    /\ vs' = [vs EXCEPT !.next = @ + 1]
    /\ pending' = pending \cup {fnum'}
    /\ fl' = "build"
    /\ UNCHANGED <<disk, mem, imm, hasImm, logfile, calls, sched, cp, cin, cout,
                   phase, pins, bgErr, shutting, replay, env>>

\* The table is built and synced without the mutex; then the edit makes
\* every log before the current one unnecessary.
FlushLogNumber == logfile
FlushBuilt ==
    /\ fl = "build" /\ ~shutting
    /\ tables' = IF imm = {} THEN tables ELSE Put(tables, fnum, imm)
    /\ pending' = pending \ {fnum}
    /\ \E lvl \in {0, 1} :
          LogEdit(Edit(IF lvl = 0 /\ imm # {} THEN {fnum} ELSE {},
                       IF lvl = 1 /\ imm # {} THEN {fnum} ELSE {},
                       {}, FlushLogNumber))
    /\ fl' = "manifest"
    /\ UNCHANGED <<logs, ghosts, man, core, calls, sched, fnum, cp, cin, cout,
                   phase, pins, bgErr, shutting, replay, env>>

FlushInstall ==
    /\ fl = "manifest"
    /\ SyncManifest
    /\ vs' = Installed
    /\ hasImm' = FALSE /\ imm' = {}
    /\ DeleteObsoleteFiles(vs', cin.base, pending, tables)
    /\ fl' = "no"
    /\ IF cp = "no" THEN BackgroundEnd(FALSE, vs', bgErr)
                    ELSE pc' = Woken(pc) /\ UNCHANGED sched
    /\ UNCHANGED <<mem, logfile, queue, slept, group, seqOf, status, owed, fnum,
                   cp, cin, cout, flags, env>>

\* The table cannot be written, the database is being closed, or the edit's
\* record is written but not known to be synced.
FlushFails ==
    /\ \/ fl = "build" /\ Fault("table")
       \/ fl = "build" /\ shutting /\ UNCHANGED faults
       \/ fl = "manifest" /\ Fault("manifest")
    /\ bgErr' = TRUE
    /\ pending' = pending \ {fnum}
    /\ fl' = "no"
    /\ IF cp = "no" THEN BackgroundEnd(TRUE, vs, TRUE)
                    ELSE pc' = Woken(pc) /\ UNCHANGED sched
    /\ UNCHANGED <<disk, core, queue, slept, group, seqOf, status, owed, fnum,
                   cp, cin, cout, phase, pins, shutting, replay, crashes>>

\* PickCompaction at level 0.
CanCompact ==
    /\ Idle /\ ~shutting /\ ~bgErr /\ ~hasImm
    /\ Cardinality(vs.l0) >= L0Trigger

CompactionStart ==
    /\ CanCompact
    /\ \E in0 \in (SUBSET vs.l0) \ {{}}, in1 \in {{}, vs.l1} :
          cin' = [files |-> in0 \cup in1, base |-> Live(vs)]
    /\ cp' = "merge"
    /\ UNCHANGED <<disk, core, calls, sched, fl, fnum, cout, flags, env>>

\* IsTrivialMove: one file goes down a level by an edit alone.
TrivialMove ==
    /\ CanCompact
    /\ \E f \in vs.l0 :
          /\ LogEdit(Edit({}, {f}, {f}, vs.log))
          /\ cout' = f
    /\ cp' = "move"
    /\ UNCHANGED <<logs, ghosts, tables, man, core, calls, sched, fl, fnum, cin,
                   flags, env>>

OpenCompactionOutputFile ==
    /\ cp = "merge" /\ fl = "no"
    /\ cout' = vs.next
    /\ vs' = [vs EXCEPT !.next = @ + 1]
    /\ pending' = pending \cup {cout'}
    /\ cp' = "out"
    /\ UNCHANGED <<disk, mem, imm, hasImm, logfile, calls, sched, fl, fnum, cin,
                   phase, pins, bgErr, shutting, replay, env>>

FinishCompactionOutputFile ==
    /\ cp = "out" /\ fl = "no"
    /\ tables' = Put(tables, cout, In(cin.files, tables))
    /\ cp' = "merged"
    /\ UNCHANGED <<logs, ghosts, man, tail, core, calls, sched, fl, fnum, cin, cout,
                   flags, env>>

InstallCompactionResults ==
    /\ cp = "merged" /\ fl = "no"
    /\ LogEdit(Edit({}, {cout}, cin.files, vs.log))
    /\ cp' = "manifest"
    /\ UNCHANGED <<logs, ghosts, tables, man, core, calls, sched, fl, fnum, cin, cout,
                   flags, env>>

CompactionInstall ==
    /\ cp \in {"manifest", "move"}
    /\ SyncManifest
    /\ vs' = Installed
    /\ pending' = pending \ {cout}
    /\ cp' = "no" /\ cin' = NoInputs
    /\ IF cp = "move" THEN UNCHANGED <<logs, ghosts, tables>>
       ELSE DeleteObsoleteFiles(vs', {}, pending', tables)
    /\ BackgroundEnd(hasImm, vs', bgErr)
    /\ UNCHANGED <<mem, imm, hasImm, logfile, queue, slept, group, seqOf, status,
                   owed, fl, fnum, cout, phase, pins, bgErr, shutting, replay, env>>

\* A failed compaction leaves its files: after an error nothing is deleted.
CompactionFails ==
    /\ \/ InLoop /\ shutting /\ UNCHANGED faults
       \/ InLoop /\ Fault("table")
       \/ cp \in {"manifest", "move"} /\ Fault("manifest")
    /\ bgErr' = TRUE
    /\ pending' = pending \ {cout}
    /\ cp' = "no" /\ cin' = NoInputs
    /\ BackgroundEnd(hasImm, vs, TRUE)
    /\ UNCHANGED <<disk, core, queue, slept, group, seqOf, status, owed, fl, fnum,
                   cout, phase, pins, shutting, replay, crashes>>

(***************************************************************************)
(* Closing and crashing.                                                   *)
(***************************************************************************)
\* What is left when the process is gone.
Gone ==
    /\ phase' = "down"
    /\ mem' = {} /\ imm' = {} /\ hasImm' = FALSE /\ logfile' = 0
    /\ vs' = NoVersions /\ pins' = {} /\ pending' = {}
    /\ bgErr' = FALSE /\ shutting' = FALSE
    /\ queue' = <<>> /\ slept' = FALSE /\ group' = <<>>
    /\ pc' = [c \in Calls |-> IF pc[c] = "idle" THEN "idle" ELSE "done"]
    /\ sched' = FALSE /\ fl' = "no" /\ fnum' = 0
    /\ cp' = "no" /\ cin' = NoInputs /\ cout' = 0
    /\ replay' = NoReplay
    /\ status' = [c \in Calls |-> IF pc[c] # "idle" /\ status[c] # "ok"
                                 THEN "gone" ELSE status[c]]
    /\ UNCHANGED seqOf

\* ~DBImpl, called when no other call is running.
Close ==
    /\ phase = "open" /\ ~shutting /\ pins = {}
    /\ \A c \in Calls : pc[c] \in {"idle", "done"}
    /\ Restart
    /\ shutting' = TRUE
    /\ UNCHANGED <<disk, core, calls, bg, phase, pins, pending, bgErr, replay, faults>>

Closed ==
    /\ shutting /\ ~sched
    /\ Gone
    /\ UNCHANGED <<disk, owed, env>>

\* The process dies; what it has handed to the system stays.
ProcessCrash ==
    /\ Restart
    /\ phase # "down"
    /\ Gone
    /\ UNCHANGED <<disk, owed, faults>>

\* The machine dies: each log keeps its synced records and some of those
\* after them, the MANIFEST some of its unsynced edits, and a removed log
\* may be back.  It excuses the loss of asynchronous writes only.
Keeps ==
    {k \in [DOMAIN logs -> 0..Cardinality(Calls)] :
        \A n \in DOMAIN logs : k[n] \in logs[n].synced..Len(logs[n].recs)}

MachineCrash ==
    /\ Restart
    /\ \E keep \in Keeps, v \in Describable, back \in SUBSET DOMAIN ghosts :
          LET cut == Cut(logs, keep)
          IN  /\ logs' = [n \in DOMAIN logs \cup back |->
                            IF n \in DOMAIN logs THEN cut[n] ELSE ghosts[n]]
              /\ man' = v
    /\ tail' = <<>> /\ ghosts' = <<>>
    /\ owed' = {c \in owed : c \in Sync \/ c \in Recoverable(man', logs', tables)}
    /\ Gone
    /\ UNCHANGED <<tables, faults>>

(***************************************************************************)
(* DB::Open.                                                               *)
(***************************************************************************)
Recover ==
    LET m == Described
    IN  /\ phase = "down"
        /\ Live(m) \subseteq DOMAIN tables      \* else "missing files"
        /\ vs' = [m EXCEPT !.next = MaxNat({m.next + 1, m.log + 1})]
        /\ replay' = [NoReplay EXCEPT
                        !.todo = LogsToRead(m, logs)]
        /\ phase' = "replay"
        /\ UNCHANGED <<disk, mem, imm, hasImm, logfile, calls, bg, pins, pending,
                       bgErr, shutting, env>>

\* RecoverLogFile, and MarkFileNumberUsed after it.  The tables of one log
\* count as one.
MarkFileNumberUsed(next, n) == MaxNat({next, n + 1})
NextLog_Newest == CHOOSE n \in replay.todo : \A m \in replay.todo : m <= n
NextLog == CHOOSE n \in replay.todo : \A m \in replay.todo : n <= m
ReplayNext == phase = "replay" /\ logfile = 0 /\ replay.todo # {}
Replayed == ReadLog(logs[NextLog].recs)
MaxSeen_Dropped == replay.max
MaxSeen == MaxNat({seqOf[c] : c \in Replayed} \cup {replay.max})

RecoverLogFile ==
    /\ ReplayNext
    /\ LET n == NextLog
           f == vs.next
       IN  IF Replayed = {}
           THEN /\ vs' = [vs EXCEPT !.next = MarkFileNumberUsed(f, n)]
                /\ UNCHANGED tables
                /\ replay' = [replay EXCEPT !.todo = @ \ {n}, !.err = FALSE]
           ELSE /\ vs' = [vs EXCEPT !.next = MarkFileNumberUsed(f + 1, n)]
                /\ tables' = Put(tables, f, Replayed)
                /\ replay' = [todo |-> replay.todo \ {n}, add |-> replay.add \cup {f},
                              max |-> MaxSeen, err |-> FALSE]
    /\ UNCHANGED <<logs, ghosts, man, tail, mem, imm, hasImm, logfile, calls, bg,
                   phase, pins, pending, bgErr, shutting, env>>

\* Its table cannot be written.  The loop goes on with the next log, whose
\* status takes this one's place: an earlier log's failure is a fault of
\* its own.
RecoverLogFileFails ==
    /\ ReplayNext /\ Replayed # {}
    /\ Fault(IF replay.todo = {NextLog} THEN "lastlog" ELSE "earlierlog")
    /\ vs' = [vs EXCEPT !.next = MarkFileNumberUsed(vs.next + 1, NextLog)]
    /\ replay' = [replay EXCEPT !.todo = @ \ {NextLog}, !.max = MaxSeen, !.err = TRUE]
    /\ UNCHANGED <<disk, mem, imm, hasImm, logfile, calls, bg, phase, pins,
                   pending, bgErr, shutting, crashes>>

\* The new log file, ...
OpenLog ==
    /\ phase = "replay" /\ replay.todo = {} /\ ~replay.err /\ logfile = 0
    /\ logfile' = vs.next
    /\ logs' = Put(logs, vs.next, [recs |-> <<>>, synced |-> 0])
    /\ vs' = [vs EXCEPT !.next = @ + 1, !.last = MaxNat({@, replay.max})]
    /\ UNCHANGED <<ghosts, tables, man, tail, mem, imm, hasImm, calls, bg, phase,
                   pins, pending, bgErr, shutting, replay, env>>

\* ... and a new MANIFEST, synced before CURRENT names it.
OpenInstall ==
    /\ phase = "replay" /\ logfile # 0
    /\ vs' = [vs EXCEPT !.log = logfile, !.l0 = @ \cup replay.add]
    /\ man' = vs' /\ tail' = <<>>
    /\ DeleteObsoleteFiles(vs', {}, {}, tables)
    /\ sched' = NeedsWork(FALSE, vs', FALSE)
    /\ phase' = "open" /\ replay' = NoReplay
    /\ UNCHANGED <<mem, imm, hasImm, logfile, calls, fl, fnum, cp, cin, cout, pins,
                   pending, bgErr, shutting, env>>

OpenFails ==
    /\ phase = "replay"
    /\ \/ replay.todo = {} /\ replay.err /\ UNCHANGED faults
       \/ logfile # 0 /\ Fault("manifest")
    /\ Gone
    /\ UNCHANGED <<disk, owed, crashes>>

WriterStep(c) ==
    \/ RoomError(c) \/ RoomDelay(c) \/ RoomFound(c) \/ RoomStall(c)
    \/ RoomSwitch(c) \/ RoomSwitchFails(c)
    \/ AddRecord(c) \/ AddRecordFails(c) \/ SyncLog(c) \/ SyncLogFails(c)
    \/ InsertInto(c) \/ FinishWrite(c)
    \/ ForceWaits(c) \/ ForceReturns(c)

BackgroundStep ==
    \/ BackgroundNothing
    \/ FlushStart \/ FlushBuilt \/ FlushInstall \/ FlushFails
    \/ CompactionStart \/ TrivialMove
    \/ OpenCompactionOutputFile \/ FinishCompactionOutputFile
    \/ InstallCompactionResults \/ CompactionInstall \/ CompactionFails

OpenStep ==
    \/ Recover \/ RecoverLogFile \/ RecoverLogFileFails
    \/ OpenLog \/ OpenInstall \/ OpenFails

Next ==
    \/ \E c \in Calls : Enqueue(c) \/ WriterStep(c)
    \/ Pin \/ Unpin
    \/ BackgroundStep
    \/ OpenStep
    \/ Close \/ Closed \/ ProcessCrash \/ MachineCrash

Spec == Init /\ [][Next]_vars

\* A thread that can go on does; nobody has to call, close, crash or fail.
Fairness ==
    /\ \A c \in Calls : WF_vars(WriterStep(c))
    /\ WF_vars(BackgroundStep)
    /\ WF_vars(Unpin) /\ WF_vars(Closed)
FairSpec == Spec /\ Fairness

(***************************************************************************)
(* Properties.                                                             *)
(***************************************************************************)
\* No acknowledged write is lost: a reader sees it, and a database that is
\* closed, has crashed or is being recovered will bring it back.  Only a
\* machine crash excuses it, and only an asynchronous write.
NothingOwedIsLost == owed \subseteq Present

\* No file that is needed has been deleted: by the current version, by a
\* reader or a compaction that still holds an older one, or by what the
\* MANIFEST would say after a crash at this moment.
NothingNeededIsMissing ==
    /\ LiveFiles(vs, cin.base) \subseteq DOMAIN tables \/ phase # "open"
    /\ \A v \in Describable : Live(v) \subseteq DOMAIN tables
    /\ cp = "merged" => cout \in DOMAIN tables

\* Two writes that are both there never share a sequence number, and none
\* is beyond the last one: a later write cannot be hidden by an earlier.
SequencesDistinct ==
    phase = "open" =>
      \A c \in Held \ (IF group = <<>> THEN {} ELSE InGroup(group)) :
        /\ seqOf[c] \in 1..vs.last
        /\ \A d \in Held \ {c} : seqOf[d] # seqOf[c]

\* A read stops at the first place that has the key: the memtable is newer
\* than what is being flushed, that than every table, and of two tables of
\* level 0 the one with the larger number is the newer - as long as every
\* edit of the MANIFEST succeeds: one that failed may get in after all.
NewestFirst ==
    phase = "open" =>
      LET Older(A, B) == \A a \in A \ B, b \in B : seqOf[a] < seqOf[b]
      IN  /\ Older(imm, mem)
          /\ Older(In(Live(vs), tables), imm) /\ Older(In(Live(vs), tables), mem)
          /\ \A f, g \in vs.l0 : f < g => Older(tables[f], tables[g])

\* Only the call at the front of the queue is past waiting: it alone writes
\* to the log and to the memtable while the mutex is given up, and what it
\* writes are the queue's first calls.  Nobody waits in vain: whoever is in
\* front has been told, and whoever waits is in the queue, once.
Logging == {"append", "sync", "insert", "finish", "failed", "syncfailed"}
InFront == {"room", "stall"} \cup Logging
FrontWriterOnly ==
    /\ \A c \in Calls : pc[c] \in InFront => queue # <<>> /\ queue[1] = c
    /\ queue # <<>> => pc[queue[1]] \in InFront
    /\ \A i, j \in 1..Len(queue) : queue[i] = queue[j] => i = j
    /\ \A i \in 1..Len(queue) : pc[queue[i]] \in InFront \cup {"wait"}
    /\ \A c \in Calls : pc[c] = "wait" => \E i \in 1..Len(queue) : queue[i] = c
    /\ \A c \in Calls : pc[c] \in Logging =>
          /\ Len(group) \in 1..Len(queue)
          /\ \A i \in 1..Len(group) : group[i] = queue[i]

\* No wake-up is lost: a call that waits on bg_cv_ waits for what is still
\* so, and the background thread, which will signal it, is scheduled; and
\* when that starts anew it finds what it was scheduled for.
NoLostWakeup ==
    /\ \A c \in Calls : pc[c] = "stall" =>
          /\ sched /\ ~bgErr
          /\ hasImm \/ Cardinality(vs.l0) >= L0Stop
    /\ \A c \in Calls : pc[c] = "flushstall" => sched /\ ~bgErr /\ hasImm
    /\ Idle => shutting \/ bgErr \/ hasImm \/ Cardinality(vs.l0) >= L0Trigger

\* The writes that have been submitted and are neither seen nor given up, and
\* those that were acknowledged.
Limbo ==
    {c \in Batches : /\ pc[c] # "idle" /\ status[c] \in {"none", "err"}
                     /\ c \notin Present}
Acked == {c \in Batches : status[c] = "ok"}

\* The engine keeps the promise of DurableStore.
Promise == INSTANCE DurableStore WITH
    present <- Present, safe <- Surviving, limbo <- Limbo, acked <- Acked
KeepsPromise == Promise!Spec

\* Every write returns, and closing ends.
CallsReturn == \A c \in Calls : pc[c] # "idle" ~> pc[c] = "done"
CloseEnds == shutting ~> phase = "down"
=============================================================================
