------------------------- MODULE DurableStoreProofs -------------------------
(* Theorems about what LevelStore keeps, and what DurableStore promises of  *)
(* it: no acknowledged write is lost, whatever fails; the engine implements *)
(* DurableStore on reliable files; a synchronous write survives any crash.  *)
EXTENDS LevelStoreProofs

(***************************************************************************)
(* Nothing acknowledged is missing on disk: DurInv and WriterInv.          *)
(***************************************************************************)
NoneTorn(lg) == \A n \in DOMAIN lg : \A i \in DOMAIN lg[n].recs : lg[n].recs[i] # Torn
DurLogs == NoneTorn(logs) /\ NoneTorn(ghosts)
DurSync == \A v \in Describable : owed \cap Sync \subseteq Recoverable(v, Hard, tables)
DurReplay ==
    phase = "replay" =>
          /\ ~(replay.err /\ replay.todo = {}) =>
                \A n \in LogsToRead(Described, logs) \ replay.todo :
                    ReadLog(logs[n].recs) \subseteq In(replay.add, tables)
          /\ logfile # 0 => ~replay.err
DurOpen ==
    IF phase = "open"
    THEN /\ owed \subseteq Held
         /\ mem \subseteq ReadLog(logs[logfile].recs)
         /\ mem \cap owed \cap Sync \subseteq ReadLog(Hard[logfile].recs)
         /\ \A v \in Describable : /\ imm \subseteq Recoverable(v, logs, tables)
                                   /\ In(Live(vs), tables) \subseteq In(Live(v), tables)
    ELSE owed \subseteq OnDisk
DurInv == DurLogs /\ DurSync /\ DurReplay /\ DurOpen
WriterInv ==
    /\ owed \cap Grouped = {}
    /\ \A c \in Calls :
          /\ pc[c] \in Logging /\ Grouped \cap Sync # {} => c \in Sync
          /\ pc[c] \in {"sync", "insert", "finish"} => Grouped \subseteq ReadLog(logs[logfile].recs)
          /\ pc[c] = "finish" => Grouped \subseteq mem
          /\ pc[c] \in {"insert", "finish"} /\ c \in Sync =>
                Grouped \subseteq ReadLog(Hard[logfile].recs)

(***************************************************************************)
(* Durability.                                                             *)
(***************************************************************************)
(* What is synced stays so while the file's synced part grows.              *)
LEMMA DurablyMore ==
  ASSUME NEW lg, NEW lh, LogsOK(lg), LogsOK(lh), NEW n, n \in DOMAIN lg, n \in DOMAIN lh,
         lg[n].synced <= lh[n].synced,
         \A i \in 1..lg[n].synced : lh[n].recs[i] = lg[n].recs[i]
  PROVE  ReadLog(Durably(lg)[n].recs) \subseteq ReadLog(Durably(lh)[n].recs)
<1>1. /\ Durably(lg)[n].recs \in Seq(SUBSET Batches)
      /\ Len(Durably(lg)[n].recs) = lg[n].synced /\ lg[n].synced \in Nat
      /\ \A i \in 1..lg[n].synced : Durably(lg)[n].recs[i] = lg[n].recs[i]
  BY DurablyFacts
<1>2. /\ Durably(lh)[n].recs \in Seq(SUBSET Batches)
      /\ Len(Durably(lh)[n].recs) = lh[n].synced /\ lh[n].synced \in Nat
      /\ \A i \in 1..lh[n].synced : Durably(lh)[n].recs[i] = lh[n].recs[i]
  BY DurablyFacts
<1>3. \A i \in 1..lg[n].synced : i \in 1..lh[n].synced
  <2>1. PICK a \in Nat : a = lg[n].synced
    BY <1>1
  <2>2. PICK b \in Nat : b = lh[n].synced
    BY <1>2
  <2>3. a <= b
    BY <2>1, <2>2
  <2>4. \A i \in 1..a : i \in 1..b
    BY <2>3
  <2> QED BY <2>1, <2>2, <2>4
<1>4. \A i \in 1..Len(Durably(lg)[n].recs) : Durably(lg)[n].recs[i] = Durably(lh)[n].recs[i]
  BY <1>1, <1>2, <1>3
<1>5. Len(Durably(lg)[n].recs) <= Len(Durably(lh)[n].recs)
  BY <1>1, <1>2
<1> QED BY <1>1, <1>2, <1>4, <1>5, ReadLogPrefix

LEMMA DurablyLess ==
  ASSUME NEW lg, LogsOK(lg), NEW n \in DOMAIN lg
  PROVE  ReadLog(Durably(lg)[n].recs) \subseteq ReadLog(lg[n].recs)
<1>1. /\ lg[n].recs \in Seq(SUBSET Batches) /\ lg[n].synced <= Len(lg[n].recs)
      /\ Durably(lg)[n].recs \in Seq(SUBSET Batches)
      /\ Len(Durably(lg)[n].recs) = lg[n].synced
      /\ \A i \in 1..lg[n].synced : Durably(lg)[n].recs[i] = lg[n].recs[i]
  BY DurablyFacts
<1> QED BY <1>1, ReadLogPrefix

LEMMA DurablyAll ==
  ASSUME NEW lg, LogsOK(lg), NEW n \in DOMAIN lg, lg[n].synced = Len(lg[n].recs)
  PROVE  ReadLog(Durably(lg)[n].recs) = ReadLog(lg[n].recs)
<1> DEFINE r == lg[n].recs
           h == Durably(lg)[n].recs
<1>1. r \in Seq(SUBSET Batches) /\ h \in Seq(SUBSET Batches) /\ Len(h) = lg[n].synced
      /\ \A i \in 1..lg[n].synced : h[i] = r[i]
  BY DurablyFacts
<1>2. Len(h) = Len(r) /\ Len(r) \in Nat /\ \A i \in 1..Len(r) : h[i] = r[i]
  BY <1>1, LenProperties
<1> HIDE DEF r, h
<1>3. ReadLog(h) \subseteq ReadLog(r)
  BY <1>1, <1>2, ReadLogPrefix
<1>4. ReadLog(r) \subseteq ReadLog(h)
  BY <1>1, <1>2, ReadLogPrefix
<1> QED BY <1>3, <1>4 DEF r, h

(* The steps that leave every file, the memtable and the promises alone.    *)
LEMMA DurStill ==
  ASSUME DurInv, UNCHANGED <<logs, ghosts, tables, man, tail, mem, imm, logfile, phase, replay, owed>>,
         Live(vs') = Live(vs)
  PROVE  DurInv'
<1>1. Describable' = Describable /\ Described' = Described
  BY ManifestFrame
<1>2. Hard' = Hard /\ OnDisk' = OnDisk /\ Held' = Held
      /\ LogsToRead(Described, logs)' = LogsToRead(Described, logs)
  BY <1>1 DEF Hard, OnDisk, Held
<1>3. DurLogs' /\ DurSync'
  BY <1>1, <1>2 DEF DurInv, DurLogs, DurSync
<1>4. DurReplay'
  BY <1>1, <1>2 DEF DurInv, DurReplay
<1>5. DurOpen'
  BY <1>1, <1>2 DEF DurInv, DurOpen
<1> QED BY <1>3, <1>4, <1>5 DEF DurInv

LEMMA WriterStill ==
  ASSUME WriterInv, UNCHANGED <<mem, logfile, owed, group>>,
         ReadLog(logs[logfile].recs) \subseteq ReadLog(logs'[logfile].recs),
         ReadLog(Hard[logfile].recs) \subseteq ReadLog(Hard'[logfile].recs),
         \A c \in Calls : /\ pc'[c] \in {"sync", "insert", "finish"} => pc'[c] = pc[c]
                          /\ pc'[c] \in Logging => pc[c] \in Logging
  PROVE  WriterInv'
<1>1. Grouped' = Grouped
  BY DEF Grouped
<1> QED BY <1>1 DEF WriterInv

LEMMA WriterNone ==
  ASSUME owed' \cap Grouped' = {}, \A c \in Calls : pc'[c] \notin Logging
  PROVE  WriterInv'
BY DEF WriterInv, Logging

(* A promise that is kept is one of a call that is done.                    *)
LEMMA OwedIsDone ==
  ASSUME Base, SeqInv, DurInv, WriterInv
  PROVE  /\ owed \subseteq Reach /\ owed \subseteq Batches /\ owed \subseteq Calls
         /\ \A c \in owed : pc[c] = "done"
<1>1. owed \subseteq Reach
  <2>1. CASE phase = "open"
    BY <2>1 DEF DurInv, DurOpen, Reach
  <2>2. CASE phase # "open"
    BY <2>2, BaseFacts DEF DurInv, DurOpen, Reach, OnDisk
  <2> QED BY <2>1, <2>2
<1>2. \A c \in owed : c \in Batches /\ pc[c] = "done"
  BY <1>1 DEF SeqInv, SeqReach, WriterInv
<1> QED BY <1>1, <1>2 DEF Batches

(* The writers: the logs and the memtable grow, the tables are as they were. *)
LEMMA GrowDur ==
  ASSUME Base, Base', DurInv, phase = "open", phase' = "open",
         UNCHANGED <<tables, man, tail, imm, logfile, ghosts>>, Live(vs') = Live(vs),
         NoneTorn(logs'), DOMAIN logs' = DOMAIN logs,
         \A n \in DOMAIN logs : /\ ReadLog(logs[n].recs) \subseteq ReadLog(logs'[n].recs)
                                /\ ReadLog(Hard[n].recs) \subseteq ReadLog(Hard'[n].recs),
         owed' \subseteq Held',
         mem' \subseteq ReadLog(logs'[logfile].recs),
         mem' \cap owed' \cap Sync \subseteq ReadLog(Hard'[logfile].recs),
         \A v \in Describable : owed' \cap Sync \subseteq Recoverable(v, Hard, tables)
                                                          \cup Recoverable(v, Hard', tables)
  PROVE  DurInv'
<1>1. Describable' = Describable
  BY ManifestFrame
<1>2. DOMAIN Hard = DOMAIN logs /\ DOMAIN Hard' = DOMAIN logs
  BY DurablyFacts DEF Base, TInv, DiskOK, Hard
<1>3. ASSUME NEW v \in Describable
      PROVE  /\ Recoverable(v, logs, tables) \subseteq Recoverable(v, logs', tables)
             /\ Recoverable(v, Hard, tables) \subseteq Recoverable(v, Hard', tables)
  BY <1>2, RecoverableMore
<1>4. DurLogs'
  BY DEF DurInv, DurLogs
<1>5. DurSync'
  BY <1>1, <1>3 DEF DurSync
<1>6. DurReplay'
  BY DEF DurReplay
<1>7. DurOpen'
  BY <1>1, <1>3 DEF DurInv, DurOpen
<1> QED BY <1>4, <1>5, <1>6, <1>7 DEF DurInv

(* What a call that logs knows of its group.                                *)
LEMMA LoggingGroup ==
  ASSUME Base, NEW c \in Calls, pc[c] \in Logging
  PROVE  /\ c \in Grouped /\ Grouped # Torn
         /\ \A d \in Calls \ {c} : pc[d] \notin Logging
         /\ Len(group) \in 1..Len(queue) /\ Len(queue) \in Nat /\ Len(group) \in Nat
         /\ Grouped = {queue[i] : i \in 1..Len(group)} \ Forced
<1>1. /\ Len(group) \in 1..Len(queue) /\ queue # <<>> /\ queue[1] = c
      /\ \A i \in 1..Len(group) : group[i] = queue[i]
      /\ \A d \in Calls : pc[d] \in Logging => queue[1] = d
  BY DEF Base, QInv, FrontWriterOnly, InFront
<1>2. Len(queue) \in Nat /\ group \in Seq(Calls)
  BY QueuedNotDone DEF Base, TInv, CallsOK
<1>3. c \in Batches
  BY DEF Base, StagesInv, LoggingInv
<1>4. DOMAIN group = 1..Len(group) /\ Len(group) \in Nat
  BY <1>2, LenProperties
<1>5. Grouped = {queue[i] : i \in 1..Len(group)} \ Forced
  BY <1>1, <1>4 DEF Grouped, InGroup, Range
<1>6. 1 \in 1..Len(group)
  BY <1>1, <1>2
<1>7. c \in Grouped
  BY <1>1, <1>3, <1>5, <1>6 DEF Batches
<1> QED BY <1>1, <1>2, <1>4, <1>5, <1>7 DEF Torn

(* The record, its sync, and the memtable.                                  *)
LEMMA AddedDur ==
  ASSUME Base, Base', LogNumbers, DurInv, phase = "open", phase' = "open",
         UNCHANGED <<tables, man, tail, mem, imm, logfile, ghosts, owed, group, vs>>,
         Grouped # Torn, Append1(Grouped)
  PROVE  /\ DurInv'
         /\ Grouped \subseteq ReadLog(logs'[logfile].recs)
         /\ ReadLog(logs[logfile].recs) \subseteq ReadLog(logs'[logfile].recs)
         /\ ReadLog(Hard[logfile].recs) \subseteq ReadLog(Hard'[logfile].recs)
<1>1. /\ logfile \in DOMAIN logs /\ LogsOK(logs) /\ LogsOK(logs')
      /\ Grouped \in SUBSET Batches
  BY GroupedFacts DEF Base, TInv, DiskOK, LogNumbers
<1>2. /\ DOMAIN logs' = DOMAIN logs
      /\ \A n \in DOMAIN logs \ {logfile} : logs'[n] = logs[n]
      /\ logs'[logfile].recs = Append(logs[logfile].recs, Grouped)
      /\ logs'[logfile].synced = logs[logfile].synced
  BY <1>1, AppendedRecord
<1>3. logs[logfile].recs \in Seq(SUBSET Batches) /\ Len(logs[logfile].recs) \in Nat
      /\ logs[logfile].synced \in Nat /\ logs[logfile].synced <= Len(logs[logfile].recs)
  BY <1>1, DurablyFacts, LenProperties
<1>4. /\ Len(logs'[logfile].recs) = Len(logs[logfile].recs) + 1
      /\ \A i \in 1..Len(logs[logfile].recs) : logs'[logfile].recs[i] = logs[logfile].recs[i]
      /\ logs'[logfile].recs[Len(logs[logfile].recs) + 1] = Grouped
      /\ DOMAIN logs'[logfile].recs = 1..(Len(logs[logfile].recs) + 1)
      /\ DOMAIN logs[logfile].recs = 1..Len(logs[logfile].recs)
  <2>1. Append(logs[logfile].recs, Grouped) \in Seq(SUBSET Batches)
    BY <1>1, <1>3, AppendProperties
  <2> QED BY <1>1, <1>2, <1>3, <2>1, AppendProperties, LenProperties
<1>5. NoneTorn(logs)
  BY DEF DurInv, DurLogs
<1>6. ReadLog(logs'[logfile].recs) = ReadLog(logs[logfile].recs) \cup Grouped
  <2>1. \A i \in DOMAIN logs[logfile].recs : logs[logfile].recs[i] # Torn
    BY <1>1, <1>5 DEF NoneTorn
  <2> QED BY <1>1, <1>2, <1>3, <2>1, ReadLogAppend
<1>7. NoneTorn(logs')
  <2> SUFFICES ASSUME NEW n \in DOMAIN logs', NEW i \in DOMAIN logs'[n].recs
               PROVE  logs'[n].recs[i] # Torn
    BY DEF NoneTorn
  <2>1. CASE n # logfile
    BY <1>2, <1>5, <2>1 DEF NoneTorn
  <2>2. CASE n = logfile
    <3>1. i \in 1..Len(logs[logfile].recs) \/ i = Len(logs[logfile].recs) + 1
      BY <1>3, <1>4, <2>2
    <3>2. ASSUME i \in 1..Len(logs[logfile].recs) PROVE logs[logfile].recs[i] # Torn
      BY <1>1, <1>4, <1>5, <3>2 DEF NoneTorn
    <3> QED BY <1>4, <2>2, <3>1, <3>2
  <2> QED BY <2>1, <2>2
<1>8. \A i \in 1..logs[logfile].synced : logs'[logfile].recs[i] = logs[logfile].recs[i]
  BY <1>3, <1>4
<1>9. ASSUME NEW n \in DOMAIN logs
      PROVE  /\ ReadLog(logs[n].recs) \subseteq ReadLog(logs'[n].recs)
             /\ ReadLog(Hard[n].recs) \subseteq ReadLog(Hard'[n].recs)
  <2>1. logs[n].synced \in Nat
    BY <1>1, DurablyFacts
  <2>2. CASE n # logfile
    <3>1. logs'[n] = logs[n] /\ logs[n].synced <= logs'[n].synced
      BY <1>2, <2>1, <2>2
    <3>2. ReadLog(Durably(logs)[n].recs) \subseteq ReadLog(Durably(logs')[n].recs)
      BY <1>1, <1>2, <3>1, DurablyMore
    <3> QED BY <3>1, <3>2 DEF Hard
  <2>3. CASE n = logfile
    <3>1. logs[n].synced <= logs'[n].synced
      BY <1>2, <2>1, <2>3
    <3>2. ReadLog(Durably(logs)[n].recs) \subseteq ReadLog(Durably(logs')[n].recs)
      BY <1>1, <1>2, <1>8, <2>3, <3>1, DurablyMore
    <3> QED BY <1>6, <2>3, <3>2 DEF Hard
  <2> QED BY <2>2, <2>3
<1>10. Held' = Held /\ Live(vs') = Live(vs)
  BY DEF Held
<1>11. /\ owed \subseteq Held
       /\ mem \subseteq ReadLog(logs[logfile].recs)
       /\ mem \cap owed \cap Sync \subseteq ReadLog(Hard[logfile].recs)
       /\ \A v \in Describable : owed \cap Sync \subseteq Recoverable(v, Hard, tables)
  BY DEF DurInv, DurOpen, DurSync
<1>12. DurInv'
  <2>1. mem' \subseteq ReadLog(logs'[logfile].recs)
    BY <1>1, <1>9, <1>11
  <2>2. mem' \cap owed' \cap Sync \subseteq ReadLog(Hard'[logfile].recs)
    BY <1>1, <1>9, <1>11
  <2> QED BY <1>2, <1>7, <1>9, <1>10, <1>11, <2>1, <2>2, GrowDur
<1> QED BY <1>1, <1>6, <1>9, <1>12

LEMMA SyncedDur ==
  ASSUME Base, Base', LogNumbers, DurInv, phase = "open", phase' = "open",
         UNCHANGED <<tables, man, tail, mem, imm, logfile, ghosts, owed, group, vs>>,
         logs' = [logs EXCEPT ![logfile].synced = Durable]
  PROVE  /\ DurInv'
         /\ ReadLog(logs'[logfile].recs) = ReadLog(logs[logfile].recs)
         /\ ReadLog(Hard'[logfile].recs) = ReadLog(logs[logfile].recs)
<1>1. logfile \in DOMAIN logs /\ LogsOK(logs) /\ LogsOK(logs')
  BY DEF Base, TInv, DiskOK, LogNumbers
<1>2. /\ DOMAIN logs' = DOMAIN logs
      /\ \A n \in DOMAIN logs : logs'[n].recs = logs[n].recs
      /\ \A n \in DOMAIN logs \ {logfile} : logs'[n] = logs[n]
      /\ logs'[logfile].synced = Len(logs[logfile].recs)
  BY <1>1, SyncedRecords
<1>3. \A n \in DOMAIN logs : /\ logs[n].recs \in Seq(SUBSET Batches) /\ logs[n].synced \in Nat
                             /\ logs[n].synced <= Len(logs[n].recs)
  BY <1>1, DurablyFacts
<1>4. NoneTorn(logs')
  BY <1>2 DEF DurInv, DurLogs, NoneTorn
<1>5. ASSUME NEW n \in DOMAIN logs
      PROVE  ReadLog(Hard[n].recs) \subseteq ReadLog(Hard'[n].recs)
  <2>1. logs[n].synced <= logs'[n].synced
    BY <1>2, <1>3
  <2>2. n \in DOMAIN logs' /\ logs'[n].recs = logs[n].recs
    BY <1>2
  <2>3. \A i \in 1..logs[n].synced : logs'[n].recs[i] = logs[n].recs[i]
    BY <2>2
  <2>4. ReadLog(Durably(logs)[n].recs) \subseteq ReadLog(Durably(logs')[n].recs)
    BY <1>1, <2>1, <2>2, <2>3, DurablyMore
  <2> QED BY <2>4 DEF Hard
<1>6. ReadLog(Hard'[logfile].recs) = ReadLog(logs[logfile].recs)
  <2>1. /\ logfile \in DOMAIN logs' /\ logs'[logfile].recs = logs[logfile].recs
        /\ logs'[logfile].synced = Len(logs'[logfile].recs)
    BY <1>1, <1>2
  <2>2. ReadLog(Durably(logs')[logfile].recs) = ReadLog(logs'[logfile].recs)
    BY <1>1, <2>1, DurablyAll
  <2> QED BY <2>1, <2>2 DEF Hard
<1>7. Held' = Held /\ Live(vs') = Live(vs)
  BY DEF Held
<1>8. /\ owed \subseteq Held
      /\ mem \subseteq ReadLog(logs[logfile].recs)
      /\ \A v \in Describable : owed \cap Sync \subseteq Recoverable(v, Hard, tables)
  BY DEF DurInv, DurOpen, DurSync
<1>9. DurInv'
  BY <1>1, <1>2, <1>4, <1>5, <1>6, <1>7, <1>8, GrowDur
<1> QED BY <1>1, <1>2, <1>6, <1>9

LEMMA LoggedDur ==
  ASSUME Base, Base', LogNumbers, SeqInv, DurInv, WriterInv,
         Faults \cap {"torn", "earlierlog"} = {}, NEW c \in Calls,
         \/ AddRecord(c) \/ AddRecordFails(c) \/ SyncLog(c) \/ SyncLogFails(c) \/ InsertInto(c)
  PROVE  DurInv' /\ WriterInv'
<1>1. phase = "open" /\ phase' = "open"
  BY WorkingStaysOpen DEF Working, Base, StagesInv, WriterStep
<1>2. pc \in [Calls -> Stages] /\ pc[c] \in Logging
  BY DEF Base, QInv, QueueType, AddRecord, AddRecordFails, SyncLog, SyncLogFails, InsertInto,
         Logging
<1>3. /\ c \in Grouped /\ Grouped # Torn
      /\ \A d \in Calls \ {c} : pc[d] \notin Logging
  BY <1>2, LoggingGroup
<1>4. /\ owed \cap Grouped = {}
      /\ \A d \in Calls : pc[d] \in Logging /\ Grouped \cap Sync # {} => d \in Sync
      /\ pc[c] \in {"sync", "insert", "finish"} => Grouped \subseteq ReadLog(logs[logfile].recs)
      /\ pc[c] \in {"insert", "finish"} /\ c \in Sync =>
            Grouped \subseteq ReadLog(Hard[logfile].recs)
  BY DEF WriterInv
<1>5. UNCHANGED <<tables, man, tail, imm, logfile, ghosts, owed, group, vs>> /\ Grouped' = Grouped
  BY DEF AddRecord, AddRecordFails, SyncLog, SyncLogFails, InsertInto, disk, core, Grouped
<1>6. CASE AddRecord(c)
  <2>1. Append1(Grouped) /\ mem' = mem /\ pc' = [pc EXCEPT ![c] = AfterLog(c)]
    BY <1>6 DEF AddRecord, core, Grouped
  <2>2. DurInv' /\ Grouped \subseteq ReadLog(logs'[logfile].recs)
    BY <1>1, <1>3, <1>5, <2>1, AddedDur
  <2>3. /\ pc'[c] \in {"sync", "insert"} /\ (c \in Sync => pc'[c] = "sync")
        /\ \A d \in Calls \ {c} : pc'[d] = pc[d]
    BY <1>2, <2>1 DEF AfterLog
  <2>4. WriterInv'
    <3> SUFFICES ASSUME NEW d \in Calls, pc'[d] \in Logging
                 PROVE  /\ Grouped \cap Sync # {} => d \in Sync
                        /\ Grouped \subseteq ReadLog(logs'[logfile].recs)
                        /\ pc'[d] # "finish"
                        /\ ~(pc'[d] = "insert" /\ d \in Sync)
      BY <1>4, <1>5 DEF WriterInv, Logging
    <3>1. d = c
      BY <1>3, <2>3
    <3> QED BY <1>2, <1>4, <2>2, <2>3, <3>1
  <2> QED BY <2>2, <2>4
<1>7. CASE AddRecordFails(c)
  <2>1. /\ logs' = logs \/ Append1(Grouped)
        /\ mem' = mem /\ pc' = [pc EXCEPT ![c] = "failed"]
    BY <1>7 DEF AddRecordFails, core, Grouped, Fault
  <2>2. DurInv'
    <3>1. CASE logs' = logs
      <4>1. UNCHANGED <<phase, replay>> /\ Live(vs') = Live(vs)
        BY <1>5, <1>7 DEF AddRecordFails, flags
      <4> QED BY <1>5, <2>1, <3>1, <4>1, DurStill
    <3>2. CASE Append1(Grouped)
      BY <1>1, <1>3, <1>5, <2>1, <3>2, AddedDur
    <3> QED BY <2>1, <3>1, <3>2
  <2>3. pc'[c] = "failed" /\ \A d \in Calls \ {c} : pc'[d] = pc[d]
    BY <1>2, <2>1
  <2>4. WriterInv'
    <3> SUFFICES ASSUME NEW d \in Calls, pc'[d] \in Logging
                 PROVE  /\ Grouped \cap Sync # {} => d \in Sync
                        /\ pc'[d] = "failed"
      BY <1>4, <1>5 DEF WriterInv, Logging
    <3>1. d = c
      BY <1>3, <2>3
    <3> QED BY <1>2, <1>4, <2>3, <3>1
  <2> QED BY <2>2, <2>4
<1>8. CASE SyncLog(c)
  <2>1. /\ pc[c] = "sync" /\ mem' = mem /\ pc' = [pc EXCEPT ![c] = "insert"]
        /\ logs' = [logs EXCEPT ![logfile].synced = Durable]
    BY <1>8 DEF SyncLog, core
  <2>2. /\ DurInv' /\ ReadLog(logs'[logfile].recs) = ReadLog(logs[logfile].recs)
        /\ ReadLog(Hard'[logfile].recs) = ReadLog(logs[logfile].recs)
    BY <1>1, <1>5, <2>1, SyncedDur
  <2>3. pc'[c] = "insert" /\ \A d \in Calls \ {c} : pc'[d] = pc[d]
    BY <1>2, <2>1
  <2>4. WriterInv'
    <3> SUFFICES ASSUME NEW d \in Calls, pc'[d] \in Logging
                 PROVE  /\ Grouped \cap Sync # {} => d \in Sync
                        /\ Grouped \subseteq ReadLog(logs'[logfile].recs)
                        /\ Grouped \subseteq ReadLog(Hard'[logfile].recs)
                        /\ pc'[d] # "finish"
      BY <1>4, <1>5 DEF WriterInv, Logging
    <3>1. d = c
      BY <1>3, <2>3
    <3> QED BY <1>2, <1>4, <2>1, <2>2, <2>3, <3>1
  <2> QED BY <2>2, <2>4
<1>9. CASE SyncLogFails(c)
  <2>1. /\ UNCHANGED <<mem, logs, phase, replay>> /\ pc' = [pc EXCEPT ![c] = "syncfailed"]
    BY <1>9 DEF SyncLogFails, core, disk, flags
  <2>2. DurInv'
    BY <1>5, <2>1, DurStill
  <2>3. \A d \in Calls : /\ pc'[d] \in {"sync", "insert", "finish"} => pc'[d] = pc[d]
                         /\ pc'[d] \in Logging => pc[d] \in Logging
    BY <1>2, <2>1
  <2>4. Hard' = Hard
    BY <2>1 DEF Hard
  <2> QED BY <1>5, <2>1, <2>2, <2>3, <2>4, WriterStill
<1>10. CASE InsertInto(c)
  <2>1. /\ pc[c] = "insert" /\ mem' = mem \cup Grouped /\ pc' = [pc EXCEPT ![c] = "finish"]
        /\ logs' = logs
    BY <1>10 DEF InsertInto, Grouped, disk
  <2>2. Hard' = Hard /\ DOMAIN logs' = DOMAIN logs /\ Live(vs') = Live(vs)
        /\ NoneTorn(logs')
    BY <1>5, <2>1 DEF Hard, DurInv, DurLogs
  <2>3. /\ owed \subseteq Held
        /\ mem \subseteq ReadLog(logs[logfile].recs)
        /\ mem \cap owed \cap Sync \subseteq ReadLog(Hard[logfile].recs)
        /\ \A v \in Describable : owed \cap Sync \subseteq Recoverable(v, Hard, tables)
    BY <1>1 DEF DurInv, DurOpen, DurSync
  <2>4. Held \subseteq Held'
    BY <1>5, <2>1 DEF Held
  <2>5. mem' \subseteq ReadLog(logs'[logfile].recs)
    BY <1>4, <2>1, <2>3
  <2>6. mem' \cap owed' \cap Sync \subseteq ReadLog(Hard'[logfile].recs)
    BY <1>4, <1>5, <2>1, <2>2, <2>3
  <2>7. DurInv'
    BY <1>1, <1>5, <2>1, <2>2, <2>3, <2>4, <2>5, <2>6, GrowDur
  <2>8. pc'[c] = "finish" /\ \A d \in Calls \ {c} : pc'[d] = pc[d]
    BY <1>2, <2>1
  <2>9. WriterInv'
    <3> SUFFICES ASSUME NEW d \in Calls, pc'[d] \in Logging
                 PROVE  /\ Grouped \cap Sync # {} => d \in Sync
                        /\ Grouped \subseteq ReadLog(logs'[logfile].recs)
                        /\ Grouped \subseteq mem'
                        /\ d \in Sync => Grouped \subseteq ReadLog(Hard'[logfile].recs)
      BY <1>4, <1>5 DEF WriterInv, Logging
    <3>1. d = c
      BY <1>3, <2>8
    <3> QED BY <1>2, <1>4, <2>1, <2>2, <2>8, <3>1
  <2> QED BY <2>7, <2>9
<1> QED BY <1>6, <1>7, <1>8, <1>9, <1>10

(* A new group has no promises yet, and syncs if any of it must.            *)
LEMMA StartWriter ==
  ASSUME Base, SeqInv, DurInv, WriterInv, NEW c \in Calls, pc[c] = "room", StartLogging(c)
  PROVE  WriterInv' /\ owed' = owed
<1>1. /\ queue # <<>> /\ queue[1] = c /\ \A d \in Calls : pc[d] \in InFront => d = c
  BY DEF Base, QInv, FrontWriterOnly, InFront
<1>2. PICK n \in GroupLengths :
         /\ group' = SubSeq(queue, 1, n)
         /\ pc' = [pc EXCEPT ![c] = "append"] /\ owed' = owed
  BY DEF StartLogging
<1>3. /\ n \in 1..Len(queue) /\ n \in Nat /\ Len(queue) \in Nat
      /\ group' \in Seq(Calls) /\ Len(group') = n
      /\ \A i \in 1..n : group'[i] = queue[i]
  BY <1>2, GroupLength DEF Base
<1>4. DOMAIN group' = 1..n
  BY <1>3, LenProperties
<1>5. \A d \in Grouped' : \E i \in 1..n : d = queue[i]
  BY <1>3, <1>4 DEF Grouped, InGroup, Range
<1>6. \A i \in 2..n : queue[i] \in Sync => c \in Sync
  BY <1>1, <1>2 DEF GroupLengths, Joins
<1>7. Grouped' \cap Sync # {} => c \in Sync
  <2> SUFFICES ASSUME NEW d \in Grouped', d \in Sync PROVE c \in Sync
    OBVIOUS
  <2>1. PICK i \in 1..n : d = queue[i]
    BY <1>5
  <2>2. i = 1 \/ i \in 2..n
    BY <1>3, <2>1
  <2> QED BY <1>1, <1>6, <2>1, <2>2
<1>8. owed' \cap Grouped' = {}
  <2>1. \A d \in Grouped' : pc[d] # "done" /\ d \in Calls
    BY StartNumbers DEF Batches
  <2>2. \A d \in owed : pc[d] = "done"
    BY OwedIsDone
  <2> QED BY <1>2, <2>1, <2>2
<1>9. pc \in [Calls -> Stages]
  BY DEF Base, QInv, QueueType
<1>10. \A d \in Calls : pc'[d] \in Logging => d = c /\ pc'[d] = "append"
  BY <1>1, <1>2, <1>9 DEF InFront
<1> QED BY <1>2, <1>7, <1>8, <1>10 DEF WriterInv, Logging

(* Who leaves with an error, or with no batch, is promised nothing.         *)
LEMMA LeaveWriter ==
  ASSUME Base, NEW n \in 1..Len(queue), NEW st, NEW p, Leave(n, st, p),
         \A d \in Calls : p[d] \in Logging => pc[d] \in Logging
  PROVE  /\ WriterInv'
         /\ st # "ok" => owed' = owed
         /\ st = "ok" => owed' = owed \cup ({queue[i] : i \in 1..n} \ Forced)
<1>1. /\ queue \in Seq(Calls) /\ Len(queue) \in Nat /\ n \in Nat
      /\ \A i \in 1..Len(queue) : queue[i] \in Calls
  BY QueuedNotDone DEF Base, QInv, QueueType
<1>2. Range(SubSeq(queue, 1, n)) = {queue[i] : i \in 1..n}
  <2>1. /\ SubSeq(queue, 1, n) \in Seq(Calls)
        /\ Len(SubSeq(queue, 1, n)) = n
        /\ \A i \in 1..n : SubSeq(queue, 1, n)[i] = queue[i]
    BY <1>1, SubSeqProperties
  <2>2. DOMAIN SubSeq(queue, 1, n) = 1..n
    BY <2>1, LenProperties
  <2> QED BY <2>1, <2>2 DEF Range
<1>3. group' = <<>> /\ Grouped' = {}
  BY NoGroup DEF Leave, Grouped
<1>4. \A d \in Calls : pc'[d] \notin Logging
  <2> SUFFICES ASSUME NEW d \in Calls, pc'[d] \in Logging PROVE FALSE
    OBVIOUS
  <2>1. d \notin Range(SubSeq(queue, 1, n)) /\ p[d] \in Logging
    BY DEF Leave, Logging
  <2>2. queue[1] = d
    BY <2>1 DEF Base, QInv, FrontWriterOnly, InFront
  <2>3. 1 \in 1..n
    BY <1>1
  <2> QED BY <1>2, <2>1, <2>2, <2>3
<1>5. WriterInv'
  BY <1>3, <1>4, WriterNone
<1> QED BY <1>2, <1>5 DEF Leave

(* A new, empty log: what could be read still can.                          *)
LEMMA NewLogDur ==
  ASSUME LogsOK(logs), LogsOK(logs'), NEW n \in Nat, n \notin DOMAIN logs,
         logs' = Put(logs, n, [recs |-> <<>>, synced |-> 0])
  PROVE  /\ DOMAIN logs' = DOMAIN logs \cup {n} /\ logs'[n].recs = <<>>
         /\ \A m \in DOMAIN logs : logs'[m] = logs[m]
         /\ NoneTorn(logs) => NoneTorn(logs')
         /\ \A m \in DOMAIN logs : m \in DOMAIN Hard' /\ Hard'[m] = Hard[m]
         /\ \A v, tb : /\ Recoverable(v, logs, tb) \subseteq Recoverable(v, logs', tb)
                       /\ Recoverable(v, Hard, tb) \subseteq Recoverable(v, Hard', tb)
<1>1. /\ DOMAIN logs' = DOMAIN logs \cup {n} /\ logs'[n].recs = <<>>
      /\ \A m \in DOMAIN logs \ {n} : logs'[m] = logs[m]
  BY LogsPut
<1>2. \A m \in DOMAIN logs : m \in DOMAIN logs' /\ logs'[m] = logs[m]
  BY <1>1
<1>3. DOMAIN Hard = DOMAIN logs /\ DOMAIN Hard' = DOMAIN logs'
  BY DurablyFacts DEF Hard
<1>4. \A m \in DOMAIN logs : m \in DOMAIN Hard' /\ Hard'[m] = Hard[m]
  BY <1>2 DEF Hard, Durably, Cut
<1>5. NoneTorn(logs) => NoneTorn(logs')
  <2>1. DOMAIN logs'[n].recs = {}
    BY <1>1, EmptyLogs
  <2> QED BY <1>1, <1>2, <2>1 DEF NoneTorn
<1>6. \A v, tb : /\ Recoverable(v, logs, tb) \subseteq Recoverable(v, logs', tb)
                 /\ Recoverable(v, Hard, tb) \subseteq Recoverable(v, Hard', tb)
  <2> SUFFICES ASSUME NEW v, NEW tb
               PROVE  /\ Recoverable(v, logs, tb) \subseteq Recoverable(v, logs', tb)
                      /\ Recoverable(v, Hard, tb) \subseteq Recoverable(v, Hard', tb)
    OBVIOUS
  <2>1. Recoverable(v, logs, tb) \subseteq Recoverable(v, logs', tb)
    BY <1>2, RecoverableMore
  <2>2. Recoverable(v, Hard, tb) \subseteq Recoverable(v, Hard', tb)
    BY <1>3, <1>4, RecoverableMore
  <2> QED BY <2>1, <2>2
<1> QED BY <1>1, <1>2, <1>4, <1>5, <1>6

LEMMA SwitchDur ==
  ASSUME Base, Base', LogNumbers, DurInv, NEW c \in Calls, RoomSwitch(c), owed' = owed
  PROVE  DurInv'
<1>1. /\ phase = "open" /\ phase' = "open" /\ ~hasImm
      /\ UNCHANGED <<tables, man, tail, ghosts>>
      /\ logs' = Put(logs, vs.next, [recs |-> <<>>, synced |-> 0])
      /\ logfile' = vs.next /\ vs' = [vs EXCEPT !.next = @ + 1]
      /\ imm' = mem /\ mem' = {}
  BY DEF RoomSwitch, CanSwitch, AtFront, flags
<1>2. /\ LogsOK(logs) /\ LogsOK(logs') /\ vs \in Version /\ vs.next \in Nat
      /\ logfile \in Nat /\ \A v \in Describable : v.log \in Nat
  BY BaseFacts DEF Base, TInv, DiskOK
<1>3. /\ logfile \in DOMAIN logs /\ logfile < vs.next /\ \A n \in DOMAIN logs : n <= logfile
      /\ \A v \in Describable : v.log <= logfile
  BY <1>1 DEF LogNumbers
<1>4. vs.next \notin DOMAIN logs
  BY <1>2, <1>3
<1>5. /\ DOMAIN logs' = DOMAIN logs \cup {vs.next} /\ logs'[vs.next].recs = <<>>
      /\ \A m \in DOMAIN logs : logs'[m] = logs[m]
      /\ NoneTorn(logs) => NoneTorn(logs')
      /\ \A v, tb : /\ Recoverable(v, logs, tb) \subseteq Recoverable(v, logs', tb)
                    /\ Recoverable(v, Hard, tb) \subseteq Recoverable(v, Hard', tb)
  BY <1>1, <1>2, <1>4, NewLogDur
<1>6. Describable' = Describable
  BY <1>1, ManifestFrame
<1>7. Live(vs') = Live(vs)
  BY <1>1, <1>2 DEF Version, Live
<1>8. imm = {} /\ Held' = Held
  <2>1. imm = {}
    BY <1>1 DEF Base, StagesInv, BackgroundInv
  <2> QED BY <1>1, <1>7, <2>1 DEF Held
<1>9. /\ owed \subseteq Held /\ mem \subseteq ReadLog(logs[logfile].recs)
      /\ \A v \in Describable : In(Live(vs), tables) \subseteq In(Live(v), tables)
      /\ NoneTorn(logs) /\ NoneTorn(ghosts)
      /\ \A v \in Describable : owed \cap Sync \subseteq Recoverable(v, Hard, tables)
  BY <1>1 DEF DurInv, DurOpen, DurLogs, DurSync
<1>10. \A v \in Describable : imm' \subseteq Recoverable(v, logs', tables)
  <2> SUFFICES ASSUME NEW v \in Describable, NEW x \in mem PROVE x \in Recoverable(v, logs, tables)
    BY <1>1, <1>5
  <2>1. logfile >= v.log
    BY <1>2, <1>3
  <2> QED BY <1>3, <1>9, <2>1, RecoverableIs
<1>11. DurLogs' /\ DurSync' /\ DurReplay'
  <2>1. DurLogs'
    BY <1>1, <1>5, <1>9 DEF DurLogs
  <2>2. DurSync'
    BY <1>1, <1>5, <1>6, <1>9 DEF DurSync
  <2>3. DurReplay'
    BY <1>1 DEF DurReplay
  <2> QED BY <2>1, <2>2, <2>3
<1>12. DurOpen'
  <2>1. mem' \subseteq ReadLog(logs'[logfile'].recs) /\ mem' \cap owed' \cap Sync = {}
    BY <1>1
  <2> QED BY <1>1, <1>6, <1>7, <1>8, <1>9, <1>10, <2>1 DEF DurOpen
<1> QED BY <1>11, <1>12 DEF DurInv

(* MakeRoomForWrite, when it gives up or finds room.                        *)
LEMMA RoomDur ==
  ASSUME Base, Base', LogNumbers, SeqInv, DurInv, WriterInv, NEW c \in Calls,
         RoomError(c) \/ RoomSwitchFails(c) \/ RoomFound(c) \/ RoomSwitch(c)
  PROVE  DurInv' /\ WriterInv'
<1>1. pc[c] = "room"
  BY DEF RoomError, RoomSwitchFails, RoomFound, RoomSwitch, CanSwitch, AtFront
<1>2. queue # <<>> /\ queue[1] = c
  BY <1>1, FrontAlone
<1>3. WriterInv' /\ owed' = owed
  <2>1. CASE StartLogging(c)
    BY <1>1, <2>1, StartWriter
  <2>2. ASSUME NEW st, Leave(1, st, pc), st = "ok" => c \in Forced
        PROVE  WriterInv' /\ owed' = owed
    <3>1. queue \in Seq(Calls)
      BY DEF Base, QInv, QueueType
    <3>2. 1 \in 1..Len(queue)
      BY <1>2, <3>1, EmptySeq, LenProperties
    <3>3. /\ WriterInv'
          /\ st # "ok" => owed' = owed
          /\ st = "ok" => owed' = owed \cup ({queue[i] : i \in 1..1} \ Forced)
      BY <2>2, <3>2, LeaveWriter
    <3>4. {queue[i] : i \in 1..1} = {c}
      BY <1>2
    <3> QED BY <2>2, <3>3, <3>4
  <2>3. StartLogging(c) \/ Leave(1, "err", pc) \/ (Leave(1, "ok", pc) /\ c \in Forced)
    BY DEF RoomError, RoomSwitchFails, RoomFound, RoomSwitch
  <2> QED BY <2>1, <2>2, <2>3
<1>4. DurInv'
  <2>1. CASE RoomSwitch(c)
    BY <1>3, <2>1, SwitchDur
  <2>2. CASE RoomError(c) \/ RoomSwitchFails(c) \/ RoomFound(c)
    <3>1. UNCHANGED <<logs, ghosts, tables, man, tail, mem, imm, logfile, phase, replay, vs>>
      BY <2>2 DEF RoomError, RoomSwitchFails, RoomFound, disk, core, flags
    <3> QED BY <1>3, <3>1, DurStill
  <2> QED BY <2>1, <2>2
<1> QED BY <1>3, <1>4

(* The group leaves, its writes acknowledged if all went well.              *)
LEMMA FinishDur ==
  ASSUME Base, Base', LogNumbers, DurInv, WriterInv, NEW c \in Calls, FinishWrite(c)
  PROVE  DurInv' /\ WriterInv'
<1> DEFINE st == IF pc[c] = "finish" THEN "ok" ELSE "err"
           p  == IF bgErr' # bgErr THEN Woken(pc) ELSE pc
<1>1. /\ pc[c] \in Logging /\ Leave(Len(group), st, p)
      /\ vs' = [vs EXCEPT !.last = @ + Cardinality(InGroup(group))]
      /\ UNCHANGED <<logs, ghosts, tables, man, tail, mem, imm, logfile, phase, replay>>
  BY DEF FinishWrite, Logging, disk
<1>2. phase = "open" /\ phase' = "open"
  BY WorkingStaysOpen DEF Working, Base, StagesInv, WriterStep
<1>3. /\ Len(group) \in 1..Len(queue)
      /\ Grouped = {queue[i] : i \in 1..Len(group)} \ Forced
  BY <1>1, LoggingGroup
<1>4. /\ \A d \in Calls : p[d] \in Logging => pc[d] \in Logging
      /\ st = "ok" <=> pc[c] = "finish"
  BY DEF Woken, Logging
<1> HIDE DEF p, st
<1>5. /\ WriterInv'
      /\ pc[c] # "finish" => owed' = owed
      /\ pc[c] = "finish" => owed' = owed \cup Grouped
  BY <1>1, <1>3, <1>4, LeaveWriter
<1>6. vs \in Version /\ Live(vs') = Live(vs)
  BY <1>1, BaseFacts DEF Version, Live
<1>7. CASE pc[c] # "finish"
  BY <1>1, <1>5, <1>6, <1>7, DurStill
<1>8. CASE pc[c] = "finish"
  <2>1. /\ Grouped \subseteq mem
        /\ Grouped \cap Sync # {} => c \in Sync
        /\ c \in Sync => Grouped \subseteq ReadLog(Hard[logfile].recs)
    BY <1>1, <1>8 DEF WriterInv
  <2>2. Grouped \cap Sync \subseteq ReadLog(Hard[logfile].recs)
    BY <2>1
  <2>3. /\ owed \subseteq Held
        /\ mem \subseteq ReadLog(logs[logfile].recs)
        /\ mem \cap owed \cap Sync \subseteq ReadLog(Hard[logfile].recs)
        /\ \A v \in Describable : owed \cap Sync \subseteq Recoverable(v, Hard, tables)
        /\ NoneTorn(logs)
    BY <1>2 DEF DurInv, DurOpen, DurSync, DurLogs
  <2>4. /\ logfile \in DOMAIN logs /\ logfile \in Nat
        /\ \A v \in Describable : v.log <= logfile /\ v.log \in Nat
    BY <1>2, BaseFacts DEF LogNumbers
  <2>5. Hard' = Hard /\ Held' = Held /\ DOMAIN Hard = DOMAIN logs
    BY <1>1, <1>6, DurablyFacts DEF Hard, Held, Base, TInv, DiskOK
  <2>6. owed' \subseteq Held'
    BY <1>5, <1>8, <2>1, <2>3, <2>5 DEF Held
  <2>7. mem' \subseteq ReadLog(logs'[logfile].recs)
    BY <1>1, <2>3
  <2>8. mem' \cap owed' \cap Sync \subseteq ReadLog(Hard'[logfile].recs)
    BY <1>1, <1>5, <1>8, <2>2, <2>3, <2>5
  <2>9. \A v \in Describable : owed' \cap Sync \subseteq Recoverable(v, Hard, tables)
    <3> SUFFICES ASSUME NEW v \in Describable, NEW x \in Grouped \cap Sync
                 PROVE  x \in Recoverable(v, Hard, tables)
      BY <1>5, <1>8, <2>3
    <3>1. logfile >= v.log
      BY <2>4
    <3> QED BY <2>2, <2>4, <2>5, <3>1, RecoverableIs
  <2>10. DurInv'
    <3>1. DOMAIN logs' = DOMAIN logs /\ NoneTorn(logs')
      BY <1>1, <2>3
    <3>2. \A n \in DOMAIN logs : /\ ReadLog(logs[n].recs) \subseteq ReadLog(logs'[n].recs)
                                 /\ ReadLog(Hard[n].recs) \subseteq ReadLog(Hard'[n].recs)
      BY <1>1, <2>5
    <3> QED BY <1>1, <1>2, <1>6, <2>6, <2>7, <2>8, <2>9, <3>1, <3>2, GrowDur
  <2> QED BY <1>5, <2>10
<1> QED BY <1>5, <1>7, <1>8

LEMMA WriterDur ==
  ASSUME Base, Base', LogNumbers, SeqInv, DurInv, WriterInv,
         Faults \cap {"torn", "earlierlog"} = {}, NEW c \in Calls, Enqueue(c) \/ WriterStep(c)
  PROVE  DurInv' /\ WriterInv'
<1>1. CASE RoomError(c) \/ RoomSwitchFails(c) \/ RoomFound(c) \/ RoomSwitch(c)
  BY <1>1, RoomDur
<1>2. CASE AddRecord(c) \/ AddRecordFails(c) \/ SyncLog(c) \/ SyncLogFails(c) \/ InsertInto(c)
  BY <1>2, LoggedDur
<1>3. CASE FinishWrite(c)
  BY <1>3, FinishDur
<1>4. CASE Enqueue(c) \/ RoomDelay(c) \/ RoomStall(c) \/ ForceWaits(c) \/ ForceReturns(c)
  <2>1. /\ UNCHANGED <<logs, ghosts, tables, man, tail, mem, imm, logfile, phase, replay, owed, vs,
                       group>>
        /\ pc' = pc \/ \E st \in {"room", "wait", "stall", "flushstall", "done"} :
                          pc' = [pc EXCEPT ![c] = st]
    BY <1>4 DEF Enqueue, RoomDelay, RoomStall, ForceWaits, ForceReturns, disk, core, flags
  <2>2. pc \in [Calls -> Stages]
    BY DEF Base, QInv, QueueType
  <2>3. \A d \in Calls : pc'[d] \in Logging => pc'[d] = pc[d]
    BY <2>1, <2>2 DEF Logging
  <2>4. Hard' = Hard
    BY <2>1 DEF Hard
  <2>5. WriterInv'
    BY <2>1, <2>3, <2>4, WriterStill DEF Logging
  <2> QED BY <2>1, <2>5, DurStill
<1> QED BY <1>1, <1>2, <1>3, <1>4 DEF WriterStep

-----------------------------------------------------------------------------
(***************************************************************************)
(* Durability: the background thread.                                      *)
(***************************************************************************)
(* A table is built, or an edit logged: each version that the MANIFEST may  *)
(* describe is an old one, with what it had, or holds what it must.         *)
LEMMA VersionsDur ==
  ASSUME DurInv, phase = "open", phase' = "open",
         UNCHANGED <<logs, ghosts, mem, imm, logfile, owed>>,
         In(Live(vs'), tables') = In(Live(vs), tables),
         \A v \in Describable' :
            \/ v \in Describable /\ In(Live(v), tables) \subseteq In(Live(v), tables')
            \/ /\ imm \subseteq Recoverable(v, logs, tables')
               /\ In(Live(vs), tables) \subseteq In(Live(v), tables')
               /\ owed \cap Sync \subseteq Recoverable(v, Hard, tables')
  PROVE  DurInv'
<1>1. Hard' = Hard /\ Held' = Held
  BY DEF Hard, Held
<1>2. /\ \A v \in Describable : /\ imm \subseteq Recoverable(v, logs, tables)
                                /\ In(Live(vs), tables) \subseteq In(Live(v), tables)
                                /\ owed \cap Sync \subseteq Recoverable(v, Hard, tables)
      /\ owed \subseteq Held /\ mem \subseteq ReadLog(logs[logfile].recs)
      /\ mem \cap owed \cap Sync \subseteq ReadLog(Hard[logfile].recs)
  BY DEF DurInv, DurOpen, DurSync
<1>3. ASSUME NEW v \in Describable'
      PROVE  /\ imm \subseteq Recoverable(v, logs, tables')
             /\ In(Live(vs), tables) \subseteq In(Live(v), tables')
             /\ owed \cap Sync \subseteq Recoverable(v, Hard, tables')
  <2>1. CASE v \in Describable /\ In(Live(v), tables) \subseteq In(Live(v), tables')
    <3>1. /\ Recoverable(v, logs, tables) \subseteq Recoverable(v, logs, tables')
          /\ Recoverable(v, Hard, tables) \subseteq Recoverable(v, Hard, tables')
      BY <2>1 DEF Recoverable
    <3> QED BY <1>2, <2>1, <3>1
  <2> QED BY <1>3, <2>1
<1>4. DurLogs' /\ DurReplay'
  BY DEF DurInv, DurLogs, DurReplay
<1>5. DurSync'
  BY <1>1, <1>3 DEF DurSync
<1>6. DurOpen'
  BY <1>1, <1>2, <1>3 DEF DurOpen
<1> QED BY <1>4, <1>5, <1>6 DEF DurInv

(* The edit of a compaction keeps the log number and what its inputs hold.  *)
LEMMA MoveDur ==
  ASSUME Base, LogNumbers, DurInv, phase = "open", phase' = "open",
         UNCHANGED <<logs, ghosts, tables, man, vs, mem, imm, logfile, owed>>,
         NEW f \in Nat, NEW D \in SUBSET Nat, LogEdit(Edit({}, {f}, D, vs.log)),
         f \in DOMAIN tables, In(D, tables) \subseteq tables[f]
  PROVE  DurInv'
<1>1. /\ Describable' = Describable \cup {Described'}
      /\ In(Live(Described), tables) \subseteq In(Live(Described'), tables)
      /\ Recoverable(Described, logs, tables) \subseteq Recoverable(Described', logs, tables)
      /\ Recoverable(Described, Hard, tables) \subseteq Recoverable(Described', Hard, tables)
  BY MoveEdit
<1>2. /\ imm \subseteq Recoverable(Described, logs, tables)
      /\ In(Live(vs), tables) \subseteq In(Live(Described), tables)
      /\ owed \cap Sync \subseteq Recoverable(Described, Hard, tables)
  BY BaseFacts DEF DurInv, DurOpen, DurSync
<1>3. \A v \in Describable' :
            \/ v \in Describable /\ In(Live(v), tables) \subseteq In(Live(v), tables')
            \/ /\ imm \subseteq Recoverable(v, logs, tables')
               /\ In(Live(vs), tables) \subseteq In(Live(v), tables')
               /\ owed \cap Sync \subseteq Recoverable(v, Hard, tables')
  BY <1>1, <1>2
<1> QED BY <1>3, VersionsDur

(* The memtable's table is synced before the edit that retires its log.     *)
LEMMA FlushBuiltDur ==
  ASSUME Base, TablesInv, LogNumbers, DurInv, FlushBuilt
  PROVE  DurInv'
<1>1. UNCHANGED <<mem, imm, logs, ghosts, logfile, owed>>
  BY DEF FlushBuilt, core, calls
<1>2. /\ phase = "open" /\ phase' = "open" /\ Described'.log = logfile
      /\ Describable' = Describable \cup {Described'}
      /\ In(Live(vs'), tables') = In(Live(vs), tables)
      /\ \A v \in Describable : In(Live(v), tables') = In(Live(v), tables)
      /\ In(Live(Described'), tables') = imm \cup In(Live(Described), tables)
  BY FlushEdit
<1>3. /\ In(Live(vs), tables) \subseteq In(Live(Described), tables)
      /\ owed \subseteq Held
      /\ mem \cap owed \cap Sync \subseteq ReadLog(Hard[logfile].recs)
  BY <1>2, BaseFacts DEF DurInv, DurOpen
<1>4. imm \subseteq Recoverable(Described', logs, tables')
  BY <1>2 DEF Recoverable
<1>5. owed \cap Sync \subseteq Recoverable(Described', Hard, tables')
  <2> SUFFICES ASSUME NEW x \in owed \cap Sync PROVE x \in Recoverable(Described', Hard, tables')
    OBVIOUS
  <2>1. CASE x \in imm \cup In(Live(vs), tables)
    <3>1. x \in In(Live(Described'), tables')
      BY <1>2, <1>3, <2>1
    <3> QED BY <3>1, RecoverableIs
  <2>2. CASE x \in mem
    <3>1. logfile \in DOMAIN Hard
      <4>1. logfile \in DOMAIN logs /\ LogsOK(logs)
        BY <1>2 DEF LogNumbers, Base, TInv, DiskOK
      <4> QED BY <4>1, DurablyFacts DEF Hard
    <3>2. x \in ReadLog(Hard[logfile].recs) /\ logfile >= Described'.log
      BY <1>2, <1>3, <2>2, BaseFacts
    <3> QED BY <3>1, <3>2, RecoverableIs
  <2> QED BY <1>3, <2>1, <2>2 DEF Held
<1>6. \A v \in Describable' :
            \/ v \in Describable /\ In(Live(v), tables) \subseteq In(Live(v), tables')
            \/ /\ imm \subseteq Recoverable(v, logs, tables')
               /\ In(Live(vs), tables) \subseteq In(Live(v), tables')
               /\ owed \cap Sync \subseteq Recoverable(v, Hard, tables')
  BY <1>2, <1>3, <1>4, <1>5
<1> QED BY <1>1, <1>2, <1>6, VersionsDur

(* The edit is synced: its version is the only one that the MANIFEST may    *)
(* describe, and what it does not need is deleted.                          *)
LEMMA InstallDur ==
  ASSUME Base, Base', TablesInv', LogNumbers', DurInv, phase = "open", phase' = "open",
         SyncManifest, UNCHANGED <<mem, logfile, owed>>, imm' \subseteq imm,
         NEW base, NEW pend,
         \/ UNCHANGED <<logs, ghosts, tables>>
         \/ DeleteObsoleteFiles(vs', base, pend, tables),
         In(Live(vs'), tables) \subseteq In(Live(Described), tables),
         owed \subseteq mem \cup imm' \cup In(Live(vs'), tables)
  PROVE  DurInv'
<1>1. /\ Describable' = {Described} /\ Described' = Described
      /\ \A n \in DOMAIN logs' : n \in DOMAIN logs /\ logs'[n] = logs[n]
      /\ \A n \in DOMAIN ghosts' : \/ n \in DOMAIN ghosts /\ ghosts'[n] = ghosts[n]
                                   \/ n \in DOMAIN logs /\ ghosts'[n] = logs[n]
      /\ logfile \in DOMAIN logs'
      /\ \A n \in DOMAIN logs' : Hard'[n] = Hard[n]
      /\ In(Live(vs'), tables') = In(Live(vs'), tables)
      /\ In(Live(Described), tables') = In(Live(Described), tables)
      /\ Recoverable(Described, logs, tables) \subseteq Recoverable(Described, logs', tables')
      /\ Recoverable(Described, Hard, tables) \subseteq Recoverable(Described, Hard', tables')
  BY InstallLeaves
<1>2. /\ imm \subseteq Recoverable(Described, logs, tables)
      /\ owed \cap Sync \subseteq Recoverable(Described, Hard, tables)
      /\ mem \subseteq ReadLog(logs[logfile].recs)
      /\ mem \cap owed \cap Sync \subseteq ReadLog(Hard[logfile].recs)
      /\ NoneTorn(logs) /\ NoneTorn(ghosts)
  BY BaseFacts DEF DurInv, DurOpen, DurSync, DurLogs
<1>3. DurLogs'
  BY <1>1, <1>2 DEF DurLogs, NoneTorn
<1>4. DurSync' /\ DurReplay'
  BY <1>1, <1>2 DEF DurSync, DurReplay
<1>5. DurOpen'
  <2>1. owed' \subseteq Held'
    BY <1>1 DEF Held
  <2>2. /\ mem' \subseteq ReadLog(logs'[logfile'].recs)
        /\ mem' \cap owed' \cap Sync \subseteq ReadLog(Hard'[logfile'].recs)
    BY <1>1, <1>2
  <2>3. /\ imm' \subseteq Recoverable(Described, logs', tables')
        /\ In(Live(vs'), tables') \subseteq In(Live(Described), tables')
    BY <1>1, <1>2
  <2> QED BY <1>1, <2>1, <2>2, <2>3 DEF DurOpen
<1> QED BY <1>3, <1>4, <1>5 DEF DurInv

LEMMA FlushInstallDur ==
  ASSUME Base, Base', TablesInv, TablesInv', LogNumbers', DurInv, FlushInstall
  PROVE  DurInv'
<1>1. /\ SyncManifest /\ imm' = {}
      /\ DeleteObsoleteFiles(vs', cin.base, pending, tables)
      /\ UNCHANGED <<mem, logfile, owed>>
  BY DEF FlushInstall, flags
<1>2. /\ phase = "open" /\ phase' = "open" /\ Described \in Describable
      /\ In(Live(vs'), tables) = imm \cup In(Live(vs), tables)
      /\ imm \subseteq In(Live(Described), tables)
  BY FlushInstalls
<1>3. /\ In(Live(vs), tables) \subseteq In(Live(Described), tables) /\ owed \subseteq Held
  BY <1>2 DEF DurInv, DurOpen
<1>4. owed \subseteq mem \cup imm' \cup In(Live(vs'), tables)
  BY <1>2, <1>3 DEF Held
<1>5. In(Live(vs'), tables) \subseteq In(Live(Described), tables) /\ imm' \subseteq imm
  BY <1>1, <1>2, <1>3
<1> QED BY <1>1, <1>2, <1>4, <1>5, InstallDur

LEMMA CompactionDur ==
  ASSUME Base, Base', TablesInv, TablesInv', LogNumbers, LogNumbers', DurInv,
         TrivialMove \/ FinishCompactionOutputFile \/ InstallCompactionResults \/ CompactionInstall
  PROVE  DurInv'
<1>1. phase = "open" /\ phase' = "open" /\ UNCHANGED <<imm, mem, logfile, owed>>
  <2>1. Working
    BY DEF Working, BackgroundStep
  <2>2. UNCHANGED <<imm, mem, logfile, owed>>
    BY DEF TrivialMove, FinishCompactionOutputFile, InstallCompactionResults, CompactionInstall,
           core, calls
  <2> QED BY <2>1, <2>2, WorkingStaysOpen DEF Base, StagesInv
<1>2. /\ tail \in Edits /\ man \in Version /\ vs \in Version /\ Described \in Describable
      /\ cout \in Nat /\ vs.l0 \subseteq Nat /\ cin.files \subseteq Nat
  BY BaseFacts
<1>3. TableNumbers /\ FilesInv /\ EditInv /\ Live(vs) \subseteq DOMAIN tables
  BY <1>1 DEF TablesInv, FilesInv, LiveFiles
<1>4. CASE TrivialMove
  <2>1. PICK f \in vs.l0 : LogEdit(Edit({}, {f}, {f}, vs.log))
    BY <1>4 DEF TrivialMove
  <2>2. UNCHANGED <<logs, ghosts, tables, man, vs>>
    BY <1>4 DEF TrivialMove, core
  <2>3. f \in Nat /\ {f} \in SUBSET Nat /\ f \in DOMAIN tables
    BY <1>2, <1>3, <2>1 DEF Live
  <2>4. In({f}, tables) \subseteq tables[f]
    BY InIs
  <2> QED BY <1>1, <2>1, <2>2, <2>3, <2>4, MoveDur
<1>5. CASE InstallCompactionResults
  <2>1. LogEdit(Edit({}, {cout}, cin.files, vs.log)) /\ cp = "merged"
    BY <1>5 DEF InstallCompactionResults
  <2>2. UNCHANGED <<logs, ghosts, tables, man, vs>>
    BY <1>5 DEF InstallCompactionResults, core
  <2>3. cout \in DOMAIN tables /\ tables[cout] = In(cin.files, tables)
    BY <1>3, <2>1 DEF FilesInv
  <2>4. cin.files \in SUBSET Nat /\ In(cin.files, tables) \subseteq tables[cout]
    BY <1>2, <2>3
  <2> QED BY <1>1, <1>2, <2>1, <2>2, <2>3, <2>4, MoveDur
<1>6. CASE FinishCompactionOutputFile
  <2>1. /\ cp = "out" /\ tables' = Put(tables, cout, In(cin.files, tables))
        /\ UNCHANGED <<logs, ghosts, man, tail, vs>>
    BY <1>6 DEF FinishCompactionOutputFile, core
  <2>2. /\ cout \notin Live(vs)
        /\ \A v \in Describable : cout \notin Live(v)
    BY <1>3, <2>1 DEF TableNumbers, LiveFiles
  <2>3. /\ In(Live(vs), tables') = In(Live(vs), tables)
        /\ \A v \in Describable : In(Live(v), tables') = In(Live(v), tables)
    BY <2>1, <2>2, PutIn
  <2>4. Describable' = Describable
    BY <2>1, ManifestFrame
  <2> QED BY <1>1, <2>1, <2>3, <2>4, VersionsDur
<1>7. CASE CompactionInstall
  <2>1. /\ SyncManifest
        /\ \/ UNCHANGED <<logs, ghosts, tables>>
           \/ DeleteObsoleteFiles(vs', {}, pending', tables)
    BY <1>7 DEF CompactionInstall
  <2>2. In(Live(vs'), tables) = In(Live(vs), tables)
    BY <1>7, CompactionInstalls
  <2>3. In(Live(vs), tables) \subseteq In(Live(Described), tables) /\ owed \subseteq Held
    BY <1>1, <1>2 DEF DurInv, DurOpen
  <2>4. owed \subseteq mem \cup imm' \cup In(Live(vs'), tables)
    BY <1>1, <2>2, <2>3 DEF Held
  <2>5. In(Live(vs'), tables) \subseteq In(Live(Described), tables) /\ imm' \subseteq imm
    BY <1>1, <2>2, <2>3
  <2> QED BY <1>1, <2>1, <2>4, <2>5, InstallDur
<1> QED BY <1>4, <1>5, <1>6, <1>7

(* The steps that touch nothing that can be read.                           *)
LEMMA IdleDur ==
  ASSUME Base, DurInv,
         \/ Pin \/ Unpin \/ Close \/ BackgroundNothing \/ UNCHANGED vars
         \/ FlushStart \/ FlushFails \/ CompactionStart \/ OpenCompactionOutputFile
         \/ CompactionFails
  PROVE  DurInv'
<1>1. UNCHANGED <<logs, ghosts, tables, man, tail, mem, imm, logfile, phase, replay, owed>>
  BY DEF Pin, Unpin, Close, BackgroundNothing, FlushStart, FlushFails, CompactionStart,
         OpenCompactionOutputFile, CompactionFails, disk, core, calls, flags, vars
<1>2. vs' = vs \/ vs' = [vs EXCEPT !.next = @ + 1]
  BY DEF Pin, Unpin, Close, BackgroundNothing, FlushStart, FlushFails, CompactionStart,
         OpenCompactionOutputFile, CompactionFails, core, vars
<1>3. Live(vs') = Live(vs)
  BY <1>2, BaseFacts DEF Version, Live
<1> QED BY <1>1, <1>3, DurStill

(* What the writers know holds beside all this.                             *)
LEMMA BackgroundWriter ==
  ASSUME Base, LogNumbers', WriterInv,
         BackgroundStep \/ Pin \/ Unpin \/ Close \/ UNCHANGED vars
  PROVE  WriterInv'
<1>1. UNCHANGED <<mem, logfile, owed, group, phase>>
  BY DEF Pin, Unpin, Close, BackgroundStep, BackgroundNothing, FlushStart, FlushBuilt, FlushInstall,
         FlushFails, CompactionStart, TrivialMove, OpenCompactionOutputFile,
         FinishCompactionOutputFile, InstallCompactionResults, CompactionInstall, CompactionFails,
         core, calls, flags, vars
<1>2. pc' = pc \/ pc' = Woken(pc)
  BY DEF Pin, Unpin, Close, BackgroundStep, BackgroundNothing, FlushStart, FlushBuilt, FlushInstall,
         FlushFails, CompactionStart, TrivialMove, OpenCompactionOutputFile,
         FinishCompactionOutputFile, InstallCompactionResults, CompactionInstall, CompactionFails,
         BackgroundEnd, calls, vars
<1>3. \A c \in Calls : pc'[c] \in Logging => pc'[c] = pc[c]
  BY <1>2 DEF Woken, Logging
<1>4. logs' = logs \/ \E v, base, pend : DeleteObsoleteFiles(v, base, pend, tables)
  BY DEF Pin, Unpin, Close, BackgroundStep, BackgroundNothing, FlushStart, FlushBuilt, FlushInstall,
         FlushFails, CompactionStart, TrivialMove, OpenCompactionOutputFile,
         FinishCompactionOutputFile, InstallCompactionResults, CompactionInstall, CompactionFails,
         disk, vars
<1>5. CASE phase # "open"
  <2>1. group' = <<>> /\ Grouped' = {} /\ \A c \in Calls : pc[c] \notin Logging
    BY <1>1, <1>5, NoGroup DEF Base, StagesInv, BackgroundInv, Quiet, Grouped, Logging
  <2> QED BY <1>3, <2>1, WriterNone
<1>6. CASE phase = "open"
  <2>1. logfile \in DOMAIN logs'
    BY <1>1, <1>6 DEF LogNumbers
  <2>2. logs'[logfile] = logs[logfile] /\ logfile \in DOMAIN logs
    BY <1>4, <2>1, DeletedLogs
  <2>3. Hard'[logfile] = Hard[logfile]
    BY <2>1, <2>2 DEF Hard, Durably, Cut
  <2> QED BY <1>1, <1>3, <2>2, <2>3, WriterStill DEF Logging
<1> QED BY <1>5, <1>6

LEMMA BackgroundDur ==
  ASSUME Base, Base', TablesInv, TablesInv', LogNumbers, LogNumbers', DurInv, BackgroundStep
  PROVE  DurInv'
BY IdleDur, FlushBuiltDur, FlushInstallDur, CompactionDur DEF BackgroundStep

-----------------------------------------------------------------------------
(***************************************************************************)
(* Durability: crashes and recovery.                                       *)
(***************************************************************************)
(* What an open database holds can be recovered.                            *)
LEMMA HeldIsOnDisk ==
  ASSUME Base, LogNumbers, DurInv
  PROVE  owed \subseteq OnDisk
<1>1. CASE phase # "open"
  BY <1>1 DEF DurInv, DurOpen
<1>2. CASE phase = "open"
  <2>1. /\ Described \in Describable /\ Described.log \in Nat /\ logfile \in Nat
    BY BaseFacts
  <2>2. /\ owed \subseteq Held /\ mem \subseteq ReadLog(logs[logfile].recs)
        /\ imm \subseteq Recoverable(Described, logs, tables)
        /\ In(Live(vs), tables) \subseteq In(Live(Described), tables)
    BY <1>2, <2>1 DEF DurInv, DurOpen
  <2>3. logfile \in DOMAIN logs /\ logfile >= Described.log
    BY <1>2, <2>1 DEF LogNumbers
  <2>4. mem \subseteq OnDisk
    BY <2>2, <2>3, RecoverableIs DEF OnDisk
  <2>5. In(Live(vs), tables) \subseteq OnDisk
    BY <2>2, RecoverableIs DEF OnDisk
  <2> QED BY <2>2, <2>4, <2>5 DEF Held, OnDisk
<1> QED BY <1>1, <1>2

LEMMA GoneDur ==
  ASSUME Base, LogNumbers, DurInv, WriterInv, Closed \/ ProcessCrash \/ OpenFails
  PROVE  DurInv' /\ WriterInv'
<1>1. Gone /\ UNCHANGED <<logs, ghosts, tables, man, tail, owed>>
  BY DEF Closed, ProcessCrash, OpenFails, disk
<1>2. phase' = "down" /\ group' = <<>> /\ \A c \in Calls : pc'[c] \in {"idle", "done"}
  BY <1>1 DEF Gone
<1>3. Describable' = Describable /\ Described' = Described
  BY <1>1, ManifestFrame
<1>4. Hard' = Hard /\ OnDisk' = OnDisk
  BY <1>1, <1>3 DEF Hard, OnDisk
<1>5. DurLogs' /\ DurSync' /\ DurReplay'
  BY <1>1, <1>2, <1>3, <1>4 DEF DurInv, DurLogs, DurSync, DurReplay
<1>6. DurOpen'
  BY <1>1, <1>2, <1>4, HeldIsOnDisk DEF DurOpen
<1>7. WriterInv'
  <2>1. Grouped' = {}
    BY <1>2, NoGroup DEF Grouped
  <2> QED BY <1>2, <2>1, WriterNone DEF Logging
<1> QED BY <1>5, <1>6, <1>7 DEF DurInv

(* The machine dies: what was synced is in every log that may be left, and  *)
(* is synced still.  Nothing else appears.                                  *)
LEMMA CrashLeaves ==
  ASSUME Base, Base', LogNumbers, MachineCrash
  PROVE  /\ man' \in Describable /\ Describable' = {man'} /\ Described' = man'
         /\ Recoverable(man', Hard, tables) \subseteq Recoverable(man', Hard', tables)
         /\ Recoverable(man', Hard, tables) \subseteq Recoverable(man', logs', tables)
         /\ Recoverable(man', logs', tables) \subseteq Recoverable(man', logs, tables)
<1>1. Describable' = {man'} /\ Described' = man'
  BY CrashLeavesOne DEF MachineCrash
<1>2. /\ man' \in Describable /\ DOMAIN logs \subseteq DOMAIN logs'
      /\ \A n \in DOMAIN logs' : n >= man'.log =>
            /\ n \in DOMAIN logs
            /\ logs'[n].recs \in Seq(SUBSET Batches)
            /\ Len(logs'[n].recs) \in logs[n].synced..Len(logs[n].recs)
            /\ \A i \in 1..Len(logs'[n].recs) : logs'[n].recs[i] = logs[n].recs[i]
            /\ logs'[n].synced = Len(logs'[n].recs)
  BY CrashKeepsPrefix
<1>3. LogsOK(logs) /\ LogsOK(logs')
  BY DEF Base, TInv, DiskOK
<1>4. DOMAIN Hard = DOMAIN logs /\ DOMAIN Hard' = DOMAIN logs'
  BY <1>3, DurablyFacts DEF Hard
<1>5. ASSUME NEW n \in DOMAIN logs, n >= man'.log
      PROVE  /\ ReadLog(Hard[n].recs) \subseteq ReadLog(Hard'[n].recs)
             /\ ReadLog(Hard[n].recs) \subseteq ReadLog(logs'[n].recs)
             /\ ReadLog(logs'[n].recs) \subseteq ReadLog(logs[n].recs)
  <2>1. /\ n \in DOMAIN logs' /\ logs[n].synced \in Nat /\ Len(logs'[n].recs) \in Nat
        /\ logs[n].recs \in Seq(SUBSET Batches) /\ Len(logs[n].recs) \in Nat
    BY <1>2, <1>3, DurablyFacts, LenProperties
  <2>2. /\ logs[n].synced <= logs'[n].synced
        /\ \A i \in 1..logs[n].synced : logs'[n].recs[i] = logs[n].recs[i]
    <3>1. PICK a \in Nat : a = logs[n].synced
      BY <2>1
    <3>2. PICK b \in Nat : b = Len(logs'[n].recs)
      BY <2>1
    <3>3. a <= b
      BY <1>2, <1>5, <2>1, <3>1, <3>2
    <3>4. \A i \in 1..a : i \in 1..b
      BY <3>3
    <3> QED BY <1>2, <1>5, <2>1, <3>1, <3>2, <3>3, <3>4
  <2>3. ReadLog(Durably(logs)[n].recs) \subseteq ReadLog(Durably(logs')[n].recs)
    BY <1>3, <2>1, <2>2, DurablyMore
  <2>4. ReadLog(Durably(logs')[n].recs) \subseteq ReadLog(logs'[n].recs)
    BY <1>3, <2>1, DurablyLess
  <2>5. ReadLog(logs'[n].recs) \subseteq ReadLog(logs[n].recs)
    <3>1. PICK a \in Nat, b \in Nat, d \in Nat :
             a = logs[n].synced /\ b = Len(logs'[n].recs) /\ d = Len(logs[n].recs)
      BY <2>1
    <3>2. b <= d
      BY <1>2, <1>5, <2>1, <3>1
    <3> QED BY <1>2, <1>5, <2>1, <3>1, <3>2, ReadLogPrefix
  <2> QED BY <2>3, <2>4, <2>5 DEF Hard
<1>6. \A n \in DOMAIN logs : n >= man'.log => n \in DOMAIN logs' /\ n \in DOMAIN Hard'
  BY <1>2, <1>4
<1>7. Recoverable(man', Hard, tables) \subseteq Recoverable(man', Hard', tables)
  BY <1>4, <1>5, <1>6, RecoverableMore
<1>8. Recoverable(man', Hard, tables) \subseteq Recoverable(man', logs', tables)
  BY <1>4, <1>5, <1>6, RecoverableMore
<1>9. Recoverable(man', logs', tables) \subseteq Recoverable(man', logs, tables)
  BY <1>2, <1>5, RecoverableMore
<1> QED BY <1>1, <1>2, <1>7, <1>8, <1>9

\* What is owed after the machine died was synced.
LEMMA CrashDur ==
  ASSUME Base, Base', LogNumbers, DurInv, MachineCrash
  PROVE  DurInv' /\ WriterInv'
<1>1. /\ Gone /\ tail' = <<>> /\ ghosts' = <<>> /\ tables' = tables
      /\ owed' = {c \in owed : c \in Sync \/ c \in Recoverable(man', logs', tables)}
  BY DEF MachineCrash
<1>2. phase' = "down" /\ group' = <<>> /\ \A c \in Calls : pc'[c] \in {"idle", "done"}
  BY <1>1 DEF Gone
<1>3. /\ man' \in Describable /\ Describable' = {man'} /\ Described' = man'
      /\ Recoverable(man', Hard, tables) \subseteq Recoverable(man', Hard', tables)
      /\ Recoverable(man', Hard, tables) \subseteq Recoverable(man', logs', tables)
  BY CrashLeaves
<1>4. owed \cap Sync \subseteq Recoverable(man', Hard, tables)
  BY <1>3 DEF DurInv, DurSync
<1>5. LogsOK(logs) /\ LogsOK(logs')
  BY DEF Base, TInv, DiskOK
<1>6. DurLogs'
  <2>1. NoneTorn(ghosts')
    BY <1>1, EmptyLogs DEF NoneTorn
  <2>2. NoneTorn(logs')
    <3>1. PICK keep \in Keeps, back \in SUBSET DOMAIN ghosts :
             logs' = [n \in DOMAIN logs \cup back |->
                         IF n \in DOMAIN logs THEN Cut(logs, keep)[n] ELSE ghosts[n]]
      BY DEF MachineCrash
    <3>2. \A n \in DOMAIN logs : keep[n] \in logs[n].synced..Len(logs[n].recs)
      BY DEF Keeps
    <3>3. \A n \in DOMAIN logs : /\ Cut(logs, keep)[n].recs \in Seq(SUBSET Batches)
                                 /\ keep[n] \in Nat
                                 /\ Len(Cut(logs, keep)[n].recs) = keep[n]
                                 /\ \A i \in 1..keep[n] : Cut(logs, keep)[n].recs[i] = logs[n].recs[i]
      <4>1. LogsOK(Cut(logs, keep)) /\ DOMAIN Cut(logs, keep) = DOMAIN logs
        BY <1>5, <3>2, CutLogs
      <4>2. \A n \in DOMAIN logs : Cut(logs, keep)[n].recs \in Seq(SUBSET Batches)
        BY <4>1 DEF LogsOK, Log
      <4> QED BY <1>5, <3>2, <4>2, CutLogs
    <3>4. NoneTorn(logs) /\ NoneTorn(ghosts)
      BY DEF DurInv, DurLogs
    <3> SUFFICES ASSUME NEW n \in DOMAIN logs', NEW i \in DOMAIN logs'[n].recs
                 PROVE  logs'[n].recs[i] # Torn
      BY DEF NoneTorn
    <3>5. CASE n \notin DOMAIN logs
      <4>1. n \in DOMAIN ghosts /\ logs'[n] = ghosts[n]
        BY <3>1, <3>5
      <4> QED BY <3>4, <4>1 DEF NoneTorn
    <3>6. CASE n \in DOMAIN logs
      <4>1. logs'[n] = Cut(logs, keep)[n]
        BY <3>1, <3>6
      <4>2. i \in 1..keep[n] /\ logs'[n].recs[i] = logs[n].recs[i]
        BY <3>3, <3>6, <4>1, LenProperties
      <4>3. logs[n].recs \in Seq(SUBSET Batches) /\ logs[n].synced \in Nat
        <5>1. \A m \in DOMAIN logs : logs[m].recs \in Seq(SUBSET Batches) /\ logs[m].synced \in Nat
          BY <1>5, DurablyFacts
        <5> QED BY <3>6, <5>1
      <4>4. DOMAIN logs[n].recs = 1..Len(logs[n].recs) /\ Len(logs[n].recs) \in Nat
        BY <4>3, LenProperties
      <4>5. keep[n] \in Nat /\ keep[n] <= Len(logs[n].recs)
        BY <3>2, <3>6, <4>3, <4>4
      <4>6. i \in DOMAIN logs[n].recs
        BY <4>2, <4>4, <4>5
      <4> QED BY <3>4, <3>6, <4>2, <4>6 DEF NoneTorn
    <3> QED BY <3>5, <3>6
  <2> QED BY <2>1, <2>2 DEF DurLogs
<1>7. DurSync' /\ DurReplay'
  BY <1>1, <1>2, <1>3, <1>4 DEF DurSync, DurReplay
<1>8. DurOpen'
  <2>1. OnDisk' = Recoverable(man', logs', tables)
    BY <1>1, <1>3 DEF OnDisk
  <2>2. owed' \subseteq Recoverable(man', logs', tables)
    BY <1>1, <1>3, <1>4
  <2> QED BY <1>2, <2>1, <2>2 DEF DurOpen
<1>9. WriterInv'
  <2>1. Grouped' = {}
    BY <1>2, NoGroup DEF Grouped
  <2> QED BY <1>2, <2>1, WriterNone DEF Logging
<1> QED BY <1>6, <1>7, <1>8, <1>9 DEF DurInv

LEMMA RecoverDur ==
  ASSUME Base, DurInv, Recover
  PROVE  DurInv'
<1>1. /\ phase = "down" /\ phase' = "replay"
      /\ replay' = [NoReplay EXCEPT !.todo = LogsToRead(Described, logs)]
      /\ UNCHANGED <<logs, ghosts, tables, man, tail, logfile, owed>>
  BY DEF Recover, disk, calls
<1>2. Described' = Described /\ Describable' = Describable
  BY <1>1, ManifestFrame
<1>3. Hard' = Hard /\ OnDisk' = OnDisk
      /\ LogsToRead(Described, logs)' = LogsToRead(Described, logs)
  BY <1>1, <1>2 DEF Hard, OnDisk
<1>4. logfile = 0 /\ replay'.todo = LogsToRead(Described, logs)
  BY <1>1 DEF Base, StagesInv, BackgroundInv, NoReplay
<1>5. DurReplay'
  BY <1>1, <1>3, <1>4 DEF DurReplay
<1>6. DurLogs' /\ DurSync' /\ DurOpen'
  BY <1>1, <1>2, <1>3 DEF DurInv, DurLogs, DurSync, DurOpen
<1> QED BY <1>5, <1>6 DEF DurInv

(* A log's table is new: the versions of the MANIFEST do not name it.       *)
LEMMA ReplayLeaves ==
  ASSUME Base, TablesInv, RecoverLogFile \/ RecoverLogFileFails
  PROVE  /\ phase = "replay" /\ phase' = "replay" /\ UNCHANGED <<logs, man, tail>>
         /\ vs.next \notin replay.add
         /\ tables' = tables \/ tables' = Put(tables, vs.next, Replayed)
         /\ \A F : vs.next \notin F => In(F, tables') = In(F, tables)
         /\ \A v \in Describable : \A lg :
                Recoverable(v, lg, tables') = Recoverable(v, lg, tables)
<1>1. /\ phase = "replay" /\ phase' = "replay" /\ UNCHANGED <<logs, man, tail>>
      /\ tables' = tables \/ tables' = Put(tables, vs.next, Replayed)
  BY DEF RecoverLogFile, RecoverLogFileFails, ReplayNext, disk
<1>2. /\ vs.next \in Nat /\ \A v \in Describable : v.next \in Nat
  BY BaseFacts
<1>3. /\ Below(replay.add, vs.next)
      /\ \A v \in Describable : v.next <= vs.next /\ Below(Live(v), v.next)
  BY <1>1 DEF TablesInv, TableNumbers
<1>4. vs.next \notin replay.add
  BY <1>2, <1>3 DEF Below
<1>5. ASSUME NEW v \in Describable, vs.next \in Live(v) PROVE FALSE
  <2>1. vs.next < v.next /\ v.next <= vs.next
    BY <1>3, <1>5 DEF Below
  <2> QED BY <1>2, <2>1
<1>6. \A F : vs.next \notin F => In(F, tables') = In(F, tables)
  BY <1>1, PutIn
<1>7. \A v \in Describable : \A lg :
         Recoverable(v, lg, tables') = Recoverable(v, lg, tables)
  BY <1>5, <1>6 DEF Recoverable
<1> QED BY <1>1, <1>4, <1>6, <1>7

(* Each log that is read becomes a table.  The failure of the last one is   *)
(* the failure of DB::Open.                                                 *)
LEMMA ReplayDur ==
  ASSUME Base, TablesInv, LogNumbers, DurInv, Faults \cap {"torn", "earlierlog"} = {},
         RecoverLogFile \/ RecoverLogFileFails
  PROVE  DurInv'
<1>1. /\ phase = "replay" /\ phase' = "replay" /\ logfile = 0 /\ logfile' = 0
      /\ replay.todo # {}
      /\ UNCHANGED <<logs, ghosts, man, tail, owed>>
  BY DEF RecoverLogFile, RecoverLogFileFails, ReplayNext, disk, calls
<1>2. /\ replay \in [todo : SUBSET Nat, add : SUBSET Nat, max : Nat, err : BOOLEAN]
      /\ vs.next \in Nat
      /\ \A v \in Describable : v.next \in Nat /\ Live(v) \subseteq Nat
      /\ Described \in Describable
  BY BaseFacts DEF Base, TInv, StageOK
<1>3. NextLog \in replay.todo
  BY <1>1, ReplayType DEF Base
<1>4. Described' = Described /\ Describable' = Describable /\ Hard' = Hard
      /\ LogsToRead(Described, logs)' = LogsToRead(Described, logs)
  BY <1>1, ManifestFrame DEF Hard
<1>5. \/ /\ tables' = tables /\ replay'.add = replay.add /\ Replayed = {}
         /\ replay'.todo = replay.todo \ {NextLog}
      \/ /\ tables' = Put(tables, vs.next, Replayed) /\ replay'.add = replay.add \cup {vs.next}
         /\ replay'.todo = replay.todo \ {NextLog}
      \/ /\ tables' = tables /\ replay'.err = TRUE /\ replay'.todo = {}
  <2>1. CASE RecoverLogFile /\ Replayed = {}
    <3>1. tables' = tables
          /\ replay' = [replay EXCEPT !.todo = replay.todo \ {NextLog}, !.err = FALSE]
      BY <2>1 DEF RecoverLogFile
    <3>2. replay'.todo = replay.todo \ {NextLog} /\ replay'.add = replay.add
      BY <1>2, <3>1
    <3> QED BY <2>1, <3>1, <3>2
  <2>2. CASE RecoverLogFile /\ Replayed # {}
    <3>1. /\ tables' = Put(tables, vs.next, Replayed)
          /\ replay' = [todo |-> replay.todo \ {NextLog}, add |-> replay.add \cup {vs.next},
                        max |-> MaxSeen, err |-> FALSE]
      BY <2>2 DEF RecoverLogFile
    <3>2. replay'.todo = replay.todo \ {NextLog} /\ replay'.add = replay.add \cup {vs.next}
      BY <3>1
    <3> QED BY <3>1, <3>2
  <2>3. CASE RecoverLogFileFails
    <3>1. /\ tables' = tables
          /\ replay' = [replay EXCEPT !.todo = @ \ {NextLog}, !.max = MaxSeen, !.err = TRUE]
          /\ replay.todo = {NextLog}
      BY <2>3 DEF RecoverLogFileFails, disk, Fault
    <3>2. replay'.todo = replay.todo \ {NextLog} /\ replay'.err = TRUE
      BY <1>2, <3>1
    <3> QED BY <3>1, <3>2
  <2> QED BY <2>1, <2>2, <2>3
<1>6. /\ vs.next \notin replay.add
      /\ \A F : vs.next \notin F => In(F, tables') = In(F, tables)
      /\ \A v \in Describable : \A lg :
             Recoverable(v, lg, tables') = Recoverable(v, lg, tables)
  BY ReplayLeaves
<1>7. DurReplay'
  <2>1. \A n \in LogsToRead(Described, logs) \ replay.todo :
            ReadLog(logs[n].recs) \subseteq In(replay.add, tables)
    BY <1>1 DEF DurInv, DurReplay
  <2>2. ASSUME ~(replay'.err /\ replay'.todo = {}),
               NEW n \in LogsToRead(Described, logs) \ replay'.todo
        PROVE  ReadLog(logs[n].recs) \subseteq In(replay'.add, tables')
    <3>1. replay'.todo = replay.todo \ {NextLog}
      BY <1>5, <2>2
    <3>2. In(replay.add, tables) \subseteq In(replay'.add, tables')
      <4>1. replay.add \subseteq replay'.add /\ In(replay.add, tables') = In(replay.add, tables)
        BY <1>5, <1>6, <2>2
      <4> QED BY <4>1, InLess
    <3>3. CASE n # NextLog
      BY <2>1, <2>2, <3>1, <3>2, <3>3
    <3>4. CASE n = NextLog
      <4>1. ReadLog(logs[n].recs) = Replayed
        BY <3>4 DEF Replayed
      <4>2. CASE Replayed = {}
        BY <4>1, <4>2
      <4>3. CASE tables' = Put(tables, vs.next, Replayed) /\ replay'.add = replay.add \cup {vs.next}
        <5>1. vs.next \in replay'.add /\ vs.next \in DOMAIN tables' /\ tables'[vs.next] = Replayed
          BY <4>3 DEF Put
        <5> QED BY <4>1, <5>1, InIs
      <4> QED BY <1>5, <2>2, <4>2, <4>3
    <3> QED BY <3>3, <3>4
  <2> QED BY <1>1, <1>4, <2>2 DEF DurReplay
<1>8. DurLogs' /\ DurSync'
  BY <1>1, <1>4, <1>6 DEF DurInv, DurLogs, DurSync
<1>9. DurOpen'
  <2>1. OnDisk' = OnDisk
    BY <1>1, <1>2, <1>4, <1>6 DEF OnDisk
  <2> QED BY <1>1, <2>1 DEF DurInv, DurOpen
<1> QED BY <1>7, <1>8, <1>9 DEF DurInv

LEMMA OpenLogDur ==
  ASSUME Base, Base', LogNumbers, DurInv, OpenLog
  PROVE  DurInv'
<1>1. /\ phase = "replay" /\ phase' = "replay" /\ replay.todo = {} /\ ~replay.err /\ logfile = 0
      /\ logs' = Put(logs, vs.next, [recs |-> <<>>, synced |-> 0])
      /\ UNCHANGED <<ghosts, tables, man, tail, replay, owed>>
  BY DEF OpenLog, calls
<1>2. LogsOK(logs) /\ LogsOK(logs') /\ vs.next \in Nat /\ Described \in Describable
  BY BaseFacts DEF Base, TInv, DiskOK
<1>3. vs.next \notin DOMAIN logs
  <2>1. \A n \in DOMAIN logs : n < vs.next
    BY <1>1 DEF LogNumbers
  <2> QED BY <1>2, <2>1
<1>4. /\ DOMAIN logs' = DOMAIN logs \cup {vs.next} /\ logs'[vs.next].recs = <<>>
      /\ \A m \in DOMAIN logs : logs'[m] = logs[m]
      /\ NoneTorn(logs) => NoneTorn(logs')
      /\ \A v, tb : /\ Recoverable(v, logs, tb) \subseteq Recoverable(v, logs', tb)
                    /\ Recoverable(v, Hard, tb) \subseteq Recoverable(v, Hard', tb)
  BY <1>1, <1>2, <1>3, NewLogDur
<1>5. Describable' = Describable /\ Described' = Described
  BY <1>1, ManifestFrame
<1>6. DurReplay'
  <2>1. \A n \in LogsToRead(Described, logs) : ReadLog(logs[n].recs) \subseteq In(replay.add, tables)
    BY <1>1 DEF DurInv, DurReplay
  <2>2. \A n \in LogsToRead(Described, logs') :
           ReadLog(logs'[n].recs) \subseteq In(replay.add, tables)
    BY <1>4, <2>1, ReadLogEmpty DEF LogsToRead
  <2> QED BY <1>1, <1>5, <2>2 DEF DurReplay
<1>7. DurLogs' /\ DurSync'
  BY <1>1, <1>4, <1>5 DEF DurInv, DurLogs, DurSync
<1>8. DurOpen'
  <2>1. OnDisk \subseteq OnDisk'
    BY <1>1, <1>4, <1>5 DEF OnDisk
  <2> QED BY <1>1, <2>1 DEF DurInv, DurOpen
<1> QED BY <1>6, <1>7, <1>8 DEF DurInv

(* The new MANIFEST has all that was read.                                  *)
LEMMA OpenInstallLeaves ==
  ASSUME Base, Base', TablesInv, TablesInv', LogNumbers, DurInv, SeqInv, OpenInstall
  PROVE  /\ phase = "replay" /\ phase' = "open" /\ mem' = {} /\ imm' = {} /\ logfile' = logfile
         /\ Describable' = {vs'} /\ Described' = vs' /\ vs'.log = logfile
         /\ In(Live(vs'), tables') = OnDisk
         /\ \A n \in DOMAIN logs' : n \in DOMAIN logs /\ logs'[n] = logs[n]
         /\ \A n \in DOMAIN ghosts' : \/ n \in DOMAIN ghosts /\ ghosts'[n] = ghosts[n]
                                      \/ n \in DOMAIN logs /\ ghosts'[n] = logs[n]
         /\ \A n \in DOMAIN logs : n >= logfile => ReadLog(logs[n].recs) = {}
<1>1. /\ phase = "replay" /\ phase' = "open" /\ logfile # 0
      /\ vs' = [vs EXCEPT !.log = logfile, !.l0 = @ \cup replay.add]
      /\ man' = vs' /\ tail' = <<>>
      /\ DeleteObsoleteFiles(vs', {}, {}, tables)
      /\ UNCHANGED <<mem, imm, logfile, owed>>
  BY DEF OpenInstall, calls
<1>2. mem = {} /\ imm = {}
  BY <1>1 DEF Base, StagesInv, BackgroundInv, Quiet
<1>3. /\ vs \in Version /\ Described \in Describable /\ logfile \in Nat
      /\ LogsOK(logs) /\ \A n \in DOMAIN logs : n \in Nat
  BY BaseFacts DEF Base, TInv, DiskOK, LogsOK
<1>4. Live(vs') = Live(Described) \cup replay.add /\ vs'.log = logfile
  <2>1. Live(vs') = Live(vs) \cup replay.add /\ vs'.log = logfile
    BY <1>1, <1>3 DEF Version, Live
  <2>2. Live(vs) = Live(Described)
    BY <1>1 DEF TablesInv, FilesInv, Live
  <2> QED BY <2>1, <2>2
<1>5. Describable' = {vs'} /\ Described' = vs'
  BY <1>1, CrashLeavesOne
<1>6. Live(vs') \subseteq DOMAIN tables' /\ \A n \in DOMAIN tables' : n \in DOMAIN tables
                                                              /\ tables'[n] = tables[n]
  <2>1. Live(vs') \subseteq DOMAIN tables'
    BY <1>5 DEF TablesInv, FilesInv
  <2> QED BY <1>1, <2>1, DeletedTables
<1>7. In(Live(vs'), tables') = In(Live(vs'), tables)
  BY <1>6 DEF In
<1>8. In(Live(vs'), tables) = In(Live(Described), tables) \cup In(replay.add, tables)
  <2>1. \A c : c \in In(Live(vs'), tables) <=>
                 c \in In(Live(Described), tables) \/ c \in In(replay.add, tables)
    BY <1>4, InIs
  <2> QED BY <2>1
<1>9. /\ replay.todo = {} /\ ~replay.err
      /\ \A n \in LogsToRead(Described, logs) :
            ReadLog(logs[n].recs) \subseteq In(replay.add, tables)
      /\ In(replay.add, tables) \subseteq ReplayedLogs
  BY <1>1 DEF LogNumbers, DurInv, DurReplay, SeqInv, SeqReplay
<1>10. OnDisk = In(Live(Described), tables) \cup ReplayedLogs
  BY DEF OnDisk, Recoverable, ReplayedLogs
<1>11. ReplayedLogs \subseteq In(replay.add, tables)
  BY <1>9 DEF ReplayedLogs
<1>12. /\ \A n \in DOMAIN logs' : n \in DOMAIN logs /\ logs'[n] = logs[n]
       /\ \A n \in DOMAIN ghosts' : \/ n \in DOMAIN ghosts /\ ghosts'[n] = ghosts[n]
                                    \/ n \in DOMAIN logs /\ ghosts'[n] = logs[n]
  BY <1>1 DEF DeleteObsoleteFiles, KeepsLog
<1>13. ASSUME NEW n \in DOMAIN logs, n >= logfile PROVE ReadLog(logs[n].recs) = {}
  <2>1. logs[logfile].recs = <<>> /\ n <= logfile
    BY <1>1 DEF LogNumbers
  <2>2. n = logfile
    BY <1>3, <1>13, <2>1
  <2> QED BY <2>1, <2>2, ReadLogEmpty
<1> QED BY <1>1, <1>2, <1>4, <1>5, <1>7, <1>8, <1>9, <1>10, <1>11, <1>12, <1>13

\* Once the database is open again it holds what is owed.
LEMMA OpenInstallDur ==
  ASSUME Base, Base', TablesInv, TablesInv', LogNumbers, LogNumbers', SeqInv, DurInv, OpenInstall
  PROVE  DurInv'
<1>1. owed' = owed
  BY DEF OpenInstall, calls
<1>2. /\ phase = "replay" /\ phase' = "open" /\ mem' = {} /\ imm' = {}
      /\ Describable' = {vs'} /\ Described' = vs'
      /\ In(Live(vs'), tables') = OnDisk
      /\ \A n \in DOMAIN logs' : n \in DOMAIN logs /\ logs'[n] = logs[n]
      /\ \A n \in DOMAIN ghosts' : \/ n \in DOMAIN ghosts /\ ghosts'[n] = ghosts[n]
                                   \/ n \in DOMAIN logs /\ ghosts'[n] = logs[n]
  BY OpenInstallLeaves
<1>3. owed \subseteq In(Live(vs'), tables')
  BY <1>2 DEF DurInv, DurOpen
<1>4. DurLogs'
  BY <1>2 DEF DurInv, DurLogs, NoneTorn
<1>5. DurSync' /\ DurReplay'
  <2>1. \A lg : In(Live(vs'), tables') \subseteq Recoverable(vs', lg, tables')
    BY DEF Recoverable
  <2> QED BY <1>1, <1>2, <1>3, <2>1 DEF DurSync, DurReplay
<1>6. DurOpen'
  <2>1. owed' \subseteq Held'
    BY <1>1, <1>3 DEF Held
  <2> QED BY <1>2, <2>1 DEF DurOpen
<1> QED BY <1>4, <1>5, <1>6 DEF DurInv

LEMMA OpenDur ==
  ASSUME Files, Files', SeqInv, DurInv, WriterInv, Faults \cap {"torn", "earlierlog"} = {}, OpenStep
  PROVE  DurInv' /\ WriterInv'
<1>1. Base /\ Base' /\ TablesInv /\ TablesInv' /\ LogNumbers /\ LogNumbers'
  BY DEF Files
<1>2. CASE OpenFails
  BY <1>1, <1>2, GoneDur
<1>3. CASE ~OpenFails
  <2>1. DurInv'
    BY <1>1, <1>3, RecoverDur, ReplayDur, OpenLogDur, OpenInstallDur DEF OpenStep
  <2>2. /\ group' = group /\ owed' = owed /\ pc' = pc /\ phase # "open"
    BY <1>3 DEF OpenStep, Recover, RecoverLogFile, RecoverLogFileFails, ReplayNext, OpenLog,
                OpenInstall, calls
  <2>3. group' = <<>> /\ Grouped' = {} /\ \A c \in Calls : pc'[c] \notin Logging
    BY <1>1, <2>2, NoGroup DEF Base, StagesInv, BackgroundInv, Quiet, Grouped, Logging
  <2>4. WriterInv'
    BY <2>3, WriterNone
  <2> QED BY <2>1, <2>4
<1> QED BY <1>2, <1>3

LEMMA DurStep ==
  ASSUME Files, Files', SeqInv, DurInv, WriterInv, Faults \cap {"torn", "earlierlog"} = {},
         [Next]_vars
  PROVE  DurInv' /\ WriterInv'
<1>1. Base /\ Base' /\ TablesInv /\ TablesInv' /\ LogNumbers /\ LogNumbers'
  BY DEF Files
<1>2. ASSUME NEW c \in Calls, Enqueue(c) \/ WriterStep(c) PROVE DurInv' /\ WriterInv'
  BY <1>1, <1>2, WriterDur
<1>3. CASE Pin \/ Unpin \/ Close \/ UNCHANGED vars
  BY <1>1, <1>3, IdleDur, BackgroundWriter
<1>4. CASE BackgroundStep
  BY <1>1, <1>4, BackgroundDur, BackgroundWriter
<1>5. CASE OpenStep
  BY <1>5, OpenDur
<1>6. CASE Closed \/ ProcessCrash
  BY <1>1, <1>6, GoneDur
<1>7. CASE MachineCrash
  BY <1>1, <1>7, CrashDur
<1> QED BY <1>2, <1>3, <1>4, <1>5, <1>6, <1>7, NextSteps DEF Working

LEMMA DurInit == Init => DurInv /\ WriterInv
<1> SUFFICES ASSUME Init PROVE DurInv /\ WriterInv
  OBVIOUS
<1>1. /\ phase = "down" /\ logs = <<>> /\ ghosts = <<>> /\ owed = {}
      /\ \A c \in Calls : pc[c] = "idle"
  BY DEF Init
<1>2. DurInv
  BY <1>1, EmptyLogs DEF DurInv, DurLogs, DurSync, DurReplay, DurOpen, NoneTorn
<1>3. WriterInv
  BY <1>1 DEF WriterInv, Logging
<1> QED BY <1>2, <1>3

(* No acknowledged write is lost.  While the database is open it is in the  *)
(* memtables or in a table of the current version, and no later than the    *)
(* last sequence number; while it is closed, or being opened, the logs and  *)
(* the tables that the MANIFEST names hold it.  A machine crash takes only  *)
(* what was not written with WriteOptions::sync.  This is what DBImpl::     *)
(* Write, MakeRoomForWrite, CompactMemTable, DeleteObsoleteFiles and        *)
(* RecoverLogFile do together, whatever calls, crashes and failing          *)
(* operations there are, but for two: an append that leaves part of its     *)
(* record in the log, and a log that is not the last and cannot be turned   *)
(* into a table, each of which loses a write.                               *)
THEOREM NothingOwedIsLostHolds ==
  ASSUME Faults \cap {"torn", "earlierlog"} = {}
  PROVE  Spec => []NothingOwedIsLost
<1>1. Files /\ Files' /\ SeqInv /\ DurInv /\ WriterInv /\ [Next]_vars => (DurInv /\ WriterInv)'
  BY DurStep
<1>2. Files /\ SeqInv /\ DurInv /\ WriterInv => NothingOwedIsLost
  <2> SUFFICES ASSUME Files, SeqInv, DurInv, WriterInv PROVE NothingOwedIsLost
    OBVIOUS
  <2>1. CASE phase # "open"
    BY <2>1 DEF NothingOwedIsLost, Present, DurInv, DurOpen
  <2>2. CASE phase = "open"
    <3>1. owed \subseteq Held
      BY <2>2 DEF DurInv, DurOpen
    <3>2. owed \subseteq Reach \ Grouped
      BY <2>2, <3>1 DEF Reach, WriterInv
    <3>3. \A c \in owed : seqOf[c] <= vs.last
      BY <2>2, <3>2 DEF SeqInv, SeqLast
    <3> QED BY <2>2, <3>1, <3>3 DEF NothingOwedIsLost, Present, Visible
  <2> QED BY <2>1, <2>2
<1> QED BY <1>1, <1>2, DurInit, SeqHolds, PTL DEF Spec

-----------------------------------------------------------------------------
(***************************************************************************)
(* The promise of DurableStore.                                            *)
(***************************************************************************)
\* The faults that break it: an append whose record stays in the buffer, or
\* in part in the file, and an earlier log that cannot be replayed.
Reliable == Faults \cap {"torn", "append", "earlierlog"} = {}

\* A write has no answer before its call leaves the queue, and an answer, or
\* none for ever, once the process is gone.
Failed == {c \in Batches : status[c] = "err"}
AnswerInv ==
    \A c \in Calls :
      /\ pc[c] \in {"idle", "wait"} \cup InFront => status[c] = "none"
      /\ phase # "open" /\ pc[c] # "idle" => status[c] \in {"ok", "gone"}
      /\ pc[c] \in {"flush", "flushstall"} => c \in Forced
      /\ pc[c] # "failed"

\* Nothing else can be recovered than what is held, what the front writer
\* has logged, and, in the current log after a failed sync, its last group.
OnlyHeld ==
    IF phase = "open"
    THEN /\ \A v \in Describable : In(Live(v), tables) \subseteq imm \cup In(Live(vs), tables)
         /\ \A n \in DOMAIN logs : n >= vs.log /\ n # logfile =>
               ReadLog(logs[n].recs) \subseteq imm \cup In(Live(vs), tables)
         /\ ReadLog(logs[logfile].recs) \subseteq mem \cup Grouped \cup Failed
         /\ ~bgErr => ReadLog(logs[logfile].recs) \subseteq mem \cup Grouped
    ELSE \A v \in Describable : Recoverable(v, logs, tables) \subseteq OnDisk

\* The memtable has a group's writes only when its writer has put them there.
NotYet == \A c \in Calls : pc[c] \in Logging \ {"finish"} => Held \cap Grouped = {}

KeptInv == AnswerInv /\ OnlyHeld /\ NotYet
Known == Surviving \cup OnDisk \subseteq Present \cup Limbo /\ Surviving \subseteq OnDisk

\* What every version that may be found recovers from what was synced.
LEMMA SurvivingIs ==
  /\ Surviving = {c \in Batches : \A v \in Describable : c \in Recoverable(v, Hard, tables)}
  /\ Surviving' = {c \in Batches : \A v \in Describable' : c \in Recoverable(v, Hard', tables')}
BY DEF Surviving, Synced, Hard, Durably

\* What was synced is there.
LEMMA HardIsThere ==
  ASSUME Base, NEW v, NEW tb
  PROVE  Recoverable(v, Hard, tb) \subseteq Recoverable(v, logs, tb)
<1>1. LogsOK(logs) /\ DOMAIN Hard = DOMAIN logs
  BY DurablyFacts DEF Base, TInv, DiskOK, Hard
<1>2. \A n \in DOMAIN logs : ReadLog(Hard[n].recs) \subseteq ReadLog(logs[n].recs)
  BY <1>1, DurablyLess DEF Hard
<1> QED BY <1>1, <1>2, RecoverableMore

(* A group waits for its answer, and nobody sees it yet.                    *)
LEMMA GroupInLimbo ==
  ASSUME Base, SeqInv, AnswerInv, phase = "open"
  PROVE  Grouped \subseteq Limbo /\ Grouped \cap Visible = {}
<1> SUFFICES ASSUME NEW d \in Grouped PROVE d \in Limbo /\ d \notin Visible
  OBVIOUS
<1>1. d \in Batches /\ d \in Calls /\ seqOf[d] \in Nat /\ vs.last \in Nat
  BY GroupedFacts
<1>2. d \notin Visible
  <2>1. seqOf[d] > vs.last
    BY DEF SeqInv, SeqLast
  <2> QED BY <1>1, <2>1 DEF Visible
<1>3. PICK c \in Calls : pc[c] \in Logging
  <2>1. group # <<>>
    BY NoGroup DEF Grouped
  <2> QED BY <2>1 DEF Base, StagesInv, LoggingInv
<1>4. /\ Grouped = {queue[i] : i \in 1..Len(group)} \ Forced
      /\ Len(group) \in 1..Len(queue) /\ Len(queue) \in Nat
  BY <1>3, LoggingGroup
<1>5. PICK i \in 1..Len(queue) : d = queue[i]
  BY <1>4
<1>6. pc[d] \in InFront \cup {"wait"}
  BY <1>5 DEF Base, QInv, FrontWriterOnly
<1>7. status[d] = "none" /\ pc[d] # "idle"
  BY <1>1, <1>6 DEF AnswerInv, InFront, Logging
<1> QED BY <1>1, <1>2, <1>7 DEF Limbo, Present

(* Whatever is held, or can be recovered, is seen or in limbo.              *)
LEMMA KeptIsKnown ==
  ASSUME Base, LogNumbers, SeqInv, DurOpen, KeptInv
  PROVE  Known
<1>1. Described \in Describable /\ \A v \in Describable : v.log \in Nat
  BY BaseFacts
<1>2. Surviving \subseteq OnDisk
  BY <1>1, SurvivingIs, HardIsThere DEF OnDisk
<1>3. CASE phase # "open"
  BY <1>2, <1>3 DEF Known, Present
<1>4. CASE phase = "open"
  <2>1. Held \subseteq Present \cup Limbo
    <3> SUFFICES ASSUME NEW c \in Held, c \notin Grouped PROVE c \in Visible
      BY <1>4, GroupInLimbo DEF KeptInv, Present
    <3>1. seqOf[c] <= vs.last
      BY <1>4 DEF SeqInv, SeqLast, Reach
    <3> QED BY <3>1 DEF Visible
  <2>2. Grouped \subseteq Limbo
    BY <1>4, GroupInLimbo DEF KeptInv
  <2>3. Failed \subseteq Present \cup Limbo
    <3> SUFFICES ASSUME NEW c \in Failed, pc[c] = "idle" PROVE FALSE
      BY DEF Failed, Limbo
    <3> QED BY DEF Failed, KeptInv, AnswerInv, Batches
  <2>4. ASSUME NEW c \in OnDisk PROVE c \in Present \cup Limbo
    <3>1. CASE c \in In(Live(Described), tables)
      <4>1. c \in Held
        BY <1>1, <1>4, <3>1 DEF KeptInv, OnlyHeld, Held
      <4> QED BY <2>1, <4>1
    <3>2. CASE c \notin In(Live(Described), tables)
      <4>1. PICK n \in DOMAIN logs : n >= Described.log /\ c \in ReadLog(logs[n].recs)
        BY <2>4, <3>2, RecoverableIs DEF OnDisk
      <4>2. n >= vs.log
        <5>1. vs.log <= Described.log /\ vs.log \in Nat /\ n \in Nat /\ Described.log \in Nat
          BY <1>1, <1>4, BaseFacts DEF LogNumbers, Base, TInv, DiskOK, LogsOK
        <5> QED BY <4>1, <5>1
      <4>3. c \in Held \cup Grouped \cup Failed
        BY <1>4, <4>1, <4>2 DEF KeptInv, OnlyHeld, Held
      <4> QED BY <2>1, <2>2, <2>3, <4>3
    <3> QED BY <3>1, <3>2
  <2> QED BY <1>2, <2>4 DEF Known
<1> QED BY <1>3, <1>4

-----------------------------------------------------------------------------
(***************************************************************************)
(* Answers.                                                                *)
(***************************************************************************)
Waiting == {"idle", "wait"} \cup InFront

\* The first n calls leave the queue.
LEMMA LeaveAnswers ==
  ASSUME Base, AnswerInv, NEW n \in 1..Len(queue), NEW st \in {"ok", "err"}, NEW p,
         p = pc \/ p = Woken(pc), Leave(n, st, p), phase' = phase, phase = "open"
  PROVE  /\ AnswerInv' /\ Failed \subseteq Failed'
         /\ \A d \in Calls : status'[d] # status[d] =>
                status[d] = "none" /\ pc[d] # "idle" /\ status'[d] = st
         /\ \A i \in 1..n : status'[queue[i]] = st
         /\ \A d \in Calls : (\A i \in 1..n : d # queue[i]) => status'[d] = status[d]
         /\ \A d \in Calls : pc'[d] = "idle" <=> pc[d] = "idle"
<1> DEFINE gone == Range(SubSeq(queue, 1, n))
           rest == SubSeq(queue, n + 1, Len(queue))
<1>1. /\ queue \in Seq(Calls) /\ Len(queue) \in Nat /\ n \in Nat
      /\ \A i \in 1..Len(queue) : queue[i] \in Calls /\ pc[queue[i]] \in InFront \cup {"wait"}
      /\ pc \in [Calls -> Stages]
  BY QueuedNotDone DEF Base, QInv, QueueType, FrontWriterOnly
<1>2. gone = {queue[i] : i \in 1..n}
  <2>1. /\ SubSeq(queue, 1, n) \in Seq(Calls)
        /\ Len(SubSeq(queue, 1, n)) = n
        /\ \A i \in 1..n : SubSeq(queue, 1, n)[i] = queue[i]
    BY <1>1, SubSeqProperties
  <2>2. DOMAIN SubSeq(queue, 1, n) = 1..n
    BY <2>1, LenProperties
  <2> QED BY <2>1, <2>2 DEF Range
<1>3. rest # <<>> => \E i \in 1..Len(queue) : rest[1] = queue[i]
  <2> SUFFICES ASSUME rest # <<>> PROVE \E i \in 1..Len(queue) : rest[1] = queue[i]
    OBVIOUS
  <2>1. /\ rest \in Seq(Calls)
        /\ Len(rest) = Len(queue) - n
        /\ \A i \in 1..Len(rest) : rest[i] = queue[n + i]
    BY <1>1, SubSeqProperties
  <2>2. 1 \in 1..Len(rest)
    <3> HIDE DEF rest
    <3> QED BY <2>1, EmptySeq, LenProperties
  <2> HIDE DEF rest
  <2>3. PICK k \in Nat : k = Len(rest)
    BY <2>1, LenProperties
  <2>4. n + 1 \in 1..Len(queue)
    <3>1. k = Len(queue) - n /\ 1 <= k
      BY <2>1, <2>2, <2>3
    <3> QED BY <1>1, <3>1
  <2>5. rest[1] = queue[n + 1]
    BY <2>1, <2>2
  <2> QED BY <2>4, <2>5
<1>4. /\ pc' = [c \in Calls |->
               IF c \in gone
               THEN IF st = "ok" /\ c \in Forced THEN "flush" ELSE "done"
               ELSE IF rest # <<>> /\ c = rest[1] THEN "room" ELSE p[c]]
      /\ status' = [c \in Calls |-> IF c \in gone THEN st ELSE status[c]]
  BY DEF Leave
<1>5. \A d \in gone : d \in Calls /\ pc[d] \in Waiting \ {"idle"} /\ status[d] = "none"
  <2>1. \A i \in 1..n : i \in 1..Len(queue)
    BY <1>1
  <2> QED BY <1>1, <1>2, <2>1 DEF AnswerInv, Waiting, InFront, Logging
<1>6. rest # <<>> => pc[rest[1]] \in Waiting \ {"idle"} /\ rest[1] \in Calls
  BY <1>1, <1>3 DEF Waiting, InFront, Logging
<1> HIDE DEF gone, rest
<1>7. \A d \in Calls : /\ p[d] \in Waiting => pc[d] \in Waiting
                       /\ p[d] \in {"flush", "flushstall"} => pc[d] \in {"flush", "flushstall"}
                       /\ p[d] = "failed" => pc[d] = "failed"
                       /\ p[d] = "idle" <=> pc[d] = "idle"
  BY <1>1 DEF Woken, Waiting, InFront, Logging
<1>8. ASSUME NEW d \in Calls
      PROVE  /\ pc'[d] \in Waiting => status'[d] = "none"
             /\ pc'[d] \in {"flush", "flushstall"} => d \in Forced
             /\ pc'[d] # "failed"
             /\ pc'[d] = "idle" <=> pc[d] = "idle"
  <2>1. CASE d \in gone
    BY <1>4, <1>5, <2>1 DEF Waiting, InFront, Logging
  <2>2. CASE d \notin gone /\ rest # <<>> /\ d = rest[1]
    BY <1>4, <1>6, <2>2 DEF AnswerInv, Waiting, InFront, Logging
  <2>3. CASE d \notin gone /\ ~(rest # <<>> /\ d = rest[1])
    <3>1. pc'[d] = p[d] /\ status'[d] = status[d]
      BY <1>4, <2>3
    <3> QED BY <1>7, <3>1 DEF AnswerInv, Waiting
  <2> QED BY <2>1, <2>2, <2>3
<1>9. AnswerInv'
  BY <1>8 DEF AnswerInv, Waiting
<1>10. \A d \in Calls : status'[d] # status[d] =>
                status[d] = "none" /\ pc[d] # "idle" /\ status'[d] = st
  BY <1>4, <1>5
<1>11. Failed \subseteq Failed'
  BY <1>10 DEF Failed, Batches
<1>12. \A i \in 1..n : status'[queue[i]] = st
  <2>1. \A i \in 1..n : queue[i] \in gone
    BY <1>2
  <2> QED BY <1>4, <1>5, <2>1
<1>13. \A d \in Calls : (\A i \in 1..n : d # queue[i]) => status'[d] = status[d]
  BY <1>2, <1>4
<1> QED BY <1>8, <1>9, <1>10, <1>11, <1>12, <1>13

\* The steps that answer nobody.
LEMMA AnswersFrame ==
  ASSUME Base, AnswerInv, phase = "open", phase' = "open", status' = status,
         \A d \in Calls : /\ pc'[d] \in Waiting => pc[d] \in Waiting
                          /\ pc'[d] \in {"flush", "flushstall"} => pc[d] \in {"flush", "flushstall"}
                          /\ pc'[d] # "failed"
  PROVE  AnswerInv' /\ Failed' = Failed
BY DEF AnswerInv, Waiting, Failed

LEMMA GoneAnswers ==
  ASSUME Base, AnswerInv, Gone
  PROVE  AnswerInv' /\ Limbo' = {} /\ Acked' = Acked
<1>1. /\ phase' = "down"
      /\ pc' = [c \in Calls |-> IF pc[c] = "idle" THEN "idle" ELSE "done"]
      /\ status' = [c \in Calls |-> IF pc[c] # "idle" /\ status[c] # "ok"
                                   THEN "gone" ELSE status[c]]
  BY DEF Gone
<1>2. status \in [Calls -> {"none", "ok", "err", "gone"}]
  BY DEF Base, TInv, CallsOK
<1>3. AnswerInv'
  BY <1>1, <1>2 DEF AnswerInv, InFront, Logging
<1>4. Limbo' = {}
  BY <1>1, <1>2 DEF Limbo, Batches
<1>5. Acked' = Acked
  BY <1>1, <1>2 DEF Acked, Batches
<1> QED BY <1>3, <1>4, <1>5

-----------------------------------------------------------------------------
(***************************************************************************)
(* Steps of the promise.                                                   *)
(***************************************************************************)
\* A step keeps the invariant, and is one of the promise's.
Kept == KeptInv' /\ (Known' => Promise!Next)

\* What is answered and seen stays; more may be safe.
LEMMA Hardens ==
  ASSUME Known', Present' = Present, Surviving \subseteq Surviving',
         Limbo' = Limbo, Acked' = Acked
  PROVE  Promise!Next
BY DEF Known, Promise!Next, Promise!Harden

\* A call in limbo stays there while it has no answer, or an error.
LEMMA LimboSame ==
  ASSUME Base, Present' = Present,
         \A c \in Batches : /\ pc'[c] = "idle" <=> pc[c] = "idle"
                            /\ \/ status'[c] = status[c]
                               \/ status[c] = "none" /\ status'[c] = "err"
  PROVE  Limbo' = Limbo /\ Acked' = Acked
BY DEF Limbo, Acked

\* What is held has been answered, or belongs to the group being written.
LEMMA HeldAreBatches ==
  ASSUME SeqInv, phase = "open"
  PROVE  Held \subseteq Batches /\ \A c \in Held : pc[c] = "done" \/ c \in Grouped
BY DEF SeqInv, SeqReach, Reach

\* While the database is open, versions and logs bring in nothing new.
Settled == imm \cup In(Live(vs), tables)
LEMMA OnlyHeldOpen ==
  ASSUME Base, OnlyHeld, phase = "open", phase' = "open", logfile' = logfile,
         Settled \subseteq Settled',
         \A v \in Describable' : In(Live(v), tables') \subseteq Settled \cup Settled',
         \A n \in DOMAIN logs' : n >= vs'.log /\ n # logfile =>
            /\ n \in DOMAIN logs /\ n >= vs.log
            /\ ReadLog(logs'[n].recs) \subseteq ReadLog(logs[n].recs),
         ReadLog(logs'[logfile].recs) \subseteq ReadLog(logs[logfile].recs) \cup Grouped',
         mem \cup Grouped \subseteq mem' \cup Grouped' \cup Failed', Failed \subseteq Failed',
         bgErr' \/ mem \cup Grouped \subseteq mem' \cup Grouped', bgErr => bgErr'
  PROVE  OnlyHeld'
<1>1. \A v \in Describable' : In(Live(v), tables') \subseteq Settled'
  OBVIOUS
<1>2. ASSUME NEW n \in DOMAIN logs', n >= vs'.log, n # logfile
      PROVE  ReadLog(logs'[n].recs) \subseteq Settled'
  <2>1. ReadLog(logs[n].recs) \subseteq Settled
    BY <1>2 DEF OnlyHeld, Settled
  <2> QED BY <1>2, <2>1
<1>3. ReadLog(logs'[logfile].recs) \subseteq mem' \cup Grouped' \cup Failed'
  <2>1. ReadLog(logs[logfile].recs) \subseteq mem \cup Grouped \cup Failed
    BY DEF OnlyHeld
  <2> QED BY <2>1
<1>4. ~bgErr' => ReadLog(logs'[logfile].recs) \subseteq mem' \cup Grouped'
  <2> SUFFICES ASSUME ~bgErr' PROVE ReadLog(logs'[logfile].recs) \subseteq mem' \cup Grouped'
    OBVIOUS
  <2>1. ReadLog(logs[logfile].recs) \subseteq mem \cup Grouped
    BY DEF OnlyHeld
  <2> QED BY <2>1
<1>5. /\ \A v \in Describable' : In(Live(v), tables') \subseteq imm' \cup In(Live(vs'), tables')
      /\ \A n \in DOMAIN logs' : n >= vs'.log /\ n # logfile' =>
            ReadLog(logs'[n].recs) \subseteq imm' \cup In(Live(vs'), tables')
  BY <1>1, <1>2 DEF Settled
<1> QED BY <1>3, <1>4, <1>5 DEF OnlyHeld

\* Nothing else than the disk decides what survives.
LEMMA SurvivingSame ==
  ASSUME UNCHANGED <<logs, tables, man, tail>>
  PROVE  Surviving' = Surviving
<1>1. Hard' = Hard /\ Describable' = Describable
  BY ManifestFrame DEF Hard
<1>2. ASSUME NEW c, NEW v PROVE c \in Recoverable(v, Hard', tables') <=> c \in Recoverable(v, Hard, tables)
  BY <1>1
<1> QED BY <1>1, <1>2, SurvivingIs

\* The steps that leave what is stored alone.
LEMMA QuietKept ==
  ASSUME Base, KeptInv, phase = "open", phase' = "open",
         UNCHANGED <<logs, tables, man, tail, mem, imm, logfile, group>>,
         vs'.log = vs.log, vs'.last = vs.last, Live(vs') = Live(vs), bgErr => bgErr',
         AnswerInv', Failed \subseteq Failed',
         \A c \in Calls : pc'[c] \in Logging \ {"finish"} => pc[c] \in Logging \ {"finish"},
         \A c \in Held : seqOf'[c] = seqOf[c]
  PROVE  KeptInv' /\ Surviving' = Surviving /\ Present' = Present
<1>1. /\ Held' = Held /\ Grouped' = Grouped /\ Settled' = Settled
      /\ Describable' = Describable
  BY ManifestFrame DEF Held, Grouped, Settled
<1>2. OnlyHeld'
  <2>1. \A v \in Describable' : In(Live(v), tables') \subseteq Settled \cup Settled'
    BY <1>1 DEF KeptInv, OnlyHeld, Settled
  <2> QED BY <1>1, <2>1, OnlyHeldOpen DEF KeptInv
<1>3. NotYet'
  BY <1>1 DEF KeptInv, NotYet
<1>4. Present' = Present
  BY <1>1 DEF Present, Visible
<1> QED BY <1>2, <1>3, <1>4, SurvivingSame DEF KeptInv

\* The same of the answers, for the steps that leave the memtables alone.
LEMMA QuietSteps ==
  ASSUME Base, KeptInv, phase = "open", phase' = "open",
         UNCHANGED <<logs, tables, man, tail, mem, imm, logfile, group>>,
         vs'.log = vs.log, vs'.last = vs.last, Live(vs') = Live(vs), bgErr => bgErr',
         AnswerInv', Failed \subseteq Failed',
         \A c \in Calls : pc'[c] \in Logging \ {"finish"} => pc[c] \in Logging \ {"finish"},
         \A c \in Held : seqOf'[c] = seqOf[c],
         \A c \in Batches : /\ pc'[c] = "idle" <=> pc[c] = "idle"
                            /\ \/ status'[c] = status[c]
                               \/ status[c] = "none" /\ status'[c] = "err"
  PROVE  Kept
<1>1. KeptInv' /\ Surviving' = Surviving /\ Present' = Present
  BY QuietKept
<1>2. Limbo' = Limbo /\ Acked' = Acked
  BY <1>1, LimboSame
<1> QED BY <1>1, <1>2, Hardens DEF Kept

\* A call enters the queue: into limbo.
LEMMA EnqueueKept ==
  ASSUME Base, SeqInv, KeptInv, NEW c \in Calls, Enqueue(c)
  PROVE  Kept
<1>1. /\ phase = "open" /\ phase' = "open" /\ pc[c] = "idle"
      /\ UNCHANGED <<logs, tables, man, tail, mem, imm, logfile, group, vs, bgErr, status>>
      /\ pc \in [Calls -> Stages]
      /\ pc' = [pc EXCEPT ![c] = IF queue = <<>> THEN "room" ELSE "wait"]
      /\ seqOf' = IF c \in Forced THEN [seqOf EXCEPT ![c] = vs.last] ELSE seqOf
      /\ seqOf \in [Calls -> Nat]
  BY DEF Enqueue, disk, core, flags, bg, Base, QInv, QueueType, TInv, CallsOK
<1>2. AnswerInv' /\ Failed' = Failed
  BY <1>1 DEF KeptInv, AnswerInv, Failed, InFront, Logging
<1>3. \A d \in Calls : pc'[d] \in Logging \ {"finish"} => pc[d] \in Logging \ {"finish"}
  BY <1>1 DEF Logging
<1>4. c \notin Held
  BY <1>1, HeldAreBatches, GroupedBusy
<1>5. \A d \in Held : seqOf'[d] = seqOf[d]
  BY <1>1, <1>4, HeldAreBatches DEF Batches
<1>6. KeptInv' /\ Surviving' = Surviving /\ Present' = Present
  BY <1>1, <1>2, <1>3, <1>5, QuietKept
<1>7. CASE c \in Forced
  <2>1. \A d \in Batches : (pc'[d] = "idle" <=> pc[d] = "idle") /\ status'[d] = status[d]
    BY <1>1, <1>7 DEF Batches
  <2> QED BY <1>6, <2>1, LimboSame, Hardens DEF Kept
<1>8. CASE c \in Batches
  <2>1. c \notin Present \cup Limbo
    BY <1>1, <1>4 DEF Present, Visible, Limbo
  <2>2. status[c] = "none"
    BY <1>1 DEF KeptInv, AnswerInv
  <2>3. Limbo' = Limbo \cup {c} /\ Acked' = Acked
    BY <1>1, <1>6, <1>8, <2>1, <2>2 DEF Limbo, Acked, Batches
  <2> QED BY <1>6, <1>8, <2>1, <2>3 DEF Kept, Promise!Next, Promise!Submit
<1> QED BY <1>7, <1>8 DEF Batches

-----------------------------------------------------------------------------
\* The calls that only wait.
LEMMA WaitKept ==
  ASSUME Base, KeptInv, NEW c \in Calls,
         RoomDelay(c) \/ RoomStall(c) \/ ForceWaits(c) \/ ForceReturns(c) \/ SyncLogFails(c)
  PROVE  Kept
<1>1. phase = "open" /\ phase' = "open"
  BY WorkingStaysOpen DEF Working, Base, StagesInv, WriterStep
<1>2. /\ UNCHANGED <<logs, tables, man, tail, mem, imm, logfile, group, vs, bgErr, seqOf>>
      /\ pc \in [Calls -> Stages] /\ status \in [Calls -> {"none", "ok", "err", "gone"}]
  BY DEF RoomDelay, RoomStall, ForceWaits, ForceReturns, SyncLogFails, disk, core, flags,
         Base, QInv, QueueType, TInv, CallsOK
<1>3. CASE RoomDelay(c) \/ RoomStall(c) \/ ForceWaits(c) \/ SyncLogFails(c)
  <2>1. /\ status' = status
        /\ \/ pc' = pc
           \/ pc[c] = "room" /\ pc' = [pc EXCEPT ![c] = "stall"]
           \/ pc[c] = "flush" /\ pc' = [pc EXCEPT ![c] = "flushstall"]
           \/ pc[c] = "sync" /\ pc' = [pc EXCEPT ![c] = "syncfailed"]
    BY <1>3 DEF RoomDelay, RoomStall, ForceWaits, SyncLogFails, AtFront
  <2>2. AnswerInv' /\ Failed' = Failed
    BY <1>1, <1>2, <2>1, AnswersFrame DEF KeptInv, AnswerInv, Waiting, InFront, Logging
  <2>3. \A d \in Calls : /\ pc'[d] \in Logging \ {"finish"} => pc[d] \in Logging \ {"finish"}
                         /\ pc'[d] = "idle" <=> pc[d] = "idle"
    BY <1>2, <2>1 DEF Logging
  <2> QED BY <1>1, <1>2, <2>1, <2>2, <2>3, QuietSteps DEF Batches
<1>4. CASE ForceReturns(c)
  <2>1. /\ pc[c] = "flush" /\ pc' = [pc EXCEPT ![c] = "done"]
        /\ \E st : status' = [status EXCEPT ![c] = st]
    BY <1>4 DEF ForceReturns
  <2>2. c \in Forced
    BY <2>1 DEF KeptInv, AnswerInv
  <2>3. AnswerInv'
    BY <1>1, <1>2, <2>1 DEF KeptInv, AnswerInv, InFront, Logging
  <2>4. \A d \in Calls : /\ pc'[d] \in Logging \ {"finish"} => pc[d] \in Logging \ {"finish"}
                         /\ pc'[d] = "idle" <=> pc[d] = "idle"
    BY <1>2, <2>1 DEF Logging
  <2>5. \A d \in Batches : d \in Calls /\ status'[d] = status[d]
    BY <1>2, <2>1, <2>2 DEF Batches
  <2>6. Failed \subseteq Failed'
    BY <2>5 DEF Failed
  <2> QED BY <1>1, <1>2, <2>3, <2>4, <2>5, <2>6, QuietSteps
<1> QED BY <1>3, <1>4

\* The steps of readers and of the background thread that store nothing.
LEMMA IdleKept ==
  ASSUME Base, KeptInv,
         \/ Pin \/ Unpin \/ Close \/ BackgroundNothing
         \/ FlushStart \/ FlushFails \/ CompactionStart \/ OpenCompactionOutputFile
         \/ CompactionFails
  PROVE  Kept
<1>1. phase = "open" /\ phase' = "open"
  <2>1. Working
    BY DEF Working, BackgroundStep
  <2> QED BY <2>1, WorkingStaysOpen DEF Base, StagesInv
<1>2. UNCHANGED <<logs, tables, man, tail, mem, imm, logfile, group, seqOf, status>>
  BY DEF Pin, Unpin, Close, BackgroundNothing, FlushStart, FlushFails, CompactionStart,
         OpenCompactionOutputFile, CompactionFails, disk, core, calls, flags
<1>3. pc' = pc \/ pc' = Woken(pc)
  BY DEF Pin, Unpin, Close, BackgroundNothing, FlushStart, FlushFails, CompactionStart,
         OpenCompactionOutputFile, CompactionFails, BackgroundEnd, calls
<1>4. vs' = vs \/ vs' = [vs EXCEPT !.next = @ + 1]
  BY DEF Pin, Unpin, Close, BackgroundNothing, FlushStart, FlushFails, CompactionStart,
         OpenCompactionOutputFile, CompactionFails, core
<1>5. vs'.log = vs.log /\ vs'.last = vs.last /\ Live(vs') = Live(vs)
  BY <1>4, BaseFacts DEF Version, Live
<1>6. bgErr => bgErr'
  BY DEF Pin, Unpin, Close, BackgroundNothing, FlushStart, FlushFails, CompactionStart,
         OpenCompactionOutputFile, CompactionFails, flags
<1>7. \A c \in Calls : /\ pc'[c] \in Waiting => pc[c] \in Waiting
                       /\ pc'[c] \in {"flush", "flushstall"} => pc[c] \in {"flush", "flushstall"}
                       /\ pc'[c] = "failed" => pc[c] = "failed"
                       /\ pc'[c] \in Logging \ {"finish"} => pc[c] \in Logging \ {"finish"}
                       /\ pc'[c] = "idle" <=> pc[c] = "idle"
  BY <1>3 DEF Woken, Waiting, InFront, Logging
<1>8. AnswerInv' /\ Failed' = Failed
  BY <1>1, <1>2, <1>7, AnswersFrame DEF KeptInv, AnswerInv
<1> QED BY <1>1, <1>2, <1>5, <1>6, <1>7, <1>8, QuietSteps DEF Batches

\* Who has found room has not been stored; who found none has an answer.
LEMMA RoomAnswers ==
  ASSUME Base, SeqInv, AnswerInv, NEW c \in Calls, phase = "open", phase' = "open", pc[c] = "room",
         \/ StartLogging(c)
         \/ \E st \in {"ok", "err"} : /\ Leave(1, st, pc) /\ seqOf' = seqOf
                                      /\ st = "ok" => c \in Forced
  PROVE  /\ AnswerInv' /\ Failed \subseteq Failed'
         /\ Held \cap Grouped' = {}
         /\ \A d \in Held : seqOf'[d] = seqOf[d]
         /\ \A d \in Batches : /\ pc'[d] = "idle" <=> pc[d] = "idle"
                               /\ \/ status'[d] = status[d]
                                  \/ status[d] = "none" /\ status'[d] = "err"
<1>1. Grouped = {} /\ group = <<>> /\ queue # <<>> /\ queue[1] = c
  BY FrontAlone
<1>2. Held \subseteq Batches /\ \A d \in Held : pc[d] = "done"
  BY <1>1, HeldAreBatches
<1>3. CASE StartLogging(c)
  <2>1. /\ \A d \in Grouped' : pc[d] \notin {"idle", "done"}
        /\ \A d \in Calls \ Grouped' : seqOf'[d] = seqOf[d]
        /\ pc' = [pc EXCEPT ![c] = "append"] /\ status' = status
    BY <1>3, StartNumbers DEF StartLogging
  <2>2. pc \in [Calls -> Stages]
    BY DEF Base, QInv, QueueType
  <2>3. AnswerInv' /\ Failed' = Failed
    BY <2>1, <2>2, AnswersFrame DEF AnswerInv, Waiting, InFront, Logging
  <2>4. Held \cap Grouped' = {}
    BY <1>2, <2>1
  <2>5. \A d \in Held : seqOf'[d] = seqOf[d]
    BY <1>2, <2>1, <2>4 DEF Batches
  <2>6. \A d \in Batches : (pc'[d] = "idle" <=> pc[d] = "idle") /\ status'[d] = status[d]
    BY <2>1, <2>2 DEF Batches
  <2> QED BY <2>3, <2>4, <2>5, <2>6
<1>4. ASSUME NEW st \in {"ok", "err"}, Leave(1, st, pc), seqOf' = seqOf, st = "ok" => c \in Forced
      PROVE  /\ AnswerInv' /\ Failed \subseteq Failed'
             /\ Held \cap Grouped' = {}
             /\ \A d \in Held : seqOf'[d] = seqOf[d]
             /\ \A d \in Batches : /\ pc'[d] = "idle" <=> pc[d] = "idle"
                                   /\ \/ status'[d] = status[d]
                                      \/ status[d] = "none" /\ status'[d] = "err"
  <2>1. 1 \in 1..Len(queue)
    <3>1. queue \in Seq(Calls)
      BY DEF Base, QInv, QueueType
    <3>2. Len(queue) \in Nat \ {0}
      BY <1>1, <3>1, EmptySeq, LenProperties
    <3> QED BY <3>2
  <2>2. /\ AnswerInv' /\ Failed \subseteq Failed'
        /\ \A d \in Calls : status'[d] # status[d] =>
               status[d] = "none" /\ pc[d] # "idle" /\ status'[d] = st
        /\ \A d \in Calls : (\A i \in 1..1 : d # queue[i]) => status'[d] = status[d]
        /\ \A d \in Calls : pc'[d] = "idle" <=> pc[d] = "idle"
    BY <1>4, <2>1, LeaveAnswers
  <2>3. \A d \in Batches : d \in Calls /\ (status'[d] # status[d] => d = c)
    BY <1>1, <2>2 DEF Batches
  <2>4. \A d \in Batches : status'[d] # status[d] => st = "err"
    BY <1>4, <2>3 DEF Batches
  <2>5. group' = <<>>
    BY <1>4 DEF Leave
  <2>6. Grouped' = {}
    BY <2>5, NoGroup DEF Grouped
  <2> QED BY <1>4, <2>2, <2>3, <2>4, <2>6
<1> QED BY <1>3, <1>4

-----------------------------------------------------------------------------
\* What is in the first log goes to the memtable that is flushed; the new
\* log is empty.
LEMMA SwitchKept ==
  ASSUME Base, Base', LogNumbers, KeptInv, NEW c \in Calls, RoomSwitch(c),
         phase = "open", Grouped = {}
  PROVE  /\ OnlyHeld' /\ Held' = Held /\ Surviving \subseteq Surviving'
         /\ vs'.last = vs.last
<1>1. /\ phase' = "open" /\ ~bgErr /\ ~hasImm
      /\ logs' = Put(logs, vs.next, [recs |-> <<>>, synced |-> 0])
      /\ logfile' = vs.next
      /\ vs' = [vs EXCEPT !.next = @ + 1]
      /\ imm' = mem /\ mem' = {} /\ UNCHANGED <<tables, man, tail>>
  BY DEF RoomSwitch, CanSwitch, AtFront, flags
<1>2. /\ LogsOK(logs) /\ LogsOK(logs') /\ vs.next \in Nat /\ imm = {}
      /\ logfile \in DOMAIN logs /\ logfile < vs.next /\ \A n \in DOMAIN logs : n <= logfile
  BY <1>1, BaseFacts DEF Base, TInv, DiskOK, LogNumbers, StagesInv, BackgroundInv
<1>3. vs'.log = vs.log /\ vs'.last = vs.last /\ Live(vs') = Live(vs)
  BY <1>1, BaseFacts DEF Version, Live
<1>4. vs.next \notin DOMAIN logs
  <2>1. logfile \in Nat /\ \A n \in DOMAIN logs : n \in Nat
    BY <1>2, BaseFacts DEF LogsOK
  <2> QED BY <1>2, <2>1
<1>5. /\ DOMAIN logs' = DOMAIN logs \cup {vs.next} /\ logs'[vs.next].recs = <<>>
      /\ \A m \in DOMAIN logs : logs'[m] = logs[m]
      /\ \A v, tb : Recoverable(v, Hard, tb) \subseteq Recoverable(v, Hard', tb)
  BY <1>1, <1>2, <1>4, NewLogDur
<1>6. Describable' = Describable
  BY <1>1, ManifestFrame
<1>7. Held' = Held
  BY <1>1, <1>2, <1>3 DEF Held
<1>8. Surviving \subseteq Surviving'
  BY <1>1, <1>5, <1>6, SurvivingIs
<1>9. OnlyHeld'
  <2>1. /\ \A v \in Describable : In(Live(v), tables) \subseteq In(Live(vs), tables)
        /\ \A n \in DOMAIN logs : n >= vs.log /\ n # logfile =>
              ReadLog(logs[n].recs) \subseteq In(Live(vs), tables)
        /\ ReadLog(logs[logfile].recs) \subseteq mem
    BY <1>1, <1>2 DEF KeptInv, OnlyHeld
  <2>2. \A n \in DOMAIN logs' : n >= vs'.log /\ n # logfile' =>
              ReadLog(logs'[n].recs) \subseteq imm' \cup In(Live(vs'), tables')
    BY <1>1, <1>3, <1>5, <2>1
  <2>3. ReadLog(logs'[logfile'].recs) = {}
    BY <1>1, <1>5, ReadLogEmpty
  <2>4. \A v \in Describable' : In(Live(v), tables') \subseteq imm' \cup In(Live(vs'), tables')
    BY <1>1, <1>3, <1>6, <2>1
  <2> QED BY <1>1, <2>2, <2>3, <2>4 DEF OnlyHeld
<1> QED BY <1>3, <1>7, <1>8, <1>9

LEMMA RoomKept ==
  ASSUME Base, Base', LogNumbers, SeqInv, KeptInv, NEW c \in Calls,
         RoomError(c) \/ RoomSwitchFails(c) \/ RoomFound(c) \/ RoomSwitch(c)
  PROVE  Kept
<1>1. /\ phase = "open" /\ phase' = "open" /\ pc[c] = "room"
      /\ UNCHANGED <<tables, man, tail, bgErr>>
  BY DEF RoomError, RoomSwitchFails, RoomFound, RoomSwitch, CanSwitch, AtFront, disk, flags
<1>2. Grouped = {}
  BY <1>1, FrontAlone
<1>3. /\ AnswerInv' /\ Failed \subseteq Failed'
      /\ Held \cap Grouped' = {}
      /\ \A d \in Held : seqOf'[d] = seqOf[d]
      /\ \A d \in Batches : /\ pc'[d] = "idle" <=> pc[d] = "idle"
                            /\ \/ status'[d] = status[d]
                               \/ status[d] = "none" /\ status'[d] = "err"
  <2>1. \/ StartLogging(c)
        \/ \E st \in {"ok", "err"} : /\ Leave(1, st, pc) /\ seqOf' = seqOf
                                     /\ st = "ok" => c \in Forced
    BY DEF RoomError, RoomSwitchFails, RoomFound, RoomSwitch
  <2>2. AnswerInv
    BY DEF KeptInv
  <2> QED BY <1>1, <2>1, <2>2, RoomAnswers
<1>4. OnlyHeld' /\ Held' = Held /\ Surviving \subseteq Surviving' /\ vs'.last = vs.last
  <2>1. CASE RoomSwitch(c)
    BY <1>1, <1>2, <2>1, SwitchKept
  <2>2. CASE RoomError(c) \/ RoomSwitchFails(c) \/ RoomFound(c)
    <3>1. UNCHANGED <<logs, tables, man, tail, mem, imm, logfile, vs>>
      BY <2>2 DEF RoomError, RoomSwitchFails, RoomFound, disk, core
    <3>2. Describable' = Describable /\ Settled' = Settled /\ Held' = Held
      BY <3>1, ManifestFrame DEF Settled, Held
    <3>3. \A v \in Describable' : In(Live(v), tables') \subseteq Settled
      BY <1>1, <3>1, <3>2 DEF KeptInv, OnlyHeld, Settled
    <3>4. OnlyHeld'
      BY <1>1, <1>2, <1>3, <3>1, <3>2, <3>3, OnlyHeldOpen DEF KeptInv
    <3> QED BY <3>1, <3>2, <3>4, SurvivingSame
  <2> QED BY <2>1, <2>2
<1>5. KeptInv'
  BY <1>3, <1>4 DEF KeptInv, NotYet
<1>6. Present' = Present
  BY <1>1, <1>3, <1>4 DEF Present, Visible
<1>7. Limbo' = Limbo /\ Acked' = Acked
  BY <1>3, <1>6, LimboSame
<1> QED BY <1>4, <1>5, <1>6, <1>7, Hardens DEF Kept

LEMMA LoggedKept ==
  ASSUME Base, Base', LogNumbers, SeqInv, DurInv, KeptInv, NEW c \in Calls,
         AddRecord(c) \/ SyncLog(c) \/ InsertInto(c)
  PROVE  Kept
<1>1. /\ phase = "open" /\ phase' = "open"
      /\ UNCHANGED <<tables, man, tail, imm, logfile, ghosts, owed, group, vs, status, seqOf, bgErr>>
  <2>1. Working
    BY DEF Working, WriterStep
  <2> QED BY <2>1, WorkingStaysOpen DEF Base, StagesInv, AddRecord, SyncLog, InsertInto, core, disk, flags
<1>2. /\ pc[c] \in {"append", "sync", "insert"}
      /\ pc' = [pc EXCEPT ![c] = pc'[c]]
      /\ pc'[c] \in {"sync", "insert", "finish"}
      /\ pc'[c] = "finish" <=> pc[c] = "insert"
  <2>1. pc \in [Calls -> Stages]
    BY DEF Base, QInv, QueueType
  <2> QED BY <2>1 DEF AddRecord, SyncLog, InsertInto, AfterLog
<1>3. /\ pc \in [Calls -> Stages] /\ LogsOK(logs) /\ LogsOK(logs') /\ Grouped \in SUBSET Batches
      /\ logfile \in DOMAIN logs
  BY <1>1, GroupedFacts DEF Base, QInv, QueueType, TInv, DiskOK, LogNumbers
<1>4. /\ c \in Grouped /\ Grouped # Torn
      /\ \A d \in Calls \ {c} : pc[d] \notin Logging
  BY <1>2, LoggingGroup DEF Logging
<1>5. AnswerInv' /\ Failed' = Failed
  BY <1>1, <1>2, <1>3, AnswersFrame DEF KeptInv, AnswerInv, Waiting, InFront, Logging
<1>6. /\ Describable' = Describable /\ Settled' = Settled /\ Grouped' = Grouped
      /\ \A v \in Describable' : In(Live(v), tables') \subseteq Settled
  BY <1>1, ManifestFrame DEF Settled, Grouped, KeptInv, OnlyHeld
<1>7. /\ DOMAIN logs' = DOMAIN logs
      /\ \A n \in DOMAIN logs \ {logfile} : logs'[n] = logs[n]
      /\ ReadLog(logs'[logfile].recs) \subseteq ReadLog(logs[logfile].recs) \cup Grouped
      /\ ReadLog(Hard[logfile].recs) \subseteq ReadLog(Hard'[logfile].recs)
  <2>1. CASE AddRecord(c)
    <3>1. Append1(Grouped) /\ mem' = mem
      BY <2>1 DEF AddRecord, core, Grouped
    <3>2. /\ DOMAIN logs' = DOMAIN logs
          /\ \A n \in DOMAIN logs \ {logfile} : logs'[n] = logs[n]
          /\ logs'[logfile].recs = Append(logs[logfile].recs, Grouped)
      BY <1>3, <3>1, AppendedRecord
    <3>3. logs[logfile].recs \in Seq(SUBSET Batches)
      BY <1>3 DEF LogsOK, Log
    <3>4. ReadLog(Append(logs[logfile].recs, Grouped)) \subseteq ReadLog(logs[logfile].recs) \cup Grouped
      BY <1>3, <3>3, ReadLogAppend
    <3>5. ReadLog(Hard[logfile].recs) \subseteq ReadLog(Hard'[logfile].recs)
      BY <1>1, <1>4, <3>1, AddedDur
    <3> QED BY <3>2, <3>4, <3>5
  <2>2. CASE SyncLog(c)
    <3>1. logs' = [logs EXCEPT ![logfile].synced = Durable] /\ mem' = mem
      BY <2>2 DEF SyncLog, core
    <3>2. /\ DOMAIN logs' = DOMAIN logs
          /\ \A n \in DOMAIN logs \ {logfile} : logs'[n] = logs[n]
      BY <1>3, <3>1, SyncedRecords
    <3>3. /\ ReadLog(logs'[logfile].recs) = ReadLog(logs[logfile].recs)
          /\ ReadLog(Hard'[logfile].recs) = ReadLog(logs[logfile].recs)
      BY <1>1, <3>1, SyncedDur
    <3>4. ReadLog(Hard[logfile].recs) \subseteq ReadLog(logs[logfile].recs)
      BY <1>3, DurablyLess DEF Hard
    <3> QED BY <3>2, <3>3, <3>4
  <2>3. CASE InsertInto(c)
    <3>1. logs' = logs
      BY <2>3 DEF InsertInto, disk
    <3> QED BY <3>1 DEF Hard
  <2> QED BY <2>1, <2>2, <2>3
<1>8. Surviving \subseteq Surviving'
  <2>1. DOMAIN Hard = DOMAIN logs /\ DOMAIN Hard' = DOMAIN logs
    BY <1>3, <1>7, DurablyFacts DEF Hard
  <2>2. \A n \in DOMAIN logs \ {logfile} : Hard'[n] = Hard[n]
    BY <1>7 DEF Hard, Durably, Cut
  <2>3. \A n \in DOMAIN Hard : n \in DOMAIN Hard' /\ ReadLog(Hard[n].recs) \subseteq ReadLog(Hard'[n].recs)
    BY <1>7, <2>1, <2>2
  <2>4. \A v : Recoverable(v, Hard, tables) \subseteq Recoverable(v, Hard', tables')
    BY <1>1, <2>3, RecoverableMore
  <2> QED BY <1>6, <2>4, SurvivingIs
<1>9. mem' = mem \/ (pc[c] = "insert" /\ mem' = mem \cup Grouped)
  BY DEF AddRecord, SyncLog, InsertInto, core, Grouped
<1>10. OnlyHeld'
  BY <1>1, <1>5, <1>6, <1>7, <1>9, OnlyHeldOpen DEF KeptInv
<1>11. Held' = Held \/ (pc[c] = "insert" /\ Held' = Held \cup Grouped)
  BY <1>1, <1>9 DEF Held
<1>12. NotYet'
  <2>1. ASSUME NEW d \in Calls, pc'[d] \in Logging \ {"finish"} PROVE Held' \cap Grouped' = {}
    <3>1. d = c /\ pc[c] # "insert" /\ pc[c] \in Logging \ {"finish"}
      BY <1>2, <1>3, <1>4, <2>1 DEF Logging
    <3> QED BY <1>6, <1>11, <3>1 DEF KeptInv, NotYet
  <2> QED BY <2>1 DEF NotYet
<1>13. Present' = Present
  <2>1. \A d \in Grouped : d \notin Visible /\ seqOf[d] > vs.last /\ seqOf[d] \in Nat /\ vs.last \in Nat
    BY <1>1, GroupInLimbo, GroupedFacts DEF KeptInv, SeqInv, SeqLast
  <2>2. \A d \in Grouped : ~(seqOf[d] <= vs.last)
    BY <2>1
  <2> QED BY <1>1, <1>11, <2>2 DEF Present, Visible
<1>14. Limbo' = Limbo /\ Acked' = Acked
  <2>1. \A d \in Calls : pc'[d] = "idle" <=> pc[d] = "idle"
    BY <1>2, <1>3
  <2> QED BY <1>1, <1>13, <2>1, LimboSame DEF Batches
<1> QED BY <1>5, <1>8, <1>10, <1>12, <1>13, <1>14, Hardens DEF Kept, KeptInv

-----------------------------------------------------------------------------
\* The group has its answer: it is committed, or given up.
LEMMA FinishKept ==
  ASSUME Base, Base', LogNumbers, SeqInv, WriterInv, KeptInv, NEW c \in Calls, FinishWrite(c)
  PROVE  Kept
<1> DEFINE st == IF pc[c] = "finish" THEN "ok" ELSE "err"
           p  == IF bgErr' # bgErr THEN Woken(pc) ELSE pc
<1>1. /\ pc[c] \in {"finish", "syncfailed"} /\ pc[c] \in Logging /\ Leave(Len(group), st, p)
      /\ vs' = [vs EXCEPT !.last = @ + Cardinality(InGroup(group))]
      /\ bgErr' = (bgErr \/ pc[c] = "syncfailed")
      /\ UNCHANGED <<logs, ghosts, tables, man, tail, mem, imm, logfile, phase, seqOf>>
  BY DEF FinishWrite, Logging, disk, KeptInv, AnswerInv
<1>2. phase = "open" /\ phase' = "open"
  BY WorkingStaysOpen DEF Working, Base, StagesInv, WriterStep
<1>3. /\ Len(group) \in 1..Len(queue)
      /\ Grouped = {queue[i] : i \in 1..Len(group)} \ Forced
  BY <1>1, LoggingGroup
<1>4. /\ vs \in Version /\ vs.last \in Nat /\ Cardinality(Grouped) \in Nat
      /\ Grouped \subseteq Batches /\ \A d \in Calls : seqOf[d] \in Nat
      /\ status \in [Calls -> {"none", "ok", "err", "gone"}]
  BY BaseFacts, GroupedFacts DEF Base, TInv, CallsOK
<1>5. vs'.log = vs.log /\ Live(vs') = Live(vs) /\ vs'.last = vs.last + Cardinality(Grouped)
  BY <1>1, <1>4 DEF Version, Live, Grouped
<1>6. st \in {"ok", "err"} /\ (st = "ok" <=> pc[c] = "finish") /\ (p = pc \/ p = Woken(pc))
  OBVIOUS
<1> HIDE DEF p, st
<1>7. /\ AnswerInv' /\ Failed \subseteq Failed'
      /\ \A d \in Calls : status'[d] # status[d] =>
             status[d] = "none" /\ pc[d] # "idle" /\ status'[d] = st
      /\ \A i \in 1..Len(group) : status'[queue[i]] = st
      /\ \A d \in Calls : (\A i \in 1..Len(group) : d # queue[i]) => status'[d] = status[d]
      /\ \A d \in Calls : pc'[d] = "idle" <=> pc[d] = "idle"
  BY <1>1, <1>2, <1>3, <1>6, LeaveAnswers DEF KeptInv
<1>8. /\ \A d \in Grouped : status'[d] = st
      /\ \A d \in Batches \ Grouped : status'[d] = status[d]
  <2>1. \A d \in Batches \ Grouped : d \in Calls /\ \A i \in 1..Len(group) : d # queue[i]
    BY <1>3 DEF Batches
  <2> QED BY <1>3, <1>7, <2>1
<1>9. Grouped' = {}
  <2>1. group' = <<>>
    BY <1>1 DEF Leave
  <2> QED BY <2>1, NoGroup DEF Grouped
<1>10. Describable' = Describable /\ Settled' = Settled /\ Held' = Held /\ Hard' = Hard
       /\ \A v \in Describable' : In(Live(v), tables') \subseteq Settled
  BY <1>1, <1>2, <1>5, ManifestFrame DEF Settled, Held, Hard, KeptInv, OnlyHeld
<1>11. Surviving' = Surviving
  BY <1>1, SurvivingSame
<1>12. /\ Grouped \subseteq Limbo /\ Grouped \cap Visible = {}
       /\ Held \subseteq Batches
       /\ \A d \in Held \ Grouped : seqOf[d] <= vs.last
       /\ \A d \in Grouped : seqOf[d] <= vs.last + Cardinality(Grouped)
  <2>1. Held \subseteq Batches /\ AnswerInv
    BY <1>2, HeldAreBatches DEF KeptInv
  <2>2. Grouped \subseteq Limbo /\ Grouped \cap Visible = {}
    BY <1>2, <2>1, GroupInLimbo
  <2> QED BY <1>2, <2>1, <2>2 DEF SeqInv, SeqLast, Reach
<1>13. Visible = Held \ Grouped /\ Visible' = Held
  <2>1. Visible = Held \ Grouped
    BY <1>12 DEF Visible
  <2>2. ASSUME NEW d \in Held PROVE seqOf'[d] <= vs'.last
    <3>1. d \in Calls /\ seqOf[d] \in Nat
      BY <1>4, <1>12 DEF Batches
    <3>2. CASE d \in Grouped
      BY <1>1, <1>5, <1>12, <3>2
    <3>3. CASE d \notin Grouped
      <4>1. seqOf[d] <= vs.last
        BY <1>12, <3>3
      <4>2. seqOf[d] <= vs.last + Cardinality(Grouped)
        BY <1>4, <3>1, <4>1
      <4> QED BY <1>1, <1>5, <4>2
    <3> QED BY <3>2, <3>3
  <2> QED BY <1>10, <2>1, <2>2 DEF Visible
<1>14. CASE pc[c] = "finish"
  <2>1. /\ Grouped \subseteq mem /\ st = "ok"
        /\ Grouped \cap Sync # {} => c \in Sync
        /\ c \in Sync => Grouped \subseteq ReadLog(Hard[logfile].recs)
    BY <1>1, <1>6, <1>14 DEF WriterInv
  <2>2. OnlyHeld'
    BY <1>1, <1>2, <1>5, <1>7, <1>9, <1>10, <2>1, OnlyHeldOpen DEF KeptInv
  <2>3. Present' = Present \cup Grouped
    <3>1. Grouped \subseteq Held
      BY <2>1 DEF Held
    <3> QED BY <1>2, <1>13, <3>1 DEF Present
  <2>4. Limbo' = Limbo \ Grouped
    <3>1. ASSUME NEW d \in Grouped PROVE d \notin Limbo'
      BY <1>8, <2>1, <3>1 DEF Limbo
    <3>2. ASSUME NEW d \in Batches \ Grouped PROVE d \in Limbo' <=> d \in Limbo
      <4>1. d \in Calls /\ status'[d] = status[d] /\ (pc'[d] = "idle" <=> pc[d] = "idle")
        BY <1>7, <1>8 DEF Batches
      <4> QED BY <2>3, <4>1 DEF Limbo
    <3>3. Limbo \subseteq Batches /\ Limbo' \subseteq Batches
      BY DEF Limbo
    <3> QED BY <3>1, <3>2, <3>3
  <2>5. Acked' = Acked \cup Grouped
    BY <1>4, <1>8, <2>1 DEF Acked
  <2>6. Grouped \cap Sync \subseteq Surviving'
    <3> SUFFICES ASSUME NEW d \in Grouped \cap Sync, NEW v \in Describable
                 PROVE  d \in Recoverable(v, Hard, tables)
      BY <1>4, <1>11, SurvivingIs
    <3>1. /\ logfile \in DOMAIN logs /\ logfile \in Nat /\ v.log <= logfile /\ v.log \in Nat
      BY <1>2, BaseFacts DEF LogNumbers
    <3>2. DOMAIN Hard = DOMAIN logs
      BY DurablyFacts DEF Hard, Base, TInv, DiskOK
    <3>3. d \in ReadLog(Hard[logfile].recs) /\ logfile >= v.log
      BY <2>1, <3>1
    <3> QED BY <3>1, <3>2, <3>3, RecoverableIs
  <2>7. Known' => Promise!Commit(Grouped)
    BY <1>11, <1>12, <2>3, <2>4, <2>5, <2>6 DEF Known, Promise!Commit
  <2>8. KeptInv'
    BY <1>7, <1>9, <2>2 DEF KeptInv, NotYet
  <2> QED BY <1>12, <2>7, <2>8 DEF Kept, Promise!Next
<1>15. CASE pc[c] = "syncfailed"
  <2>1. bgErr' /\ st = "err" /\ Grouped \subseteq Failed'
    BY <1>1, <1>4, <1>6, <1>8, <1>15 DEF Failed
  <2>2. OnlyHeld'
    BY <1>1, <1>2, <1>5, <1>7, <1>9, <1>10, <2>1, OnlyHeldOpen DEF KeptInv
  <2>3. KeptInv'
    BY <1>7, <1>9, <2>2 DEF KeptInv, NotYet
  <2>4. Present' = Present
    <3>1. Held \cap Grouped = {}
      BY <1>1, <1>15 DEF KeptInv, NotYet
    <3> QED BY <1>2, <1>13, <3>1 DEF Present
  <2>5. Limbo' = Limbo /\ Acked' = Acked
    <3>1. \A d \in Batches : /\ pc'[d] = "idle" <=> pc[d] = "idle"
                             /\ \/ status'[d] = status[d]
                                \/ status[d] = "none" /\ status'[d] = "err"
      BY <1>7, <2>1 DEF Batches
    <3> QED BY <2>4, <3>1, LimboSame
  <2> QED BY <1>11, <2>3, <2>4, <2>5, Hardens DEF Kept
<1> QED BY <1>1, <1>14, <1>15

LEMMA WriterKept ==
  ASSUME Base, Base', LogNumbers, SeqInv, DurInv, WriterInv, KeptInv, Reliable,
         NEW c \in Calls, Enqueue(c) \/ WriterStep(c)
  PROVE  Kept
<1>1. ~AddRecordFails(c)
  BY DEF AddRecordFails, Fault, Reliable
<1> QED BY <1>1, EnqueueKept, WaitKept, RoomKept, LoggedKept, FinishKept DEF WriterStep

-----------------------------------------------------------------------------
\* What the background thread rearranges is seen as before.
LEMMA BackKept ==
  ASSUME Base, KeptInv, phase = "open", phase' = "open",
         UNCHANGED <<mem, group, seqOf, status>>, pc' = pc \/ pc' = Woken(pc),
         vs'.last = vs.last, Settled' = Settled, OnlyHeld', Surviving \subseteq Surviving'
  PROVE  Kept
<1>1. Held' = Held /\ Grouped' = Grouped
  BY DEF Held, Settled, Grouped
<1>2. \A c \in Calls : /\ pc'[c] \in Waiting => pc[c] \in Waiting
                       /\ pc'[c] \in {"flush", "flushstall"} => pc[c] \in {"flush", "flushstall"}
                       /\ pc'[c] = "failed" => pc[c] = "failed"
                       /\ pc'[c] \in Logging \ {"finish"} => pc[c] \in Logging \ {"finish"}
                       /\ pc'[c] = "idle" <=> pc[c] = "idle"
  BY DEF Woken, Waiting, InFront, Logging
<1>3. AnswerInv'
  BY <1>2, AnswersFrame DEF KeptInv, AnswerInv
<1>4. KeptInv'
  BY <1>1, <1>2, <1>3 DEF KeptInv, NotYet
<1>5. Present' = Present
  BY <1>1 DEF Present, Visible
<1>6. Limbo' = Limbo /\ Acked' = Acked
  BY <1>2, <1>5, LimboSame DEF Batches
<1> QED BY <1>4, <1>5, <1>6, Hardens DEF Kept

LEMMA EditKept ==
  ASSUME Base, KeptInv, phase = "open", phase' = "open",
         UNCHANGED <<logs, mem, imm, logfile, vs, group, seqOf, status, bgErr, pc>>,
         In(Live(vs'), tables') = In(Live(vs), tables),
         \A v \in Describable' : /\ In(Live(v), tables') \subseteq Settled
                                 /\ Surviving \subseteq Recoverable(v, Hard, tables')
  PROVE  Kept
<1>1. Hard' = Hard /\ Settled' = Settled /\ Grouped' = Grouped /\ Failed' = Failed
  BY DEF Hard, Settled, Grouped, Failed
<1>2. OnlyHeld'
  BY <1>1, OnlyHeldOpen DEF KeptInv
<1>3. Surviving \subseteq Surviving'
  BY <1>1, SurvivingIs
<1> QED BY <1>1, <1>2, <1>3, BackKept

LEMMA InstallKept ==
  ASSUME Base, Base', TablesInv', LogNumbers', KeptInv, phase = "open", phase' = "open",
         SyncManifest, UNCHANGED <<mem, logfile, group, seqOf, status, bgErr>>,
         pc' = pc \/ pc' = Woken(pc),
         NEW base, NEW pend,
         \/ UNCHANGED <<logs, ghosts, tables>>
         \/ DeleteObsoleteFiles(vs', base, pend, tables),
         imm' \cup In(Live(vs'), tables) = Settled,
         vs'.last = vs.last, vs'.log >= vs.log, Described \in Describable
  PROVE  Kept
<1>1. /\ Describable' = {Described}
      /\ \A n \in DOMAIN logs' : n \in DOMAIN logs /\ logs'[n] = logs[n]
      /\ logfile \in DOMAIN logs'
      /\ In(Live(vs'), tables') = In(Live(vs'), tables)
      /\ In(Live(Described), tables') = In(Live(Described), tables)
      /\ Recoverable(Described, Hard, tables) \subseteq Recoverable(Described, Hard', tables')
  BY InstallLeaves
<1>2. Settled' = Settled /\ Grouped' = Grouped /\ Failed' = Failed
  BY <1>1 DEF Settled, Grouped, Failed
<1>3. \A n \in DOMAIN logs' : n >= vs'.log => n >= vs.log
  <2>1. vs.log \in Nat /\ vs'.log \in Nat /\ \A n \in DOMAIN logs : n \in Nat
    <3>1. vs' \in Version
      BY DEF Base, TInv, CoreOK
    <3> QED BY <3>1, BaseFacts DEF Version, Base, TInv, DiskOK, LogsOK
  <2> QED BY <1>1, <2>1
<1>4. \A v \in Describable' : In(Live(v), tables') \subseteq Settled
  BY <1>1 DEF KeptInv, OnlyHeld, Settled
<1>5. OnlyHeld'
  BY <1>1, <1>2, <1>3, <1>4, OnlyHeldOpen DEF KeptInv
<1>6. Surviving \subseteq Surviving'
  BY <1>1, SurvivingIs
<1> QED BY <1>2, <1>5, <1>6, BackKept

LEMMA FlushBuiltKept ==
  ASSUME Base, TablesInv, LogNumbers, DurInv, KeptInv, FlushBuilt
  PROVE  Kept
<1>1. /\ phase = "open" /\ phase' = "open" /\ Described'.log = logfile
      /\ Describable' = Describable \cup {Described'}
      /\ In(Live(vs'), tables') = In(Live(vs), tables)
      /\ \A v \in Describable : In(Live(v), tables') = In(Live(v), tables)
      /\ In(Live(Described'), tables') = imm \cup In(Live(Described), tables)
  BY FlushEdit
<1>2. UNCHANGED <<logs, mem, imm, logfile, vs, group, seqOf, status, bgErr, pc>>
  BY DEF FlushBuilt, core, calls
<1>3. /\ LogsOK(logs) /\ Described \in Describable /\ vs.log \in Nat /\ Described.log \in Nat
      /\ vs.log <= Described.log /\ \A n \in DOMAIN logs : n \in Nat
  BY <1>1, BaseFacts DEF Base, TInv, DiskOK, LogsOK, LogNumbers
<1>4. In(Live(vs), tables) \subseteq In(Live(Described), tables)
  BY <1>1, <1>3 DEF DurInv, DurOpen
<1>5. ASSUME NEW v \in Describable PROVE Surviving \subseteq Recoverable(v, Hard, tables')
  <2>1. In(Live(v), tables) \subseteq In(Live(v), tables')
    BY <1>1
  <2>2. Recoverable(v, Hard, tables) \subseteq Recoverable(v, Hard, tables')
    BY <2>1 DEF Recoverable
  <2> QED BY <2>2, SurvivingIs
<1>6. Surviving \subseteq Recoverable(Described', Hard, tables')
  <2> SUFFICES ASSUME NEW c \in Surviving PROVE c \in Recoverable(Described', Hard, tables')
    OBVIOUS
  <2>1. c \in Recoverable(Described, Hard, tables)
    BY <1>3, SurvivingIs
  <2>2. DOMAIN Hard = DOMAIN logs /\
        \A n \in DOMAIN logs : ReadLog(Hard[n].recs) \subseteq ReadLog(logs[n].recs)
    BY <1>3, DurablyFacts, DurablyLess DEF Hard
  <2>3. CASE c \in In(Live(Described), tables)
    BY <1>1, <2>3, RecoverableIs
  <2>4. ASSUME NEW n \in DOMAIN logs, n >= Described.log, c \in ReadLog(Hard[n].recs)
        PROVE  c \in Recoverable(Described', Hard, tables')
    <3>1. n >= vs.log
      BY <1>3, <2>4
    <3>2. CASE n = logfile
      <4>1. n >= Described'.log
        BY <1>1, <1>3, <3>2
      <4> QED BY <2>2, <2>4, <4>1, RecoverableIs
    <3>3. CASE n # logfile
      <4>1. c \in imm \cup In(Live(vs), tables)
        BY <1>1, <2>2, <2>4, <3>1, <3>3 DEF KeptInv, OnlyHeld
      <4>2. c \in In(Live(Described'), tables')
        BY <1>1, <1>4, <4>1
      <4> QED BY <4>2, RecoverableIs
    <3> QED BY <3>2, <3>3
  <2> QED BY <2>1, <2>2, <2>3, <2>4, RecoverableIs
<1>7. \A v \in Describable' : In(Live(v), tables') \subseteq Settled
  <2>1. \A v \in Describable : In(Live(v), tables) \subseteq Settled
    BY <1>1 DEF KeptInv, OnlyHeld, Settled
  <2> QED BY <1>1, <1>3, <2>1 DEF Settled
<1> QED BY <1>1, <1>2, <1>5, <1>6, <1>7, EditKept

LEMMA CompactionKept ==
  ASSUME Base, Base', TablesInv, TablesInv', LogNumbers, LogNumbers', KeptInv,
         \/ TrivialMove \/ FinishCompactionOutputFile \/ InstallCompactionResults
         \/ FlushInstall \/ CompactionInstall
  PROVE  Kept
<1>1. phase = "open" /\ phase' = "open" /\ UNCHANGED <<mem, logfile, group, seqOf, status, bgErr>>
  <2>1. Working
    BY DEF Working, BackgroundStep
  <2>2. UNCHANGED <<mem, logfile, group, seqOf, status, bgErr>>
    BY DEF TrivialMove, FinishCompactionOutputFile, InstallCompactionResults, CompactionInstall,
           FlushInstall, core, calls, flags
  <2> QED BY <2>1, <2>2, WorkingStaysOpen DEF Base, StagesInv
<1>2. /\ tail \in Edits /\ man \in Version /\ vs \in Version /\ Described \in Describable
      /\ cout \in Nat /\ vs.l0 \subseteq Nat /\ cin.files \subseteq Nat /\ vs.log \in Nat
      /\ logfile \in Nat
  BY BaseFacts
<1>3. TableNumbers /\ FilesInv /\ EditInv /\ Live(vs) \subseteq DOMAIN tables
  BY <1>1 DEF TablesInv, FilesInv, LiveFiles
<1>4. \A v \in Describable : In(Live(v), tables) \subseteq Settled
  BY <1>1 DEF KeptInv, OnlyHeld, Settled
<1>5. ASSUME NEW f \in Nat, NEW D \in SUBSET Nat, LogEdit(Edit({}, {f}, D, vs.log)),
             f \in DOMAIN tables, In(D, tables) \subseteq tables[f],
             tables[f] \subseteq In(Live(vs), tables),
             UNCHANGED <<logs, tables, man, imm, vs, pc>>
      PROVE  Kept
  <2>1. /\ Describable' = Describable \cup {Described'}
        /\ In(Live(Described'), tables) \subseteq In(Live(Described), tables) \cup tables[f]
        /\ Recoverable(Described, Hard, tables) \subseteq Recoverable(Described', Hard, tables)
    BY <1>1, <1>5, MoveEdit
  <2>2. \A v \in Describable : Surviving \subseteq Recoverable(v, Hard, tables)
    BY SurvivingIs
  <2>3. \A v \in Describable' : In(Live(v), tables) \subseteq Settled
    BY <1>2, <1>4, <1>5, <2>1 DEF Settled
  <2> QED BY <1>1, <1>2, <1>5, <2>1, <2>2, <2>3, EditKept
<1>6. CASE TrivialMove
  <2>1. PICK f \in vs.l0 : LogEdit(Edit({}, {f}, {f}, vs.log))
    BY <1>6 DEF TrivialMove
  <2>2. UNCHANGED <<logs, ghosts, tables, man, imm, vs, pc>>
    BY <1>6 DEF TrivialMove, core, calls
  <2>3. f \in Nat /\ {f} \in SUBSET Nat /\ f \in DOMAIN tables /\ f \in Live(vs)
    BY <1>2, <1>3, <2>1 DEF Live
  <2>4. In({f}, tables) \subseteq tables[f] /\ tables[f] \subseteq In(Live(vs), tables)
    BY <2>3, InIs
  <2> QED BY <1>5, <2>1, <2>2, <2>3, <2>4
<1>7. CASE InstallCompactionResults
  <2>1. LogEdit(Edit({}, {cout}, cin.files, vs.log)) /\ cp = "merged"
    BY <1>7 DEF InstallCompactionResults
  <2>2. UNCHANGED <<logs, ghosts, tables, man, imm, vs, pc>>
    BY <1>7 DEF InstallCompactionResults, core, calls
  <2>3. /\ cout \in DOMAIN tables /\ tables[cout] = In(cin.files, tables)
        /\ cin.files \subseteq Live(vs)
    BY <1>3, <2>1 DEF FilesInv
  <2>4. In(cin.files, tables) \subseteq In(Live(vs), tables)
    BY <2>3, InLess
  <2> QED BY <1>2, <1>5, <2>1, <2>2, <2>3, <2>4
<1>8. CASE FinishCompactionOutputFile
  <2>1. /\ cp = "out" /\ tables' = Put(tables, cout, In(cin.files, tables))
        /\ UNCHANGED <<logs, ghosts, man, tail, imm, vs, pc>>
    BY <1>8 DEF FinishCompactionOutputFile, core, calls
  <2>2. /\ cout \notin Live(vs)
        /\ \A v \in Describable : cout \notin Live(v)
    BY <1>3, <2>1 DEF TableNumbers, LiveFiles
  <2>3. /\ In(Live(vs), tables') = In(Live(vs), tables)
        /\ \A v \in Describable : In(Live(v), tables') = In(Live(v), tables)
    BY <2>1, <2>2, PutIn
  <2>4. Describable' = Describable
    BY <2>1, ManifestFrame
  <2>5. ASSUME NEW v \in Describable PROVE Surviving \subseteq Recoverable(v, Hard, tables')
    <3>1. Recoverable(v, Hard, tables) = Recoverable(v, Hard, tables')
      BY <2>3 DEF Recoverable
    <3> QED BY <3>1, SurvivingIs
  <2> QED BY <1>1, <1>4, <2>1, <2>3, <2>4, <2>5, EditKept
<1>9. CASE FlushInstall
  <2>1. /\ vs'.log = logfile /\ vs'.last = vs.last
        /\ In(Live(vs'), tables) = imm \cup In(Live(vs), tables)
    BY <1>9, FlushInstalls
  <2>2. /\ SyncManifest /\ imm' = {} /\ (pc' = pc \/ pc' = Woken(pc))
        /\ DeleteObsoleteFiles(vs', cin.base, pending, tables)
    BY <1>9 DEF FlushInstall, BackgroundEnd
  <2>3. vs'.log >= vs.log
    <3>1. vs.log <= Described.log /\ Described.log <= logfile /\ Described.log \in Nat
      BY <1>1, <1>2, BaseFacts DEF LogNumbers
    <3> QED BY <1>2, <2>1, <3>1
  <2>4. imm' \cup In(Live(vs'), tables) = Settled
    BY <2>1, <2>2 DEF Settled
  <2> QED BY <1>1, <1>2, <2>1, <2>2, <2>3, <2>4, InstallKept
<1>10. CASE CompactionInstall
  <2>1. /\ vs'.log = vs.log /\ vs'.last = vs.last
        /\ In(Live(vs'), tables) = In(Live(vs), tables)
    BY <1>10, CompactionInstalls
  <2>2. /\ SyncManifest /\ imm' = imm /\ pc' = Woken(pc)
        /\ \/ UNCHANGED <<logs, ghosts, tables>>
           \/ DeleteObsoleteFiles(vs', {}, pending', tables)
    BY <1>10 DEF CompactionInstall, BackgroundEnd
  <2>3. imm' \cup In(Live(vs'), tables) = Settled /\ vs'.log >= vs.log
    BY <1>2, <2>1, <2>2 DEF Settled
  <2> QED BY <1>1, <1>2, <2>1, <2>2, <2>3, InstallKept
<1> QED BY <1>6, <1>7, <1>8, <1>9, <1>10

LEMMA WorkingKept ==
  ASSUME Base, Base', TablesInv, TablesInv', LogNumbers, LogNumbers', SeqInv, DurInv, WriterInv,
         KeptInv, Reliable, Working
  PROVE  Kept
BY WriterKept, IdleKept, FlushBuiltKept, CompactionKept DEF Working, BackgroundStep

(* A new log has nothing to recover.                                        *)
LEMMA NewLogEmpty ==
  ASSUME NEW n, logs' = Put(logs, n, [recs |-> <<>>, synced |-> 0]), NEW v, NEW tb
  PROVE  Recoverable(v, logs', tb) \subseteq Recoverable(v, logs, tb)
<1> SUFFICES ASSUME NEW d \in Recoverable(v, logs', tb) PROVE d \in Recoverable(v, logs, tb)
  OBVIOUS
<1>1. \A m \in DOMAIN logs' : \/ m \in DOMAIN logs /\ logs'[m] = logs[m]
                              \/ logs'[m].recs = <<>>
  BY DEF Put
<1>2. \A m \in DOMAIN logs' : d \in ReadLog(logs'[m].recs) =>
         m \in DOMAIN logs /\ logs'[m] = logs[m]
  BY <1>1, ReadLogEmpty
<1>3. CASE d \in In(Live(v), tb)
  BY <1>3, RecoverableIs
<1>4. ASSUME NEW m \in DOMAIN logs', m >= v.log, d \in ReadLog(logs'[m].recs)
      PROVE  d \in Recoverable(v, logs, tb)
  BY <1>2, <1>4, RecoverableIs
<1> QED BY <1>3, <1>4, RecoverableIs

-----------------------------------------------------------------------------
\* Whatever version the MANIFEST describes after a crash, no more can be
\* recovered than what it describes now.
LEMMA OthersAreOnDisk ==
  ASSUME Base, LogNumbers, DurInv, KeptInv, NEW v \in Describable
  PROVE  Recoverable(v, logs, tables) \subseteq OnDisk
<1>1. CASE phase # "open"
  BY <1>1 DEF KeptInv, OnlyHeld
<1>2. CASE phase = "open"
  <2>1. /\ Described \in Describable /\ Described.log \in Nat /\ logfile \in Nat /\ vs.log \in Nat
        /\ v.log \in Nat /\ \A n \in DOMAIN logs : n \in Nat
    BY BaseFacts DEF Base, TInv, DiskOK, LogsOK
  <2>2. /\ imm \subseteq Recoverable(Described, logs, tables)
        /\ In(Live(vs), tables) \subseteq In(Live(Described), tables)
    BY <1>2, <2>1 DEF DurInv, DurOpen
  <2>3. imm \cup In(Live(vs), tables) \subseteq OnDisk
    BY <2>2, RecoverableIs DEF OnDisk
  <2> SUFFICES ASSUME NEW c \in Recoverable(v, logs, tables) PROVE c \in OnDisk
    OBVIOUS
  <2>4. CASE c \in In(Live(v), tables)
    BY <1>2, <2>3, <2>4 DEF KeptInv, OnlyHeld
  <2>5. ASSUME NEW n \in DOMAIN logs, n >= v.log, c \in ReadLog(logs[n].recs)
        PROVE  c \in OnDisk
    <3>1. vs.log <= v.log /\ Described.log <= logfile
      BY <1>2, <2>1 DEF LogNumbers
    <3>2. CASE n = logfile
      <4>1. n >= Described.log
        BY <2>1, <3>1, <3>2
      <4> QED BY <2>5, <4>1, RecoverableIs DEF OnDisk
    <3>3. CASE n # logfile
      <4>1. n >= vs.log
        BY <2>1, <2>5, <3>1
      <4> QED BY <1>2, <2>3, <2>5, <3>3, <4>1 DEF KeptInv, OnlyHeld
    <3> QED BY <3>2, <3>3
  <2> QED BY <2>4, <2>5, RecoverableIs
<1> QED BY <1>1, <1>2

\* The process is gone, or the machine was.
LEMMA GoneKept ==
  ASSUME Base, Base', LogNumbers, SeqInv, DurInv, KeptInv, Known,
         Closed \/ ProcessCrash \/ OpenFails \/ MachineCrash
  PROVE  Kept
<1>1. Gone /\ tables' = tables
  BY DEF Closed, ProcessCrash, OpenFails, MachineCrash, disk
<1>2. phase' = "down" /\ \A c \in Calls : pc'[c] \in {"idle", "done"}
  BY <1>1 DEF Gone
<1>3. AnswerInv' /\ Limbo' = {} /\ Acked' = Acked
  BY <1>1, GoneAnswers DEF KeptInv
<1>4. Described \in Describable
  BY BaseFacts
<1>5. /\ OnlyHeld' /\ OnDisk' \subseteq OnDisk
      /\ Surviving \subseteq OnDisk' /\ Surviving \subseteq Surviving'
  <2>1. CASE Closed \/ ProcessCrash \/ OpenFails
    <3>1. UNCHANGED <<logs, tables, man, tail>>
      BY <2>1 DEF Closed, ProcessCrash, OpenFails, disk
    <3>2. Describable' = Describable /\ Described' = Described
      BY <3>1, ManifestFrame
    <3>3. OnDisk' = OnDisk
      BY <3>1, <3>2 DEF OnDisk
    <3>4. OnlyHeld'
      BY <1>2, <3>1, <3>2, <3>3, OthersAreOnDisk DEF OnlyHeld
    <3> QED BY <3>1, <3>3, <3>4, SurvivingSame DEF Known
  <2>2. CASE MachineCrash
    <3>1. /\ man' \in Describable /\ Describable' = {man'} /\ Described' = man'
          /\ Recoverable(man', Hard, tables) \subseteq Recoverable(man', Hard', tables)
          /\ Recoverable(man', Hard, tables) \subseteq Recoverable(man', logs', tables)
          /\ Recoverable(man', logs', tables) \subseteq Recoverable(man', logs, tables)
      BY <2>2, CrashLeaves
    <3>2. OnDisk' = Recoverable(man', logs', tables)
      BY <1>1, <3>1 DEF OnDisk
    <3>3. OnlyHeld'
      BY <1>1, <1>2, <3>1, <3>2 DEF OnlyHeld
    <3>4. OnDisk' \subseteq OnDisk
      BY <3>1, <3>2, OthersAreOnDisk
    <3>5. Surviving \subseteq Recoverable(man', Hard, tables)
      BY <3>1, SurvivingIs
    <3>6. Surviving \subseteq Surviving'
      BY <1>1, <3>1, <3>5, SurvivingIs
    <3> QED BY <3>1, <3>2, <3>3, <3>4, <3>5, <3>6
  <2> QED BY <2>1, <2>2
<1>6. NotYet'
  BY <1>2 DEF NotYet, Logging
<1>7. Present' = OnDisk'
  BY <1>2 DEF Present
<1>8. Known' => Promise!Crash
  BY <1>3, <1>5, <1>7 DEF Known, Promise!Crash
<1> QED BY <1>3, <1>5, <1>6, <1>8 DEF Kept, KeptInv, Promise!Next

\* While a database is opened, its readers have yet to come.
LEMMA OpeningKept ==
  ASSUME Base, Base', TablesInv, TablesInv', LogNumbers, SeqInv, SeqInv', DurInv, KeptInv, Known,
         Recover \/ RecoverLogFile \/ RecoverLogFileFails \/ OpenLog \/ OpenInstall
  PROVE  Kept
<1>1. phase # "open" /\ UNCHANGED <<pc, status>>
  BY DEF Recover, RecoverLogFile, RecoverLogFileFails, ReplayNext, OpenLog, OpenInstall, calls
<1>2. \A c \in Calls : pc[c] \in {"idle", "done"}
  BY <1>1 DEF Base, StagesInv, BackgroundInv, Quiet
<1>3. AnswerInv' /\ NotYet' /\ Acked' = Acked
  BY <1>1, <1>2 DEF KeptInv, AnswerInv, NotYet, Acked, InFront, Logging
<1>4. Limbo = {} /\ Limbo' = {}
  BY <1>1 DEF KeptInv, AnswerInv, Limbo, Batches
<1>5. OnlyHeld' /\ Present' = Present /\ Surviving \subseteq Surviving'
  <2>1. CASE Recover \/ RecoverLogFile \/ RecoverLogFileFails
    <3>1. /\ phase' = "replay" /\ UNCHANGED <<logs, man, tail>>
          /\ \A v \in Describable : \A lg :
                 Recoverable(v, lg, tables') = Recoverable(v, lg, tables)
      <4>1. CASE Recover
        BY <4>1 DEF Recover, disk
      <4> QED BY <2>1, <4>1, ReplayLeaves
    <3>2. /\ Describable' = Describable /\ Described' = Described /\ Hard' = Hard
          /\ Described \in Describable
      BY <3>1, ManifestFrame, BaseFacts DEF Hard
    <3>3. OnDisk' = OnDisk
      BY <3>1, <3>2 DEF OnDisk
    <3>4. OnlyHeld'
      BY <1>1, <3>1, <3>2, <3>3 DEF KeptInv, OnlyHeld
    <3>5. Surviving \subseteq Surviving'
      BY <3>1, <3>2, SurvivingIs
    <3> QED BY <1>1, <3>1, <3>3, <3>4, <3>5 DEF Present
  <2>2. CASE OpenLog
    <3>1. /\ phase = "replay" /\ phase' = "replay" /\ logfile = 0 /\ replay.todo = {}
          /\ logs' = Put(logs, vs.next, [recs |-> <<>>, synced |-> 0])
          /\ UNCHANGED <<tables, man, tail>>
      BY <2>2 DEF OpenLog
    <3>2. LogsOK(logs) /\ LogsOK(logs') /\ vs.next \in Nat
      BY BaseFacts DEF Base, TInv, DiskOK
    <3>3. vs.next \notin DOMAIN logs
      <4>1. \A n \in DOMAIN logs : n < vs.next
        BY <3>1 DEF LogNumbers
      <4> QED BY <3>2, <4>1
    <3>4. \A v, tb : /\ Recoverable(v, logs, tb) \subseteq Recoverable(v, logs', tb)
                     /\ Recoverable(v, Hard, tb) \subseteq Recoverable(v, Hard', tb)
      BY <3>1, <3>2, <3>3, NewLogDur
    <3>5. \A v, tb : Recoverable(v, logs', tb) \subseteq Recoverable(v, logs, tb)
      BY <3>1, NewLogEmpty
    <3>6. Describable' = Describable /\ Described' = Described
      BY <3>1, ManifestFrame
    <3>7. OnDisk' = OnDisk
      <4>1. Recoverable(Described, logs', tables) \subseteq Recoverable(Described, logs, tables)
        BY <3>5
      <4>2. Recoverable(Described, logs, tables) \subseteq Recoverable(Described, logs', tables)
        BY <3>4
      <4> QED BY <3>1, <3>6, <4>1, <4>2 DEF OnDisk
    <3>8. OnlyHeld'
      BY <1>1, <3>1, <3>5, <3>6, <3>7 DEF KeptInv, OnlyHeld
    <3>9. Surviving \subseteq Surviving'
      BY <3>1, <3>4, <3>6, SurvivingIs
    <3> QED BY <1>1, <3>1, <3>7, <3>8, <3>9 DEF Present
  <2>3. CASE OpenInstall
    <3>1. /\ phase' = "open" /\ mem' = {} /\ imm' = {} /\ logfile' = logfile
          /\ Describable' = {vs'} /\ vs'.log = logfile
          /\ In(Live(vs'), tables') = OnDisk
          /\ \A n \in DOMAIN logs' : n \in DOMAIN logs /\ logs'[n] = logs[n]
          /\ \A n \in DOMAIN logs : n >= logfile => ReadLog(logs[n].recs) = {}
      BY <2>3, OpenInstallLeaves
    <3>2. logfile \in DOMAIN logs /\ logfile \in DOMAIN logs' /\ logfile \in Nat
      <4>1. logfile # 0 /\ ~bgErr /\ DeleteObsoleteFiles(vs', {}, {}, tables)
        BY <1>1, <2>3 DEF OpenInstall, Base, StagesInv, BackgroundInv, Quiet
      <4>2. logfile \in DOMAIN logs /\ logfile \in Nat
        BY <4>1, BaseFacts DEF LogNumbers
      <4>3. KeepsLog(logfile, vs')
        BY <3>1, <4>2 DEF KeepsLog
      <4> QED BY <4>1, <4>2, <4>3 DEF DeleteObsoleteFiles
    <3>3. OnlyHeld'
      <4>1. ReadLog(logs'[logfile].recs) = {}
        BY <3>1, <3>2
      <4>2. \A n \in DOMAIN logs' : n >= vs'.log => ReadLog(logs'[n].recs) = {}
        BY <3>1
      <4> QED BY <3>1, <4>1, <4>2 DEF OnlyHeld
    <3>4. Grouped' = {}
      <4>1. group' = <<>>
        BY <1>1, <2>3 DEF OpenInstall, calls, Base, StagesInv, BackgroundInv, Quiet
      <4> QED BY <4>1, NoGroup DEF Grouped
    <3>5. Held' = OnDisk
      BY <3>1 DEF Held
    <3>6. \A c \in Held' : seqOf'[c] <= vs'.last
      BY <3>1, <3>4 DEF SeqInv, SeqLast, Reach
    <3>7. Present' = Present
      BY <1>1, <3>1, <3>5, <3>6 DEF Present, Visible
    <3>8. Surviving \subseteq Surviving'
      <4>1. Surviving \subseteq Recoverable(vs', Hard', tables')
        BY <3>1, RecoverableIs DEF Known
      <4> QED BY <3>1, <4>1, SurvivingIs
    <3> QED BY <3>3, <3>7, <3>8
  <2> QED BY <2>1, <2>2, <2>3
<1> QED BY <1>3, <1>4, <1>5, Hardens DEF Kept, KeptInv

LEMMA UnchangedKept ==
  ASSUME KeptInv, UNCHANGED vars
  PROVE  KeptInv' /\ UNCHANGED Promise!vars
<1>1. UNCHANGED <<logs, tables, man, tail, phase, mem, imm, vs, logfile, pc, group, seqOf, status, bgErr>>
  BY DEF vars, disk, core, calls, flags
<1>2. /\ Describable' = Describable /\ Described' = Described /\ Held' = Held
      /\ Grouped' = Grouped /\ Failed' = Failed
  BY <1>1, ManifestFrame DEF Held, Grouped, Failed
<1>3. OnDisk' = OnDisk
  BY <1>1, <1>2 DEF OnDisk
<1>4. KeptInv'
  BY <1>1, <1>2, <1>3 DEF KeptInv, AnswerInv, OnlyHeld, NotYet
<1>5. Present' = Present
  BY <1>1, <1>2, <1>3 DEF Present, Visible
<1>6. Limbo' = Limbo /\ Acked' = Acked
  BY <1>1, <1>5 DEF Limbo, Acked
<1> QED BY <1>1, <1>4, <1>5, <1>6, SurvivingSame DEF Promise!vars

LEMMA KeptStep ==
  ASSUME Files, Files', SeqInv, SeqInv', DurInv, DurInv', WriterInv, KeptInv, Reliable, [Next]_vars
  PROVE  KeptInv' /\ (Known' => [Promise!Next]_(Promise!vars))
<1>1. Base /\ Base' /\ TablesInv /\ TablesInv' /\ LogNumbers /\ LogNumbers'
  BY DEF Files
<1>2. Known
  BY <1>1, KeptIsKnown DEF DurInv
<1>3. CASE UNCHANGED vars
  BY <1>3, UnchangedKept
<1>4. CASE Working
  <2>1. Kept
    BY <1>1, <1>4, WorkingKept
  <2> QED BY <2>1 DEF Kept
<1>5. CASE ~Working /\ ~UNCHANGED vars
  <2>1. OpenStep \/ Closed \/ ProcessCrash \/ MachineCrash
    BY <1>5, NextSteps
  <2>2. Kept
    BY <1>1, <1>2, <2>1, GoneKept, OpeningKept DEF OpenStep
  <2> QED BY <2>2 DEF Kept
<1> QED BY <1>3, <1>4, <1>5

LEMMA KeptInit == Init => KeptInv /\ Promise!Init
<1> SUFFICES ASSUME Init PROVE KeptInv /\ Promise!Init
  OBVIOUS
<1>1. /\ phase = "down" /\ logs = <<>> /\ tables = <<>> /\ man = NoVersions /\ tail = <<>>
      /\ \A c \in Calls : pc[c] = "idle" /\ status[c] = "none"
  BY DEF Init
<1>2. Describable = {man} /\ Described = man /\ Live(man) = {}
  BY <1>1, EmptyLogs DEF Describable, Described, Live, NoVersions
<1>3. \A v \in Describable : \A c : c \notin Recoverable(v, logs, tables)
                                /\ c \notin Recoverable(v, Hard, tables)
  <2>1. DOMAIN Hard = {} /\ DOMAIN logs = {}
    BY <1>1, EmptyLogs DEF Hard, Durably, Cut
  <2>2. \A c : c \notin In({}, tables)
    BY InIs
  <2> QED BY <1>2, <2>1, <2>2, RecoverableIs
<1>4. OnDisk = {}
  BY <1>2, <1>3 DEF OnDisk
<1>5. KeptInv
  BY <1>1, <1>3 DEF KeptInv, AnswerInv, OnlyHeld, NotYet, InFront, Logging
<1>6. Surviving = {}
  BY <1>2, <1>3, SurvivingIs
<1>7. Limbo = {} /\ Acked = {}
  BY <1>1 DEF Limbo, Acked, Batches
<1>8. Present = {}
  BY <1>1, <1>4 DEF Present
<1> QED BY <1>5, <1>6, <1>7, <1>8 DEF Promise!Init

(* Every step of the engine is a step of DurableStore, or leaves what it    *)
(* tells alone: writes come into view a group at a time, once logged;       *)
(* flushes, compactions and the deletion of files leave what is seen alone; *)
(* a crash of the process or the machine loses nothing that was synced, and *)
(* DB::Open finds again what the MANIFEST and the logs held, and no more.   *)
(* A failed append, a torn record or an unread earlier log would break it.  *)
THEOREM LevelStoreIsDurable ==
  ASSUME Reliable
  PROVE  Spec => KeepsPromise
<1>1. Faults \cap {"torn", "earlierlog"} = {}
  BY DEF Reliable
<1>2. Files /\ Files' /\ SeqInv /\ DurInv /\ WriterInv /\ [Next]_vars => (DurInv /\ WriterInv)'
  BY <1>1, DurStep
<1>3. Files /\ Files' /\ SeqInv /\ SeqInv' /\ DurInv /\ DurInv' /\ WriterInv /\ KeptInv
        /\ [Next]_vars => KeptInv' /\ (Known' => [Promise!Next]_(Promise!vars))
  BY KeptStep
<1>4. Files /\ SeqInv /\ DurInv /\ KeptInv => Known
  BY KeptIsKnown DEF Files, DurInv
<1> QED BY <1>2, <1>3, <1>4, DurInit, KeptInit, SeqHolds, PTL DEF Spec, KeepsPromise, Promise!Spec

(***************************************************************************)
(* What the promise comes to.                                              *)
(***************************************************************************)
\* An acknowledged synchronous write is there, and no crash takes it away.
SyncedStays == Acked \cap Sync \subseteq Present \cap Surviving

(* DurableStore's promise alone keeps acknowledged synchronous writes       *)
(* present and safe, for any set of writes and after any number of crashes  *)
(* (WriteOptions::sync: "the write will be flushed from the operating       *)
(* system buffer cache ... before the write is considered complete").       *)
THEOREM SyncedStaysHolds == Promise!Spec => []SyncedStays
<1>1. Promise!Init => SyncedStays
  BY DEF Promise!Init, SyncedStays
<1>2. ASSUME SyncedStays, [Promise!Next]_(Promise!vars) PROVE SyncedStays'
  <2> USE <1>2 DEF SyncedStays
  <2>1. ASSUME NEW c \in Batches, Promise!Submit(c) PROVE SyncedStays'
    BY <2>1 DEF Promise!Submit
  <2>2. ASSUME NEW S \in SUBSET Limbo, Promise!Commit(S) PROVE SyncedStays'
    BY <2>2 DEF Promise!Commit
  <2>3. CASE Promise!Harden
    BY <2>3 DEF Promise!Harden
  <2>4. CASE Promise!Crash
    BY <2>4 DEF Promise!Crash
  <2>5. CASE UNCHANGED Promise!vars
    BY <2>5 DEF Promise!vars
  <2> QED BY <2>1, <2>2, <2>3, <2>4, <2>5 DEF Promise!Next
<1> QED BY <1>1, <1>2, PTL DEF Promise!Spec

(* An acknowledged synchronous write is seen by every reader of an open     *)
(* database and found by the next DB::Open, and a crash of the machine at   *)
(* this moment, whatever it leaves of logs and MANIFEST, would not take it  *)
(* away (WriteOptions::sync).                                               *)
THEOREM SyncedSurviveHolds ==
  ASSUME Reliable
  PROVE  Spec => []SyncedStays
BY LevelStoreIsDurable, SyncedStaysHolds, PTL DEF KeepsPromise
=============================================================================
