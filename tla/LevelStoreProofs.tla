-------------------------- MODULE LevelStoreProofs --------------------------
(* Theorems about LevelStore, for any calls, limits, faults and bounds,     *)
(* whatever the writers, the background thread, the crashes and the failing *)
(* files do: the queue of writers excludes, no file that is needed is       *)
(* deleted, no two writes share a sequence number, what is read first is    *)
(* the newer, and no wake-up is lost.                                       *)
EXTENDS LevelStore, FiniteOrder, SequenceTheorems

Stages == InFront \cup {"idle", "wait", "flush", "flushstall", "done"}

\* FrontWriterOnly and the types it needs.
QueueType ==
    /\ queue \in Seq(Calls)
    /\ pc \in [Calls -> Stages]
QInv == QueueType /\ FrontWriterOnly

(***************************************************************************)
(* Types.                                                                  *)
(***************************************************************************)
Log == [recs : Seq(SUBSET Batches), synced : Nat]
Version == [log : Nat, next : Nat, last : Nat, l0 : SUBSET Nat, l1 : SUBSET Nat]
VersionEdit == [add0 : SUBSET Nat, add1 : SUBSET Nat, del : SUBSET Nat,
                log : Nat, next : Nat, last : Nat]

LogsOK(lg) ==
    /\ DOMAIN lg \subseteq Nat /\ lg \in [DOMAIN lg -> Log]
    /\ \A n \in DOMAIN lg : lg[n].synced <= Len(lg[n].recs)
DiskOK ==
    /\ LogsOK(logs) /\ LogsOK(ghosts)
    /\ DOMAIN tables \subseteq Nat /\ tables \in [DOMAIN tables -> SUBSET Batches]
    /\ man \in Version
    /\ tail \in Seq([edit : VersionEdit, ver : Version])
CoreOK ==
    /\ phase \in {"down", "replay", "open"}
    /\ mem \subseteq Batches /\ imm \subseteq Batches /\ hasImm \in BOOLEAN
    /\ logfile \in Nat /\ vs \in Version
    /\ pins \subseteq SUBSET Nat /\ pending \subseteq Nat
CallsOK ==
    /\ group \in Seq(Calls)
    /\ status \in [Calls -> {"none", "ok", "err", "gone"}]
    /\ owed \subseteq Batches
    /\ seqOf \in [Calls -> Nat]
    /\ \E N \in Nat : \A c \in Calls : seqOf[c] <= N
StageOK ==
    /\ bgErr \in BOOLEAN /\ shutting \in BOOLEAN /\ sched \in BOOLEAN
    /\ fl \in {"no", "build", "manifest"} /\ fnum \in Nat
    /\ cp \in {"no", "merge", "out", "merged", "manifest", "move"} /\ cout \in Nat
    /\ cin \in [files : SUBSET Nat, base : SUBSET Nat]
    /\ replay \in [todo : SUBSET Nat, add : SUBSET Nat, max : Nat, err : BOOLEAN]
    /\ replay.todo \subseteq DOMAIN logs
    /\ fl = "manifest" \/ cp \in {"manifest", "move"} => tail # <<>>
TInv == DiskOK /\ CoreOK /\ CallsOK /\ StageOK

(***************************************************************************)
(* What each stage of the database and of its background thread has.       *)
(***************************************************************************)
Quiet ==
    /\ mem = {} /\ imm = {} /\ ~hasImm
    /\ pins = {} /\ pending = {} /\ ~bgErr /\ ~shutting
    /\ queue = <<>> /\ group = <<>>
    /\ \A c \in Calls : pc[c] \in {"idle", "done"}
    /\ ~sched /\ fl = "no" /\ cp = "no" /\ cin = NoInputs
BackgroundInv ==
    /\ phase # "open" => Quiet
    /\ phase = "down" => vs = NoVersions /\ logfile = 0 /\ replay = NoReplay
    /\ phase = "open" => replay = NoReplay
    /\ ~hasImm => imm = {}
    /\ fl # "no" => hasImm /\ sched /\ cp \in {"no", "merge", "out", "merged"}
    /\ cp # "no" => sched
    /\ cp \in {"no", "move"} => cin = NoInputs
LoggingInv ==
    /\ group # <<>> => \E c \in Calls : pc[c] \in Logging
    /\ \A c \in Calls : pc[c] \in Logging => c \in Batches
StagesInv == BackgroundInv /\ LoggingInv

(***************************************************************************)
(* The numbers of files.                                                   *)
(***************************************************************************)
Below(F, n) == \A f \in F : f < n
LogNumbers ==
    /\ phase = "open" \/ logfile # 0 =>
          logfile \in DOMAIN logs /\ logfile < vs.next /\ \A n \in DOMAIN logs : n <= logfile
    /\ phase = "replay" /\ logfile = 0 =>
          \A n \in DOMAIN logs : n < vs.next \/ n \in replay.todo
    /\ phase = "replay" /\ logfile # 0 => replay.todo = {} /\ logs[logfile].recs = <<>>
    /\ phase = "open" =>
          \A v \in Describable : vs.log <= v.log /\ v.log <= logfile
    /\ phase = "replay" => vs.log = Described.log /\ replay.todo \subseteq LogsToRead(Described, logs)
    /\ \A v \in Describable : \A n \in DOMAIN ghosts : n < v.log
    /\ phase = "open" => \A n \in DOMAIN ghosts : n < vs.log
    /\ phase = "replay" => vs.log < vs.next
    /\ tail # <<>> => Described.log = Last(tail).edit.log
    /\ phase = "open" => man.log = vs.log
TableNumbers ==
    /\ \A v \in Describable : Below(Live(v), v.next) /\ v.next <= Described.next
    /\ phase # "down" =>
          /\ \A v \in Describable : v.next <= vs.next
          /\ Below(Live(vs), vs.next)
    /\ Below(UNION pins, vs.next) /\ Below(cin.base, vs.next) /\ Below(replay.add, vs.next)
    /\ cp \in {"out", "merged", "manifest"} => cout < vs.next
    /\ fl = "build" =>
          /\ fnum < vs.next
          /\ \A v \in Describable : v.next <= fnum
          /\ Below(LiveFiles(vs, cin.base), fnum)
    /\ fl # "no" /\ cp \in {"out", "merged"} => cout < fnum
    /\ cp = "out" =>
          /\ cout \notin LiveFiles(vs, cin.base)
          /\ \A v \in Describable : cout \notin Live(v)

(***************************************************************************)
(* The files that are needed, and the edit that is being logged.           *)
(***************************************************************************)
FilesInv ==
    /\ phase # "down" => LiveFiles(vs, cin.base) \cup replay.add \subseteq DOMAIN tables
    /\ \A v \in Describable : Live(v) \subseteq DOMAIN tables
    /\ cp \in {"out", "merged", "manifest"} => cout \in pending
    /\ cp \in {"merged", "manifest"} =>
          cout \in DOMAIN tables /\ tables[cout] = In(cin.files, tables)
    /\ cp \in {"merge", "out", "merged", "manifest"} => cin.files \subseteq Live(vs) \cap cin.base
    /\ phase = "replay" => vs.l0 = Described.l0 /\ vs.l1 = Described.l1

Logged == Last(tail).edit
EditInv ==
    /\ fl = "manifest" =>
          /\ tail # <<>>
          /\ Logged.del = {} /\ Logged.log = logfile
          /\ Logged.add0 \cup Logged.add1 = IF imm = {} THEN {} ELSE {fnum}
          /\ imm # {} => fnum \in DOMAIN tables /\ tables[fnum] = imm /\ fnum \in Live(Described)
          /\ fnum < vs.next
    /\ cp = "manifest" =>
          /\ tail # <<>>
          /\ Logged.add0 = {} /\ Logged.add1 = {cout} /\ Logged.del = cin.files
          /\ Logged.log = vs.log /\ cout \in Live(Described)
    /\ cp = "move" =>
          /\ tail # <<>>
          /\ Logged.add0 = {} /\ Logged.add1 = {cout} /\ Logged.del = {cout}
          /\ Logged.log = vs.log /\ cout \in Live(vs)
    /\ phase = "open" /\ ~bgErr =>
          /\ man.log = vs.log /\ man.l0 = vs.l0 /\ man.l1 = vs.l1
          /\ fl # "manifest" /\ cp \notin {"manifest", "move"} => tail = <<>>
          /\ fl = "manifest" \/ cp \in {"manifest", "move"} =>
                Len(tail) = 1 /\ Described = Apply(man, Logged)

(***************************************************************************)
(* Sequence numbers.                                                       *)
(***************************************************************************)
Grouped == InGroup(group)
Reach == (IF phase = "open" THEN Held ELSE {})
         \cup UNION {Recoverable(v, logs, tables) : v \in Describable}
SeqReach ==
    /\ \A c \in Reach : c \in Batches /\ (pc[c] = "done" \/ c \in Grouped)
    /\ \A c, d \in Reach \cup Grouped : seqOf[c] = seqOf[d] => c = d
    /\ \A c \in Reach \cup Grouped : seqOf[c] >= 1
SeqLast ==
    phase = "open" =>
          /\ \A c \in Reach \ Grouped : seqOf[c] <= vs.last
          /\ \A c \in Grouped : /\ seqOf[c] > vs.last
                                /\ seqOf[c] <= vs.last + Cardinality(Grouped)
          /\ (imm \cup In(Live(vs), tables)) \cap Grouped = {}
SeqFiles ==
    /\ \A v \in Describable :
          /\ \A c \in In(Live(v), tables) : c \notin Grouped /\ seqOf[c] <= v.last
          /\ v.last <= Described.last
    /\ phase = "open" => Described.last <= vs.last
ReplayedLogs == UNION {ReadLog(logs[n].recs) : n \in LogsToRead(Described, logs)}
SeqReplay ==
    phase = "replay" =>
          /\ In(replay.add, tables) \subseteq ReplayedLogs
          /\ \A n \in LogsToRead(Described, logs) \ replay.todo :
                \A c \in ReadLog(logs[n].recs) : seqOf[c] <= replay.max
          /\ vs.last >= Described.last
          /\ logfile # 0 => vs.last >= replay.max
SeqInv == SeqReach /\ SeqLast /\ SeqFiles /\ SeqReplay

(***************************************************************************)
(* What a log holds for certain.                                           *)
(***************************************************************************)
Durably(lg) == Cut(lg, [n \in DOMAIN lg |-> lg[n].synced])
Hard == Durably(logs)

(***************************************************************************)
(* The order of the writes.                                                *)
(***************************************************************************)
Before(sq, A, B) == \A a \in A, b \in B : sq[a] < sq[b]

\* What DB::Open would find by version v: level 0 in the order of its numbers,
\* the logs after all tables and in the order of theirs.
InOrder(v, lg, tb, sq) ==
    /\ \A f, g \in v.l0 : f < g => Before(sq, tb[f], tb[g])
    /\ \A n \in DOMAIN lg : n >= v.log => Before(sq, In(Live(v), tb), ReadLog(lg[n].recs))
    /\ \A n, m \in DOMAIN lg : n >= v.log /\ n < m =>
          Before(sq, ReadLog(lg[n].recs), ReadLog(lg[m].recs))
OrderDisk == \A v \in Describable : InOrder(v, logs, tables, seqOf)
OrderMem ==
    phase = "open" =>
          /\ Before(seqOf, imm, mem) /\ Before(seqOf, imm, ReadLog(logs[logfile].recs))
          /\ Before(seqOf, In(Live(vs), tables), imm \cup mem)
          /\ \A n \in DOMAIN logs : n >= vs.log /\ n # logfile =>
                ReadLog(logs[n].recs) \cap Grouped = {}
\* What has been replayed is older than what is still to be.
OrderReplay ==
    phase = "replay" =>
          /\ \A f \in Live(Described), g \in replay.add : f < g
          /\ \A f \in replay.add, m \in replay.todo : \A c \in tables[f] :
                \E n \in LogsToRead(Described, logs) : n < m /\ c \in ReadLog(logs[n].recs)
          /\ \A f, g \in replay.add : f < g => Before(seqOf, tables[f], tables[g])
OrderInv == OrderDisk /\ OrderMem /\ OrderReplay

\* With no failure of the MANIFEST the version in memory is the one it
\* describes, but for the one edit that is being logged.
Editing == fl = "manifest" \/ cp \in {"manifest", "move"}
OneEdit ==
    phase = "open" =>
          /\ man.log = vs.log /\ man.l0 = vs.l0 /\ man.l1 = vs.l1
          /\ IF fl = "manifest" \/ cp \in {"manifest", "move"}
             THEN Len(tail) = 1 /\ Described = Apply(man, Logged)
             ELSE tail = <<>>

(***************************************************************************)
(* Waiting.                                                                *)
(***************************************************************************)
\* Who waits has a reason, the background thread is scheduled if and only if
\* it has work, and nobody is at work in a database that is being closed.
WakeInv ==
    phase = "open" =>
          /\ NeedsWork(hasImm, vs, bgErr) => sched
          /\ Idle => shutting \/ bgErr \/ NeedsWork(hasImm, vs, bgErr)
          /\ \A c \in Calls : pc[c] = "stall" =>
                ~bgErr /\ (hasImm \/ Cardinality(vs.l0) >= L0Stop)
          /\ \A c \in Calls : pc[c] = "flushstall" => ~bgErr /\ hasImm
          /\ shutting => \A c \in Calls : pc[c] \in {"idle", "done"}

-----------------------------------------------------------------------------
(* What signalling bg_cv_ does to the calls.                                *)
LEMMA WokenStage ==
  ASSUME NEW p \in [Calls -> Stages]
  PROVE  /\ Woken(p) \in [Calls -> Stages]
         /\ \A c \in Calls : /\ Woken(p)[c] \in InFront <=> p[c] \in InFront
                             /\ Woken(p)[c] = "wait" <=> p[c] = "wait"
                             /\ Woken(p)[c] \in Logging <=> p[c] \in Logging
BY DEF Woken, Stages, InFront, Logging

(* Nothing but the signal changes: MaybeScheduleCompaction, the flush.      *)
LEMMA WokenKeeps ==
  ASSUME QInv, pc' = Woken(pc), UNCHANGED <<queue, group>>
  PROVE  QInv'
<1> USE DEF QInv, QueueType
<1>1. pc' \in [Calls -> Stages]
  BY WokenStage
<1>2. \A c \in Calls : /\ pc'[c] \in InFront <=> pc[c] \in InFront
                       /\ pc'[c] = "wait" <=> pc[c] = "wait"
                       /\ pc'[c] \in Logging <=> pc[c] \in Logging
  BY WokenStage
<1>3. \A i \in 1..Len(queue) : queue[i] \in Calls
  BY ElementOfSeq
<1>4. queue # <<>> => queue[1] \in Calls
  BY <1>3, EmptySeq
<1> QED BY <1>1, <1>2, <1>3, <1>4 DEF FrontWriterOnly

(* A call at the front goes on to another stage of the front, its group     *)
(* being chosen when logging begins.                                        *)
LEMMA FrontStep ==
  ASSUME QInv, NEW c \in Calls, NEW st \in InFront, pc[c] \in InFront,
         pc' = [pc EXCEPT ![c] = st], queue' = queue,
         st \in Logging => /\ Len(group') \in 1..Len(queue)
                           /\ \A i \in 1..Len(group') : group'[i] = queue[i]
  PROVE  QInv'
<1> USE DEF QInv, QueueType
<1>1. queue # <<>> /\ queue[1] = c
  BY DEF FrontWriterOnly
<1>2. pc' \in [Calls -> Stages] /\ pc'[c] = st
  BY DEF Stages
<1>3. \A d \in Calls \ {c} : pc'[d] = pc[d] /\ pc[d] \notin InFront
  BY <1>1 DEF FrontWriterOnly
<1>4. \A d \in Calls : pc'[d] \in Logging => d = c
  BY <1>3 DEF InFront
<1>5. st # "wait" /\ pc[c] # "wait"
  BY DEF InFront, Logging
<1>6. \A i \in 1..Len(queue) : queue[i] \in Calls
  BY ElementOfSeq
<1>7. \A d \in Calls : pc'[d] \in InFront => d = c
  BY <1>3
<1>8. \A i \in 1..Len(queue) : pc'[queue[i]] \in InFront \cup {"wait"}
  BY <1>2, <1>3, <1>6 DEF FrontWriterOnly
<1>9. \A d \in Calls : pc'[d] = "wait" => \E i \in 1..Len(queue) : queue[i] = d
  BY <1>2, <1>3, <1>5 DEF FrontWriterOnly
<1> QED BY <1>1, <1>2, <1>4, <1>7, <1>8, <1>9 DEF FrontWriterOnly

(* The first n writers leave the queue; the next one, if any, is told.      *)
LEMMA LeaveKeeps ==
  ASSUME QInv, NEW n \in 1..Len(queue), NEW st, NEW p \in [Calls -> Stages],
         \A c \in Calls : /\ p[c] \in InFront => pc[c] \in InFront
                          /\ p[c] = "wait" <=> pc[c] = "wait",
         Leave(n, st, p)
  PROVE  QInv'
<1> USE DEF QInv, QueueType
<1> DEFINE gone == Range(SubSeq(queue, 1, n))
           rest == SubSeq(queue, n + 1, Len(queue))
<1>0. Len(queue) \in Nat /\ \A i \in 1..Len(queue) : queue[i] \in Calls
  BY ElementOfSeq, LenProperties
<1>1. gone = {queue[i] : i \in 1..n}
  <2>1. /\ SubSeq(queue, 1, n) \in Seq(Calls)
        /\ Len(SubSeq(queue, 1, n)) = n
        /\ \A i \in 1..n : SubSeq(queue, 1, n)[i] = queue[i]
    BY <1>0, SubSeqProperties
  <2>2. DOMAIN SubSeq(queue, 1, n) = 1..n
    BY <2>1, LenProperties
  <2> QED BY <2>1, <2>2 DEF Range
<1>2. /\ rest \in Seq(Calls)
      /\ Len(rest) = Len(queue) - n
      /\ \A i \in 1..Len(rest) : rest[i] = queue[n + i]
  BY <1>0, SubSeqProperties
<1>3. queue' = rest
  BY DEF Leave
<1>4. pc' = [c \in Calls |->
               IF c \in gone
               THEN IF st = "ok" /\ c \in Forced THEN "flush" ELSE "done"
               ELSE IF rest # <<>> /\ c = rest[1] THEN "room" ELSE p[c]]
  BY DEF Leave
<1>5. pc' \in [Calls -> Stages]
  BY <1>4 DEF Stages, InFront
<1>6. \A i \in 1..Len(rest) : rest[i] \in Calls \ gone
  <2> SUFFICES ASSUME NEW i \in 1..Len(rest), NEW j \in 1..n, rest[i] = queue[j]
               PROVE  FALSE
    BY <1>0, <1>1, <1>2
  <2>1. n + i \in 1..Len(queue) /\ j \in 1..Len(queue) /\ n + i # j
    BY <1>0, <1>2
  <2> QED BY <1>2, <2>1 DEF FrontWriterOnly
<1>7. \A c \in gone : pc'[c] \notin InFront \cup {"wait"}
  BY <1>0, <1>1, <1>4 DEF InFront, Logging
<1>8. \A c \in Calls \ gone : p[c] \notin InFront
  <2>1. queue[1] \in gone
    BY <1>0, <1>1
  <2> QED BY <2>1 DEF FrontWriterOnly
<1>9. \A c \in Calls : pc'[c] \in InFront => rest # <<>> /\ c = rest[1] /\ pc'[c] = "room"
  BY <1>4, <1>7, <1>8
<1>10. rest # <<>> => Len(rest) \in Nat \ {0} /\ rest[1] \in Calls \ gone /\ pc'[rest[1]] = "room"
  <2> SUFFICES ASSUME rest # <<>>
               PROVE  Len(rest) \in Nat \ {0} /\ rest[1] \in Calls \ gone /\ pc'[rest[1]] = "room"
    OBVIOUS
  <2>1. Len(rest) \in Nat \ {0}
    BY <1>2, EmptySeq
  <2>2. rest[1] \in Calls \ gone
    BY <2>1, <1>6
  <2> QED BY <2>1, <2>2, <1>4
<1>11. \A i \in 1..Len(rest) : pc'[rest[i]] \in InFront \cup {"wait"}
  <2> SUFFICES ASSUME NEW i \in 1..Len(rest) PROVE pc'[rest[i]] \in InFront \cup {"wait"}
    OBVIOUS
  <2>1. CASE rest[i] = rest[1]
    <3>1. ASSUME rest = <<>> PROVE FALSE
      <4>1. Len(rest) = 0
        BY <3>1, EmptySeq
      <4> QED BY <4>1
    <3> QED BY <2>1, <3>1, <1>10 DEF InFront
  <2>2. CASE rest[i] # rest[1]
    <3>1. pc'[rest[i]] = p[rest[i]]
      BY <2>2, <1>4, <1>6
    <3>2. n + i \in 1..Len(queue)
      BY <1>0, <1>2
    <3>3. pc[rest[i]] \in InFront \cup {"wait"}
      BY <1>2, <3>2 DEF FrontWriterOnly
    <3>4. pc[rest[i]] \notin InFront
      <4>1. queue[1] \in gone
        BY <1>0, <1>1
      <4> QED BY <4>1, <1>6 DEF FrontWriterOnly
    <3> QED BY <3>1, <3>3, <3>4, <1>6
  <2> QED BY <2>1, <2>2
<1>12. \A c \in Calls : pc'[c] = "wait" => \E i \in 1..Len(rest) : rest[i] = c
  <2> SUFFICES ASSUME NEW c \in Calls, pc'[c] = "wait"
               PROVE  \E i \in 1..Len(rest) : rest[i] = c
    OBVIOUS
  <2>1. c \notin gone /\ p[c] = "wait"
    BY <1>4, <1>7
  <2>2. PICK j \in 1..Len(queue) : queue[j] = c
    BY <2>1 DEF FrontWriterOnly
  <2>3. j > n /\ j - n \in 1..Len(rest) /\ n + (j - n) = j
    BY <2>1, <2>2, <1>0, <1>1, <1>2
  <2> QED BY <2>2, <2>3, <1>2
<1>13. \A i, j \in 1..Len(rest) : rest[i] = rest[j] => i = j
  <2> SUFFICES ASSUME NEW i \in 1..Len(rest), NEW j \in 1..Len(rest), rest[i] = rest[j]
               PROVE  i = j
    OBVIOUS
  <2>1. n + i \in 1..Len(queue) /\ n + j \in 1..Len(queue)
    BY <1>0, <1>2
  <2>2. n + i = n + j
    BY <1>2, <2>1 DEF FrontWriterOnly
  <2> QED BY <2>2
<1>14. \A c \in Calls : pc'[c] \notin Logging
  BY <1>9 DEF InFront, Logging
<1>15. rest # <<>> => pc'[rest[1]] \in InFront
  BY <1>10 DEF InFront
<1> QED
  BY <1>2, <1>3, <1>5, <1>9, <1>11, <1>12, <1>13, <1>14, <1>15 DEF FrontWriterOnly

(* The front writer has decided how far its group reaches.                  *)
LEMMA StartKeeps ==
  ASSUME QInv, NEW c \in Calls, AtFront(c), StartLogging(c)
  PROVE  QInv'
<1> USE DEF QInv, QueueType
<1>1. pc[c] \in InFront /\ queue' = queue
  BY DEF AtFront, StartLogging, InFront
<1>2. PICK n \in GroupLengths : group' = SubSeq(queue, 1, n)
  BY DEF StartLogging
<1>3. n \in 1..Len(queue) /\ Len(queue) \in Nat
  BY LenProperties DEF GroupLengths
<1>4. \A i \in 1..Len(queue) : queue[i] \in Calls
  BY ElementOfSeq
<1>5. Len(group') = n /\ \A i \in 1..n : group'[i] = queue[i]
  BY <1>2, <1>3, <1>4, SubSeqProperties
<1>6. pc' = [pc EXCEPT ![c] = "append"] /\ "append" \in InFront
  BY DEF StartLogging, InFront, Logging
<1> QED BY <1>1, <1>3, <1>5, <1>6, FrontStep

(* The process is gone, and its queue with it.                              *)
LEMMA GoneKeeps ==
  ASSUME QInv, Gone
  PROVE  QInv'
<1>1. queue' = <<>> /\ Len(queue') = 0 /\ queue' \in Seq(Calls)
  BY EmptySeq DEF Gone
<1>2. \A c \in Calls : pc'[c] \in {"idle", "done"}
  BY DEF Gone
<1>3. pc' \in [Calls -> Stages]
  BY DEF Gone, Stages
<1> QED
  BY <1>1, <1>2, <1>3 DEF QInv, QueueType, FrontWriterOnly, InFront, Logging

(* A new call goes to the end of the queue, or to the front if that is it.  *)
LEMMA EnqueueKeeps ==
  ASSUME QInv, NEW c \in Calls, Enqueue(c)
  PROVE  QInv'
<1> USE DEF QInv, QueueType
<1> DEFINE st == IF queue = <<>> THEN "room" ELSE "wait"
<1>0. Len(queue) \in Nat /\ \A i \in 1..Len(queue) : queue[i] \in Calls
  BY ElementOfSeq, LenProperties
<1>1. pc[c] = "idle" /\ pc' = [pc EXCEPT ![c] = st] /\ group' = group
  BY DEF Enqueue
<1>2. /\ queue' \in Seq(Calls) /\ queue' # <<>>
      /\ Len(queue') = Len(queue) + 1
      /\ \A i \in 1..Len(queue) : queue'[i] = queue[i]
      /\ queue'[Len(queue) + 1] = c
  BY AppendProperties DEF Enqueue
<1>3. pc' \in [Calls -> Stages] /\ pc'[c] = st /\ \A d \in Calls \ {c} : pc'[d] = pc[d]
  BY <1>1 DEF Stages, InFront
<1>4. \A i \in 1..Len(queue) : queue[i] # c
  BY <1>1 DEF FrontWriterOnly, InFront, Logging
<1>5. \A i \in 1..Len(queue) : pc'[queue[i]] = pc[queue[i]]
  BY <1>0, <1>3, <1>4
<1>6. CASE queue = <<>>
  <2>1. Len(queue) = 0 /\ queue'[1] = c /\ st = "room"
    BY <1>2, <1>6, EmptySeq
  <2>2. \A d \in Calls \ {c} : pc'[d] \notin InFront /\ pc'[d] # "wait"
    BY <1>3, <1>6, <2>1 DEF FrontWriterOnly
  <2>3. "room" \in InFront /\ "room" # "wait" /\ "room" \notin Logging
    BY DEF InFront, Logging
  <2>4. \A d \in Calls : pc'[d] \in InFront => d = c
    BY <2>2
  <2>5. \A d \in Calls : pc'[d] # "wait" /\ pc'[d] \notin Logging
    BY <2>1, <2>2, <2>3, <1>3 DEF InFront
  <2>6. \A i \in 1..Len(queue') : i = 1
    BY <1>2, <2>1
  <2> QED BY <1>2, <1>3, <2>1, <2>3, <2>4, <2>5, <2>6 DEF FrontWriterOnly
<1>7. CASE queue # <<>>
  <2>1. Len(queue) \in Nat \ {0} /\ st = "wait" /\ queue'[1] = queue[1] /\ queue[1] # c
    BY <1>0, <1>2, <1>4, <1>7, EmptySeq
  <2>2. "wait" \notin InFront /\ "wait" \notin Logging
    BY DEF InFront, Logging
  <2>3. \A d \in Calls : pc'[d] \in InFront => pc[d] \in InFront
    BY <1>3, <2>1, <2>2
  <2>4. \A i \in 1..Len(queue') : pc'[queue'[i]] \in InFront \cup {"wait"}
    <3> SUFFICES ASSUME NEW i \in 1..Len(queue')
                 PROVE  pc'[queue'[i]] \in InFront \cup {"wait"}
      OBVIOUS
    <3>1. CASE i \in 1..Len(queue)
      BY <3>1, <1>2, <1>5 DEF FrontWriterOnly
    <3>2. CASE i = Len(queue) + 1
      BY <3>2, <1>2, <1>3, <2>1
    <3> QED BY <3>1, <3>2, <1>0, <1>2
  <2>5. \A i, j \in 1..Len(queue') : queue'[i] = queue'[j] => i = j
    BY <1>0, <1>2, <1>4 DEF FrontWriterOnly
  <2>6. \A d \in Calls : pc'[d] = "wait" => \E i \in 1..Len(queue') : queue'[i] = d
    <3> SUFFICES ASSUME NEW d \in Calls, pc'[d] = "wait"
                 PROVE  \E i \in 1..Len(queue') : queue'[i] = d
      OBVIOUS
    <3>1. CASE d = c
      BY <3>1, <1>0, <1>2
    <3>2. CASE d # c
      <4>1. PICK i \in 1..Len(queue) : queue[i] = d
        BY <3>2, <1>3 DEF FrontWriterOnly
      <4> QED BY <4>1, <1>0, <1>2
    <3> QED BY <3>1, <3>2
  <2>7. \A d \in Calls : pc'[d] \in Logging =>
          /\ pc[d] \in Logging
          /\ Len(group') \in 1..Len(queue')
          /\ \A i \in 1..Len(group') : group'[i] = queue'[i]
    <3> SUFFICES ASSUME NEW d \in Calls, pc'[d] \in Logging
                 PROVE  /\ Len(group') \in 1..Len(queue')
                        /\ \A i \in 1..Len(group') : group'[i] = queue'[i]
      BY <1>3, <2>1, <2>2
    <3>1. pc[d] \in Logging
      BY <1>3, <2>1, <2>2
    <3>2. Len(group) \in 1..Len(queue) /\ \A i \in 1..Len(group) : group[i] = queue[i]
      BY <3>1 DEF FrontWriterOnly
    <3> QED BY <3>2, <1>0, <1>1, <1>2
  <2>8. pc'[queue'[1]] \in InFront
    BY <1>5, <1>7, <2>1, <1>0 DEF FrontWriterOnly
  <2>9. \A d \in Calls : pc'[d] \in InFront => queue'[1] = d
    BY <2>1, <2>3 DEF FrontWriterOnly
  <2> QED BY <1>2, <1>3, <2>4, <2>5, <2>6, <2>7, <2>8, <2>9 DEF FrontWriterOnly
<1> QED BY <1>6, <1>7

(* A call of TEST_CompactMemTable that is past the queue.                   *)
LEMMA PastKeeps ==
  ASSUME QInv, NEW c \in Calls, pc[c] = "flush",
         NEW st \in {"flushstall", "done"},
         pc' = [pc EXCEPT ![c] = st], UNCHANGED <<queue, group>>
  PROVE  QInv'
<1> USE DEF QInv, QueueType
<1>1. pc' \in [Calls -> Stages] /\ pc'[c] = st /\ \A d \in Calls \ {c} : pc'[d] = pc[d]
  BY DEF Stages
<1>2. {st, pc[c]} \cap (InFront \cup {"wait"}) = {}
  BY DEF InFront, Logging
<1>3. \A d \in Calls : /\ pc'[d] \in InFront <=> pc[d] \in InFront
                       /\ pc'[d] = "wait" <=> pc[d] = "wait"
                       /\ pc'[d] \in Logging <=> pc[d] \in Logging
  BY <1>1, <1>2 DEF InFront
<1>4. \A i \in 1..Len(queue) : queue[i] \in Calls
  BY ElementOfSeq
<1>5. queue # <<>> => queue[1] \in Calls
  BY <1>4, EmptySeq
<1> QED BY <1>1, <1>3, <1>4, <1>5 DEF FrontWriterOnly

-----------------------------------------------------------------------------
LEMMA QueueInit == Init => QInv
<1> SUFFICES ASSUME Init PROVE QInv
  OBVIOUS
<1>1. queue = <<>> /\ Len(queue) = 0 /\ queue \in Seq(Calls)
  BY EmptySeq DEF Init
<1>2. pc \in [Calls -> Stages] /\ \A c \in Calls : pc[c] = "idle"
  BY DEF Init, Stages
<1> QED BY <1>1, <1>2 DEF QInv, QueueType, FrontWriterOnly, InFront, Logging

(* DBImpl::Write of any call.                                               *)
LEMMA WriterKeeps ==
  ASSUME QInv, NEW c \in Calls, WriterStep(c)
  PROVE  QInv'
<1> USE DEF QInv, QueueType
<1>0. Len(queue) \in Nat /\ group' = group =>
        \A d \in Calls : pc[d] \in Logging =>
          /\ Len(group') \in 1..Len(queue)
          /\ \A i \in 1..Len(group') : group'[i] = queue[i]
  BY DEF FrontWriterOnly
<1>1. Len(queue) \in Nat
  BY LenProperties
<1>2. pc[c] \in InFront => 1 \in 1..Len(queue)
  <2>1. queue # <<>> => Len(queue) \in Nat \ {0}
    BY EmptySeq
  <2> QED BY <2>1 DEF FrontWriterOnly
<1>3. \A d \in Calls : /\ pc[d] \in InFront => pc[d] \in InFront
                       /\ pc[d] = "wait" <=> pc[d] = "wait"
  OBVIOUS
<1>4. "room" \in InFront /\ Logging \subseteq InFront
  BY DEF InFront
<1>5. CASE RoomError(c) \/ RoomSwitchFails(c)
  <2>1. pc[c] = "room" /\ Leave(1, "err", pc)
    BY <1>5 DEF RoomError, RoomSwitchFails, CanSwitch, AtFront
  <2> QED BY <2>1, <1>2, <1>3, <1>4, LeaveKeeps
<1>6. CASE RoomDelay(c)
  BY <1>6 DEF RoomDelay, FrontWriterOnly
<1>7. CASE RoomFound(c)
  BY <1>7, StartKeeps DEF RoomFound
<1>8. CASE RoomStall(c)
  <2>1. pc[c] = "room" /\ pc' = [pc EXCEPT ![c] = "stall"] /\ queue' = queue
    BY <1>8 DEF RoomStall, AtFront
  <2>2. "stall" \in InFront /\ "stall" \notin Logging
    BY DEF InFront, Logging
  <2> QED BY <2>1, <2>2, <1>4, FrontStep
<1>9. CASE RoomSwitch(c)
  <2>1. pc[c] = "room" /\ AtFront(c)
    BY <1>9 DEF RoomSwitch, CanSwitch, AtFront
  <2>2. CASE c \in Forced
    <3>1. Leave(1, "ok", pc)
      BY <1>9, <2>2 DEF RoomSwitch
    <3> QED BY <2>1, <3>1, <1>2, <1>3, <1>4, LeaveKeeps
  <2>3. CASE c \notin Forced
    BY <1>9, <2>1, <2>3, StartKeeps DEF RoomSwitch
  <2> QED BY <2>2, <2>3
<1>10. CASE AddRecord(c) \/ AddRecordFails(c) \/ SyncLog(c) \/ SyncLogFails(c) \/ InsertInto(c)
  <2>1. PICK st \in Logging : pc' = [pc EXCEPT ![c] = st]
    BY <1>10 DEF AddRecord, AddRecordFails, SyncLog, SyncLogFails, InsertInto,
                 AfterLog, Logging
  <2>2. pc[c] \in Logging /\ queue' = queue /\ group' = group
    BY <1>10 DEF AddRecord, AddRecordFails, SyncLog, SyncLogFails, InsertInto, Logging
  <2> QED BY <2>1, <2>2, <1>0, <1>1, <1>4, FrontStep
<1>11. CASE FinishWrite(c)
  <2> DEFINE st == IF pc[c] = "finish" THEN "ok" ELSE "err"
             p == IF bgErr' # bgErr THEN Woken(pc) ELSE pc
  <2>1. pc[c] \in Logging /\ Leave(Len(group), st, p)
    BY <1>11 DEF FinishWrite, Logging
  <2>2. Len(group) \in 1..Len(queue)
    BY <2>1 DEF FrontWriterOnly
  <2>3. /\ p \in [Calls -> Stages]
        /\ \A d \in Calls : /\ p[d] \in InFront => pc[d] \in InFront
                            /\ p[d] = "wait" <=> pc[d] = "wait"
    BY WokenStage
  <2> QED BY <2>1, <2>2, <2>3, LeaveKeeps
<1>12. CASE ForceWaits(c) \/ ForceReturns(c)
  <2>1. /\ pc[c] = "flush" /\ queue' = queue /\ group' = group
        /\ \E st \in {"flushstall", "done"} : pc' = [pc EXCEPT ![c] = st]
    BY <1>12 DEF ForceWaits, ForceReturns
  <2> QED BY <2>1, PastKeeps
<1> QED
  BY <1>5, <1>6, <1>7, <1>8, <1>9, <1>10, <1>11, <1>12 DEF WriterStep

(* The background thread wakes calls, but moves none in the queue.          *)
LEMMA BackgroundKeeps ==
  ASSUME QInv, BackgroundStep
  PROVE  QInv'
<1>1. queue' = queue /\ group' = group
  BY DEF BackgroundStep, BackgroundNothing, FlushStart, FlushBuilt, FlushInstall,
         FlushFails, CompactionStart, TrivialMove, OpenCompactionOutputFile,
         FinishCompactionOutputFile, InstallCompactionResults, CompactionInstall,
         CompactionFails, calls
<1>2. pc' = pc \/ pc' = Woken(pc)
  BY DEF BackgroundStep, BackgroundNothing, FlushStart, FlushBuilt, FlushInstall,
         FlushFails, CompactionStart, TrivialMove, OpenCompactionOutputFile,
         FinishCompactionOutputFile, InstallCompactionResults, CompactionInstall,
         CompactionFails, BackgroundEnd, calls
<1>3. CASE pc' = pc
  BY <1>1, <1>3 DEF QInv, QueueType, FrontWriterOnly
<1> QED BY <1>1, <1>2, <1>3, WokenKeeps

(* One step of anybody.                                                     *)
LEMMA QueueStep ==
  ASSUME QInv, [Next]_vars
  PROVE  QInv'
<1>1. CASE UNCHANGED <<queue, pc, group>>
  BY <1>1 DEF QInv, QueueType, FrontWriterOnly
<1>2. ASSUME NEW c \in Calls, Enqueue(c) \/ WriterStep(c) PROVE QInv'
  BY <1>2, EnqueueKeeps, WriterKeeps
<1>3. CASE Pin \/ Unpin
  BY <1>3, <1>1 DEF Pin, Unpin, calls
<1>4. CASE BackgroundStep
  BY <1>4, BackgroundKeeps
<1>5. CASE OpenStep
  <2>1. CASE OpenFails
    BY <2>1, GoneKeeps DEF OpenFails
  <2>2. CASE ~OpenFails
    BY <1>5, <2>2, <1>1 DEF OpenStep, Recover, RecoverLogFile, RecoverLogFileFails,
                            OpenLog, OpenInstall, calls
  <2> QED BY <2>1, <2>2
<1>6. CASE Close
  BY <1>6, <1>1 DEF Close, calls
<1>7. CASE Closed \/ ProcessCrash \/ MachineCrash
  BY <1>7, GoneKeeps DEF Closed, ProcessCrash, MachineCrash
<1>8. CASE UNCHANGED vars
  BY <1>8, <1>1 DEF vars, calls
<1> QED BY <1>2, <1>3, <1>4, <1>5, <1>6, <1>7, <1>8 DEF Next

LEMMA QueueHolds == Spec => []QInv
<1>1. Init => QInv
  BY QueueInit
<1>2. QInv /\ [Next]_vars => QInv'
  BY QueueStep
<1> QED BY <1>1, <1>2, PTL DEF Spec

(* FrontWriterOnly is DBImpl's locking discipline: the call at the front    *)
(* alone goes past waiting, logs the queue's first batches, and is told.    *)
THEOREM FrontWriterOnlyHolds == Spec => []FrontWriterOnly
<1>1. QInv => FrontWriterOnly
  BY DEF QInv
<1> QED BY <1>1, QueueHolds, PTL

-----------------------------------------------------------------------------
(***************************************************************************)
(* The operators.                                                          *)
(***************************************************************************)

(* The largest of a set of numbers that has a bound, or 0.                  *)
LEMMA MaxNatProperties ==
  ASSUME NEW S, S \subseteq Nat, NEW N \in Nat, \A n \in S : n <= N
  PROVE  MaxNat(S) \in S \cup {0} /\ \A n \in S : n <= MaxNat(S)
<1> DEFINE T == {k \in 0..N : \A n \in S : n <= k}
<1>1. N \in T /\ T \subseteq Nat /\ T # {}
  OBVIOUS
<1>2. PICK k \in T : \A n \in T : k <= n
  <2> HIDE DEF T
  <2> QED BY <1>1, LeastNat
<1>3. k \in S \cup {0}
  <2> SUFFICES ASSUME k \notin S, k # 0 PROVE FALSE
    OBVIOUS
  <2>1. k - 1 \in T
    <3>1. \A n \in S : n <= k /\ n # k /\ n \in Nat
      BY <1>2
    <3> QED BY <3>1
  <2> QED BY <1>2, <2>1
<1>4. \E n \in S \cup {0} : \A m \in S : m <= n
  BY <1>2, <1>3
<1> QED BY <1>4 DEF MaxNat

LEMMA MaxNatPair ==
  ASSUME NEW a \in Nat, NEW b \in Nat
  PROVE  MaxNat({a, b}) \in {a, b} /\ MaxNat({a, b}) >= a /\ MaxNat({a, b}) >= b
<1>1. \A n \in {a, b} : n <= a + b
  OBVIOUS
<1> HIDE DEF MaxNat
<1>2. MaxNat({a, b}) \in {a, b, 0} /\ \A n \in {a, b} : n <= MaxNat({a, b})
  BY <1>1, MaxNatProperties
<1> QED BY <1>2

(* The MANIFEST and what it describes.                                      *)
Edits == Seq([edit : VersionEdit, ver : Version])

LEMMA TailEntries ==
  ASSUME NEW s \in Edits
  PROVE  /\ DOMAIN s = 1..Len(s) /\ Len(s) \in Nat
         /\ \A k \in DOMAIN s : s[k].edit \in VersionEdit /\ s[k].ver \in Version
         /\ s # <<>> => /\ Len(s) \in DOMAIN s
                        /\ Last(s).edit \in VersionEdit /\ Last(s).ver \in Version
<1>1. DOMAIN s = 1..Len(s) /\ Len(s) \in Nat
  BY LenProperties DEF Edits
<1>2. \A k \in DOMAIN s : s[k] \in [edit : VersionEdit, ver : Version]
  BY <1>1, ElementOfSeq DEF Edits
<1>3. \A k \in DOMAIN s : s[k].edit \in VersionEdit /\ s[k].ver \in Version
  BY <1>2
<1>4. s # <<>> => Len(s) \in DOMAIN s
  BY <1>1, EmptySeq DEF Edits
<1> QED BY <1>1, <1>3, <1>4 DEF Last

LEMMA ManifestType ==
  ASSUME man \in Version, tail \in Edits
  PROVE  Described \in Describable /\ \A v \in Describable : v \in Version
BY TailEntries DEF Described, Describable, Last

LEMMA LiveType ==
  ASSUME NEW v \in Version
  PROVE  /\ v.log \in Nat /\ v.next \in Nat /\ v.last \in Nat
         /\ v.l0 \subseteq Nat /\ v.l1 \subseteq Nat /\ Live(v) \subseteq Nat
BY DEF Version, Live

LEMMA ApplyType ==
  ASSUME NEW v \in Version, NEW e \in VersionEdit
  PROVE  /\ Apply(v, e) \in Version
         /\ Apply(v, e).log = e.log /\ Apply(v, e).next = e.next /\ Apply(v, e).last = e.last
         /\ Live(Apply(v, e)) = (Live(v) \ e.del) \cup e.add0 \cup e.add1
         /\ Apply(v, e).l0 = (v.l0 \ e.del) \cup e.add0
         /\ Apply(v, e).l1 = (v.l1 \ e.del) \cup e.add1
BY DEF Apply, Version, VersionEdit, Live

(* LogEdit adds one version, the edit's on top of what was described.       *)
LEMMA LogEditAdds ==
  ASSUME man \in Version, tail \in Edits, NEW e \in VersionEdit, LogEdit(e), man' = man
  PROVE  /\ tail' \in Edits /\ tail' # <<>>
         /\ Len(tail') = Len(tail) + 1
         /\ Logged' = e
         /\ Described' = Apply(Described, e)
         /\ Describable' = Describable \cup {Apply(Described, e)}
<1> DEFINE x == [edit |-> e, ver |-> Apply(Described, e)]
<1>1. Described \in Version
  BY ManifestType
<1>2. x \in [edit : VersionEdit, ver : Version]
  BY <1>1, ApplyType
<1>3. x.edit = e /\ x.ver = Apply(Described, e)
  OBVIOUS
<1>4. tail' = Append(tail, x)
  BY DEF LogEdit
<1> HIDE DEF x
<1>5. /\ tail' \in Edits /\ tail' # <<>>
      /\ Len(tail') = Len(tail) + 1
      /\ \A i \in 1..Len(tail) : tail'[i] = tail[i]
      /\ tail'[Len(tail) + 1] = x
  BY <1>2, <1>4, AppendProperties DEF Edits
<1>6. Last(tail') = x
  BY <1>5 DEF Last
<1>7. DOMAIN tail' = 1..(Len(tail) + 1) /\ DOMAIN tail = 1..Len(tail) /\ Len(tail) \in Nat
  BY <1>5, TailEntries
<1>8. {tail'[k].ver : k \in DOMAIN tail'} = {tail[k].ver : k \in DOMAIN tail} \cup {x.ver}
  BY <1>5, <1>7
<1>9. Logged' = e
  BY <1>3, <1>6 DEF Logged
<1>10. Described' = Apply(Described, e)
  BY <1>3, <1>5, <1>6 DEF Described
<1>11. Describable' = Describable \cup {Apply(Described, e)}
  BY <1>3, <1>8 DEF Describable
<1> QED BY <1>5, <1>9, <1>10, <1>11

(* Once the MANIFEST is synced it describes one version only.               *)
LEMMA SyncLeavesOne ==
  ASSUME man \in Version, tail \in Edits, SyncManifest
  PROVE  /\ man' \in Version /\ tail' \in Edits /\ tail' = <<>>
         /\ man' = Described /\ Described' = Described /\ Describable' = {Described}
<1>1. tail' = <<>> /\ man' = Described
  BY DEF SyncManifest
<1>2. man' \in Version
  BY <1>1, ManifestType
<1>3. tail' \in Edits /\ DOMAIN tail' = {}
  BY <1>1, EmptySeq, TailEntries DEF Edits
<1> QED BY <1>1, <1>2, <1>3 DEF Described, Describable

LEMMA ManifestFrame ==
  ASSUME man' = man, tail' = tail
  PROVE  Described' = Described /\ Describable' = Describable /\ Logged' = Logged
BY DEF Described, Describable, Logged

LEMMA EditType ==
  ASSUME vs \in Version, NEW a \in SUBSET Nat, NEW b \in SUBSET Nat, NEW d \in SUBSET Nat,
         NEW l \in Nat
  PROVE  /\ Edit(a, b, d, l) \in VersionEdit
         /\ Edit(a, b, d, l).add0 = a /\ Edit(a, b, d, l).add1 = b /\ Edit(a, b, d, l).del = d
         /\ Edit(a, b, d, l).log = l
         /\ Edit(a, b, d, l).next = vs.next /\ Edit(a, b, d, l).last = vs.last
BY LiveType DEF Edit, VersionEdit

LEMMA InstalledType ==
  ASSUME vs \in Version, tail \in Edits, tail # <<>>
  PROVE  /\ Installed \in Version
         /\ Installed.log = Logged.log /\ Installed.next = vs.next /\ Installed.last = vs.last
         /\ Live(Installed) = (Live(vs) \ Logged.del) \cup Logged.add0 \cup Logged.add1
         /\ Installed.l0 = (vs.l0 \ Logged.del) \cup Logged.add0
         /\ Installed.l1 = (vs.l1 \ Logged.del) \cup Logged.add1
<1>1. Logged \in VersionEdit
  BY TailEntries DEF Logged
<1>2. Installed = [Apply(vs, Logged) EXCEPT !.next = vs.next, !.last = vs.last]
  BY DEF Installed, Logged
<1>3. Apply(vs, Logged) \in Version
  BY <1>1, ApplyType
<1>4. /\ Installed \in Version
      /\ Installed.log = Apply(vs, Logged).log
      /\ Installed.next = vs.next /\ Installed.last = vs.last
      /\ Installed.l0 = Apply(vs, Logged).l0 /\ Installed.l1 = Apply(vs, Logged).l1
  BY <1>2, <1>3 DEF Version
<1>5. /\ Apply(vs, Logged).log = Logged.log
      /\ Apply(vs, Logged).l0 = (vs.l0 \ Logged.del) \cup Logged.add0
      /\ Apply(vs, Logged).l1 = (vs.l1 \ Logged.del) \cup Logged.add1
  BY <1>1, ApplyType
<1>6. Live(Installed) = Installed.l0 \cup Installed.l1 /\ Live(vs) = vs.l0 \cup vs.l1
  BY DEF Live
<1>7. Live(Installed) = (Live(vs) \ Logged.del) \cup Logged.add0 \cup Logged.add1
  BY <1>4, <1>5, <1>6
<1> QED BY <1>4, <1>5, <1>7

(* DeleteObsoleteFiles: what goes and what stays.                           *)
LEMMA DeleteEffect ==
  ASSUME LogsOK(logs), LogsOK(ghosts), NEW v, NEW base, NEW pend, NEW tb,
         DOMAIN tb \subseteq Nat, tb \in [DOMAIN tb -> SUBSET Batches],
         DeleteObsoleteFiles(v, base, pend, tb)
  PROVE  /\ LogsOK(logs') /\ LogsOK(ghosts')
         /\ DOMAIN tables' \subseteq DOMAIN tb
         /\ DOMAIN logs' \subseteq DOMAIN logs
         /\ tables' \in [DOMAIN tables' -> SUBSET Batches]
         /\ \A n \in DOMAIN tables' : tables'[n] = tb[n]
         /\ \A n \in DOMAIN logs' : logs'[n] = logs[n]
         /\ bgErr => tables' = tb /\ logs' = logs /\ ghosts' = ghosts
         /\ ~bgErr =>
              /\ DOMAIN tables' = {n \in DOMAIN tb : n \in LiveFiles(v, base) \cup pend}
              /\ DOMAIN logs' = {n \in DOMAIN logs : n >= v.log}
              /\ DOMAIN ghosts' = {n \in DOMAIN logs : ~(n >= v.log)}
              /\ \A n \in DOMAIN ghosts' : ghosts'[n] = logs[n]
<1>1. CASE bgErr
  BY <1>1 DEF DeleteObsoleteFiles
<1>2. CASE ~bgErr
  <2>1. /\ tables' = [n \in {m \in DOMAIN tb : m \in LiveFiles(v, base) \cup pend} |-> tb[n]]
        /\ logs' = [n \in {m \in DOMAIN logs : m >= v.log} |-> logs[n]]
        /\ ghosts' = [n \in {m \in DOMAIN logs : ~(m >= v.log)} |-> logs[n]]
    BY <1>2 DEF DeleteObsoleteFiles, KeepsTable, KeepsLog
  <2>2. LogsOK(logs')
    BY <2>1 DEF LogsOK
  <2>3. LogsOK(ghosts')
    BY <2>1 DEF LogsOK
  <2> QED BY <1>2, <2>1, <2>2, <2>3
<1> QED BY <1>1, <1>2

-----------------------------------------------------------------------------
(***************************************************************************)
(* The stages of the database and of its background thread.                *)
(***************************************************************************)

\* The steps of an open database.
Working ==
    \/ \E c \in Calls : Enqueue(c) \/ WriterStep(c)
    \/ Pin \/ Unpin \/ Close \/ BackgroundStep

LEMMA NextSteps ==
  ASSUME [Next]_vars
  PROVE  \/ Working
         \/ OpenStep
         \/ Closed \/ ProcessCrash \/ MachineCrash
         \/ UNCHANGED vars
BY DEF Next, Working

(* A database that is closed, or being opened, does nothing else.           *)
LEMMA OnlyOpenWorks ==
  ASSUME BackgroundInv, Working \/ Closed
  PROVE  phase = "open"
<1> SUFFICES ASSUME phase # "open" PROVE FALSE
  OBVIOUS
<1>1. Quiet
  BY DEF BackgroundInv
<1>2. ASSUME NEW c \in Calls, Enqueue(c) \/ WriterStep(c) PROVE FALSE
  BY <1>1, <1>2 DEF Quiet, Enqueue, WriterStep, RoomError, RoomDelay, RoomFound, RoomStall,
     RoomSwitch, RoomSwitchFails, CanSwitch, AtFront, AddRecord, AddRecordFails, SyncLog,
     SyncLogFails, InsertInto, FinishWrite, ForceWaits, ForceReturns
<1>3. ASSUME BackgroundStep PROVE FALSE
  BY <1>1, <1>3 DEF Quiet, BackgroundStep, BackgroundNothing, FlushStart, FlushBuilt,
     FlushInstall, FlushFails, CompactionStart, TrivialMove, OpenCompactionOutputFile,
     FinishCompactionOutputFile, InstallCompactionResults, CompactionInstall,
     CompactionFails, Idle, InLoop, CanCompact
<1>4. ASSUME Pin \/ Unpin \/ Close \/ Closed PROVE FALSE
  BY <1>1, <1>4 DEF Quiet, Pin, Unpin, Close, Closed
<1> QED BY <1>2, <1>3, <1>4 DEF Working

LEMMA WorkingStaysOpen ==
  ASSUME BackgroundInv, Working
  PROVE  phase = "open" /\ phase' = "open" /\ replay' = replay
<1>1. phase = "open"
  BY OnlyOpenWorks
<1>2. ASSUME NEW c \in Calls, Enqueue(c) \/ WriterStep(c) PROVE phase' = phase /\ replay' = replay
  BY <1>2 DEF Enqueue, WriterStep, RoomError, RoomDelay, RoomFound, RoomStall,
     RoomSwitch, RoomSwitchFails, AddRecord, AddRecordFails, SyncLog,
     SyncLogFails, InsertInto, FinishWrite, ForceWaits, ForceReturns, flags
<1>3. ASSUME BackgroundStep PROVE phase' = phase /\ replay' = replay
  BY <1>3 DEF BackgroundStep, BackgroundNothing, FlushStart, FlushBuilt,
     FlushInstall, FlushFails, CompactionStart, TrivialMove, OpenCompactionOutputFile,
     FinishCompactionOutputFile, InstallCompactionResults, CompactionInstall,
     CompactionFails, flags
<1>4. ASSUME Pin \/ Unpin \/ Close PROVE phase' = phase /\ replay' = replay
  BY <1>4 DEF Pin, Unpin, Close
<1> QED BY <1>1, <1>2, <1>3, <1>4 DEF Working

LEMMA GoneIsQuiet ==
  ASSUME Gone
  PROVE  Quiet' /\ BackgroundInv' /\ LoggingInv'
<1>1. Quiet'
  BY DEF Gone, Quiet
<1>2. BackgroundInv'
  BY <1>1 DEF Gone, BackgroundInv
<1>3. LoggingInv'
  BY DEF Gone, LoggingInv, Logging
<1> QED BY <1>1, <1>2, <1>3

(* The writers hand the memtable over when there is none to flush.          *)
LEMMA WriterBackground ==
  ASSUME BackgroundInv, NEW c \in Calls, Enqueue(c) \/ WriterStep(c)
  PROVE  BackgroundInv'
<1>1. phase = "open" /\ phase' = "open" /\ replay' = replay
  BY WorkingStaysOpen DEF Working
<1>2. CASE RoomSwitch(c)
  <2>1. hasImm' /\ ~hasImm /\ fl' = fl /\ cp' = cp /\ cin' = cin /\ (sched => sched')
    BY <1>2 DEF RoomSwitch, CanSwitch
  <2> QED BY <1>1, <2>1 DEF BackgroundInv
<1>3. CASE ~RoomSwitch(c)
  <2>1. UNCHANGED <<imm, hasImm, sched, fl, cp, cin>>
    BY <1>3 DEF Enqueue, WriterStep, RoomError, RoomDelay, RoomFound, RoomStall,
       RoomSwitchFails, AddRecord, AddRecordFails, SyncLog,
       SyncLogFails, InsertInto, FinishWrite, ForceWaits, ForceReturns, core, bg
  <2> QED BY <1>1, <2>1 DEF BackgroundInv
<1> QED BY <1>2, <1>3

(* The background thread goes from stage to stage.                          *)
LEMMA BackgroundBackground ==
  ASSUME BackgroundInv, BackgroundStep
  PROVE  BackgroundInv'
<1>1. phase = "open" /\ phase' = "open" /\ replay' = replay
  BY WorkingStaysOpen DEF Working
<1>2. CASE BackgroundNothing \/ CompactionStart \/ TrivialMove
  <2>1. /\ UNCHANGED <<imm, hasImm, fl>>
        /\ fl = "no" /\ sched /\ cp = "no"
        /\ \/ cp' = "no" /\ cin' = cin
           \/ sched' /\ cp' = "merge"
           \/ sched' /\ cp' = "move" /\ cin' = cin
    BY <1>2 DEF BackgroundNothing, CompactionStart, TrivialMove, CanCompact, Idle, core
  <2> QED BY <1>1, <2>1 DEF BackgroundInv
<1>3. CASE FlushStart
  <2>1. /\ UNCHANGED <<imm, hasImm, sched, cp, cin>> /\ hasImm /\ fl' = "build"
        /\ (sched /\ cp = "no") \/ cp \in {"merge", "out", "merged"}
    BY <1>3 DEF FlushStart, Idle, InLoop
  <2> QED BY <1>1, <2>1 DEF BackgroundInv
<1>4. CASE FlushBuilt
  BY <1>1, <1>4 DEF BackgroundInv, FlushBuilt, core
<1>5. CASE FlushInstall \/ FlushFails
  <2>0. fl # "no" /\ hasImm
    BY <1>5 DEF FlushInstall, FlushFails, BackgroundInv
  <2>1. /\ \/ ~hasImm' /\ imm' = {}
           \/ hasImm'
        /\ fl # "no" /\ fl' = "no" /\ cp' = cp /\ cin' = cin
        /\ cp # "no" /\ sched => sched'
    BY <1>5, <2>0 DEF FlushInstall, FlushFails, core
  <2> QED BY <1>1, <2>1 DEF BackgroundInv
<1>6. CASE OpenCompactionOutputFile \/ FinishCompactionOutputFile \/ InstallCompactionResults
  <2>1. /\ UNCHANGED <<imm, hasImm, fl, sched, cin>> /\ fl = "no"
        /\ cp \in {"merge", "out", "merged"} /\ cp' \in {"out", "merged", "manifest"}
    BY <1>6 DEF OpenCompactionOutputFile, FinishCompactionOutputFile,
                InstallCompactionResults, core
  <2> QED BY <1>1, <2>1 DEF BackgroundInv
<1>7. CASE CompactionInstall \/ CompactionFails
  <2>1. /\ UNCHANGED <<imm, hasImm, fl>> /\ cp' = "no" /\ cin' = NoInputs
        /\ cp \in {"manifest", "move"} \/ fl = "no"
    BY <1>7 DEF CompactionInstall, CompactionFails, InLoop, core
  <2> QED BY <1>1, <2>1 DEF BackgroundInv
<1> QED
  BY <1>2, <1>3, <1>4, <1>5, <1>6, <1>7 DEF BackgroundStep

(* The database is opened.                                                  *)
LEMMA OpenBackground ==
  ASSUME BackgroundInv, OpenStep
  PROVE  BackgroundInv'
<1>1. CASE OpenFails
  BY <1>1, GoneIsQuiet DEF OpenFails
<1>2. CASE Recover \/ RecoverLogFile \/ RecoverLogFileFails \/ OpenLog
  <2>1. /\ phase # "open" /\ phase' = "replay"
        /\ UNCHANGED <<mem, imm, hasImm, pins, pending, bgErr, shutting, queue, group, pc,
                       sched, fl, cp, cin>>
    BY <1>2 DEF Recover, RecoverLogFile, RecoverLogFileFails, OpenLog, ReplayNext, calls, bg
  <2> QED BY <2>1 DEF BackgroundInv, Quiet
<1>3. CASE OpenInstall
  <2>1. /\ phase # "open" /\ phase' = "open" /\ replay' = NoReplay
        /\ UNCHANGED <<imm, hasImm, fl, cp, cin>>
    BY <1>3 DEF OpenInstall
  <2> QED BY <2>1 DEF BackgroundInv, Quiet
<1> QED BY <1>1, <1>2, <1>3 DEF OpenStep

LEMMA BackgroundInvStep ==
  ASSUME BackgroundInv, [Next]_vars
  PROVE  BackgroundInv'
<1>1. ASSUME NEW c \in Calls, Enqueue(c) \/ WriterStep(c) PROVE BackgroundInv'
  BY <1>1, WriterBackground
<1>2. CASE Pin \/ Unpin \/ Close
  <2>1. /\ phase = "open" /\ phase' = "open" /\ replay' = replay
        /\ UNCHANGED <<imm, hasImm, sched, fl, cp, cin>>
    BY <1>2, WorkingStaysOpen DEF Working, Pin, Unpin, Close, core, bg
  <2> QED BY <2>1 DEF BackgroundInv
<1>3. CASE BackgroundStep
  BY <1>3, BackgroundBackground
<1>4. CASE OpenStep
  BY <1>4, OpenBackground
<1>5. CASE Closed \/ ProcessCrash \/ MachineCrash
  BY <1>5, GoneIsQuiet DEF Closed, ProcessCrash, MachineCrash
<1>6. CASE UNCHANGED vars
  BY <1>6 DEF BackgroundInv, Quiet, vars, core, calls, bg, flags
<1> QED BY <1>1, <1>2, <1>3, <1>4, <1>5, <1>6, NextSteps DEF Working

(* A call that logs has a batch.                                            *)
LEMMA LoggingKept ==
  ASSUME LoggingInv, group' = group \/ group' = <<>>,
         group' # <<>> => \A c \in Calls : pc[c] \in Logging => pc'[c] \in Logging,
         \A c \in Calls : pc'[c] \in Logging => pc[c] \in Logging
  PROVE  LoggingInv'
BY DEF LoggingInv

LEMMA LeaveLogs ==
  ASSUME QInv, LoggingInv, NEW n, NEW st, NEW p \in [Calls -> Stages], Leave(n, st, p),
         \A c \in Calls : p[c] \in Logging <=> pc[c] \in Logging
  PROVE  LoggingInv'
<1>1. group' = <<>>
  BY DEF Leave
<1>2. \A c \in Calls : pc'[c] \in Logging => pc[c] \in Logging
  BY DEF Leave, Logging
<1> QED BY <1>1, <1>2, LoggingKept

LEMMA LoggingStep ==
  ASSUME QInv, BackgroundInv, LoggingInv, [Next]_vars
  PROVE  LoggingInv'
<1> USE DEF QInv, QueueType
<1>0. UNCHANGED <<group, pc>> => LoggingInv'
  BY LoggingKept
<1>1. ASSUME NEW c \in Calls, Enqueue(c) PROVE LoggingInv'
  <2>1. /\ group' = group /\ pc[c] = "idle"
        /\ pc' = [pc EXCEPT ![c] = IF queue = <<>> THEN "room" ELSE "wait"]
    BY <1>1 DEF Enqueue
  <2>2. \A d \in Calls : pc'[d] \in Logging <=> pc[d] \in Logging
    BY <2>1 DEF Logging
  <2> QED BY <2>1, <2>2, LoggingKept
<1>2. ASSUME NEW c \in Calls, WriterStep(c) PROVE LoggingInv'
  <2>1. \A d \in Calls : pc[d] \in Logging <=> pc[d] \in Logging
    OBVIOUS
  <2>2. CASE RoomError(c) \/ RoomSwitchFails(c)
    <3>1. Leave(1, "err", pc)
      BY <2>2 DEF RoomError, RoomSwitchFails
    <3> QED BY <3>1, <2>1, LeaveLogs
  <2>3. CASE RoomDelay(c)
    BY <2>3, <1>0 DEF RoomDelay
  <2>4. ASSUME AtFront(c), c \in Batches, StartLogging(c) PROVE LoggingInv'
    <3>1. pc' = [pc EXCEPT ![c] = "append"]
      BY <2>4 DEF StartLogging
    <3>2. pc'[c] \in Logging /\ \A d \in Calls \ {c} : pc'[d] = pc[d]
      BY <3>1 DEF Logging
    <3> QED BY <2>4, <3>2 DEF LoggingInv
  <2>5. CASE RoomFound(c)
    BY <2>4, <2>5 DEF RoomFound, HasRoom
  <2>6. CASE RoomStall(c)
    <3>1. group' = group /\ pc[c] = "room" /\ pc' = [pc EXCEPT ![c] = "stall"]
      BY <2>6 DEF RoomStall, AtFront
    <3>2. \A d \in Calls : pc'[d] \in Logging <=> pc[d] \in Logging
      BY <3>1 DEF Logging
    <3> QED BY <3>1, <3>2, LoggingKept
  <2>7. CASE RoomSwitch(c)
    <3>1. CASE c \in Forced
      BY <2>7, <3>1, <2>1, LeaveLogs DEF RoomSwitch
    <3>2. CASE c \notin Forced
      <4>1. AtFront(c) /\ c \in Batches /\ StartLogging(c)
        BY <2>7, <3>2 DEF RoomSwitch, CanSwitch, Batches
      <4> QED BY <4>1, <2>4
    <3> QED BY <3>1, <3>2
  <2>8. CASE AddRecord(c) \/ AddRecordFails(c) \/ SyncLog(c) \/ SyncLogFails(c) \/ InsertInto(c)
    <3>1. PICK st \in Logging : pc' = [pc EXCEPT ![c] = st]
      BY <2>8 DEF AddRecord, AddRecordFails, SyncLog, SyncLogFails, InsertInto,
                  AfterLog, Logging
    <3>2. pc[c] \in Logging /\ group' = group
      BY <2>8 DEF AddRecord, AddRecordFails, SyncLog, SyncLogFails, InsertInto, Logging
    <3>3. \A d \in Calls : pc'[d] \in Logging <=> pc[d] \in Logging
      BY <3>1, <3>2
    <3> QED BY <3>2, <3>3, LoggingKept
  <2>9. CASE FinishWrite(c)
    <3> DEFINE p == IF bgErr' # bgErr THEN Woken(pc) ELSE pc
    <3>1. Leave(Len(group), IF pc[c] = "finish" THEN "ok" ELSE "err", p)
      BY <2>9 DEF FinishWrite
    <3>2. p \in [Calls -> Stages] /\ \A d \in Calls : p[d] \in Logging <=> pc[d] \in Logging
      BY WokenStage
    <3> QED BY <3>1, <3>2, LeaveLogs
  <2>10. CASE ForceWaits(c) \/ ForceReturns(c)
    <3>1. /\ group' = group /\ pc[c] = "flush"
          /\ pc' = [pc EXCEPT ![c] = "flushstall"] \/ pc' = [pc EXCEPT ![c] = "done"]
      BY <2>10 DEF ForceWaits, ForceReturns
    <3>2. \A d \in Calls : pc'[d] \in Logging <=> pc[d] \in Logging
      BY <3>1 DEF Logging
    <3> QED BY <3>1, <3>2, LoggingKept
  <2> QED
    BY <1>2, <2>2, <2>3, <2>5, <2>6, <2>7, <2>8, <2>9, <2>10 DEF WriterStep
<1>3. CASE Pin \/ Unpin \/ Close
  BY <1>3, <1>0 DEF Pin, Unpin, Close, calls
<1>4. CASE BackgroundStep
  <2>1. group' = group /\ (pc' = pc \/ pc' = Woken(pc))
    BY <1>4 DEF BackgroundStep, BackgroundNothing, FlushStart, FlushBuilt, FlushInstall,
         FlushFails, CompactionStart, TrivialMove, OpenCompactionOutputFile,
         FinishCompactionOutputFile, InstallCompactionResults, CompactionInstall,
         CompactionFails, BackgroundEnd, calls
  <2>2. \A c \in Calls : pc'[c] \in Logging <=> pc[c] \in Logging
    BY <2>1, WokenStage
  <2> QED BY <2>1, <2>2, LoggingKept
<1>5. CASE OpenStep /\ ~OpenFails
  BY <1>5, <1>0 DEF OpenStep, Recover, RecoverLogFile, RecoverLogFileFails, OpenLog,
                    OpenInstall, calls
<1>6. CASE OpenFails \/ Closed \/ ProcessCrash \/ MachineCrash
  BY <1>6, GoneIsQuiet DEF OpenFails, Closed, ProcessCrash, MachineCrash
<1>7. CASE UNCHANGED vars
  BY <1>7, <1>0 DEF vars, calls
<1> QED BY <1>1, <1>2, <1>3, <1>4, <1>5, <1>6, <1>7, NextSteps DEF Working

LEMMA StagesHolds == Spec => [](QInv /\ StagesInv)
<1>1. Init => QInv /\ StagesInv
  <2> SUFFICES ASSUME Init PROVE StagesInv
    BY QueueInit
  <2>1. BackgroundInv
    BY DEF Init, BackgroundInv, Quiet
  <2>2. LoggingInv
    BY DEF Init, LoggingInv, Logging
  <2> QED BY <2>1, <2>2 DEF StagesInv
<1>2. (QInv /\ StagesInv) /\ [Next]_vars => (QInv /\ StagesInv)'
  BY QueueStep, BackgroundInvStep, LoggingStep DEF StagesInv
<1> QED BY <1>1, <1>2, PTL DEF Spec

-----------------------------------------------------------------------------
(***************************************************************************)
(* Types.                                                                  *)
(***************************************************************************)
LEMMA EmptyLogs == LogsOK(<<>>) /\ DOMAIN <<>> = {} /\ <<>> \in [{} -> SUBSET Batches]
<1>1. DOMAIN <<>> = {}
  BY EmptySeq, LenProperties
<1> QED BY <1>1 DEF LogsOK

LEMMA LogsPut ==
  ASSUME NEW lg, LogsOK(lg), NEW n \in Nat
  PROVE  LET lp == Put(lg, n, [recs |-> <<>>, synced |-> 0])
         IN  /\ LogsOK(lp) /\ DOMAIN lp = DOMAIN lg \cup {n}
             /\ lp[n].recs = <<>> /\ lp[n].synced = 0
             /\ \A m \in DOMAIN lg \ {n} : lp[m] = lg[m]
<1> DEFINE x == [recs |-> <<>>, synced |-> 0]
           lp == Put(lg, n, x)
<1>1. x \in Log /\ x.recs = <<>> /\ x.synced = 0 /\ Len(x.recs) = 0
  BY EmptySeq DEF Log
<1> HIDE DEF x
<1>2. /\ DOMAIN lp = DOMAIN lg \cup {n} /\ lp \in [DOMAIN lp -> Log] /\ lp[n] = x
      /\ \A m \in DOMAIN lg \ {n} : lp[m] = lg[m]
  <2>1. lg \in [DOMAIN lg -> Log] /\ x \in Log
    BY <1>1 DEF LogsOK
  <2> QED BY <2>1 DEF Put
<1> HIDE DEF lp
<1>3. LogsOK(lp)
  BY <1>1, <1>2 DEF LogsOK
<1> QED BY <1>1, <1>2, <1>3 DEF lp, x

(* One record more in the current log.                                      *)
LEMMA AppendedRecord ==
  ASSUME LogsOK(logs), NEW rec \in SUBSET Batches, Append1(rec)
  PROVE  /\ LogsOK(logs') /\ DOMAIN logs' = DOMAIN logs
         /\ \A n \in DOMAIN logs \ {logfile} : logs'[n] = logs[n]
         /\ logfile \in DOMAIN logs =>
              /\ logs'[logfile].recs = Append(logs[logfile].recs, rec)
              /\ logs'[logfile].synced = logs[logfile].synced
<1>1. /\ DOMAIN logs' = DOMAIN logs
      /\ \A n \in DOMAIN logs \ {logfile} : logs'[n] = logs[n]
      /\ logfile \in DOMAIN logs =>
              logs'[logfile] = [logs[logfile] EXCEPT !.recs = Append(@, rec)]
  BY DEF Append1
<1>2. \A n \in DOMAIN logs : logs[n] \in Log /\ logs[n].synced <= Len(logs[n].recs)
  BY DEF LogsOK
<1>3. ASSUME logfile \in DOMAIN logs
      PROVE  /\ logs'[logfile] \in Log /\ logs'[logfile].synced <= Len(logs'[logfile].recs)
             /\ logs'[logfile].recs = Append(logs[logfile].recs, rec)
             /\ logs'[logfile].synced = logs[logfile].synced
  <2> DEFINE r == logs[logfile].recs
  <2>1. r \in Seq(SUBSET Batches) /\ logs[logfile].synced \in Nat
    BY <1>2, <1>3 DEF Log
  <2>2. Append(r, rec) \in Seq(SUBSET Batches) /\ Len(Append(r, rec)) = Len(r) + 1 /\ Len(r) \in Nat
    BY <2>1, AppendProperties, LenProperties
  <2>3. /\ logs'[logfile].recs = Append(r, rec)
        /\ logs'[logfile].synced = logs[logfile].synced
        /\ logs'[logfile] \in Log
    BY <1>1, <1>2, <1>3, <2>2 DEF Log
  <2> QED BY <1>2, <1>3, <2>1, <2>2, <2>3
<1>4. LogsOK(logs')
  <2>1. logs' \in [DOMAIN logs' -> Log]
    <3>1. logs' = [n \in DOMAIN logs |-> logs'[n]]
      BY DEF Append1
    <3>2. \A n \in DOMAIN logs : logs'[n] \in Log
      BY <1>1, <1>2, <1>3
    <3> QED BY <3>1, <3>2
  <2> QED BY <2>1, <1>1, <1>2, <1>3 DEF LogsOK
<1> QED BY <1>1, <1>3, <1>4

(* The current log is synced, up to its last record.                        *)
LEMMA SyncedRecords ==
  ASSUME LogsOK(logs), logs' = [logs EXCEPT ![logfile].synced = Durable]
  PROVE  /\ LogsOK(logs') /\ DOMAIN logs' = DOMAIN logs
         /\ \A n \in DOMAIN logs : logs'[n].recs = logs[n].recs
         /\ \A n \in DOMAIN logs \ {logfile} : logs'[n] = logs[n]
         /\ logfile \in DOMAIN logs => logs'[logfile].synced = Len(logs[logfile].recs)
<1>1. /\ DOMAIN logs' = DOMAIN logs
      /\ \A n \in DOMAIN logs \ {logfile} : logs'[n] = logs[n]
      /\ logfile \in DOMAIN logs =>
              logs'[logfile] = [logs[logfile] EXCEPT !.synced = Len(logs[logfile].recs)]
  BY DEF Durable
<1>2. \A n \in DOMAIN logs : logs[n] \in Log /\ logs[n].synced <= Len(logs[n].recs)
  BY DEF LogsOK
<1>3. ASSUME logfile \in DOMAIN logs
      PROVE  /\ logs'[logfile] \in Log
             /\ logs'[logfile].recs = logs[logfile].recs
             /\ logs'[logfile].synced = Len(logs[logfile].recs)
             /\ Len(logs[logfile].recs) \in Nat
  <2>1. logs[logfile].recs \in Seq(SUBSET Batches)
    BY <1>2, <1>3 DEF Log
  <2>2. Len(logs[logfile].recs) \in Nat
    BY <2>1, LenProperties
  <2> QED BY <1>1, <1>2, <1>3, <2>2 DEF Log
<1>4. LogsOK(logs')
  <2>1. logs' \in [DOMAIN logs' -> Log]
    <3>1. logs' = [n \in DOMAIN logs |-> logs'[n]]
      OBVIOUS
    <3>2. \A n \in DOMAIN logs : logs'[n] \in Log
      BY <1>1, <1>2, <1>3
    <3> QED BY <3>1, <3>2
  <2>2. \A n \in DOMAIN logs : logs'[n].synced <= Len(logs'[n].recs)
    <3> SUFFICES ASSUME NEW n \in DOMAIN logs PROVE logs'[n].synced <= Len(logs'[n].recs)
      OBVIOUS
    <3>1. CASE n = logfile
      BY <3>1, <1>3
    <3>2. CASE n # logfile
      BY <3>2, <1>1, <1>2
    <3> QED BY <3>1, <3>2
  <2>3. DOMAIN logs \subseteq Nat
    BY DEF LogsOK
  <2> QED BY <2>1, <2>2, <2>3, <1>1 DEF LogsOK
<1> QED BY <1>1, <1>3, <1>4

(* What a crash leaves of the logs.                                         *)
LEMMA CutLogs ==
  ASSUME NEW lg, LogsOK(lg), NEW keep, \A n \in DOMAIN lg : keep[n] \in lg[n].synced..Len(lg[n].recs)
  PROVE  /\ LogsOK(Cut(lg, keep)) /\ DOMAIN Cut(lg, keep) = DOMAIN lg
         /\ \A n \in DOMAIN lg :
              /\ keep[n] \in Nat
              /\ Cut(lg, keep)[n].recs = SubSeq(lg[n].recs, 1, keep[n])
              /\ Cut(lg, keep)[n].synced = keep[n]
              /\ Len(Cut(lg, keep)[n].recs) = keep[n]
              /\ \A i \in 1..keep[n] : Cut(lg, keep)[n].recs[i] = lg[n].recs[i]
<1> DEFINE cut == Cut(lg, keep)
<1>1. /\ DOMAIN cut = DOMAIN lg
      /\ \A n \in DOMAIN lg : cut[n] = [recs |-> SubSeq(lg[n].recs, 1, keep[n]), synced |-> keep[n]]
  BY DEF Cut
<1>2. ASSUME NEW n \in DOMAIN lg
      PROVE  /\ keep[n] \in Nat /\ keep[n] <= Len(lg[n].recs)
             /\ SubSeq(lg[n].recs, 1, keep[n]) \in Seq(SUBSET Batches)
             /\ Len(SubSeq(lg[n].recs, 1, keep[n])) = keep[n]
             /\ \A i \in 1..keep[n] : SubSeq(lg[n].recs, 1, keep[n])[i] = lg[n].recs[i]
  <2> DEFINE r == lg[n].recs
  <2>1. r \in Seq(SUBSET Batches) /\ lg[n].synced \in Nat
    BY <1>2 DEF LogsOK, Log
  <2>2. Len(r) \in Nat
    BY <2>1, LenProperties
  <2>3. keep[n] \in Nat /\ keep[n] <= Len(r)
    BY <2>1, <2>2
  <2>4. \A i \in 1..keep[n] : r[i] \in SUBSET Batches
    BY <2>1, <2>2, <2>3, ElementOfSeq
  <2> HIDE DEF r
  <2>5. /\ SubSeq(r, 1, keep[n]) \in Seq(SUBSET Batches)
        /\ Len(SubSeq(r, 1, keep[n])) = IF 1 <= keep[n] THEN keep[n] - 1 + 1 ELSE 0
        /\ \A i \in 1..(keep[n] - 1 + 1) : SubSeq(r, 1, keep[n])[i] = r[1 + i - 1]
    BY <2>3, <2>4, SubSeqProperties
  <2>6. Len(SubSeq(r, 1, keep[n])) = keep[n]
    BY <2>3, <2>5
  <2>7. \A i \in 1..keep[n] : SubSeq(r, 1, keep[n])[i] = r[i]
    BY <2>3, <2>5
  <2> QED BY <2>3, <2>5, <2>6, <2>7 DEF r
<1>3. \A n \in DOMAIN lg : cut[n] \in Log
  <2> SUFFICES ASSUME NEW n \in DOMAIN lg PROVE cut[n] \in Log
    OBVIOUS
  <2>1. cut[n] = [recs |-> SubSeq(lg[n].recs, 1, keep[n]), synced |-> keep[n]]
    BY <1>1
  <2>2. SubSeq(lg[n].recs, 1, keep[n]) \in Seq(SUBSET Batches) /\ keep[n] \in Nat
    BY <1>2
  <2> HIDE DEF cut
  <2> QED BY <2>1, <2>2 DEF Log
<1>4. cut \in [DOMAIN cut -> Log]
  BY <1>3 DEF Cut
<1>5. \A n \in DOMAIN lg :
         /\ cut[n].recs = SubSeq(lg[n].recs, 1, keep[n]) /\ cut[n].synced = keep[n]
  BY <1>1
<1> HIDE DEF cut
<1>6. LogsOK(cut)
  BY <1>1, <1>2, <1>4, <1>5 DEF LogsOK
<1> QED BY <1>1, <1>2, <1>5, <1>6 DEF cut

LEMMA ReadLogType ==
  ASSUME NEW recs \in Seq(SUBSET Batches)
  PROVE  ReadLog(recs) \subseteq Batches
<1>1. \A i \in DOMAIN recs : recs[i] \subseteq Batches
  BY ElementOfSeq, LenProperties
<1> QED BY <1>1 DEF ReadLog

LEMMA InType ==
  ASSUME NEW tb, tb \in [DOMAIN tb -> SUBSET Batches], NEW F
  PROVE  In(F, tb) \subseteq Batches
<1>1. \A n \in DOMAIN tb : tb[n] \subseteq Batches
  OBVIOUS
<1> QED BY <1>1 DEF In

LEMMA GroupCount ==
  ASSUME NEW g \in Seq(Calls)
  PROVE  /\ InGroup(g) \subseteq Batches /\ InGroup(g) \subseteq Calls
         /\ IsFiniteSet(InGroup(g)) /\ Cardinality(InGroup(g)) \in Nat
<1>1. DOMAIN g = 1..Len(g) /\ Len(g) \in Nat /\ \A i \in 1..Len(g) : g[i] \in Calls
  BY ElementOfSeq, LenProperties
<1>2. Range(g) = {g[i] : i \in 1..Len(g)}
  BY <1>1 DEF Range
<1>3. IsFiniteSet(1..Len(g))
  BY <1>1, FS_Interval
<1>4. IsFiniteSet(Range(g))
  <2>1. g \in Surjection(1..Len(g), Range(g))
    BY <1>1, <1>2 DEF Surjection
  <2> QED BY <1>3, <2>1, FS_Surjection
<1>5. InGroup(g) \in SUBSET Range(g)
  BY DEF InGroup
<1>6. IsFiniteSet(InGroup(g)) /\ Cardinality(InGroup(g)) \in Nat
  BY <1>4, <1>5, FS_Subset, FS_CardinalityType
<1>7. InGroup(g) \subseteq Batches /\ InGroup(g) \subseteq Calls
  BY <1>1, <1>2 DEF InGroup, Batches
<1> QED BY <1>6, <1>7

(* The log that is read next, and the largest sequence number read.         *)
LEMMA ReplayType ==
  ASSUME TInv, replay.todo # {}
  PROVE  /\ NextLog \in replay.todo /\ \A m \in replay.todo : NextLog <= m
         /\ NextLog \in Nat /\ NextLog \in DOMAIN logs
         /\ Replayed \subseteq Batches
         /\ MaxSeen \in Nat /\ MaxSeen >= replay.max
         /\ \A c \in Replayed : seqOf[c] <= MaxSeen
<1> USE DEF TInv
<1>1. replay.todo \subseteq Nat /\ replay.max \in Nat /\ replay.todo \subseteq DOMAIN logs
  BY DEF StageOK
<1>2. \E n \in replay.todo : \A m \in replay.todo : n <= m
  BY <1>1, LeastNat
<1>3. NextLog \in replay.todo /\ \A m \in replay.todo : NextLog <= m
  BY <1>2 DEF NextLog
<1>4. Replayed \subseteq Batches
  <2>1. logs[NextLog].recs \in Seq(SUBSET Batches)
    BY <1>1, <1>3 DEF DiskOK, LogsOK, Log
  <2> QED BY <2>1, ReadLogType DEF Replayed
<1>5. PICK N \in Nat : \A c \in Calls : seqOf[c] <= N
  BY DEF CallsOK
<1> DEFINE S == {seqOf[c] : c \in Replayed} \cup {replay.max}
<1>6. \A c \in Replayed : seqOf[c] \in Nat /\ seqOf[c] <= N
  BY <1>4, <1>5 DEF CallsOK, Batches
<1>7. S \subseteq Nat /\ N + replay.max \in Nat /\ \A n \in S : n <= N + replay.max
  BY <1>1, <1>6
<1>8. MaxNat(S) \in S \cup {0} /\ \A n \in S : n <= MaxNat(S)
  <2> HIDE DEF S
  <2> QED BY <1>7, MaxNatProperties
<1>9. MaxSeen = MaxNat(S)
  BY DEF MaxSeen
<1>10. MaxSeen \in Nat /\ MaxSeen >= replay.max /\ \A c \in Replayed : seqOf[c] <= MaxSeen
  BY <1>1, <1>6, <1>8, <1>9
<1> QED BY <1>1, <1>3, <1>4, <1>10

\* The steps that change a file.
FileStep ==
    \/ \E c \in Calls : RoomSwitch(c) \/ AddRecord(c) \/ AddRecordFails(c) \/ SyncLog(c)
    \/ FlushBuilt \/ FlushInstall
    \/ TrivialMove \/ FinishCompactionOutputFile
    \/ InstallCompactionResults \/ CompactionInstall
    \/ RecoverLogFile \/ OpenLog \/ OpenInstall \/ MachineCrash

LEMMA DiskFrame ==
  ASSUME [Next]_vars, ~FileStep
  PROVE  UNCHANGED disk
<1>1. ASSUME NEW c \in Calls, Enqueue(c) \/ WriterStep(c) PROVE UNCHANGED disk
  BY <1>1 DEF FileStep, Enqueue, WriterStep, RoomError, RoomDelay, RoomFound, RoomStall,
       RoomSwitchFails, SyncLogFails, InsertInto, FinishWrite, ForceWaits, ForceReturns
<1>2. ASSUME BackgroundStep PROVE UNCHANGED disk
  BY <1>2 DEF FileStep, BackgroundStep, BackgroundNothing, FlushStart, FlushFails,
       CompactionStart, OpenCompactionOutputFile, CompactionFails
<1>3. ASSUME Pin \/ Unpin \/ Close \/ Closed \/ ProcessCrash PROVE UNCHANGED disk
  BY <1>3 DEF Pin, Unpin, Close, Closed, ProcessCrash
<1>4. ASSUME OpenStep PROVE UNCHANGED disk
  BY <1>4 DEF FileStep, OpenStep, Recover, RecoverLogFileFails, OpenFails
<1>5. ASSUME UNCHANGED vars PROVE UNCHANGED disk
  BY <1>5 DEF vars
<1> QED BY <1>1, <1>2, <1>3, <1>4, <1>5, NextSteps DEF Working, FileStep

(* The files, step by step.                                                 *)
LEMMA DiskType ==
  ASSUME QInv, StagesInv, TInv, [Next]_vars
  PROVE  DiskOK'
<1> USE DEF TInv, DiskOK
<1>1. tail \in Edits /\ vs \in Version /\ logfile \in Nat /\ fnum \in Nat /\ cout \in Nat
  BY DEF Edits, CoreOK, StageOK
<1>2. vs.next \in Nat /\ vs.log \in Nat
  BY <1>1, LiveType
<1>3. Grouped \subseteq Batches
  BY GroupCount DEF CallsOK, Grouped
<1>4. CASE UNCHANGED disk
  BY <1>4 DEF disk
<1>5. ASSUME logs' = Put(logs, vs.next, [recs |-> <<>>, synced |-> 0]),
             UNCHANGED <<ghosts, tables, man, tail>>
      PROVE  DiskOK'
  BY <1>2, <1>5, LogsPut
<1>6. ASSUME NEW c \in Calls, RoomSwitch(c) PROVE DiskOK'
  BY <1>5, <1>6 DEF RoomSwitch
<1>7. ASSUME NEW rec \in SUBSET Batches, Append1(rec), UNCHANGED <<ghosts, tables, man, tail>>
      PROVE  DiskOK'
  BY <1>7, AppendedRecord
<1>8. ASSUME NEW c \in Calls, AddRecord(c) \/ AddRecordFails(c) PROVE DiskOK'
  <2>1. Append1(Grouped) \/ Append1(Torn) \/ logs' = logs
    BY <1>8 DEF AddRecord, AddRecordFails, Grouped
  <2>2. UNCHANGED <<ghosts, tables, man, tail>>
    BY <1>8 DEF AddRecord, AddRecordFails
  <2>3. CASE logs' = logs
    BY <1>4, <2>2, <2>3 DEF disk
  <2> QED BY <1>3, <1>7, <2>1, <2>2, <2>3 DEF Torn
<1>9. ASSUME NEW c \in Calls, SyncLog(c) PROVE DiskOK'
  BY <1>9, SyncedRecords DEF SyncLog
<1>10. ASSUME NEW tb, DOMAIN tb \subseteq Nat, tb \in [DOMAIN tb -> SUBSET Batches],
              NEW v, NEW base, NEW pend, DeleteObsoleteFiles(v, base, pend, tb),
              man' \in Version, tail' \in Edits
       PROVE  DiskOK'
  BY <1>10, DeleteEffect DEF Edits
<1>11. ASSUME NEW n \in Nat, NEW x \in SUBSET Batches, tables' = Put(tables, n, x)
       PROVE  DOMAIN tables' \subseteq Nat /\ tables' \in [DOMAIN tables' -> SUBSET Batches]
  BY <1>11 DEF Put
<1>12. ASSUME NEW a \in SUBSET Nat, NEW b \in SUBSET Nat, NEW d \in SUBSET Nat, NEW l \in Nat,
              LogEdit(Edit(a, b, d, l)), man' = man
       PROVE  tail' \in Edits
  BY <1>1, <1>12, EditType, LogEditAdds
<1>13. CASE FlushBuilt
  <2>1. DOMAIN tables' \subseteq Nat /\ tables' \in [DOMAIN tables' -> SUBSET Batches]
    BY <1>1, <1>11, <1>13 DEF FlushBuilt, CoreOK
  <2>2. PICK lvl \in {0, 1} :
          LogEdit(Edit(IF lvl = 0 /\ imm # {} THEN {fnum} ELSE {},
                       IF lvl = 1 /\ imm # {} THEN {fnum} ELSE {}, {}, logfile))
    BY <1>13 DEF FlushBuilt, FlushLogNumber
  <2>3. man' = man /\ logs' = logs /\ ghosts' = ghosts
    BY <1>13 DEF FlushBuilt
  <2>4. tail' \in Edits
    BY <1>1, <1>12, <2>2, <2>3
  <2> QED BY <2>1, <2>3, <2>4 DEF Edits
<1>14. CASE TrivialMove
  <2>1. PICK f \in vs.l0 : LogEdit(Edit({}, {f}, {f}, vs.log))
    BY <1>14 DEF TrivialMove
  <2>2. man' = man /\ logs' = logs /\ ghosts' = ghosts /\ tables' = tables
    BY <1>14 DEF TrivialMove
  <2>3. f \in Nat
    BY <1>1, <2>1, LiveType
  <2>4. tail' \in Edits
    BY <1>2, <1>12, <2>1, <2>2, <2>3
  <2> QED BY <2>2, <2>4 DEF Edits
<1>15. CASE InstallCompactionResults
  <2>1. LogEdit(Edit({}, {cout}, cin.files, vs.log))
    BY <1>15 DEF InstallCompactionResults
  <2>2. man' = man /\ logs' = logs /\ ghosts' = ghosts /\ tables' = tables
    BY <1>15 DEF InstallCompactionResults
  <2>3. cin.files \subseteq Nat
    BY DEF StageOK
  <2>4. tail' \in Edits
    BY <1>1, <1>2, <1>12, <2>1, <2>2, <2>3
  <2> QED BY <2>2, <2>4 DEF Edits
<1>16. CASE FinishCompactionOutputFile
  BY <1>1, <1>11, <1>16, InType DEF FinishCompactionOutputFile
<1>17. CASE FlushInstall
  <2>1. man' \in Version /\ tail' \in Edits
    BY <1>1, <1>17, SyncLeavesOne DEF FlushInstall
  <2>2. DeleteObsoleteFiles(vs', cin.base, pending, tables)
    BY <1>17 DEF FlushInstall
  <2> QED BY <1>10, <2>1, <2>2
<1>18. CASE CompactionInstall
  <2>1. man' \in Version /\ tail' \in Edits
    BY <1>1, <1>18, SyncLeavesOne DEF CompactionInstall
  <2>2. CASE DeleteObsoleteFiles(vs', {}, pending', tables)
    BY <1>10, <2>1, <2>2
  <2>3. CASE UNCHANGED <<logs, ghosts, tables>>
    BY <2>1, <2>3 DEF Edits
  <2> QED BY <1>18, <2>2, <2>3 DEF CompactionInstall
<1>19. CASE RecoverLogFile
  <2>1. UNCHANGED <<logs, ghosts, man, tail>> /\ (tables' = tables \/ tables' = Put(tables, vs.next, Replayed))
    BY <1>19 DEF RecoverLogFile
  <2>2. Replayed \in SUBSET Batches
    BY <1>19, ReplayType DEF RecoverLogFile, ReplayNext
  <2> QED BY <1>2, <1>11, <2>1, <2>2
<1>20. CASE OpenLog
  BY <1>5, <1>20 DEF OpenLog
<1>21. CASE OpenInstall
  <2>1. replay.add \subseteq Nat
    BY DEF StageOK
  <2>2. vs' \in Version
    BY <1>1, <1>21, <2>1 DEF OpenInstall, Version
  <2>3. man' \in Version /\ tail' \in Edits
    BY <1>21, <2>2, EmptySeq DEF OpenInstall, Edits
  <2>4. DeleteObsoleteFiles(vs', {}, {}, tables)
    BY <1>21 DEF OpenInstall
  <2> QED BY <1>10, <2>3, <2>4
<1>22. CASE MachineCrash
  <2>1. PICK keep \in Keeps, v \in Describable, back \in SUBSET DOMAIN ghosts :
           /\ logs' = [n \in DOMAIN logs \cup back |->
                            IF n \in DOMAIN logs THEN Cut(logs, keep)[n] ELSE ghosts[n]]
           /\ man' = v
    BY <1>22 DEF MachineCrash
  <2>2. tail' = <<>> /\ ghosts' = <<>> /\ tables' = tables
    BY <1>22 DEF MachineCrash
  <2>3. \A n \in DOMAIN logs : keep[n] \in logs[n].synced..Len(logs[n].recs)
    BY DEF Keeps
  <2>4. LogsOK(Cut(logs, keep)) /\ DOMAIN Cut(logs, keep) = DOMAIN logs
    BY <2>3, CutLogs
  <2>5. LogsOK(logs')
    <3>1. DOMAIN logs' \subseteq Nat
      BY <2>1 DEF LogsOK
    <3>2. \A n \in DOMAIN logs' : logs'[n] \in Log /\ logs'[n].synced <= Len(logs'[n].recs)
      <4> SUFFICES ASSUME NEW n \in DOMAIN logs'
                   PROVE  logs'[n] \in Log /\ logs'[n].synced <= Len(logs'[n].recs)
        OBVIOUS
      <4>1. CASE n \in DOMAIN logs
        <5>1. logs'[n] = Cut(logs, keep)[n]
          BY <2>1, <4>1
        <5> QED BY <2>4, <4>1, <5>1 DEF LogsOK
      <4>2. CASE n \notin DOMAIN logs
        <5>1. logs'[n] = ghosts[n] /\ n \in DOMAIN ghosts
          BY <2>1, <4>2
        <5> QED BY <5>1 DEF LogsOK
      <4> QED BY <4>1, <4>2
    <3>3. logs' \in [DOMAIN logs' -> Log]
      <4>1. logs' = [n \in DOMAIN logs' |-> logs'[n]]
        BY <2>1
      <4> QED BY <3>2, <4>1
    <3> QED BY <3>1, <3>2, <3>3 DEF LogsOK
  <2>6. man' \in Version
    BY <1>1, <2>1, ManifestType
  <2>7. tail' \in Edits
    BY <2>2, EmptySeq DEF Edits
  <2> QED BY <2>2, <2>5, <2>6, <2>7, EmptyLogs DEF Edits
<1> QED BY <1>4, <1>6, <1>8, <1>9, <1>13, <1>14, <1>15, <1>16, <1>17, <1>18, <1>19, <1>20, <1>21,
          <1>22, DiskFrame DEF FileStep

(* The memtables, the current version, the files readers hold.              *)
LEMMA GoneType ==
  ASSUME Gone
  PROVE  /\ CoreOK' /\ group' = <<>>
         /\ replay' = NoReplay /\ StageOK'
<1>1. NoVersions \in Version
  BY DEF NoVersions, Version
<1>2. CoreOK'
  BY <1>1 DEF Gone, CoreOK
<1>3. NoReplay \in [todo : SUBSET Nat, add : SUBSET Nat, max : Nat, err : BOOLEAN]
      /\ NoInputs \in [files : SUBSET Nat, base : SUBSET Nat]
      /\ NoReplay.todo = {}
  BY DEF NoReplay, NoInputs
<1>4. StageOK'
  BY <1>3 DEF Gone, StageOK
<1>5. group' = <<>>
  BY DEF Gone
<1>6. replay' = NoReplay
  BY DEF Gone
<1> QED BY <1>2, <1>4, <1>5, <1>6

LEMMA CoreType ==
  ASSUME QInv, StagesInv, TInv, [Next]_vars
  PROVE  CoreOK'
<1> USE DEF TInv, CoreOK
<1>1. tail \in Edits /\ man \in Version /\ vs \in Version /\ vs.next \in Nat /\ vs.last \in Nat
  BY LiveType DEF DiskOK, Edits
<1>2. \A m, k \in Nat : /\ [vs EXCEPT !.next = m] \in Version
                        /\ [vs EXCEPT !.last = m] \in Version
                        /\ [vs EXCEPT !.next = m, !.last = k] \in Version
  BY <1>1 DEF Version
<1>0. vs.next + 1 \in Nat
  BY <1>1
<1>3. Grouped \subseteq Batches /\ Cardinality(Grouped) \in Nat
  BY GroupCount DEF CallsOK, Grouped
<1>4. CASE UNCHANGED <<core, phase, pins, pending>>
  BY <1>4 DEF core
<1>5. ASSUME NEW c \in Calls, Enqueue(c) \/ WriterStep(c) PROVE CoreOK'
  <2>1. CASE RoomSwitch(c)
    <3>1. phase' = phase /\ pins' = pins /\ pending' = pending
      BY <2>1 DEF RoomSwitch, flags
    <3>2. /\ vs' = [vs EXCEPT !.next = vs.next + 1] /\ logfile' = vs.next
          /\ imm' = mem /\ hasImm' \in BOOLEAN /\ mem' = {}
      BY <2>1 DEF RoomSwitch
    <3>3. vs' \in Version
      BY <1>0, <1>2, <3>2
    <3> QED BY <1>1, <3>1, <3>2, <3>3
  <2>2. CASE InsertInto(c)
    <3>1. /\ mem' = mem \cup Grouped
          /\ UNCHANGED <<phase, pins, pending, imm, hasImm, logfile, vs>>
      BY <2>2 DEF InsertInto, Grouped, flags
    <3> QED BY <1>3, <3>1
  <2>3. CASE FinishWrite(c)
    <3>1. /\ vs' = [vs EXCEPT !.last = vs.last + Cardinality(Grouped)]
          /\ UNCHANGED <<phase, pins, pending, mem, imm, hasImm, logfile>>
      BY <2>3 DEF FinishWrite, Grouped
    <3>2. vs.last + Cardinality(Grouped) \in Nat
      BY <1>1, <1>3
    <3> QED BY <1>2, <3>1, <3>2
  <2>4. CASE ~RoomSwitch(c) /\ ~InsertInto(c) /\ ~FinishWrite(c)
    BY <1>4, <1>5, <2>4 DEF Enqueue, WriterStep, RoomError, RoomDelay, RoomFound, RoomStall,
       RoomSwitchFails, AddRecord, AddRecordFails, SyncLog, SyncLogFails, ForceWaits,
       ForceReturns, flags
  <2> QED BY <2>1, <2>2, <2>3, <2>4
<1>6. CASE Pin \/ Unpin \/ Close
  <2>1. UNCHANGED <<core, phase, pending>> /\ pins' \in {{Live(vs)}, {}, pins}
    BY <1>6 DEF Pin, Unpin, Close
  <2> QED BY <1>1, <2>1, LiveType DEF core
<1>7. CASE BackgroundStep
  <2>1. CASE FlushStart \/ OpenCompactionOutputFile
    <3>1. /\ vs' = [vs EXCEPT !.next = vs.next + 1] /\ pending' = pending \cup {vs.next}
          /\ UNCHANGED <<phase, pins, mem, imm, hasImm, logfile>>
      BY <2>1 DEF FlushStart, OpenCompactionOutputFile
    <3>2. vs' \in Version
      BY <1>0, <1>2, <3>1
    <3> QED BY <1>1, <3>1, <3>2
  <2>2. CASE FlushInstall \/ CompactionInstall
    <3>1. /\ vs' = Installed /\ pending' \subseteq pending
          /\ UNCHANGED <<phase, pins, mem, logfile>>
          /\ imm' \in {imm, {}} /\ hasImm' \in {hasImm, FALSE}
      BY <2>2 DEF FlushInstall, CompactionInstall, flags
    <3>2. ASSUME tail # <<>> PROVE CoreOK'
      BY <1>1, <3>1, <3>2, InstalledType
    <3>3. tail # <<>>
      BY <2>2 DEF FlushInstall, CompactionInstall, StageOK
    <3> QED BY <3>2, <3>3
  <2>3. CASE ~FlushStart /\ ~OpenCompactionOutputFile /\ ~FlushInstall /\ ~CompactionInstall
    <3>1. UNCHANGED <<core, phase, pins>> /\ pending' \subseteq pending
      BY <1>7, <2>3 DEF BackgroundStep, BackgroundNothing, FlushBuilt, FlushFails,
         CompactionStart, TrivialMove, FinishCompactionOutputFile,
         InstallCompactionResults, CompactionFails, flags
    <3> QED BY <3>1 DEF core
  <2> QED BY <2>1, <2>2, <2>3
<1>8. CASE OpenStep
  <2>1. CASE Recover
    <3>1. /\ vs' = [Described EXCEPT !.next = MaxNat({Described.next + 1, Described.log + 1})]
          /\ phase' = "replay" /\ UNCHANGED <<pins, pending, mem, imm, hasImm, logfile>>
      BY <2>1 DEF Recover
    <3>2. Described \in Version
      BY <1>1, ManifestType
    <3>3. MaxNat({Described.next + 1, Described.log + 1}) \in Nat
      <4>1. Described.next + 1 \in Nat /\ Described.log + 1 \in Nat
        BY <3>2, LiveType
      <4> QED BY <4>1, MaxNatPair
    <3>4. vs' \in Version
      BY <3>1, <3>2, <3>3 DEF Version
    <3> QED BY <3>1, <3>4
  <2>2. CASE RecoverLogFile \/ RecoverLogFileFails
    <3>1. NextLog \in Nat
      BY <2>2, ReplayType DEF RecoverLogFile, RecoverLogFileFails, ReplayNext
    <3>2. /\ \/ vs' = [vs EXCEPT !.next = MarkFileNumberUsed(vs.next, NextLog)]
             \/ vs' = [vs EXCEPT !.next = MarkFileNumberUsed(vs.next + 1, NextLog)]
          /\ UNCHANGED <<phase, pins, pending, mem, imm, hasImm, logfile>>
      BY <2>2 DEF RecoverLogFile, RecoverLogFileFails
    <3>3. /\ MarkFileNumberUsed(vs.next, NextLog) \in Nat
          /\ MarkFileNumberUsed(vs.next + 1, NextLog) \in Nat
      <4>1. vs.next + 1 \in Nat /\ NextLog + 1 \in Nat
        BY <1>1, <3>1
      <4>2. MaxNat({vs.next, NextLog + 1}) \in Nat /\ MaxNat({vs.next + 1, NextLog + 1}) \in Nat
        BY <1>1, <4>1, MaxNatPair
      <4> QED BY <4>2 DEF MarkFileNumberUsed
    <3>4. vs' \in Version
      BY <1>2, <3>2, <3>3
    <3> QED BY <3>2, <3>4
  <2>3. CASE OpenLog
    <3>1. /\ vs' = [vs EXCEPT !.next = vs.next + 1, !.last = MaxNat({vs.last, replay.max})]
          /\ logfile' = vs.next
          /\ UNCHANGED <<phase, pins, pending, mem, imm, hasImm>>
      BY <2>3 DEF OpenLog
    <3>2. MaxNat({vs.last, replay.max}) \in Nat
      <4>1. replay.max \in Nat
        BY DEF StageOK
      <4> QED BY <1>1, <4>1, MaxNatPair
    <3>3. vs' \in Version
      BY <1>0, <1>2, <3>1, <3>2
    <3> QED BY <1>1, <3>1, <3>3
  <2>4. CASE OpenInstall
    <3>1. /\ vs' = [vs EXCEPT !.log = logfile, !.l0 = vs.l0 \cup replay.add]
          /\ phase' = "open" /\ UNCHANGED <<pins, pending, mem, imm, hasImm, logfile>>
      BY <2>4 DEF OpenInstall
    <3>2. replay.add \subseteq Nat
      BY DEF StageOK
    <3>3. vs' \in Version
      BY <1>1, <3>1, <3>2 DEF Version
    <3> QED BY <3>1, <3>3
  <2>5. CASE OpenFails
    BY <2>5, GoneType DEF OpenFails
  <2> QED BY <1>8, <2>1, <2>2, <2>3, <2>4, <2>5 DEF OpenStep
<1>9. CASE Closed \/ ProcessCrash \/ MachineCrash
  BY <1>9, GoneType DEF Closed, ProcessCrash, MachineCrash
<1>10. CASE UNCHANGED vars
  BY <1>10, <1>4 DEF vars, flags
<1> QED BY <1>5, <1>6, <1>7, <1>8, <1>9, <1>10, NextSteps DEF Working

(* The calls: what each returned, and the sequence numbers given out.       *)
LEMMA GroupLength ==
  ASSUME QInv, NEW n \in GroupLengths
  PROVE  /\ n \in 1..Len(queue) /\ n \in Nat /\ Len(queue) \in Nat
         /\ SubSeq(queue, 1, n) \in Seq(Calls) /\ Len(SubSeq(queue, 1, n)) = n
         /\ \A i \in 1..n : SubSeq(queue, 1, n)[i] = queue[i] /\ queue[i] \in Calls
<1> USE DEF QInv, QueueType
<1>1. n \in 1..Len(queue) /\ Len(queue) \in Nat
  BY LenProperties DEF GroupLengths
<1>2. \A i \in 1..Len(queue) : queue[i] \in Calls
  BY ElementOfSeq
<1>3. /\ SubSeq(queue, 1, n) \in Seq(Calls)
      /\ Len(SubSeq(queue, 1, n)) = (IF 1 <= n THEN n - 1 + 1 ELSE 0)
      /\ \A i \in 1..(n - 1 + 1) : SubSeq(queue, 1, n)[i] = queue[1 + i - 1]
  BY <1>1, <1>2, SubSeqProperties
<1>4. n - 1 + 1 = n /\ 1 <= n /\ \A i \in 1..n : 1 + i - 1 = i
  BY <1>1
<1> QED BY <1>1, <1>2, <1>3, <1>4

LEMMA StartType ==
  ASSUME QInv, TInv, NEW c \in Calls, StartLogging(c)
  PROVE  CallsOK'
<1> USE DEF TInv, CallsOK
<1>1. PICK n \in GroupLengths :
        /\ group' = SubSeq(queue, 1, n)
        /\ seqOf' = [d \in Calls |->
              IF d \in InGroup(group')
              THEN vs.last + Cardinality({i \in 1..n : queue[i] \in Batches /\
                                \E j \in i..n : queue[j] = d})
              ELSE seqOf[d]]
  BY DEF StartLogging
<1>2. n \in Nat /\ group' \in Seq(Calls)
  BY <1>1, GroupLength
<1>3. status' = status /\ owed' = owed
  BY DEF StartLogging
<1>4. vs.last \in Nat
  BY LiveType DEF CoreOK
<1>5. PICK N \in Nat : \A d \in Calls : seqOf[d] <= N
  OBVIOUS
<1>6. ASSUME NEW d \in Calls PROVE seqOf'[d] \in Nat /\ seqOf'[d] <= N + vs.last + n
  <2> DEFINE I == {i \in 1..n : queue[i] \in Batches /\ \E j \in i..n : queue[j] = d}
  <2>1. IsFiniteSet(1..n) /\ Cardinality(1..n) <= n
    <3>1. 1 \in Int /\ n \in Int
      BY <1>2
    <3>2. IsFiniteSet(1..n) /\ Cardinality(1..n) = IF 1 > n THEN 0 ELSE n - 1 + 1
      BY <3>1, FS_Interval
    <3> QED BY <1>2, <3>2
  <2>2. I \in SUBSET (1..n)
    OBVIOUS
  <2> HIDE DEF I
  <2>3. IsFiniteSet(I) /\ Cardinality(I) <= Cardinality(1..n) /\ Cardinality(I) \in Nat
        /\ Cardinality(1..n) \in Nat
    BY <2>1, <2>2, FS_Subset, FS_CardinalityType
  <2>4. seqOf'[d] = vs.last + Cardinality(I) \/ seqOf'[d] = seqOf[d]
    BY <1>1 DEF I
  <2>5. seqOf[d] \in Nat /\ seqOf[d] <= N
    BY <1>5
  <2> QED BY <1>2, <1>4, <2>1, <2>3, <2>4, <2>5
<1>7. seqOf' \in [Calls -> Nat]
  BY <1>1, <1>6
<1>8. N + vs.last + n \in Nat
  BY <1>2, <1>4
<1> QED BY <1>2, <1>3, <1>6, <1>7, <1>8

LEMMA LeaveType ==
  ASSUME QInv, TInv, NEW n \in 1..Len(queue), NEW st \in {"ok", "err"}, NEW p, Leave(n, st, p),
         seqOf' = seqOf
  PROVE  CallsOK'
<1> USE DEF TInv, CallsOK
<1>1. Range(SubSeq(queue, 1, n)) \subseteq Calls
  <2>1. Len(queue) \in Nat /\ \A i \in 1..Len(queue) : queue[i] \in Calls
    BY ElementOfSeq, LenProperties DEF QInv, QueueType
  <2>2. n \in Nat /\ \A i \in 1..n : queue[i] \in Calls
    BY <2>1
  <2>3. SubSeq(queue, 1, n) \in Seq(Calls)
    BY <2>2, SubSeqProperties
  <2>4. \A i \in DOMAIN SubSeq(queue, 1, n) : SubSeq(queue, 1, n)[i] \in Calls
    BY <2>3, LenProperties, ElementOfSeq
  <2> QED BY <2>4 DEF Range
<1>2. owed' \subseteq Batches
  BY <1>1 DEF Leave, Batches
<1>3. status' \in [Calls -> {"none", "ok", "err", "gone"}]
  BY DEF Leave
<1>4. group' \in Seq(Calls)
  BY EmptySeq DEF Leave
<1> QED BY <1>2, <1>3, <1>4

LEMMA CallsType ==
  ASSUME QInv, StagesInv, TInv, [Next]_vars
  PROVE  CallsOK'
<1> USE DEF TInv, CallsOK
<1>1. CASE UNCHANGED <<group, seqOf, status, owed>>
  BY <1>1
<1>2. ASSUME NEW c \in Calls, Enqueue(c) PROVE CallsOK'
  <2>1. group' = group /\ status' = status /\ owed' = owed
    BY <1>2 DEF Enqueue
  <2>2. seqOf' = seqOf \/ seqOf' = [seqOf EXCEPT ![c] = vs.last]
    BY <1>2 DEF Enqueue
  <2>3. vs.last \in Nat
    BY LiveType DEF CoreOK
  <2>4. PICK N \in Nat : \A d \in Calls : seqOf[d] <= N
    OBVIOUS
  <2>5. seqOf' \in [Calls -> Nat] /\ \A d \in Calls : seqOf'[d] <= N + vs.last
    <3>1. \A d \in Calls : seqOf[d] \in Nat
      OBVIOUS
    <3> QED BY <2>2, <2>3, <2>4, <3>1
  <2>6. N + vs.last \in Nat
    BY <2>3
  <2> QED BY <2>1, <2>5, <2>6
<1>3. ASSUME NEW c \in Calls, WriterStep(c) PROVE CallsOK'
  <2>0. pc[c] \in InFront => 1 \in 1..Len(queue)
    <3>1. queue # <<>> => Len(queue) \in Nat \ {0}
      BY EmptySeq, LenProperties DEF QInv, QueueType
    <3> QED BY <3>1 DEF QInv, FrontWriterOnly
  <2>1. CASE RoomError(c) \/ RoomSwitchFails(c) \/ (RoomSwitch(c) /\ c \in Forced)
    <3>1. pc[c] = "room" /\ seqOf' = seqOf /\ (Leave(1, "err", pc) \/ Leave(1, "ok", pc))
      BY <2>1 DEF RoomError, RoomSwitchFails, RoomSwitch, CanSwitch, AtFront
    <3>2. 1 \in 1..Len(queue)
      BY <2>0, <3>1 DEF InFront
    <3> QED BY <3>1, <3>2, LeaveType
  <2>2. CASE RoomFound(c) \/ (RoomSwitch(c) /\ c \notin Forced)
    BY <2>2, StartType DEF RoomFound, RoomSwitch
  <2>3. CASE FinishWrite(c)
    <3>1. /\ pc[c] \in Logging /\ seqOf' = seqOf
          /\ Leave(Len(group), IF pc[c] = "finish" THEN "ok" ELSE "err",
                   IF bgErr' # bgErr THEN Woken(pc) ELSE pc)
      BY <2>3 DEF FinishWrite, Logging
    <3>2. Len(group) \in 1..Len(queue)
      BY <3>1 DEF QInv, FrontWriterOnly
    <3> QED BY <3>1, <3>2, LeaveType
  <2>4. CASE ForceReturns(c)
    <3>1. group' = group /\ seqOf' = seqOf /\ owed' = owed
          /\ status' = [status EXCEPT ![c] = IF hasImm THEN "err" ELSE "ok"]
      BY <2>4 DEF ForceReturns
    <3> QED BY <3>1
  <2>5. CASE RoomDelay(c) \/ RoomStall(c) \/ AddRecord(c) \/ AddRecordFails(c) \/ SyncLog(c)
             \/ SyncLogFails(c) \/ InsertInto(c) \/ ForceWaits(c)
    BY <2>5, <1>1 DEF RoomDelay, RoomStall, AddRecord, AddRecordFails, SyncLog, SyncLogFails,
       InsertInto, ForceWaits
  <2> QED BY <1>3, <2>1, <2>2, <2>3, <2>4, <2>5 DEF WriterStep
<1>4. CASE Pin \/ Unpin \/ Close
  BY <1>4, <1>1 DEF Pin, Unpin, Close, calls
<1>5. CASE BackgroundStep
  BY <1>5, <1>1 DEF BackgroundStep, BackgroundNothing, FlushStart, FlushBuilt, FlushInstall,
         FlushFails, CompactionStart, TrivialMove, OpenCompactionOutputFile,
         FinishCompactionOutputFile, InstallCompactionResults, CompactionInstall,
         CompactionFails, calls
<1>6. CASE OpenStep /\ ~OpenFails
  BY <1>6, <1>1 DEF OpenStep, Recover, RecoverLogFile, RecoverLogFileFails, OpenLog,
                    OpenInstall, calls
<1>7. CASE OpenFails \/ Closed \/ ProcessCrash \/ MachineCrash
  <2>1. Gone /\ owed' \subseteq owed
    BY <1>7 DEF OpenFails, Closed, ProcessCrash, MachineCrash
  <2>2. group' \in Seq(Calls)
    BY <2>1, EmptySeq DEF Gone
  <2>3. seqOf' = seqOf /\ status' \in [Calls -> {"none", "ok", "err", "gone"}]
    BY <2>1 DEF Gone
  <2> QED BY <2>1, <2>2, <2>3
<1>8. CASE UNCHANGED vars
  BY <1>8, <1>1 DEF vars, calls
<1> QED BY <1>2, <1>3, <1>4, <1>5, <1>6, <1>7, <1>8, NextSteps DEF Working

(* The stages, and that an edit is there when it is to be synced.           *)
LEMMA StageType ==
  ASSUME QInv, StagesInv, TInv, [Next]_vars
  PROVE  StageOK'
<1> USE DEF TInv, StageOK
<1>1. /\ tail \in Edits /\ man \in Version /\ vs \in Version
      /\ vs.next \in Nat /\ vs.log \in Nat /\ vs.l0 \subseteq Nat /\ vs.l1 \subseteq Nat
      /\ Live(vs) \subseteq Nat
  BY LiveType DEF DiskOK, CoreOK, Edits
<1>2. \A has, v, err : NeedsWork(has, v, err) \in BOOLEAN
  BY DEF NeedsWork
<1>3. Working => replay = NoReplay /\ replay' = replay /\ replay.todo = {}
  <2>1. NoReplay.todo = {}
    BY DEF NoReplay
  <2> QED BY <2>1, WorkingStaysOpen DEF StagesInv, BackgroundInv
<1>4. CASE UNCHANGED <<bgErr, shutting, sched, fl, fnum, cp, cout, cin, replay, tail, logs>>
  BY <1>4
<1>5. ASSUME NEW c \in Calls, Enqueue(c) \/ WriterStep(c) PROVE StageOK'
  <2>0. replay' = replay /\ replay.todo = {}
    BY <1>3, <1>5 DEF Working
  <2>1. UNCHANGED <<shutting, fl, fnum, cp, cout, cin, tail>>
    BY <1>5 DEF Enqueue, WriterStep, RoomError, RoomDelay, RoomFound, RoomStall, RoomSwitch,
       RoomSwitchFails, AddRecord, AddRecordFails, SyncLog, SyncLogFails, InsertInto,
       FinishWrite, ForceWaits, ForceReturns, disk, bg, flags
  <2>2. bgErr' \in BOOLEAN
    BY <1>5 DEF Enqueue, WriterStep, RoomError, RoomDelay, RoomFound, RoomStall, RoomSwitch,
       RoomSwitchFails, AddRecord, AddRecordFails, SyncLog, SyncLogFails, InsertInto,
       FinishWrite, ForceWaits, ForceReturns, flags
  <2>3. sched' \in BOOLEAN
    BY <1>5, <1>2 DEF Enqueue, WriterStep, RoomError, RoomDelay, RoomFound, RoomStall, RoomSwitch,
       RoomSwitchFails, AddRecord, AddRecordFails, SyncLog, SyncLogFails, InsertInto,
       FinishWrite, ForceWaits, ForceReturns, bg
  <2> QED BY <2>0, <2>1, <2>2, <2>3
<1>6. CASE Pin \/ Unpin \/ Close
  <2>1. UNCHANGED <<bgErr, sched, fl, fnum, cp, cout, cin, replay, tail, logs>> /\ shutting' \in BOOLEAN
    BY <1>6 DEF Pin, Unpin, Close, disk, bg
  <2> QED BY <2>1
<1>7. CASE BackgroundStep
  <2>0. replay' = replay /\ replay.todo = {}
    BY <1>3, <1>7 DEF Working
  <2>1. shutting' = shutting /\ bgErr' \in BOOLEAN
    BY <1>7 DEF BackgroundStep, BackgroundNothing, FlushStart, FlushBuilt, FlushInstall,
         FlushFails, CompactionStart, TrivialMove, OpenCompactionOutputFile,
         FinishCompactionOutputFile, InstallCompactionResults, CompactionInstall,
         CompactionFails, flags
  <2>2. sched' \in BOOLEAN
    BY <1>7, <1>2 DEF BackgroundStep, BackgroundNothing, FlushStart, FlushBuilt, FlushInstall,
         FlushFails, CompactionStart, TrivialMove, OpenCompactionOutputFile,
         FinishCompactionOutputFile, InstallCompactionResults, CompactionInstall,
         CompactionFails, BackgroundEnd
  <2>3. /\ fl' \in {"no", "build", "manifest"} /\ fnum' \in Nat
        /\ cp' \in {"no", "merge", "out", "merged", "manifest", "move"} /\ cout' \in Nat
    BY <1>1, <1>7 DEF BackgroundStep, BackgroundNothing, FlushStart, FlushBuilt, FlushInstall,
         FlushFails, CompactionStart, TrivialMove, OpenCompactionOutputFile,
         FinishCompactionOutputFile, InstallCompactionResults, CompactionInstall,
         CompactionFails
  <2>4. cin' \in [files : SUBSET Nat, base : SUBSET Nat]
    <3>1. CASE CompactionStart
      <4>1. PICK in0 \in (SUBSET vs.l0) \ {{}}, in1 \in {{}, vs.l1} :
              cin' = [files |-> in0 \cup in1, base |-> Live(vs)]
        BY <3>1 DEF CompactionStart
      <4>2. in0 \cup in1 \subseteq Nat
        BY <1>1, <4>1
      <4> QED BY <1>1, <4>1, <4>2
    <3>2. CASE ~CompactionStart
      <4>1. cin' = cin \/ cin' = NoInputs
        BY <1>7, <3>2 DEF BackgroundStep, BackgroundNothing, FlushStart, FlushBuilt,
         FlushInstall, FlushFails, TrivialMove, OpenCompactionOutputFile,
         FinishCompactionOutputFile, InstallCompactionResults, CompactionInstall,
         CompactionFails
      <4> QED BY <4>1 DEF NoInputs
    <3> QED BY <3>1, <3>2
  <2>5. fl' = "manifest" \/ cp' \in {"manifest", "move"} => tail' # <<>>
    <3>1. fl # "no" => cp \notin {"manifest", "move"}
      BY DEF StagesInv, BackgroundInv
    <3>2. CASE FlushBuilt
      <4>1. PICK lvl \in {0, 1} :
              LogEdit(Edit(IF lvl = 0 /\ imm # {} THEN {fnum} ELSE {},
                       IF lvl = 1 /\ imm # {} THEN {fnum} ELSE {}, {}, logfile))
        BY <3>2 DEF FlushBuilt, FlushLogNumber
      <4>2. man' = man /\ logfile \in Nat
        BY <3>2 DEF FlushBuilt, CoreOK
      <4>3. tail' # <<>>
        <5> DEFINE a == IF lvl = 0 /\ imm # {} THEN {fnum} ELSE {}
                   b == IF lvl = 1 /\ imm # {} THEN {fnum} ELSE {}
        <5>1. a \in SUBSET Nat /\ b \in SUBSET Nat /\ {} \in SUBSET Nat
          OBVIOUS
        <5> HIDE DEF a, b
        <5>2. Edit(a, b, {}, logfile) \in VersionEdit
          BY <1>1, <4>2, <5>1, EditType
        <5>3. LogEdit(Edit(a, b, {}, logfile))
          BY <4>1 DEF a, b
        <5> QED BY <1>1, <4>2, <5>2, <5>3, LogEditAdds
      <4> QED BY <4>3
    <3>3. CASE TrivialMove
      <4>1. PICK f \in vs.l0 : LogEdit(Edit({}, {f}, {f}, vs.log))
        BY <3>3 DEF TrivialMove
      <4>2. man' = man /\ {f} \in SUBSET Nat /\ {} \in SUBSET Nat
        BY <3>3, <1>1 DEF TrivialMove
      <4>3. Edit({}, {f}, {f}, vs.log) \in VersionEdit
        BY <1>1, <4>2, EditType
      <4> QED BY <1>1, <4>1, <4>2, <4>3, LogEditAdds
    <3>4. CASE InstallCompactionResults
      <4>1. LogEdit(Edit({}, {cout}, cin.files, vs.log)) /\ man' = man
        BY <3>4 DEF InstallCompactionResults
      <4>2. {cout} \in SUBSET Nat /\ {} \in SUBSET Nat /\ cin.files \in SUBSET Nat
        OBVIOUS
      <4>3. Edit({}, {cout}, cin.files, vs.log) \in VersionEdit
        BY <1>1, <4>2, EditType
      <4> QED BY <1>1, <4>1, <4>3, LogEditAdds
    <3>5. CASE FlushInstall \/ CompactionInstall
      BY <3>1, <3>5 DEF FlushInstall, CompactionInstall
    <3>6. CASE BackgroundNothing \/ FlushStart \/ FlushFails \/ CompactionStart
               \/ OpenCompactionOutputFile \/ FinishCompactionOutputFile \/ CompactionFails
      BY <3>1, <3>6 DEF BackgroundNothing, FlushStart, FlushFails, CompactionStart,
         OpenCompactionOutputFile, FinishCompactionOutputFile, CompactionFails, disk
    <3> QED BY <1>7, <3>2, <3>3, <3>4, <3>5, <3>6 DEF BackgroundStep
  <2> QED BY <2>0, <2>1, <2>2, <2>3, <2>4, <2>5
<1>8. CASE OpenStep
  <2>1. CASE OpenFails
    BY <2>1, GoneType DEF OpenFails
  <2>2. CASE ~OpenFails
    <3>0. Quiet
      BY <1>8, <2>2 DEF StagesInv, BackgroundInv, OpenStep, Recover, RecoverLogFile,
         RecoverLogFileFails, OpenLog, OpenInstall, ReplayNext
    <3>1. UNCHANGED <<bgErr, shutting, fl, fnum, cp, cout, cin>>
      BY <1>8, <2>2 DEF OpenStep, Recover, RecoverLogFile, RecoverLogFileFails, OpenLog,
                        OpenInstall, bg
    <3>2. fl' = "no" /\ cp' = "no"
      BY <3>0, <3>1 DEF Quiet
    <3>3. sched' \in BOOLEAN
      <4>1. CASE OpenInstall
        BY <1>2, <4>1 DEF OpenInstall
      <4>2. CASE ~OpenInstall
        <5>1. sched' = sched
          BY <1>8, <2>2, <4>2 DEF OpenStep, Recover, RecoverLogFile, RecoverLogFileFails,
                                  OpenLog, bg
        <5> QED BY <5>1
      <4> QED BY <4>1, <4>2
    <3>4. /\ replay' \in [todo : SUBSET Nat, add : SUBSET Nat, max : Nat, err : BOOLEAN]
          /\ replay'.todo \subseteq DOMAIN logs'
      <4>1. CASE Recover
        <5>1. replay' = [NoReplay EXCEPT !.todo = LogsToRead(Described, logs)] /\ logs' = logs
          BY <4>1 DEF Recover, disk
        <5>2. LogsToRead(Described, logs) \subseteq DOMAIN logs /\ DOMAIN logs \subseteq Nat
          BY DEF LogsToRead, DiskOK, LogsOK
        <5> QED BY <5>1, <5>2 DEF NoReplay
      <4>2. CASE RecoverLogFile
        <5>1. MaxSeen \in Nat
          BY <4>2, ReplayType DEF RecoverLogFile, ReplayNext
        <5>2. \/ replay' = [replay EXCEPT !.todo = replay.todo \ {NextLog}, !.err = FALSE]
              \/ replay' = [todo |-> replay.todo \ {NextLog}, add |-> replay.add \cup {vs.next},
                            max |-> MaxSeen, err |-> FALSE]
          BY <4>2 DEF RecoverLogFile
        <5>3. logs' = logs
          BY <4>2 DEF RecoverLogFile
        <5>4. CASE replay' = [replay EXCEPT !.todo = replay.todo \ {NextLog}, !.err = FALSE]
          BY <5>3, <5>4
        <5>5. CASE replay' = [todo |-> replay.todo \ {NextLog}, add |-> replay.add \cup {vs.next},
                              max |-> MaxSeen, err |-> FALSE]
          BY <1>1, <5>1, <5>3, <5>5
        <5> QED BY <5>2, <5>4, <5>5
      <4>3. CASE RecoverLogFileFails
        <5>1. MaxSeen \in Nat
          BY <4>3, ReplayType DEF RecoverLogFileFails, ReplayNext
        <5>2. replay' = [replay EXCEPT !.todo = replay.todo \ {NextLog}, !.max = MaxSeen, !.err = TRUE]
          BY <4>3 DEF RecoverLogFileFails
        <5>3. logs' = logs
          BY <4>3 DEF RecoverLogFileFails, disk
        <5> QED BY <5>1, <5>2, <5>3
      <4>4. CASE OpenLog
        BY <4>4 DEF OpenLog
      <4>5. CASE OpenInstall
        BY <4>5 DEF OpenInstall, NoReplay
      <4> QED BY <1>8, <2>2, <4>1, <4>2, <4>3, <4>4, <4>5 DEF OpenStep
    <3> QED BY <3>1, <3>2, <3>3, <3>4
  <2> QED BY <2>1, <2>2
<1>9. CASE Closed \/ ProcessCrash \/ MachineCrash
  BY <1>9, GoneType DEF Closed, ProcessCrash, MachineCrash
<1>10. CASE UNCHANGED vars
  BY <1>10, <1>4 DEF vars, disk, bg, flags
<1> QED BY <1>5, <1>6, <1>7, <1>8, <1>9, <1>10, NextSteps DEF Working

\* What holds of every state, as far as types and stages go.
Base == QInv /\ StagesInv /\ TInv

LEMMA BaseHolds == Spec => []Base
<1>1. Init => TInv
  <2> SUFFICES ASSUME Init PROVE TInv
    OBVIOUS
  <2>1. NoVersions \in Version /\ <<>> \in Seq([edit : VersionEdit, ver : Version])
        /\ <<>> \in Seq(Calls)
    BY EmptySeq DEF NoVersions, Version
  <2>2. DiskOK
    BY <2>1, EmptyLogs DEF Init, DiskOK
  <2>3. CoreOK
    BY <2>1 DEF Init, CoreOK
  <2>4. CallsOK
    BY <2>1 DEF Init, CallsOK
  <2>5. StageOK
    BY DEF Init, StageOK, NoInputs, NoReplay
  <2> QED BY <2>2, <2>3, <2>4, <2>5 DEF TInv
<1>2. QInv /\ StagesInv /\ TInv /\ [Next]_vars => TInv'
  BY DiskType, CoreType, CallsType, StageType DEF TInv
<1> QED BY <1>1, <1>2, StagesHolds, PTL DEF Spec, Base

(* Every variable keeps its type: the numbers of files and of writes stay   *)
(* numbers, whatever DBImpl, the versions and recovery do with them.        *)
THEOREM TypeHolds == Spec => []TypeOK
<1>1. Base => TypeOK
  <2> SUFFICES ASSUME Base PROVE TypeOK
    OBVIOUS
  <2> USE DEF Base, TInv
  <2>1. ASSUME NEW n \in DOMAIN logs
        PROVE  logs[n].recs \in Seq(SUBSET Batches) /\ logs[n].synced \in 0..Len(logs[n].recs)
    <3>1. logs[n] \in Log /\ logs[n].synced <= Len(logs[n].recs)
      BY <2>1 DEF DiskOK, LogsOK
    <3>2. logs[n].recs \in Seq(SUBSET Batches) /\ logs[n].synced \in Nat
      BY <3>1 DEF Log
    <3> QED BY <3>1, <3>2, LenProperties
  <2>2. \A n \in DOMAIN tables : tables[n] \subseteq Batches
    BY DEF DiskOK
  <2>3. pc \in [Calls -> {"idle", "wait", "room", "stall", "append", "sync", "insert",
                          "finish", "failed", "syncfailed", "flush", "flushstall", "done"}]
    <3>1. Stages = {"idle", "wait", "room", "stall", "append", "sync", "insert",
                    "finish", "failed", "syncfailed", "flush", "flushstall", "done"}
      BY DEF Stages, InFront, Logging
    <3> QED BY <3>1 DEF QInv, QueueType
  <2>4. queue \in Seq(Calls)
    BY DEF QInv, QueueType
  <2> QED BY <2>1, <2>2, <2>3, <2>4 DEF TypeOK, CoreOK, CallsOK, StageOK
<1> QED BY <1>1, BaseHolds, PTL

-----------------------------------------------------------------------------
(***************************************************************************)
(* The tables: their numbers, those that are needed, and the edits.        *)
(***************************************************************************)
TablesInv == TableNumbers /\ FilesInv /\ EditInv

LEMMA BaseFacts ==
  ASSUME Base
  PROVE  /\ tail \in Edits /\ man \in Version /\ vs \in Version
         /\ vs.next \in Nat /\ vs.log \in Nat /\ vs.last \in Nat
         /\ vs.l0 \subseteq Nat /\ vs.l1 \subseteq Nat /\ Live(vs) \subseteq Nat
         /\ Described \in Version /\ Described \in Describable
         /\ \A v \in Describable : /\ v \in Version /\ v.next \in Nat /\ v.log \in Nat
                                   /\ v.last \in Nat /\ Live(v) \subseteq Nat
         /\ fnum \in Nat /\ cout \in Nat /\ logfile \in Nat
         /\ cin.files \subseteq Nat /\ cin.base \subseteq Nat
         /\ pins \subseteq SUBSET Nat /\ replay.add \subseteq Nat
<1>1. tail \in Edits /\ man \in Version /\ vs \in Version
  BY DEF Base, TInv, DiskOK, CoreOK, Edits
<1>2. Described \in Describable /\ \A v \in Describable : v \in Version
  BY <1>1, ManifestType
<1>3. /\ fnum \in Nat /\ cout \in Nat /\ logfile \in Nat
      /\ cin.files \subseteq Nat /\ cin.base \subseteq Nat
      /\ pins \subseteq SUBSET Nat /\ replay.add \subseteq Nat
  BY DEF Base, TInv, CoreOK, StageOK
<1> QED BY <1>1, <1>2, <1>3, LiveType

LEMMA BelowMore ==
  ASSUME NEW F, F \subseteq Nat, NEW m \in Nat, NEW n \in Nat, Below(F, m), m <= n,
         NEW G, G \subseteq F
  PROVE  Below(G, n)
BY DEF Below

LEMMA InSame ==
  ASSUME NEW F, NEW tb, NEW tc,
         \A n \in F : /\ n \in DOMAIN tb <=> n \in DOMAIN tc
                      /\ n \in DOMAIN tb => tb[n] = tc[n]
  PROVE  In(F, tb) = In(F, tc)
BY DEF In

LEMMA DeletedTables ==
  ASSUME NEW v, NEW base, NEW pend, DeleteObsoleteFiles(v, base, pend, tables)
  PROVE  /\ DOMAIN tables' \subseteq DOMAIN tables
         /\ \A n \in DOMAIN tables' : tables'[n] = tables[n]
         /\ bgErr => tables' = tables
         /\ \A n \in DOMAIN tables :
               n \in LiveFiles(v, base) \cup pend => n \in DOMAIN tables'
BY DEF DeleteObsoleteFiles, KeepsTable

(* Steps that leave the tables, the MANIFEST and the compaction alone.      *)
LEMMA TablesFrame ==
  ASSUME Base, TablesInv, vs' \in Version,
         UNCHANGED <<tables, man, tail, phase, fl, fnum, cp, cin, cout, pending>>,
         replay'.add = replay.add,
         vs'.next >= vs.next, Live(vs') = Live(vs), vs'.log = vs.log,
         vs'.l0 = vs.l0, vs'.l1 = vs.l1,
         pins' \subseteq pins \/ (phase = "open" /\ pins' = {Live(vs)}),
         fl = "no" \/ UNCHANGED <<imm, logfile>>,
         bgErr => bgErr'
  PROVE  TablesInv'
<1>1. /\ Described' = Described /\ Describable' = Describable /\ Logged' = Logged
  BY ManifestFrame
<1>2. /\ vs.next \in Nat /\ vs'.next \in Nat
      /\ \A v \in Describable : v.next \in Nat
      /\ Live(vs) \subseteq Nat /\ cout \in Nat /\ fnum \in Nat
      /\ \A v \in Describable : Live(v) \subseteq Nat
      /\ cin.base \subseteq Nat /\ replay.add \subseteq Nat /\ UNION pins \subseteq Nat
  BY BaseFacts, LiveType
<1>3. UNION pins' \subseteq UNION pins \/ (phase = "open" /\ UNION pins' = Live(vs))
  OBVIOUS
<1>4. \A n : n \in LiveFiles(vs, cin.base)' => n \in LiveFiles(vs, cin.base)
  BY <1>3 DEF LiveFiles
<1>5. TableNumbers'
  <2>0. TableNumbers
    BY DEF TablesInv
  <2>1. /\ \A v \in Describable : Below(Live(v), v.next) /\ v.next <= Described.next
        /\ phase # "down" =>
              /\ \A v \in Describable : v.next <= vs'.next
              /\ Below(Live(vs), vs'.next)
    <3>1. phase # "down" => Below(Live(vs), vs'.next)
      BY <1>2, <2>0, BelowMore DEF TableNumbers
    <3>2. phase # "down" => \A v \in Describable : v.next <= vs'.next
      BY <1>2, <2>0 DEF TableNumbers
    <3> QED BY <2>0, <3>1, <3>2 DEF TableNumbers
  <2>2. Below(UNION pins', vs'.next) /\ Below(cin.base, vs'.next) /\ Below(replay.add, vs'.next)
    <3>1. Below(cin.base, vs'.next) /\ Below(replay.add, vs'.next) /\ Below(UNION pins, vs'.next)
      BY <1>2, <2>0, BelowMore DEF TableNumbers
    <3>2. CASE UNION pins' \subseteq UNION pins
      BY <3>1, <3>2 DEF Below
    <3>3. CASE phase = "open" /\ UNION pins' = Live(vs)
      BY <2>1, <3>1, <3>3 DEF Below
    <3> QED BY <1>3, <3>1, <3>2, <3>3
  <2>3. cp \in {"out", "merged", "manifest"} => cout < vs'.next
    BY <1>2, <2>0 DEF TableNumbers
  <2>4. fl = "build" => /\ fnum < vs'.next
                        /\ \A v \in Describable : v.next <= fnum
                        /\ Below(LiveFiles(vs, cin.base)', fnum)
    <3>1. fl = "build" => fnum < vs'.next
      BY <1>2, <2>0 DEF TableNumbers
    <3>2. fl = "build" => Below(LiveFiles(vs, cin.base)', fnum)
      BY <1>4, <2>0 DEF TableNumbers, Below
    <3> QED BY <2>0, <3>1, <3>2 DEF TableNumbers
  <2>5. fl # "no" /\ cp \in {"out", "merged"} => cout < fnum
    BY <2>0 DEF TableNumbers
  <2>6. cp = "out" =>
          /\ cout \notin LiveFiles(vs, cin.base)'
          /\ \A v \in Describable : cout \notin Live(v)
    BY <1>4, <2>0 DEF TableNumbers
  <2> QED BY <1>1, <2>1, <2>2, <2>3, <2>4, <2>5, <2>6 DEF TableNumbers
<1>6. FilesInv'
  BY <1>1, <1>4 DEF TablesInv, FilesInv
<1>7. EditInv'
  <2>1. Apply(man, Logged)' = Apply(man, Logged)
    BY <1>1
  <2>2. fl = "manifest" => imm' = imm /\ logfile' = logfile
    OBVIOUS
  <2>3. fnum < vs.next => fnum < vs'.next
    BY <1>2
  <2>4. EditInv
    BY DEF TablesInv
  <2>5. fl' = "manifest" =>
          /\ tail' # <<>>
          /\ Logged'.del = {} /\ Logged'.log = logfile'
          /\ Logged'.add0 \cup Logged'.add1 = IF imm' = {} THEN {} ELSE {fnum'}
          /\ imm' # {} => fnum' \in DOMAIN tables' /\ tables'[fnum'] = imm' /\ fnum' \in Live(Described')
          /\ fnum' < vs'.next
    BY <1>1, <2>2, <2>3, <2>4 DEF EditInv
  <2>6. cp' = "manifest" =>
          /\ tail' # <<>>
          /\ Logged'.add0 = {} /\ Logged'.add1 = {cout'} /\ Logged'.del = cin'.files
          /\ Logged'.log = vs'.log /\ cout' \in Live(Described')
    BY <1>1, <2>4 DEF EditInv
  <2>7. cp' = "move" =>
          /\ tail' # <<>>
          /\ Logged'.add0 = {} /\ Logged'.add1 = {cout'} /\ Logged'.del = {cout'}
          /\ Logged'.log = vs'.log /\ cout' \in Live(vs')
    BY <1>1, <2>4 DEF EditInv
  <2>8. phase' = "open" /\ ~bgErr' =>
          /\ man'.log = vs'.log /\ man'.l0 = vs'.l0 /\ man'.l1 = vs'.l1
          /\ fl' # "manifest" /\ cp' \notin {"manifest", "move"} => tail' = <<>>
          /\ fl' = "manifest" \/ cp' \in {"manifest", "move"} =>
                Len(tail') = 1 /\ Described' = Apply(man', Logged')
    BY <1>1, <2>4 DEF EditInv
  <2> QED BY <2>5, <2>6, <2>7, <2>8 DEF EditInv
<1> QED BY <1>5, <1>6, <1>7 DEF TablesInv

LEMMA GoneTables ==
  ASSUME Base, TablesInv, Gone, tables' = tables,
         \/ man' = man /\ tail' = tail
         \/ man' \in Describable /\ tail' = <<>>
  PROVE  TablesInv'
<1>1. /\ phase' = "down" /\ UNION pins' = {} /\ cin' = NoInputs /\ cp' = "no" /\ fl' = "no"
      /\ replay' = NoReplay
  BY DEF Gone
<1>2. \/ Describable' = Describable /\ Described' = Described
      \/ Described' \in Describable /\ Describable' = {Described'}
  <2>1. CASE man' = man /\ tail' = tail
    BY <2>1, ManifestFrame
  <2>2. CASE man' \in Describable /\ tail' = <<>>
    <3>1. DOMAIN tail' = {}
      BY <2>2, EmptyLogs
    <3> QED BY <2>2, <3>1 DEF Described, Describable
  <2> QED BY <2>1, <2>2
<1>3. \A v \in Describable : v.next \in Nat
  BY BaseFacts
<1>4. cin'.base = {} /\ replay'.add = {}
  BY <1>1 DEF NoInputs, NoReplay
<1>5. TableNumbers'
  BY <1>1, <1>2, <1>3, <1>4 DEF TablesInv, TableNumbers, Below
<1>6. FilesInv'
  BY <1>1, <1>2 DEF TablesInv, FilesInv
<1>7. EditInv'
  BY <1>1 DEF EditInv
<1> QED BY <1>5, <1>6, <1>7 DEF TablesInv

(* The writers and the readers.                                             *)
LEMMA WriterTables ==
  ASSUME Base, Base', TablesInv, NEW c \in Calls, Enqueue(c) \/ WriterStep(c)
  PROVE  TablesInv'
<1>1. phase' = phase /\ replay' = replay
  BY WorkingStaysOpen DEF Base, StagesInv, Working
<1>2. vs \in Version /\ vs.next \in Nat /\ vs.last \in Nat /\ vs' \in Version
  BY BaseFacts DEF Base, TInv, CoreOK
<1>3. UNCHANGED <<tables, man, tail, fl, fnum, cp, cin, cout, pending, pins>>
  BY DEF Enqueue, WriterStep, RoomError, RoomDelay, RoomFound, RoomStall, RoomSwitch,
     RoomSwitchFails, AddRecord, AddRecordFails, SyncLog, SyncLogFails, InsertInto,
     FinishWrite, ForceWaits, ForceReturns, disk, bg, flags
<1>4. bgErr => bgErr'
  BY DEF Enqueue, WriterStep, RoomError, RoomDelay, RoomFound, RoomStall, RoomSwitch,
     RoomSwitchFails, AddRecord, AddRecordFails, SyncLog, SyncLogFails, InsertInto,
     FinishWrite, ForceWaits, ForceReturns, flags
<1>5. CASE RoomSwitch(c)
  <2>1. vs' = [vs EXCEPT !.next = vs.next + 1] /\ ~hasImm
    BY <1>5 DEF RoomSwitch, CanSwitch
  <2>2. fl = "no"
    BY <2>1 DEF Base, StagesInv, BackgroundInv
  <2>3. /\ vs'.next = vs.next + 1 /\ vs'.log = vs.log
        /\ vs'.l0 = vs.l0 /\ vs'.l1 = vs.l1 /\ Live(vs') = Live(vs)
    BY <1>2, <2>1 DEF Version, Live
  <2> QED BY <1>1, <1>2, <1>3, <1>4, <2>2, <2>3, TablesFrame
<1>6. CASE ~RoomSwitch(c)
  <2>1. UNCHANGED <<imm, logfile>> /\ (vs' = vs \/ \E n : vs' = [vs EXCEPT !.last = n])
    BY <1>6 DEF Enqueue, WriterStep, RoomError, RoomDelay, RoomFound, RoomStall,
       RoomSwitchFails, AddRecord, AddRecordFails, SyncLog, SyncLogFails, InsertInto,
       FinishWrite, ForceWaits, ForceReturns, core
  <2>2. /\ vs'.next = vs.next /\ vs'.log = vs.log
        /\ vs'.l0 = vs.l0 /\ vs'.l1 = vs.l1 /\ Live(vs') = Live(vs)
    BY <1>2, <2>1 DEF Version, Live
  <2> QED BY <1>1, <1>2, <1>3, <1>4, <2>1, <2>2, TablesFrame
<1> QED BY <1>5, <1>6

LEMMA QuietTables ==
  ASSUME Base, Base', TablesInv, Pin \/ Unpin \/ Close \/ BackgroundNothing \/ UNCHANGED vars
  PROVE  TablesInv'
<1>1. UNCHANGED <<tables, man, tail, phase, fl, fnum, cp, cin, cout, pending, replay, vs, imm,
                  logfile, bgErr>>
  BY DEF Pin, Unpin, Close, BackgroundNothing, vars, disk, core, bg, flags
<1>2. pins' \subseteq pins \/ (phase = "open" /\ pins' = {Live(vs)})
  BY DEF Pin, Unpin, Close, BackgroundNothing, vars, flags
<1>3. vs \in Version /\ vs.next \in Nat
  BY BaseFacts
<1> QED BY <1>1, <1>2, <1>3, TablesFrame

(* The background thread.                                                   *)
LEMMA AtWork ==
  ASSUME Base, fl # "no" \/ cp # "no" \/ sched
  PROVE  phase = "open" /\ replay.add = {}
<1>1. phase = "open"
  BY DEF Base, StagesInv, BackgroundInv, Quiet
<1>2. replay = NoReplay
  BY <1>1 DEF Base, StagesInv, BackgroundInv
<1> QED BY <1>1, <1>2 DEF NoReplay

LEMMA FlushStartTables ==
  ASSUME Base, TablesInv, FlushStart
  PROVE  TablesInv'
<1>1. /\ fnum' = vs.next /\ vs' = [vs EXCEPT !.next = vs.next + 1]
      /\ pending' = pending \cup {fnum'} /\ fl' = "build" /\ fl = "no"
      /\ UNCHANGED <<tables, man, tail, imm, logfile, cp, cin, cout, phase, pins, bgErr, replay>>
  BY DEF FlushStart, Idle, InLoop, disk
<1>2. /\ Described' = Described /\ Describable' = Describable /\ Logged' = Logged
  BY <1>1, ManifestFrame
<1>3. /\ vs.next \in Nat /\ vs \in Version /\ Live(vs) \subseteq Nat
      /\ \A v \in Describable : v.next \in Nat /\ Live(v) \subseteq Nat
      /\ cout \in Nat /\ cin.base \subseteq Nat /\ replay.add \subseteq Nat
      /\ UNION pins \subseteq Nat
  BY BaseFacts
<1>4. /\ vs'.next = vs.next + 1 /\ vs'.log = vs.log
      /\ vs'.l0 = vs.l0 /\ vs'.l1 = vs.l1 /\ Live(vs') = Live(vs)
  BY <1>1, <1>3 DEF Version, Live
<1>5. LiveFiles(vs, cin.base)' = LiveFiles(vs, cin.base)
  BY <1>1, <1>4 DEF LiveFiles
<1>6. phase = "open"
  BY AtWork DEF FlushStart, Idle, InLoop
<1>7. TableNumbers'
  <2>0. TableNumbers
    BY DEF TablesInv
  <2>1. /\ \A v \in Describable : v.next <= vs.next /\ v.next <= vs'.next
        /\ Below(Live(vs), vs.next) /\ Below(Live(vs), vs'.next)
    BY <1>3, <1>4, <1>6, <2>0, BelowMore DEF TableNumbers
  <2>2. /\ Below(UNION pins, vs.next) /\ Below(UNION pins, vs'.next)
        /\ Below(cin.base, vs.next) /\ Below(cin.base, vs'.next)
        /\ Below(replay.add, vs'.next)
    BY <1>3, <1>4, <2>0, BelowMore DEF TableNumbers
  <2>3. cp \in {"out", "merged", "manifest"} => cout < vs.next /\ cout < vs'.next
    BY <1>3, <1>4, <2>0 DEF TableNumbers
  <2>4. fnum' < vs'.next
    BY <1>1, <1>3, <1>4
  <2>5. Below(LiveFiles(vs, cin.base), fnum')
    BY <1>1, <2>1, <2>2 DEF LiveFiles, Below
  <2> QED BY <1>1, <1>2, <1>4, <1>5, <2>0, <2>1, <2>2, <2>3, <2>4, <2>5 DEF TableNumbers
<1>8. FilesInv'
  BY <1>1, <1>2, <1>4, <1>5 DEF TablesInv, FilesInv
<1>9. EditInv'
  BY <1>1, <1>2, <1>4 DEF TablesInv, EditInv
<1> QED BY <1>7, <1>8, <1>9 DEF TablesInv

(* The edit that a stage logs is the first one, unless an error stays.      *)
LEMMA FirstEdit ==
  ASSUME Base, TablesInv, phase = "open", fl # "manifest", cp \notin {"manifest", "move"},
         NEW e \in VersionEdit, LogEdit(e), man' = man, ~bgErr
  PROVE  Len(tail') = 1 /\ Described' = Apply(man', Logged')
<1>1. tail = <<>> /\ Len(tail) = 0 /\ Described = man
  BY EmptySeq DEF TablesInv, EditInv, Described
<1>2. tail \in Edits /\ man \in Version
  BY BaseFacts
<1> QED BY <1>1, <1>2, LogEditAdds

(* The version that an edit adds is the newest.                             *)
LEMMA NewestVersion ==
  ASSUME Base, TableNumbers, phase = "open", Describable' = Describable \cup {Described'},
         Described'.next = vs.next, Below(Live(Described'), vs.next)
  PROVE  \A v \in Describable' : /\ Below(Live(v), v.next)
                                 /\ v.next <= Described'.next /\ v.next <= vs.next
<1> SUFFICES ASSUME NEW v \in Describable'
             PROVE  Below(Live(v), v.next) /\ v.next <= vs.next
  OBVIOUS
<1>1. CASE v \in Describable
  BY <1>1 DEF TableNumbers
<1>2. CASE v = Described'
  <2>1. v.next = vs.next /\ vs.next \in Nat
    BY <1>2, BaseFacts
  <2> QED BY <1>2, <2>1
<1> QED BY <1>1, <1>2

LEMMA FlushBuiltTables ==
  ASSUME Base, TablesInv, FlushBuilt
  PROVE  TablesInv'
<1>1. /\ fl = "build" /\ fl' = "manifest"
      /\ tables' = IF imm = {} THEN tables ELSE Put(tables, fnum, imm)
      /\ pending' = pending \ {fnum}
      /\ UNCHANGED <<man, vs, imm, logfile, fnum, cp, cin, cout, phase, pins, bgErr, replay>>
  BY DEF FlushBuilt, core
<1>2. phase = "open" /\ cp \in {"no", "merge", "out", "merged"}
  BY <1>1, AtWork DEF Base, StagesInv, BackgroundInv
<1>3. /\ tail \in Edits /\ man \in Version /\ vs \in Version /\ Described \in Version
      /\ vs.next \in Nat /\ Described \in Describable
      /\ \A v \in Describable : v.next \in Nat /\ Live(v) \subseteq Nat
      /\ fnum \in Nat /\ cout \in Nat /\ logfile \in Nat
  BY BaseFacts
<1>4. PICK lvl \in {0, 1} :
         LogEdit(Edit(IF lvl = 0 /\ imm # {} THEN {fnum} ELSE {},
                      IF lvl = 1 /\ imm # {} THEN {fnum} ELSE {}, {}, logfile))
  BY DEF FlushBuilt, FlushLogNumber
<1>5. PICK a \in SUBSET Nat, b \in SUBSET Nat :
         /\ a \cup b = IF imm = {} THEN {} ELSE {fnum}
         /\ LogEdit(Edit(a, b, {}, logfile))
  <2>1. /\ (IF lvl = 0 /\ imm # {} THEN {fnum} ELSE {}) \in SUBSET Nat
        /\ (IF lvl = 1 /\ imm # {} THEN {fnum} ELSE {}) \in SUBSET Nat
    BY <1>3
  <2> QED BY <1>4, <2>1
<1>6. PICK e \in VersionEdit :
         /\ e.add0 = a /\ e.add1 = b /\ e.del = {} /\ e.log = logfile /\ e.next = vs.next
         /\ LogEdit(e)
  BY <1>3, <1>5, EditType
<1>7. /\ Logged' = e /\ tail' # <<>>
      /\ Described' = Apply(Described, e)
      /\ Describable' = Describable \cup {Described'}
  BY <1>1, <1>3, <1>6, LogEditAdds
<1>8. /\ Described'.next = vs.next
      /\ Live(Described') = Live(Described) \cup (IF imm = {} THEN {} ELSE {fnum})
  BY <1>3, <1>5, <1>6, <1>7, ApplyType
<1>9. LiveFiles(vs, cin.base)' = LiveFiles(vs, cin.base)
  BY <1>1 DEF LiveFiles
<1>10. /\ DOMAIN tables \subseteq DOMAIN tables'
       /\ imm # {} => fnum \in DOMAIN tables' /\ tables'[fnum] = imm
       /\ \A n \in DOMAIN tables \ {fnum} : tables'[n] = tables[n]
  BY <1>1 DEF Put
<1>11. TableNumbers'
  <2>0. TableNumbers
    BY DEF TablesInv
  <2>1. \A v \in Describable : v.next <= vs.next
    BY <1>2, <2>0 DEF TableNumbers
  <2>2. fnum < vs.next
    BY <1>1, <2>0 DEF TableNumbers
  <2>3. Below(Live(Described'), vs.next)
    <3>1. Below(Live(Described), vs.next)
      BY <1>3, <2>0, <2>1, BelowMore DEF TableNumbers
    <3> QED BY <1>8, <2>2, <3>1 DEF Below
  <2>4. \A v \in Describable' : /\ Below(Live(v), v.next)
                                /\ v.next <= Described'.next /\ v.next <= vs.next
    BY <1>2, <1>7, <1>8, <2>0, <2>3, NewestVersion
  <2>5. cp = "out" => cout \notin Live(Described')
    BY <1>1, <1>3, <1>8, <2>0 DEF TableNumbers
  <2>6. cp = "out" => /\ cout \notin LiveFiles(vs, cin.base)'
                      /\ \A v \in Describable' : cout \notin Live(v)
    BY <1>7, <1>9, <2>0, <2>5 DEF TableNumbers
  <2>7. cp \in {"out", "merged"} => cout < fnum
    BY <1>1, <2>0 DEF TableNumbers
  <2> QED BY <1>1, <1>2, <2>0, <2>4, <2>6, <2>7 DEF TableNumbers
<1>12. FilesInv'
  <2>0. FilesInv /\ TableNumbers
    BY DEF TablesInv
  <2>1. LiveFiles(vs, cin.base)' \cup replay'.add \subseteq DOMAIN tables'
    BY <1>1, <1>2, <1>9, <1>10, <2>0 DEF FilesInv
  <2>2. \A v \in Describable' : Live(v) \subseteq DOMAIN tables'
    BY <1>3, <1>7, <1>8, <1>10, <2>0 DEF FilesInv
  <2>3. cp \in {"out", "merged"} => cout # fnum
    BY <1>1, <1>3, <2>0 DEF TableNumbers
  <2>4. cp \in {"out", "merged"} => cout \in pending'
    BY <1>1, <2>0, <2>3 DEF FilesInv
  <2>5. cp = "merged" => cout \in DOMAIN tables' /\ tables'[cout] = In(cin.files, tables')
    <3> SUFFICES ASSUME cp = "merged"
                 PROVE  cout \in DOMAIN tables' /\ tables'[cout] = In(cin.files, tables')
      OBVIOUS
    <3>1. cout \in DOMAIN tables' /\ tables'[cout] = tables[cout]
      BY <1>10, <2>0, <2>3 DEF FilesInv
    <3>2. cin.files \subseteq cin.base /\ fnum \notin cin.base /\ cin.files \subseteq DOMAIN tables
      BY <1>1, <1>2, <1>3, <2>0 DEF FilesInv, TableNumbers, LiveFiles, Below
    <3>3. In(cin.files, tables') = In(cin.files, tables)
      BY <1>10, <3>2, InSame
    <3> QED BY <2>0, <3>1, <3>3 DEF FilesInv
  <2>6. cp \in {"merge", "out", "merged"} => cin.files \subseteq Live(vs) \cap cin.base
    BY <2>0 DEF FilesInv
  <2> QED BY <1>1, <1>2, <2>1, <2>2, <2>4, <2>5, <2>6 DEF FilesInv
<1>13. EditInv'
  <2>0. EditInv /\ TableNumbers
    BY DEF TablesInv
  <2>1. fnum < vs.next
    BY <1>1, <2>0 DEF TableNumbers
  <2>2. ~bgErr => Len(tail') = 1 /\ Described' = Apply(man', Logged')
    BY <1>1, <1>2, <1>6, FirstEdit
  <2>3. imm # {} => fnum \in Live(Described')
    BY <1>8
  <2> QED BY <1>1, <1>2, <1>5, <1>6, <1>7, <1>10, <2>0, <2>1, <2>2, <2>3 DEF EditInv
<1> QED BY <1>11, <1>12, <1>13 DEF TablesInv

LEMMA FlushInstallTables ==
  ASSUME Base, Base', TablesInv, FlushInstall
  PROVE  TablesInv'
<1>1. /\ fl = "manifest" /\ fl' = "no" /\ SyncManifest /\ vs' = Installed
      /\ DeleteObsoleteFiles(vs', cin.base, pending, tables)
      /\ UNCHANGED <<fnum, cp, cin, cout, phase, pins, pending, bgErr, replay>>
  BY DEF FlushInstall, flags
<1>2. phase = "open" /\ cp \in {"no", "merge", "out", "merged"} /\ replay.add = {}
  BY <1>1, AtWork DEF Base, StagesInv, BackgroundInv
<1>3. /\ tail \in Edits /\ man \in Version /\ vs \in Version
      /\ vs.next \in Nat /\ fnum \in Nat /\ cout \in Nat
      /\ \A v \in Describable : v.next \in Nat /\ Live(v) \subseteq Nat
      /\ Described \in Describable
  BY BaseFacts
<1>4. /\ tail # <<>> /\ fnum < vs.next
      /\ Logged.del = {} /\ Logged.log = logfile
      /\ Logged.add0 \cup Logged.add1 = IF imm = {} THEN {} ELSE {fnum}
      /\ imm # {} => fnum \in DOMAIN tables
  BY <1>1 DEF TablesInv, EditInv
<1>5. /\ vs'.next = vs.next /\ vs'.log = Logged.log
      /\ vs'.l0 = vs.l0 \cup Logged.add0 /\ vs'.l1 = vs.l1 \cup Logged.add1
      /\ Live(vs') = Live(vs) \cup (IF imm = {} THEN {} ELSE {fnum})
  BY <1>1, <1>3, <1>4, InstalledType
<1>6. man' = Described /\ tail' = <<>> /\ Described' = Described /\ Describable' = {Described}
  BY <1>1, <1>3, SyncLeavesOne
<1>7. ~bgErr => /\ man'.log = vs'.log /\ man'.l0 = vs'.l0 /\ man'.l1 = vs'.l1
                /\ Live(Described) = Live(vs')
  <2> SUFFICES ASSUME ~bgErr
               PROVE  man'.log = vs'.log /\ man'.l0 = vs'.l0 /\ man'.l1 = vs'.l1
    BY <1>6 DEF Live
  <2>1. man.l0 = vs.l0 /\ man.l1 = vs.l1 /\ Described = Apply(man, Logged)
    BY <1>1, <1>2 DEF TablesInv, EditInv
  <2>2. Logged \in VersionEdit
    BY <1>3, <1>4, TailEntries DEF Logged
  <2> QED BY <1>3, <1>4, <1>5, <1>6, <2>1, <2>2, ApplyType
<1>8. /\ DOMAIN tables' \subseteq DOMAIN tables
      /\ \A n \in DOMAIN tables' : tables'[n] = tables[n]
      /\ bgErr => tables' = tables
      /\ \A n \in DOMAIN tables :
            n \in LiveFiles(vs', cin.base) \cup pending => n \in DOMAIN tables'
  <2>1. DeleteObsoleteFiles(vs', cin.base, pending, tables)
    BY <1>1
  <2> QED BY <2>1, DeletedTables
<1>9. TableNumbers'
  <2>0. TableNumbers
    BY DEF TablesInv
  <2>1. Below(Live(Described), Described.next) /\ Described.next <= vs.next
    BY <1>2, <1>3, <2>0 DEF TableNumbers
  <2>2. Below(Live(vs'), vs.next)
    BY <1>2, <1>4, <1>5, <2>0 DEF TableNumbers, Below
  <2>3. cp \in {"out", "merged"} => cout # fnum
    BY <1>1, <1>3, <2>0 DEF TableNumbers
  <2>4. cp = "out" => cout \notin LiveFiles(vs', cin.base) /\ cout \notin Live(Described)
    BY <1>3, <1>5, <2>0, <2>3 DEF TableNumbers, LiveFiles
  <2>5. LiveFiles(vs, cin.base)' = LiveFiles(vs', cin.base)
    BY <1>1 DEF LiveFiles
  <2> QED BY <1>1, <1>2, <1>3, <1>5, <1>6, <2>0, <2>1, <2>2, <2>4, <2>5 DEF TableNumbers
<1>10. FilesInv'
  <2>0. FilesInv
    BY DEF TablesInv
  <2>1. LiveFiles(vs, cin.base)' = LiveFiles(vs', cin.base)
    BY <1>1 DEF LiveFiles
  <2>2. LiveFiles(vs', cin.base) \subseteq DOMAIN tables
    BY <1>2, <1>4, <1>5, <2>0 DEF FilesInv, LiveFiles
  <2>3. LiveFiles(vs', cin.base) \subseteq DOMAIN tables'
    BY <1>8, <2>2
  <2>4. Live(Described) \subseteq DOMAIN tables'
    <3>1. CASE bgErr
      BY <1>3, <1>8, <2>0, <3>1 DEF FilesInv
    <3>2. CASE ~bgErr
      BY <1>7, <2>3, <3>2 DEF LiveFiles
    <3> QED BY <3>1, <3>2
  <2>5. cp = "merged" => cout \in DOMAIN tables' /\ tables'[cout] = In(cin.files, tables')
    <3> SUFFICES ASSUME cp = "merged"
                 PROVE  cout \in DOMAIN tables' /\ tables'[cout] = In(cin.files, tables')
      OBVIOUS
    <3>1. cout \in DOMAIN tables'
      BY <1>8, <2>0 DEF FilesInv
    <3>2. cin.files \subseteq DOMAIN tables'
      BY <2>0, <2>3 DEF FilesInv, LiveFiles
    <3>3. In(cin.files, tables') = In(cin.files, tables)
      BY <1>8, <3>2, InSame
    <3> QED BY <1>8, <2>0, <3>1, <3>3 DEF FilesInv
  <2>6. cp \in {"merge", "out", "merged"} => cin.files \subseteq Live(vs') \cap cin.base
    BY <1>5, <2>0 DEF FilesInv
  <2>7. cp \in {"out", "merged"} => cout \in pending
    BY <2>0 DEF FilesInv
  <2> QED BY <1>1, <1>2, <1>6, <2>1, <2>3, <2>4, <2>5, <2>6, <2>7 DEF FilesInv
<1>11. EditInv'
  BY <1>1, <1>2, <1>6, <1>7 DEF EditInv
<1> QED BY <1>9, <1>10, <1>11 DEF TablesInv

LEMMA FlushFailsTables ==
  ASSUME Base, TablesInv, FlushFails
  PROVE  TablesInv'
<1>1. /\ fl \in {"build", "manifest"} /\ fl' = "no" /\ bgErr' /\ pending' = pending \ {fnum}
      /\ UNCHANGED <<tables, man, tail, vs, fnum, cp, cin, cout, phase, pins, replay>>
  BY DEF FlushFails, disk, core
<1>2. /\ Described' = Described /\ Describable' = Describable
  BY <1>1, ManifestFrame
<1>3. cp \in {"no", "merge", "out", "merged"} /\ cout \in Nat /\ fnum \in Nat
  BY <1>1, BaseFacts DEF Base, StagesInv, BackgroundInv
<1>4. LiveFiles(vs, cin.base)' = LiveFiles(vs, cin.base)
  BY <1>1 DEF LiveFiles
<1>5. TableNumbers'
  BY <1>1, <1>2, <1>4 DEF TablesInv, TableNumbers
<1>6. FilesInv'
  <2>1. cp \in {"out", "merged"} => cout # fnum
    BY <1>1, <1>3 DEF TablesInv, TableNumbers
  <2> QED BY <1>1, <1>2, <1>3, <1>4, <2>1 DEF TablesInv, FilesInv
<1>7. EditInv'
  BY <1>1, <1>3 DEF EditInv
<1> QED BY <1>5, <1>6, <1>7 DEF TablesInv

LEMMA CompactionStartTables ==
  ASSUME Base, TablesInv, CompactionStart
  PROVE  TablesInv'
<1>1. /\ cp = "no" /\ fl = "no" /\ ~bgErr /\ cp' = "merge"
      /\ UNCHANGED <<tables, man, tail, vs, imm, logfile, fl, fnum, cout, phase, pins, pending,
                     bgErr, replay>>
  BY DEF CompactionStart, CanCompact, Idle, disk, core, flags
<1>2. PICK F \in SUBSET Live(vs) : cin' = [files |-> F, base |-> Live(vs)]
  BY DEF CompactionStart, Live
<1>3. /\ Described' = Described /\ Describable' = Describable /\ Logged' = Logged
  BY <1>1, ManifestFrame
<1>4. phase = "open"
  BY AtWork DEF CompactionStart, CanCompact, Idle
<1>5. cin'.files = F /\ cin'.base = Live(vs)
  BY <1>2
<1>6. LiveFiles(vs, cin.base)' \subseteq LiveFiles(vs, cin.base)
  BY <1>1, <1>5 DEF LiveFiles
<1>7. TableNumbers'
  BY <1>1, <1>3, <1>4, <1>5 DEF TablesInv, TableNumbers
<1>8. FilesInv'
  BY <1>1, <1>3, <1>4, <1>5, <1>6 DEF TablesInv, FilesInv
<1>9. EditInv'
  BY <1>1, <1>3 DEF TablesInv, EditInv
<1> QED BY <1>7, <1>8, <1>9 DEF TablesInv

LEMMA TrivialMoveTables ==
  ASSUME Base, TablesInv, TrivialMove
  PROVE  TablesInv'
<1>1. /\ cp = "no" /\ fl = "no" /\ ~bgErr /\ cp' = "move" /\ cout' \in vs.l0
      /\ LogEdit(Edit({}, {cout'}, {cout'}, vs.log))
      /\ UNCHANGED <<tables, man, vs, imm, logfile, fl, fnum, cin, phase, pins, pending,
                     bgErr, replay>>
  BY DEF TrivialMove, CanCompact, Idle, core, flags
<1>2. /\ tail \in Edits /\ man \in Version /\ vs \in Version /\ Described \in Version
      /\ vs.next \in Nat /\ vs.log \in Nat /\ vs.l0 \subseteq Nat
      /\ Described \in Describable
      /\ \A v \in Describable : v.next \in Nat /\ Live(v) \subseteq Nat
  BY BaseFacts
<1>3. PICK e \in VersionEdit :
         /\ e.add0 = {} /\ e.add1 = {cout'} /\ e.del = {cout'} /\ e.log = vs.log
         /\ e.next = vs.next
         /\ LogEdit(e)
  BY <1>1, <1>2, EditType
<1>4. /\ Logged' = e /\ tail' # <<>>
      /\ Described' = Apply(Described, e)
      /\ Describable' = Describable \cup {Described'}
  BY <1>1, <1>2, <1>3, LogEditAdds
<1>5. phase = "open"
  BY AtWork DEF TrivialMove, CanCompact, Idle
<1>6. tail = <<>> /\ Described = man /\ Live(Described) = Live(vs)
  BY <1>1, <1>5 DEF TablesInv, EditInv, Described, Live
<1>7. Described'.next = vs.next /\ Live(Described') = Live(vs)
  <2>1. /\ Described'.next = vs.next
        /\ Live(Described') = (Live(Described) \ {cout'}) \cup {cout'}
    BY <1>2, <1>3, <1>4, ApplyType
  <2>2. cout' \in Live(vs)
    BY <1>1 DEF Live
  <2> QED BY <1>6, <2>1, <2>2
<1>8. LiveFiles(vs, cin.base)' = LiveFiles(vs, cin.base)
  BY <1>1 DEF LiveFiles
<1>9. TableNumbers'
  <2>0. TableNumbers
    BY DEF TablesInv
  <2>1. Below(Live(Described'), vs.next)
    BY <1>5, <1>7, <2>0 DEF TableNumbers
  <2>2. \A v \in Describable' : /\ Below(Live(v), v.next)
                                /\ v.next <= Described'.next /\ v.next <= vs.next
    BY <1>4, <1>5, <1>7, <2>0, <2>1, NewestVersion
  <2> QED BY <1>1, <1>8, <2>0, <2>2 DEF TableNumbers
<1>10. FilesInv'
  BY <1>1, <1>4, <1>5, <1>7, <1>8 DEF TablesInv, FilesInv, LiveFiles
<1>11. EditInv'
  <2>1. Len(tail') = 1 /\ Described' = Apply(man', Logged')
    BY <1>1, <1>3, <1>5, FirstEdit
  <2>2. cout' \in Live(vs)
    BY <1>1 DEF Live
  <2> QED BY <1>1, <1>3, <1>4, <2>1, <2>2 DEF TablesInv, EditInv
<1> QED BY <1>9, <1>10, <1>11 DEF TablesInv

LEMMA OutputOpenTables ==
  ASSUME Base, TablesInv, OpenCompactionOutputFile
  PROVE  TablesInv'
<1>1. /\ cp = "merge" /\ fl = "no" /\ cp' = "out" /\ cout' = vs.next
      /\ vs' = [vs EXCEPT !.next = vs.next + 1] /\ pending' = pending \cup {cout'}
      /\ UNCHANGED <<tables, man, tail, imm, logfile, fl, fnum, cin, phase, pins, bgErr, replay>>
  BY DEF OpenCompactionOutputFile, disk
<1>2. /\ Described' = Described /\ Describable' = Describable /\ Logged' = Logged
  BY <1>1, ManifestFrame
<1>3. /\ vs.next \in Nat /\ vs \in Version /\ Live(vs) \subseteq Nat
      /\ \A v \in Describable : v.next \in Nat /\ Live(v) \subseteq Nat
      /\ cin.base \subseteq Nat /\ replay.add \subseteq Nat /\ UNION pins \subseteq Nat
  BY BaseFacts
<1>4. /\ vs'.next = vs.next + 1 /\ vs'.log = vs.log
      /\ vs'.l0 = vs.l0 /\ vs'.l1 = vs.l1 /\ Live(vs') = Live(vs)
  BY <1>1, <1>3 DEF Version, Live
<1>5. LiveFiles(vs, cin.base)' = LiveFiles(vs, cin.base)
  BY <1>1, <1>4 DEF LiveFiles
<1>6. phase = "open"
  BY <1>1, AtWork
<1>7. TableNumbers'
  <2>0. TableNumbers
    BY DEF TablesInv
  <2>1. /\ \A v \in Describable : v.next <= vs.next /\ v.next <= vs'.next
        /\ Below(Live(vs), vs.next) /\ Below(Live(vs), vs'.next)
    BY <1>3, <1>4, <1>6, <2>0, BelowMore DEF TableNumbers
  <2>2. /\ Below(UNION pins, vs.next) /\ Below(UNION pins, vs'.next)
        /\ Below(cin.base, vs.next) /\ Below(cin.base, vs'.next)
        /\ Below(replay.add, vs'.next)
    BY <1>3, <1>4, <2>0, BelowMore DEF TableNumbers
  <2>3. cout' < vs'.next
    BY <1>1, <1>3, <1>4
  <2>4. cout' \notin LiveFiles(vs, cin.base)
    BY <1>1, <1>3, <2>1, <2>2 DEF LiveFiles, Below
  <2>5. \A v \in Describable : cout' \notin Live(v)
    <3> SUFFICES ASSUME NEW v \in Describable, cout' \in Live(v) PROVE FALSE
      OBVIOUS
    <3>1. cout' < v.next /\ v.next <= vs.next
      BY <2>0, <2>1 DEF TableNumbers, Below
    <3> QED BY <1>1, <1>3, <3>1
  <2> QED BY <1>1, <1>2, <1>4, <1>5, <2>0, <2>1, <2>2, <2>3, <2>4, <2>5 DEF TableNumbers
<1>8. FilesInv'
  BY <1>1, <1>2, <1>4, <1>5 DEF TablesInv, FilesInv
<1>9. EditInv'
  BY <1>1, <1>2, <1>4 DEF TablesInv, EditInv
<1> QED BY <1>7, <1>8, <1>9 DEF TablesInv

LEMMA OutputFinishTables ==
  ASSUME Base, TablesInv, FinishCompactionOutputFile
  PROVE  TablesInv'
<1>1. /\ cp = "out" /\ fl = "no" /\ cp' = "merged"
      /\ tables' = Put(tables, cout, In(cin.files, tables))
      /\ UNCHANGED <<man, tail, vs, imm, logfile, fl, fnum, cin, cout, phase, pins, pending,
                     bgErr, replay>>
  BY DEF FinishCompactionOutputFile, core, flags
<1>2. /\ Described' = Described /\ Describable' = Describable /\ Logged' = Logged
  BY <1>1, ManifestFrame
<1>3. /\ DOMAIN tables' = DOMAIN tables \cup {cout}
      /\ tables'[cout] = In(cin.files, tables)
      /\ \A n \in DOMAIN tables \ {cout} : tables'[n] = tables[n]
  BY <1>1 DEF Put
<1>4. LiveFiles(vs, cin.base)' = LiveFiles(vs, cin.base)
  BY <1>1 DEF LiveFiles
<1>5. phase = "open"
  BY <1>1, AtWork
<1>6. TableNumbers'
  BY <1>1, <1>2, <1>4 DEF TablesInv, TableNumbers
<1>7. FilesInv'
  <2>0. FilesInv /\ cout \notin LiveFiles(vs, cin.base)
    BY <1>1 DEF TablesInv, TableNumbers
  <2>1. cin.files \subseteq DOMAIN tables \ {cout}
    BY <1>1, <1>5, <2>0 DEF FilesInv, LiveFiles
  <2>2. In(cin.files, tables') = In(cin.files, tables)
    BY <1>3, <2>1, InSame
  <2> QED BY <1>1, <1>2, <1>3, <1>4, <2>0, <2>2 DEF FilesInv
<1>8. EditInv'
  BY <1>1, <1>2 DEF TablesInv, EditInv
<1> QED BY <1>6, <1>7, <1>8 DEF TablesInv

LEMMA ResultsTables ==
  ASSUME Base, TablesInv, InstallCompactionResults
  PROVE  TablesInv'
<1>1. /\ cp = "merged" /\ fl = "no" /\ cp' = "manifest"
      /\ LogEdit(Edit({}, {cout}, cin.files, vs.log))
      /\ UNCHANGED <<tables, man, vs, imm, logfile, fl, fnum, cin, cout, phase, pins, pending,
                     bgErr, replay>>
  BY DEF InstallCompactionResults, core, flags
<1>2. /\ tail \in Edits /\ man \in Version /\ vs \in Version /\ Described \in Version
      /\ vs.next \in Nat /\ vs.log \in Nat /\ cout \in Nat /\ cin.files \subseteq Nat
      /\ Described \in Describable
      /\ \A v \in Describable : v.next \in Nat /\ Live(v) \subseteq Nat
  BY BaseFacts
<1>3. PICK e \in VersionEdit :
         /\ e.add0 = {} /\ e.add1 = {cout} /\ e.del = cin.files /\ e.log = vs.log
         /\ e.next = vs.next
         /\ LogEdit(e)
  BY <1>1, <1>2, EditType
<1>4. /\ Logged' = e /\ tail' # <<>>
      /\ Described' = Apply(Described, e)
      /\ Describable' = Describable \cup {Described'}
  BY <1>1, <1>2, <1>3, LogEditAdds
<1>5. phase = "open"
  BY <1>1, AtWork
<1>6. /\ Described'.next = vs.next
      /\ Live(Described') = (Live(Described) \ cin.files) \cup {cout}
  BY <1>2, <1>3, <1>4, ApplyType
<1>7. LiveFiles(vs, cin.base)' = LiveFiles(vs, cin.base)
  BY <1>1 DEF LiveFiles
<1>8. TableNumbers'
  <2>0. TableNumbers
    BY DEF TablesInv
  <2>1. cout < vs.next
    BY <1>1, <2>0 DEF TableNumbers
  <2>2. Below(Live(Described'), vs.next)
    <3>1. Below(Live(Described), vs.next)
      BY <1>2, <1>5, <2>0, BelowMore DEF TableNumbers
    <3> QED BY <1>6, <2>1, <3>1 DEF Below
  <2>3. \A v \in Describable' : /\ Below(Live(v), v.next)
                                /\ v.next <= Described'.next /\ v.next <= vs.next
    BY <1>4, <1>5, <1>6, <2>0, <2>2, NewestVersion
  <2> QED BY <1>1, <1>7, <2>0, <2>1, <2>3 DEF TableNumbers
<1>9. FilesInv'
  <2>0. FilesInv
    BY DEF TablesInv
  <2>1. Live(Described') \subseteq DOMAIN tables
    BY <1>1, <1>2, <1>6, <2>0 DEF FilesInv
  <2>2. \A v \in Describable' : Live(v) \subseteq DOMAIN tables
    BY <1>4, <2>0, <2>1 DEF FilesInv
  <2>3. /\ LiveFiles(vs, cin.base) \cup replay.add \subseteq DOMAIN tables
        /\ cout \in pending /\ cout \in DOMAIN tables /\ tables[cout] = In(cin.files, tables)
        /\ cin.files \subseteq Live(vs) \cap cin.base
    BY <1>1, <1>5, <2>0 DEF FilesInv
  <2> QED BY <1>1, <1>5, <1>7, <2>2, <2>3 DEF FilesInv
<1>10. EditInv'
  <2>1. ~bgErr => Len(tail') = 1 /\ Described' = Apply(man', Logged')
    BY <1>1, <1>3, <1>5, FirstEdit
  <2>2. cout \in Live(Described')
    BY <1>6
  <2> QED BY <1>1, <1>3, <1>4, <2>1, <2>2 DEF TablesInv, EditInv
<1> QED BY <1>8, <1>9, <1>10 DEF TablesInv

LEMMA CompactionInstallTables ==
  ASSUME Base, Base', TablesInv, CompactionInstall
  PROVE  TablesInv'
<1>1. /\ cp \in {"manifest", "move"} /\ cp' = "no" /\ cin' = NoInputs
      /\ SyncManifest /\ vs' = Installed /\ pending' = pending \ {cout}
      /\ \/ tables' = tables
         \/ DeleteObsoleteFiles(vs', {}, pending', tables)
      /\ cp = "move" => tables' = tables
      /\ UNCHANGED <<fl, fnum, cout, phase, pins, bgErr, replay>>
  BY DEF CompactionInstall
<1>2. phase = "open" /\ fl = "no" /\ replay.add = {}
  BY <1>1, AtWork DEF Base, StagesInv, BackgroundInv
<1>3. /\ tail \in Edits /\ man \in Version /\ vs \in Version
      /\ vs.next \in Nat /\ cout \in Nat
      /\ \A v \in Describable : v.next \in Nat /\ Live(v) \subseteq Nat
      /\ Described \in Describable
  BY BaseFacts
<1>4. tail # <<>> /\ Logged.add0 = {} /\ Logged.add1 = {cout} /\ Logged.log = vs.log
  BY <1>1 DEF TablesInv, EditInv
<1>5. /\ vs'.next = vs.next /\ vs'.log = Logged.log
      /\ vs'.l0 = vs.l0 \ Logged.del /\ vs'.l1 = (vs.l1 \ Logged.del) \cup {cout}
      /\ Live(vs') = (Live(vs) \ Logged.del) \cup {cout}
  BY <1>1, <1>3, <1>4, InstalledType
<1>6. man' = Described /\ tail' = <<>> /\ Described' = Described /\ Describable' = {Described}
  BY <1>1, <1>3, SyncLeavesOne
<1>7. ~bgErr => /\ man'.log = vs'.log /\ man'.l0 = vs'.l0 /\ man'.l1 = vs'.l1
                /\ Live(Described) = Live(vs')
  <2> SUFFICES ASSUME ~bgErr
               PROVE  man'.log = vs'.log /\ man'.l0 = vs'.l0 /\ man'.l1 = vs'.l1
    BY <1>6 DEF Live
  <2>1. man.l0 = vs.l0 /\ man.l1 = vs.l1 /\ Described = Apply(man, Logged)
    BY <1>1, <1>2 DEF TablesInv, EditInv
  <2>2. Logged \in VersionEdit
    BY <1>3, <1>4, TailEntries DEF Logged
  <2> QED BY <1>3, <1>4, <1>5, <1>6, <2>1, <2>2, ApplyType
<1>8. cin'.base = {} /\ cin'.files = {}
  BY <1>1 DEF NoInputs
<1>9. LiveFiles(vs, cin.base)' = LiveFiles(vs', {})
  BY <1>1, <1>8 DEF LiveFiles
<1>10. cout \in DOMAIN tables /\ cout < vs.next
  <2>1. CASE cp = "manifest"
    BY <2>1 DEF TablesInv, FilesInv, TableNumbers
  <2>2. CASE cp = "move"
    BY <1>2, <2>2 DEF TablesInv, FilesInv, TableNumbers, EditInv, LiveFiles, Below
  <2> QED BY <1>1, <2>1, <2>2
<1>11. LiveFiles(vs', {}) \subseteq DOMAIN tables
  BY <1>2, <1>5, <1>10 DEF TablesInv, FilesInv, LiveFiles
<1>12. /\ DOMAIN tables' \subseteq DOMAIN tables
       /\ LiveFiles(vs', {}) \subseteq DOMAIN tables'
       /\ bgErr => tables' = tables
  <2>1. CASE tables' = tables
    BY <1>11, <2>1
  <2>2. CASE DeleteObsoleteFiles(vs', {}, pending', tables)
    <3>0. PICK pend : pend = pending'
      OBVIOUS
    <3>1. /\ DOMAIN tables' \subseteq DOMAIN tables
          /\ bgErr => tables' = tables
          /\ \A n \in DOMAIN tables : n \in LiveFiles(vs', {}) \cup pend => n \in DOMAIN tables'
      <4>1. DeleteObsoleteFiles(vs', {}, pend, tables)
        BY <2>2, <3>0
      <4> QED BY <4>1, DeletedTables
    <3> QED BY <1>11, <3>1
  <2> QED BY <1>1, <2>1, <2>2
<1>13. TableNumbers'
  <2>0. TableNumbers
    BY DEF TablesInv
  <2>1. Below(Live(Described), Described.next) /\ Described.next <= vs.next
    BY <1>2, <1>3, <2>0 DEF TableNumbers
  <2>2. Below(Live(vs'), vs.next)
    BY <1>2, <1>5, <1>10, <2>0 DEF TableNumbers, Below
  <2>3. Below(cin'.base, vs.next)
    BY <1>8 DEF Below
  <2> QED BY <1>1, <1>2, <1>3, <1>5, <1>6, <2>0, <2>1, <2>2, <2>3 DEF TableNumbers
<1>14. FilesInv'
  <2>1. Live(Described) \subseteq DOMAIN tables'
    <3>1. CASE bgErr
      BY <1>3, <1>12, <3>1 DEF TablesInv, FilesInv
    <3>2. CASE ~bgErr
      BY <1>7, <1>12, <3>2 DEF LiveFiles
    <3> QED BY <3>1, <3>2
  <2> QED BY <1>1, <1>2, <1>6, <1>9, <1>12, <2>1 DEF FilesInv
<1>15. EditInv'
  BY <1>1, <1>2, <1>6, <1>7 DEF EditInv
<1> QED BY <1>13, <1>14, <1>15 DEF TablesInv

LEMMA CompactionFailsTables ==
  ASSUME Base, TablesInv, CompactionFails
  PROVE  TablesInv'
<1>1. /\ cp' = "no" /\ cin' = NoInputs /\ bgErr'
      /\ cp # "no"
      /\ UNCHANGED <<tables, man, tail, vs, fl, fnum, cout, phase, pins, replay>>
  BY DEF CompactionFails, InLoop, disk, core
<1>2. /\ Described' = Described /\ Describable' = Describable
  BY <1>1, ManifestFrame
<1>3. fl = "no" /\ phase = "open"
  <2>1. phase = "open"
    BY <1>1, AtWork
  <2>2. fl = "no"
    BY DEF CompactionFails, InLoop, Base, StagesInv, BackgroundInv
  <2> QED BY <2>1, <2>2
<1>4. cin'.base = {}
  BY <1>1 DEF NoInputs
<1>5. LiveFiles(vs, cin.base)' \subseteq LiveFiles(vs, cin.base)
  BY <1>1, <1>4 DEF LiveFiles
<1>6. TableNumbers'
  BY <1>1, <1>2, <1>3, <1>4 DEF TablesInv, TableNumbers, Below
<1>7. FilesInv'
  BY <1>1, <1>2, <1>3, <1>5 DEF TablesInv, FilesInv
<1>8. EditInv'
  BY <1>1, <1>3 DEF EditInv
<1> QED BY <1>6, <1>7, <1>8 DEF TablesInv

LEMMA BackgroundTables ==
  ASSUME Base, Base', TablesInv, BackgroundStep
  PROVE  TablesInv'
BY QuietTables, FlushStartTables, FlushBuiltTables, FlushInstallTables, FlushFailsTables,
   CompactionStartTables, TrivialMoveTables, OutputOpenTables, OutputFinishTables,
   ResultsTables, CompactionInstallTables, CompactionFailsTables
   DEF BackgroundStep

(* DB::Open.                                                                *)
LEMMA RecoverTables ==
  ASSUME Base, TablesInv, Recover
  PROVE  TablesInv'
<1>1. /\ phase = "down" /\ phase' = "replay" /\ Live(Described) \subseteq DOMAIN tables
      /\ vs' = [Described EXCEPT !.next = MaxNat({Described.next + 1, Described.log + 1})]
      /\ replay' = [NoReplay EXCEPT !.todo = LogsToRead(Described, logs)]
      /\ UNCHANGED <<tables, man, tail, imm, logfile, fl, fnum, cp, cin, cout, pins, pending, bgErr>>
  BY DEF Recover, disk, bg
<1>2. /\ Described' = Described /\ Describable' = Describable
  BY <1>1, ManifestFrame
<1>3. /\ Described \in Version /\ Described.next \in Nat /\ Described.log \in Nat
      /\ Described \in Describable
      /\ \A v \in Describable : v.next \in Nat /\ Live(v) \subseteq Nat
  BY BaseFacts
<1>4. cp = "no" /\ fl = "no" /\ cin.base = {} /\ pins = {}
  BY <1>1 DEF Base, StagesInv, BackgroundInv, Quiet, NoInputs
<1>5. replay'.add = {}
  BY <1>1 DEF NoReplay
<1>6. /\ vs'.next \in Nat /\ vs'.next >= Described.next
      /\ vs'.l0 = Described.l0 /\ vs'.l1 = Described.l1 /\ Live(vs') = Live(Described)
  <2>1. PICK x : x = MaxNat({Described.next + 1, Described.log + 1})
    OBVIOUS
  <2>2. x \in Nat /\ x >= Described.next + 1
    BY <1>3, <2>1, MaxNatPair
  <2>3. vs' = [Described EXCEPT !.next = x]
    BY <1>1, <2>1
  <2> QED BY <1>3, <2>2, <2>3 DEF Version, Live
<1>7. LiveFiles(vs, cin.base)' = Live(Described)
  BY <1>1, <1>4, <1>6 DEF LiveFiles
<1>8. TableNumbers'
  <2>1. \A v \in Describable : Below(Live(v), v.next) /\ v.next <= Described.next
    BY DEF TablesInv, TableNumbers
  <2>2. \A v \in Describable : v.next <= vs'.next
    BY <1>3, <1>6, <2>1
  <2>3. Below(Live(vs'), vs'.next)
    BY <1>3, <1>6, <2>1, BelowMore
  <2>4. Below(UNION pins', vs'.next) /\ Below(cin'.base, vs'.next) /\ Below(replay'.add, vs'.next)
    BY <1>1, <1>4, <1>5 DEF Below
  <2> QED BY <1>1, <1>2, <1>4, <2>1, <2>2, <2>3, <2>4 DEF TableNumbers
<1>9. FilesInv'
  BY <1>1, <1>2, <1>4, <1>5, <1>6, <1>7 DEF TablesInv, FilesInv
<1>10. EditInv'
  BY <1>1, <1>4 DEF EditInv
<1> QED BY <1>8, <1>9, <1>10 DEF TablesInv

LEMMA ReplayingQuiet ==
  ASSUME Base, phase = "replay"
  PROVE  cp = "no" /\ fl = "no" /\ pins = {} /\ cin.base = {} /\ ~bgErr /\ ~hasImm /\ imm = {}
BY DEF Base, StagesInv, BackgroundInv, Quiet, NoInputs

LEMMA MarkNumber ==
  ASSUME NEW a \in Nat, NEW n \in Nat
  PROVE  /\ MarkFileNumberUsed(a, n) \in Nat
         /\ MarkFileNumberUsed(a, n) >= a /\ MarkFileNumberUsed(a, n) > n
<1>1. n + 1 \in Nat
  OBVIOUS
<1>2. /\ MaxNat({a, n + 1}) \in {a, n + 1} /\ MaxNat({a, n + 1}) >= a
      /\ MaxNat({a, n + 1}) >= n + 1
  BY <1>1, MaxNatPair
<1>3. PICK x : x = MaxNat({a, n + 1})
  OBVIOUS
<1>4. x \in {a, n + 1} /\ x >= a /\ x >= n + 1
  BY <1>2, <1>3
<1> QED BY <1>3, <1>4 DEF MarkFileNumberUsed

LEMMA ReplayTables ==
  ASSUME Base, Base', TablesInv, RecoverLogFile, Replayed # {}
  PROVE  TablesInv'
<1>1. /\ phase = "replay" /\ NextLog \in Nat
      /\ vs' = [vs EXCEPT !.next = MarkFileNumberUsed(vs.next + 1, NextLog)]
      /\ tables' = Put(tables, vs.next, Replayed)
      /\ replay'.add = replay.add \cup {vs.next}
      /\ UNCHANGED <<man, tail, imm, logfile, fl, fnum, cp, cin, cout, phase, pins, pending, bgErr>>
  <2>1. phase = "replay" /\ replay.todo # {} /\ replay.todo \subseteq Nat
    BY DEF RecoverLogFile, ReplayNext, Base, TInv, StageOK
  <2>2. NextLog \in Nat
    <3>1. PICK n \in replay.todo : \A m \in replay.todo : n <= m
      BY <2>1, LeastNat
    <3>2. NextLog \in replay.todo
      BY <3>1 DEF NextLog
    <3> QED BY <2>1, <3>2
  <2>3. replay'.add = replay.add \cup {vs.next}
    BY DEF RecoverLogFile
  <2> QED BY <2>1, <2>2, <2>3 DEF RecoverLogFile, bg
<1>2. /\ Described' = Described /\ Describable' = Describable
  BY <1>1, ManifestFrame
<1>3. /\ vs.next \in Nat /\ vs \in Version /\ Live(vs) \subseteq Nat
      /\ \A v \in Describable : v.next \in Nat /\ Live(v) \subseteq Nat
      /\ replay.add \subseteq Nat
  BY BaseFacts
<1>4. cp = "no" /\ fl = "no" /\ cin.base = {} /\ pins = {}
  BY <1>1, ReplayingQuiet
<1>5. /\ vs'.next \in Nat /\ vs'.next > vs.next
      /\ vs'.l0 = vs.l0 /\ vs'.l1 = vs.l1 /\ Live(vs') = Live(vs)
  <2>1. PICK x : x = MarkFileNumberUsed(vs.next + 1, NextLog)
    OBVIOUS
  <2>2. x \in Nat /\ x >= vs.next + 1
    <3>1. vs.next + 1 \in Nat
      BY <1>3
    <3> QED BY <1>1, <2>1, <3>1, MarkNumber
  <2>3. vs' = [vs EXCEPT !.next = x]
    BY <1>1, <2>1
  <2> QED BY <1>3, <2>2, <2>3 DEF Version, Live
<1>6. /\ DOMAIN tables' = DOMAIN tables \cup {vs.next}
  BY <1>1 DEF Put
<1>7. LiveFiles(vs, cin.base)' = Live(vs) /\ LiveFiles(vs, cin.base) = Live(vs)
  BY <1>1, <1>4, <1>5 DEF LiveFiles
<1>8. TableNumbers'
  <2>0. TableNumbers
    BY DEF TablesInv
  <2>1. /\ \A v \in Describable : v.next <= vs'.next
        /\ Below(Live(vs), vs'.next) /\ Below(replay.add, vs'.next)
    <3>1. \A v \in Describable : v.next <= vs'.next
      BY <1>1, <1>3, <1>5, <2>0 DEF TableNumbers
    <3>2. Below(Live(vs), vs'.next)
      BY <1>1, <1>3, <1>5, <2>0 DEF TableNumbers, Below
    <3>3. Below(replay.add, vs'.next)
      BY <1>1, <1>3, <1>5, <2>0 DEF TableNumbers, Below
    <3> QED BY <3>1, <3>2, <3>3
  <2>2. Below(replay'.add, vs'.next)
    BY <1>1, <1>3, <1>5, <2>1 DEF Below
  <2>3. Below(UNION pins', vs'.next) /\ Below(cin'.base, vs'.next)
    BY <1>1, <1>4 DEF Below
  <2> QED BY <1>1, <1>2, <1>4, <1>5, <2>0, <2>1, <2>2, <2>3 DEF TableNumbers
<1>9. FilesInv'
  <2>0. FilesInv
    BY DEF TablesInv
  <2>1. LiveFiles(vs, cin.base)' \cup replay'.add \subseteq DOMAIN tables'
    BY <1>1, <1>6, <1>7, <2>0 DEF FilesInv
  <2>2. \A v \in Describable : Live(v) \subseteq DOMAIN tables'
    BY <1>6, <2>0 DEF FilesInv
  <2> QED BY <1>1, <1>2, <1>4, <1>5, <2>0, <2>1, <2>2 DEF FilesInv
<1>10. EditInv'
  BY <1>1, <1>4 DEF EditInv
<1> QED BY <1>8, <1>9, <1>10 DEF TablesInv

LEMMA ReplayNothingTables ==
  ASSUME Base, Base', TablesInv,
         RecoverLogFileFails \/ OpenLog \/ (RecoverLogFile /\ Replayed = {})
  PROVE  TablesInv'
<1>1. /\ phase = "replay"
      /\ UNCHANGED <<tables, man, tail, imm, fl, fnum, cp, cin, cout, phase, pins, pending, bgErr>>
      /\ replay'.add = replay.add
  <2>1. CASE RecoverLogFileFails
    <3>1. phase = "replay" /\ replay'.add = replay.add
      BY <2>1 DEF RecoverLogFileFails, ReplayNext, Base, TInv, StageOK
    <3> QED BY <2>1, <3>1 DEF RecoverLogFileFails, disk, bg
  <2>2. CASE OpenLog
    BY <2>2 DEF OpenLog, bg
  <2>3. CASE RecoverLogFile /\ Replayed = {}
    <3>1. phase = "replay" /\ replay'.add = replay.add
      BY <2>3 DEF RecoverLogFile, ReplayNext, Base, TInv, StageOK
    <3> QED BY <2>3, <3>1 DEF RecoverLogFile, bg
  <2> QED BY <2>1, <2>2, <2>3
<1>2. vs \in Version /\ vs' \in Version /\ vs.next \in Nat /\ vs.last \in Nat
  BY DEF Base, TInv, CoreOK, Version
<1>3. \/ \E n \in Nat : vs' = [vs EXCEPT !.next = MarkFileNumberUsed(vs.next, n)]
      \/ \E n \in Nat : vs' = [vs EXCEPT !.next = MarkFileNumberUsed(vs.next + 1, n)]
      \/ \E n : vs' = [vs EXCEPT !.next = vs.next + 1, !.last = n]
  <2>1. RecoverLogFileFails \/ RecoverLogFile => NextLog \in Nat
    <3> SUFFICES ASSUME RecoverLogFileFails \/ RecoverLogFile PROVE NextLog \in Nat
      OBVIOUS
    <3>1. replay.todo # {} /\ replay.todo \subseteq Nat
      BY DEF RecoverLogFile, RecoverLogFileFails, ReplayNext, Base, TInv, StageOK
    <3>2. PICK n \in replay.todo : \A m \in replay.todo : n <= m
      BY <3>1, LeastNat
    <3>3. NextLog \in replay.todo
      BY <3>2 DEF NextLog
    <3> QED BY <3>1, <3>3
  <2> QED BY <2>1 DEF RecoverLogFile, RecoverLogFileFails, OpenLog
<1>4. /\ vs'.next \in Nat /\ vs'.next >= vs.next /\ vs'.log = vs.log
      /\ vs'.l0 = vs.l0 /\ vs'.l1 = vs.l1 /\ Live(vs') = Live(vs)
  <2>1. PICK x \in Nat : /\ x >= vs.next
                         /\ \/ vs' = [vs EXCEPT !.next = x]
                            \/ \E n : vs' = [vs EXCEPT !.next = x, !.last = n]
    <3>1. vs.next + 1 \in Nat /\ vs.next + 1 >= vs.next
      BY <1>2
    <3>2. ASSUME NEW n \in Nat, vs' = [vs EXCEPT !.next = MarkFileNumberUsed(vs.next, n)]
          PROVE  \E x \in Nat : x >= vs.next /\ vs' = [vs EXCEPT !.next = x]
      BY <1>2, <3>2, MarkNumber
    <3>3. ASSUME NEW n \in Nat, vs' = [vs EXCEPT !.next = MarkFileNumberUsed(vs.next + 1, n)]
          PROVE  \E x \in Nat : x >= vs.next /\ vs' = [vs EXCEPT !.next = x]
      <4>1. PICK x : x = MarkFileNumberUsed(vs.next + 1, n)
        OBVIOUS
      <4>2. x \in Nat /\ x >= vs.next + 1
        BY <3>1, <4>1, MarkNumber
      <4>3. x >= vs.next
        BY <1>2, <4>2
      <4> QED BY <3>3, <4>1, <4>2, <4>3
    <3>4. ASSUME NEW n, vs' = [vs EXCEPT !.next = vs.next + 1, !.last = n]
          PROVE  \E x \in Nat : /\ x >= vs.next
                                 /\ \E m : vs' = [vs EXCEPT !.next = x, !.last = m]
      BY <3>1, <3>4
    <3> QED BY <1>3, <3>2, <3>3, <3>4
  <2> QED BY <1>2, <2>1 DEF Version, Live
<1>5. fl = "no"
  BY <1>1, ReplayingQuiet
<1> QED BY <1>1, <1>2, <1>4, <1>5, TablesFrame

LEMMA OpenInstallTables ==
  ASSUME Base, Base', TablesInv, OpenInstall
  PROVE  TablesInv'
<1>1. /\ phase = "replay" /\ phase' = "open" /\ replay' = NoReplay
      /\ vs' = [vs EXCEPT !.log = logfile, !.l0 = vs.l0 \cup replay.add]
      /\ man' = vs' /\ tail' = <<>>
      /\ DeleteObsoleteFiles(vs', {}, {}, tables)
      /\ UNCHANGED <<fl, fnum, cp, cin, cout, pins, pending, bgErr>>
  BY DEF OpenInstall
<1>2. cp = "no" /\ fl = "no" /\ cin.base = {} /\ pins = {} /\ ~bgErr
  BY <1>1, ReplayingQuiet
<1>3. Described' = vs' /\ Describable' = {vs'}
  <2>1. DOMAIN tail' = {}
    BY <1>1, EmptyLogs
  <2> QED BY <1>1, <2>1 DEF Described, Describable
<1>4. vs \in Version /\ vs.next \in Nat /\ replay.add \subseteq Nat
  BY BaseFacts
<1>5. vs'.next = vs.next /\ Live(vs') = Live(vs) \cup replay.add
  BY <1>1, <1>4 DEF Version, Live
<1>6. replay'.add = {}
  BY <1>1 DEF NoReplay
<1>7. LiveFiles(vs, cin.base)' = Live(vs') /\ LiveFiles(vs', {}) = Live(vs')
  BY <1>1, <1>2 DEF LiveFiles
<1>8. Live(vs') \subseteq DOMAIN tables'
  <2>1. Live(vs') \subseteq DOMAIN tables
    BY <1>1, <1>5 DEF TablesInv, FilesInv, LiveFiles
  <2>2. \A n \in DOMAIN tables : n \in LiveFiles(vs', {}) \cup {} => n \in DOMAIN tables'
    BY <1>1, DeletedTables
  <2> QED BY <1>7, <2>1, <2>2
<1>9. TableNumbers'
  <2>1. Below(Live(vs'), vs'.next)
    BY <1>1, <1>5 DEF TablesInv, TableNumbers, Below
  <2>2. vs'.next <= vs'.next
    BY <1>4, <1>5
  <2>3. Below(UNION pins', vs'.next) /\ Below(cin'.base, vs'.next) /\ Below(replay'.add, vs'.next)
    BY <1>1, <1>2, <1>6 DEF Below
  <2> QED BY <1>1, <1>2, <1>3, <2>1, <2>2, <2>3 DEF TableNumbers
<1>10. FilesInv'
  BY <1>1, <1>2, <1>3, <1>6, <1>7, <1>8 DEF FilesInv
<1>11. EditInv'
  BY <1>1, <1>2 DEF EditInv
<1> QED BY <1>9, <1>10, <1>11 DEF TablesInv

LEMMA OpenTables ==
  ASSUME Base, Base', TablesInv, OpenStep
  PROVE  TablesInv'
<1>1. CASE OpenFails
  BY <1>1, GoneTables DEF OpenFails, disk
<1> QED BY <1>1, RecoverTables, ReplayTables, ReplayNothingTables, OpenInstallTables DEF OpenStep

LEMMA EndTables ==
  ASSUME Base, TablesInv, Closed \/ ProcessCrash \/ MachineCrash
  PROVE  TablesInv'
<1>1. CASE Closed \/ ProcessCrash
  BY <1>1, GoneTables DEF Closed, ProcessCrash, disk
<1>2. CASE MachineCrash
  <2>1. Gone /\ tables' = tables /\ tail' = <<>> /\ man' \in Describable
    BY <1>2 DEF MachineCrash
  <2> QED BY <2>1, GoneTables
<1> QED BY <1>1, <1>2

LEMMA InitTables == Init => TablesInv
<1> SUFFICES ASSUME Init PROVE TablesInv
  OBVIOUS
<1>1. /\ tables = <<>> /\ man = NoVersions /\ tail = <<>> /\ phase = "down" /\ vs = NoVersions
      /\ fl = "no" /\ cp = "no" /\ cin = NoInputs /\ replay = NoReplay /\ pins = {}
  BY DEF Init
<1>2. Described = NoVersions /\ Describable = {NoVersions}
  <2>1. DOMAIN tail = {}
    BY <1>1, EmptyLogs
  <2> QED BY <1>1, <2>1 DEF Described, Describable
<1>3. Live(NoVersions) = {} /\ NoVersions.next = 2
  BY DEF Live, NoVersions
<1>4. cin.base = {} /\ replay.add = {}
  BY <1>1 DEF NoInputs, NoReplay
<1>5. TableNumbers
  BY <1>1, <1>2, <1>3, <1>4 DEF TableNumbers, Below
<1>6. FilesInv
  BY <1>1, <1>2, <1>3 DEF FilesInv
<1>7. EditInv
  BY <1>1 DEF EditInv
<1> QED BY <1>5, <1>6, <1>7 DEF TablesInv

LEMMA TablesStep ==
  ASSUME Base, Base', TablesInv, [Next]_vars
  PROVE  TablesInv'
<1>1. CASE Working
  BY <1>1, WriterTables, QuietTables, BackgroundTables DEF Working
<1>2. CASE OpenStep
  BY <1>2, OpenTables
<1>3. CASE Closed \/ ProcessCrash \/ MachineCrash
  BY <1>3, EndTables
<1>4. CASE UNCHANGED vars
  BY <1>4, QuietTables
<1> QED BY <1>1, <1>2, <1>3, <1>4, NextSteps

LEMMA TablesHold == Spec => [](Base /\ TablesInv)
<1>1. Init => TablesInv
  BY InitTables
<1>2. Base /\ Base' /\ TablesInv /\ [Next]_vars => TablesInv'
  BY TablesStep
<1> QED BY <1>1, <1>2, BaseHolds, PTL DEF Spec

(* NothingNeededIsMissing is the duty of RemoveObsoleteFiles: whatever has  *)
(* been flushed, compacted, left behind by an error or recovered, the files *)
(* of the current version, of the versions that readers and a compaction    *)
(* hold, and of every version a crash may bring back, are there.            *)
THEOREM NothingMissingHolds == Spec => []NothingNeededIsMissing
<1>1. Base /\ TablesInv => NothingNeededIsMissing
  BY DEF TablesInv, FilesInv, NothingNeededIsMissing
<1> QED BY <1>1, TablesHold, PTL

-----------------------------------------------------------------------------
(***************************************************************************)
(* The numbers of the logs.                                                *)
(***************************************************************************)
LEMMA LogsFrame ==
  ASSUME Base, Base', LogNumbers, UNCHANGED <<phase, logfile, man, tail, ghosts>>,
         replay'.todo = replay.todo, vs'.log = vs.log, vs'.next >= vs.next,
         DOMAIN logs' = DOMAIN logs, phase = "replay" => logs' = logs
  PROVE  LogNumbers'
<1>1. Described' = Described /\ Describable' = Describable
  BY ManifestFrame
<1>2. vs.next \in Nat /\ vs'.next \in Nat /\ logfile \in Nat /\ DOMAIN logs \subseteq Nat
      /\ vs.log \in Nat
  BY BaseFacts DEF Base, TInv, CoreOK, Version, DiskOK, LogsOK
<1>3. LogsToRead(Described, logs)' = LogsToRead(Described, logs)
  BY <1>1 DEF LogsToRead
<1>4. phase' = "open" \/ logfile' # 0 =>
        /\ logfile' \in DOMAIN logs' /\ logfile' < vs'.next
        /\ \A n \in DOMAIN logs' : n <= logfile'
  BY <1>2 DEF LogNumbers
<1>5. phase' = "replay" /\ logfile' = 0 =>
        \A n \in DOMAIN logs' : n < vs'.next \/ n \in replay'.todo
  BY <1>2 DEF LogNumbers
<1>6. phase' = "replay" /\ logfile' # 0 => replay'.todo = {} /\ logs'[logfile'].recs = <<>>
  BY DEF LogNumbers
<1>7. phase' = "replay" => vs'.log < vs'.next
  BY <1>2 DEF LogNumbers
<1> QED BY <1>1, <1>3, <1>4, <1>5, <1>6, <1>7 DEF LogNumbers

(* An edit is logged: its log number lies between the current version's and *)
(* the current log's.                                                       *)
LEMMA LogsLogged ==
  ASSUME Base, LogNumbers, phase = "open", NEW e \in VersionEdit, LogEdit(e),
         e.log \in {vs.log, logfile},
         UNCHANGED <<phase, logfile, man, ghosts, logs, vs, replay>>
  PROVE  LogNumbers'
<1>1. /\ tail \in Edits /\ man \in Version /\ vs.log \in Nat /\ logfile \in Nat
      /\ Described \in Version /\ Described \in Describable
  BY BaseFacts
<1>2. /\ tail' # <<>> /\ Logged' = e /\ Described' = Apply(Described, e)
      /\ Describable' = Describable \cup {Described'}
  BY <1>1, LogEditAdds
<1>3. Described'.log = e.log
  BY <1>1, <1>2, ApplyType
<1>4. vs.log <= logfile
  BY <1>1 DEF LogNumbers, Version
<1>5. \A v \in Describable' : vs.log <= v.log /\ v.log <= logfile
  BY <1>1, <1>2, <1>3, <1>4 DEF LogNumbers
<1>6. \A v \in Describable' : \A n \in DOMAIN ghosts : n < v.log
  <2>1. \A n \in DOMAIN ghosts : n < vs.log
    BY DEF LogNumbers
  <2>2. \A n \in DOMAIN ghosts : n \in Nat
    BY DEF Base, TInv, DiskOK, LogsOK
  <2>3. \A n \in DOMAIN ghosts : n < e.log
    BY <1>1, <1>4, <2>1, <2>2
  <2> QED BY <1>2, <1>3, <2>3 DEF LogNumbers
<1>7. Last(tail').edit.log = e.log
  BY <1>2 DEF Logged
<1> QED BY <1>2, <1>3, <1>5, <1>6, <1>7 DEF LogNumbers

(* A new version is installed, and the logs it no longer needs are deleted. *)
LEMMA LogsInstalled ==
  ASSUME Base, Base', LogNumbers, phase = "open", tail # <<>>, SyncManifest, vs' = Installed,
         \/ UNCHANGED <<logs, ghosts>>
         \/ \E base, pend : DeleteObsoleteFiles(vs', base, pend, tables),
         UNCHANGED <<phase, logfile, replay>>
  PROVE  LogNumbers'
<1>1. /\ tail \in Edits /\ man \in Version /\ vs \in Version
      /\ vs.log \in Nat /\ vs.next \in Nat /\ logfile \in Nat
      /\ Described \in Describable /\ Described.log \in Nat
  BY BaseFacts
<1>2. man' = Described /\ tail' = <<>> /\ Described' = Described /\ Describable' = {Described}
  BY <1>1, SyncLeavesOne
<1>3. vs'.log = Described.log /\ vs'.next = vs.next
  BY <1>1, InstalledType DEF LogNumbers, Logged
<1>4. vs.log <= vs'.log /\ vs'.log <= logfile
  BY <1>1, <1>3 DEF LogNumbers
<1>5. /\ logfile \in DOMAIN logs /\ logfile < vs.next
      /\ \A n \in DOMAIN logs : n <= logfile
  BY DEF LogNumbers
<1>6. DOMAIN ghosts \subseteq Nat /\ DOMAIN logs \subseteq Nat
  BY DEF Base, TInv, DiskOK, LogsOK
<1>7. /\ DOMAIN logs' \subseteq DOMAIN logs /\ logfile \in DOMAIN logs'
      /\ \A n \in DOMAIN ghosts' : n < vs'.log
  <2>1. CASE UNCHANGED <<logs, ghosts>>
    BY <1>1, <1>3, <1>4, <1>5, <1>6, <2>1 DEF LogNumbers
  <2>2. CASE \E base, pend : DeleteObsoleteFiles(vs', base, pend, tables)
    <3>1. CASE bgErr
      BY <2>1, <2>2, <3>1 DEF DeleteObsoleteFiles
    <3>2. CASE ~bgErr
      <4>1. /\ logs' = [n \in {m \in DOMAIN logs : m >= vs'.log} |-> logs[n]]
            /\ ghosts' = [n \in {m \in DOMAIN logs : ~(m >= vs'.log)} |-> logs[n]]
        BY <2>2, <3>2 DEF DeleteObsoleteFiles, KeepsLog
      <4>2. vs'.log \in Nat
        BY <1>1, <1>3
      <4> QED BY <1>1, <1>4, <1>5, <1>6, <4>1, <4>2
    <3> QED BY <3>1, <3>2
  <2> QED BY <2>1, <2>2
<1> QED BY <1>1, <1>2, <1>3, <1>4, <1>5, <1>7 DEF LogNumbers

LEMMA LogsGone ==
  ASSUME Base, LogNumbers, Gone,
         \/ UNCHANGED <<man, tail, ghosts>>
         \/ tail' = <<>> /\ ghosts' = <<>>
  PROVE  LogNumbers'
<1>1. phase' = "down" /\ logfile' = 0
  BY DEF Gone
<1>2. CASE UNCHANGED <<man, tail, ghosts>>
  BY <1>1, <1>2, ManifestFrame DEF LogNumbers
<1>3. CASE tail' = <<>> /\ ghosts' = <<>>
  <2>1. DOMAIN ghosts' = {}
    BY <1>3, EmptyLogs
  <2> QED BY <1>1, <1>3, <2>1 DEF LogNumbers
<1> QED BY <1>2, <1>3

LEMMA LogsWorking ==
  ASSUME Base, Base', TablesInv, LogNumbers, Working
  PROVE  LogNumbers'
<1>0. phase = "open" /\ phase' = "open" /\ replay' = replay
  BY WorkingStaysOpen DEF Base, StagesInv
<1>1. /\ vs \in Version /\ vs.next \in Nat /\ vs.log \in Nat /\ vs.last \in Nat
      /\ logfile \in Nat /\ DOMAIN logs \subseteq Nat
      /\ cout \in Nat /\ cin.files \subseteq Nat /\ fnum \in Nat
      /\ vs.l0 \subseteq Nat
  BY BaseFacts DEF Base, TInv, DiskOK, LogsOK
<1>2. ASSUME NEW c \in Calls, RoomSwitch(c) PROVE LogNumbers'
  <2>1. /\ logs' = Put(logs, vs.next, [recs |-> <<>>, synced |-> 0])
        /\ logfile' = vs.next /\ vs' = [vs EXCEPT !.next = vs.next + 1]
        /\ UNCHANGED <<ghosts, man, tail>>
    BY <1>2 DEF RoomSwitch
  <2>2. Described' = Described /\ Describable' = Describable /\ Last(tail') = Last(tail)
    BY <2>1, ManifestFrame
  <2>3. /\ vs'.next = vs.next + 1 /\ vs'.log = vs.log
        /\ DOMAIN logs' = DOMAIN logs \cup {vs.next}
    BY <1>1, <2>1 DEF Version, Put
  <2>4. /\ logfile \in DOMAIN logs /\ logfile < vs.next
        /\ \A n \in DOMAIN logs : n <= logfile
    BY <1>0 DEF LogNumbers
  <2>5. /\ logfile' \in DOMAIN logs' /\ logfile' < vs'.next
        /\ \A n \in DOMAIN logs' : n <= logfile'
    BY <1>1, <2>1, <2>3, <2>4
  <2>6. \A v \in Describable : v.log \in Nat
    BY BaseFacts
  <2>7. \A v \in Describable : vs.log <= v.log /\ v.log <= logfile'
    BY <1>0, <1>1, <2>1, <2>4, <2>6 DEF LogNumbers
  <2> QED BY <1>0, <2>1, <2>2, <2>3, <2>5, <2>7 DEF LogNumbers
<1>3. ASSUME NEW c \in Calls, Enqueue(c) \/ WriterStep(c), ~RoomSwitch(c) PROVE LogNumbers'
  <2>1. /\ UNCHANGED <<ghosts, man, tail, logfile>>
        /\ vs' = vs \/ \E n : vs' = [vs EXCEPT !.last = n]
        /\ DOMAIN logs' = DOMAIN logs
    BY <1>3 DEF Enqueue, WriterStep, RoomError, RoomDelay, RoomFound, RoomStall,
       RoomSwitchFails, AddRecord, AddRecordFails, SyncLog, SyncLogFails, InsertInto,
       FinishWrite, ForceWaits, ForceReturns, Append1, disk, core
  <2>2. vs'.log = vs.log /\ vs'.next = vs.next
    BY <1>1, <2>1 DEF Version
  <2> QED BY <1>0, <1>1, <2>1, <2>2, LogsFrame
<1>4. CASE Pin \/ Unpin \/ Close \/ BackgroundNothing \/ CompactionStart \/ FlushFails
           \/ CompactionFails \/ FinishCompactionOutputFile
  <2>1. UNCHANGED <<logs, ghosts, man, tail, logfile, vs>>
    BY <1>4 DEF Pin, Unpin, Close, BackgroundNothing, CompactionStart, FlushFails,
       CompactionFails, FinishCompactionOutputFile, disk, core
  <2> QED BY <1>0, <1>1, <2>1, LogsFrame
<1>5. CASE FlushStart \/ OpenCompactionOutputFile
  <2>1. /\ UNCHANGED <<logs, ghosts, man, tail, logfile>>
        /\ vs' = [vs EXCEPT !.next = vs.next + 1]
    BY <1>5 DEF FlushStart, OpenCompactionOutputFile, disk
  <2>2. vs'.log = vs.log /\ vs'.next = vs.next + 1
    BY <1>1, <2>1 DEF Version
  <2>3. vs'.next >= vs.next
    BY <1>1, <2>2
  <2> QED BY <1>0, <1>1, <2>1, <2>2, <2>3, LogsFrame
<1>6. CASE FlushBuilt \/ TrivialMove \/ InstallCompactionResults
  <2>1. UNCHANGED <<logs, ghosts, man, logfile, vs>>
    BY <1>6 DEF FlushBuilt, TrivialMove, InstallCompactionResults, core
  <2>2. PICK a \in SUBSET Nat, b \in SUBSET Nat, d \in SUBSET Nat, l \in {vs.log, logfile} :
            LogEdit(Edit(a, b, d, l))
    <3>1. CASE FlushBuilt
      <4>1. PICK lvl \in {0, 1} :
               LogEdit(Edit(IF lvl = 0 /\ imm # {} THEN {fnum} ELSE {},
                            IF lvl = 1 /\ imm # {} THEN {fnum} ELSE {}, {}, logfile))
        BY <3>1 DEF FlushBuilt, FlushLogNumber
      <4>2. /\ (IF lvl = 0 /\ imm # {} THEN {fnum} ELSE {}) \in SUBSET Nat
            /\ (IF lvl = 1 /\ imm # {} THEN {fnum} ELSE {}) \in SUBSET Nat
        BY <1>1
      <4> QED BY <4>1, <4>2
    <3>2. CASE TrivialMove
      <4>1. PICK f \in vs.l0 : LogEdit(Edit({}, {f}, {f}, vs.log))
        BY <3>2 DEF TrivialMove
      <4> QED BY <1>1, <4>1
    <3>3. CASE InstallCompactionResults
      BY <1>1, <3>3 DEF InstallCompactionResults
    <3> QED BY <1>6, <3>1, <3>2, <3>3
  <2>3. PICK e \in VersionEdit : e.log = l /\ LogEdit(e)
    BY <1>1, <2>2, EditType
  <2> QED BY <1>0, <2>1, <2>3, LogsLogged
<1>7. CASE FlushInstall \/ CompactionInstall
  <2>1. /\ SyncManifest /\ vs' = Installed /\ tail # <<>> /\ logfile' = logfile
        /\ \/ UNCHANGED <<logs, ghosts>>
           \/ \E base, pend : DeleteObsoleteFiles(vs', base, pend, tables)
    BY <1>7 DEF FlushInstall, CompactionInstall, TablesInv, EditInv
  <2> QED BY <1>0, <2>1, LogsInstalled
<1> QED BY <1>2, <1>3, <1>4, <1>5, <1>6, <1>7 DEF Working, BackgroundStep

LEMMA LogsOpening ==
  ASSUME Base, Base', TablesInv, LogNumbers, OpenStep
  PROVE  LogNumbers'
<1>1. /\ vs \in Version /\ vs.next \in Nat /\ vs.log \in Nat /\ vs.last \in Nat
      /\ logfile \in Nat /\ DOMAIN logs \subseteq Nat /\ replay.todo \subseteq Nat
      /\ Described \in Describable /\ Described \in Version
      /\ Described.log \in Nat /\ Described.next \in Nat
  BY BaseFacts DEF Base, TInv, DiskOK, LogsOK, StageOK
<1>2. CASE OpenFails
  BY <1>2, LogsGone DEF OpenFails, disk
<1>3. CASE Recover
  <2>1. /\ phase = "down" /\ phase' = "replay"
        /\ vs' = [Described EXCEPT !.next = MaxNat({Described.next + 1, Described.log + 1})]
        /\ replay' = [NoReplay EXCEPT !.todo = LogsToRead(Described, logs)]
        /\ UNCHANGED <<logs, ghosts, man, tail, logfile>>
    BY <1>3 DEF Recover, disk
  <2>2. Described' = Described /\ Describable' = Describable /\ Logged' = Logged
    BY <2>1, ManifestFrame
  <2>3. replay'.todo = LogsToRead(Described, logs)
    BY <2>1 DEF NoReplay
  <2>4. vs'.log = Described.log /\ vs'.next \in Nat /\ vs'.next > Described.log
    <3>1. PICK x : x = MaxNat({Described.next + 1, Described.log + 1})
      OBVIOUS
    <3>2. x \in Nat /\ x >= Described.log + 1
      BY <1>1, <3>1, MaxNatPair
    <3>3. vs' = [Described EXCEPT !.next = x]
      BY <2>1, <3>1
    <3> QED BY <1>1, <3>2, <3>3 DEF Version
  <2>5. logfile = 0
    BY <2>1 DEF Base, StagesInv, BackgroundInv
  <2>6. \A n \in DOMAIN logs : n < vs'.next \/ n \in replay'.todo
    BY <1>1, <2>3, <2>4 DEF LogsToRead
  <2>7. vs'.log < vs'.next
    BY <1>1, <2>4
  <2>8. LogsToRead(Described, logs)' = LogsToRead(Described, logs)
    BY <2>1, <2>2
  <2> QED BY <2>1, <2>2, <2>3, <2>4, <2>5, <2>6, <2>7, <2>8 DEF LogNumbers, Logged
<1>4. ASSUME NEW a \in {vs.next, vs.next + 1}, ReplayNext,
             replay'.todo = replay.todo \ {NextLog},
             vs' = [vs EXCEPT !.next = MarkFileNumberUsed(a, NextLog)],
             UNCHANGED <<logs, ghosts, man, tail, logfile, phase>>
      PROVE  LogNumbers'
  <2>1. NextLog \in replay.todo /\ NextLog \in Nat
    <3>1. PICK n \in replay.todo : \A m \in replay.todo : n <= m
      BY <1>1, <1>4, LeastNat DEF ReplayNext
    <3>2. NextLog \in replay.todo
      BY <3>1 DEF NextLog
    <3> QED BY <1>1, <3>2
  <2>2. phase = "replay" /\ logfile = 0
    BY <1>4 DEF ReplayNext
  <2>3. a \in Nat /\ a >= vs.next
    BY <1>1, <1>4
  <2>4. PICK x \in Nat : /\ x >= a /\ x > NextLog
                         /\ vs' = [vs EXCEPT !.next = x]
    BY <1>4, <2>1, <2>3, MarkNumber
  <2>5. vs'.next = x /\ vs'.log = vs.log /\ x >= vs.next
    BY <1>1, <2>3, <2>4 DEF Version
  <2>6. Described' = Described /\ Describable' = Describable /\ Logged' = Logged
    BY <1>4, ManifestFrame
  <2>7. LogsToRead(Described, logs)' = LogsToRead(Described, logs)
    BY <1>4, <2>6
  <2>8. \A n \in DOMAIN logs : n < x \/ n \in replay'.todo
    BY <1>1, <1>4, <2>2, <2>4, <2>5 DEF LogNumbers
  <2>9. vs.log < x
    BY <1>1, <2>2, <2>5 DEF LogNumbers
  <2>10. /\ vs.log = Described.log /\ replay'.todo \subseteq LogsToRead(Described, logs)
         /\ \A v \in Describable : \A n \in DOMAIN ghosts : n < v.log
         /\ tail # <<>> => Described.log = Last(tail).edit.log
    BY <1>4, <2>2 DEF LogNumbers
  <2> QED BY <1>4, <2>2, <2>5, <2>6, <2>7, <2>8, <2>9, <2>10 DEF LogNumbers, Logged
<1>5. CASE RecoverLogFile
  <2>1. replay'.todo = replay.todo \ {NextLog}
    <3>1. replay \in [todo : SUBSET Nat, add : SUBSET Nat, max : Nat, err : BOOLEAN]
      BY DEF Base, TInv, StageOK
    <3>2. \/ replay' = [replay EXCEPT !.todo = replay.todo \ {NextLog}, !.err = FALSE]
          \/ replay' = [todo |-> replay.todo \ {NextLog}, add |-> replay.add \cup {vs.next},
                        max |-> MaxSeen, err |-> FALSE]
      BY <1>5 DEF RecoverLogFile
    <3>3. CASE replay' = [replay EXCEPT !.todo = replay.todo \ {NextLog}, !.err = FALSE]
      BY <3>1, <3>3
    <3>4. CASE replay' = [todo |-> replay.todo \ {NextLog}, add |-> replay.add \cup {vs.next},
                          max |-> MaxSeen, err |-> FALSE]
      BY <3>4
    <3> QED BY <3>2, <3>3, <3>4
  <2>2. /\ ReplayNext /\ UNCHANGED <<logs, ghosts, man, tail, logfile, phase>>
        /\ \/ vs' = [vs EXCEPT !.next = MarkFileNumberUsed(vs.next, NextLog)]
           \/ vs' = [vs EXCEPT !.next = MarkFileNumberUsed(vs.next + 1, NextLog)]
    BY <1>5 DEF RecoverLogFile
  <2> QED BY <2>1, <2>2, <1>4
<1>6. CASE RecoverLogFileFails
  <2>1. replay'.todo = replay.todo \ {NextLog}
    BY <1>6 DEF RecoverLogFileFails, ReplayNext, Base, TInv, StageOK
  <2>2. /\ ReplayNext /\ UNCHANGED <<logs, ghosts, man, tail, logfile, phase>>
        /\ vs' = [vs EXCEPT !.next = MarkFileNumberUsed(vs.next + 1, NextLog)]
    BY <1>6 DEF RecoverLogFileFails, disk
  <2> QED BY <2>1, <2>2, <1>4
<1>7. CASE OpenLog
  <2>1. /\ phase = "replay" /\ phase' = "replay" /\ replay.todo = {} /\ logfile = 0
        /\ logfile' = vs.next /\ replay' = replay
        /\ logs' = Put(logs, vs.next, [recs |-> <<>>, synced |-> 0])
        /\ vs' = [vs EXCEPT !.next = vs.next + 1, !.last = MaxNat({vs.last, replay.max})]
        /\ UNCHANGED <<ghosts, man, tail>>
    BY <1>7 DEF OpenLog
  <2>2. Described' = Described /\ Describable' = Describable /\ Logged' = Logged
    BY <2>1, ManifestFrame
  <2>3. vs'.next = vs.next + 1 /\ vs'.log = vs.log
    BY <1>1, <2>1 DEF Version
  <2>4. /\ DOMAIN logs' = DOMAIN logs \cup {vs.next}
        /\ logs'[vs.next].recs = <<>>
    BY <2>1 DEF Put
  <2>5. /\ logfile' \in DOMAIN logs' /\ logfile' < vs'.next
        /\ \A n \in DOMAIN logs' : n <= logfile'
    <3>1. \A n \in DOMAIN logs : n < vs.next
      BY <2>1 DEF LogNumbers
    <3> QED BY <1>1, <2>1, <2>3, <2>4, <3>1
  <2>6. vs.log < vs.next /\ vs.log = Described.log
    BY <2>1 DEF LogNumbers
  <2>7. vs'.log < vs'.next /\ logfile' # 0
    BY <1>1, <2>1, <2>3, <2>6
  <2> QED BY <2>1, <2>2, <2>3, <2>4, <2>5, <2>6, <2>7 DEF LogNumbers, Logged
<1>8. CASE OpenInstall
  <2>1. /\ phase = "replay" /\ phase' = "open" /\ logfile # 0 /\ logfile' = logfile
        /\ vs' = [vs EXCEPT !.log = logfile, !.l0 = vs.l0 \cup replay.add]
        /\ man' = vs' /\ tail' = <<>>
        /\ DeleteObsoleteFiles(vs', {}, {}, tables)
    BY <1>8 DEF OpenInstall
  <2>2. ~bgErr
    BY <2>1, ReplayingQuiet
  <2>3. Describable' = {vs'}
    <3>1. DOMAIN tail' = {}
      BY <2>1, EmptyLogs
    <3> QED BY <2>1, <3>1 DEF Describable
  <2>4. vs'.log = logfile /\ vs'.next = vs.next
    BY <1>1, <2>1 DEF Version
  <2>5. /\ logs' = [n \in {m \in DOMAIN logs : m >= vs'.log} |-> logs[n]]
        /\ ghosts' = [n \in {m \in DOMAIN logs : ~(m >= vs'.log)} |-> logs[n]]
    BY <2>1, <2>2 DEF DeleteObsoleteFiles, KeepsLog
  <2>6. /\ logfile \in DOMAIN logs /\ logfile < vs.next
        /\ \A n \in DOMAIN logs : n <= logfile
    BY <2>1 DEF LogNumbers
  <2>7. /\ logfile \in DOMAIN logs'
        /\ \A n \in DOMAIN logs' : n <= logfile
        /\ \A n \in DOMAIN ghosts' : n < logfile
    BY <1>1, <2>4, <2>5, <2>6
  <2>8. logfile <= logfile
    BY <1>1
  <2> QED BY <2>1, <2>3, <2>4, <2>6, <2>7, <2>8 DEF LogNumbers
<1> QED BY <1>2, <1>3, <1>5, <1>6, <1>7, <1>8 DEF OpenStep

LEMMA LogsInit == Init => LogNumbers
<1> SUFFICES ASSUME Init PROVE LogNumbers
  OBVIOUS
<1>1. /\ phase = "down" /\ logfile = 0 /\ tail = <<>> /\ ghosts = <<>>
  BY DEF Init
<1>2. DOMAIN ghosts = {}
  BY <1>1, EmptyLogs
<1> QED BY <1>1, <1>2 DEF LogNumbers

LEMMA LogsStep ==
  ASSUME Base, Base', TablesInv, LogNumbers, [Next]_vars
  PROVE  LogNumbers'
<1>1. CASE Working
  BY <1>1, LogsWorking
<1>2. CASE OpenStep
  BY <1>2, LogsOpening
<1>3. CASE Closed \/ ProcessCrash
  BY <1>3, LogsGone DEF Closed, ProcessCrash, disk
<1>4. CASE MachineCrash
  BY <1>4, LogsGone DEF MachineCrash
<1>5. CASE UNCHANGED vars
  <2>1. UNCHANGED <<logs, ghosts, man, tail, phase, logfile, vs, replay>>
    BY <1>5 DEF vars, disk, core, flags
  <2>2. vs.next \in Nat
    BY BaseFacts
  <2> QED BY <2>1, <2>2, LogsFrame
<1> QED BY <1>1, <1>2, <1>3, <1>4, <1>5, NextSteps

Files == Base /\ TablesInv /\ LogNumbers
LEMMA FilesHold == Spec => []Files
<1>1. Init => LogNumbers
  BY LogsInit
<1>2. Base /\ Base' /\ TablesInv /\ LogNumbers /\ [Next]_vars => LogNumbers'
  BY LogsStep
<1>3. Spec => []LogNumbers
  BY <1>1, <1>2, TablesHold, PTL DEF Spec
<1> QED BY <1>3, TablesHold, PTL DEF Files

-----------------------------------------------------------------------------
(***************************************************************************)
(* What can be read: from a log, from a file system, by a reader.          *)
(***************************************************************************)
LEMMA ReadLogIs ==
  ASSUME NEW recs \in Seq(SUBSET Batches), NEW c
  PROVE  c \in ReadLog(recs) <=>
            \E i \in 1..Len(recs) : c \in recs[i] /\ \A k \in 1..i : recs[k] # Torn
<1>1. DOMAIN recs = 1..Len(recs)
  BY LenProperties
<1> QED BY <1>1 DEF ReadLog

LEMMA ReadLogPrefix ==
  ASSUME NEW r \in Seq(SUBSET Batches), NEW s \in Seq(SUBSET Batches),
         Len(r) <= Len(s), \A i \in 1..Len(r) : r[i] = s[i]
  PROVE  ReadLog(r) \subseteq ReadLog(s)
<1> SUFFICES ASSUME NEW c \in ReadLog(r) PROVE c \in ReadLog(s)
  OBVIOUS
<1>1. Len(r) \in Nat /\ Len(s) \in Nat
  BY LenProperties
<1>2. PICK i \in 1..Len(r) : c \in r[i] /\ \A k \in 1..i : r[k] # Torn
  BY ReadLogIs
<1>3. i \in 1..Len(s) /\ c \in s[i] /\ \A k \in 1..i : s[k] # Torn
  BY <1>1, <1>2
<1> QED BY <1>3, ReadLogIs

LEMMA ReadLogAppend ==
  ASSUME NEW r \in Seq(SUBSET Batches), NEW x \in SUBSET Batches
  PROVE  /\ ReadLog(Append(r, x)) \subseteq ReadLog(r) \cup x
         /\ ReadLog(r) \subseteq ReadLog(Append(r, x))
         /\ (\A i \in DOMAIN r : r[i] # Torn) /\ x # Torn =>
               ReadLog(Append(r, x)) = ReadLog(r) \cup x
<1> DEFINE s == Append(r, x)
<1>1. /\ s \in Seq(SUBSET Batches) /\ Len(s) = Len(r) + 1 /\ Len(r) \in Nat
      /\ \A i \in 1..Len(r) : s[i] = r[i]
      /\ s[Len(r) + 1] = x
  BY AppendProperties, LenProperties
<1> HIDE DEF s
<1>2. ReadLog(r) \subseteq ReadLog(s)
  BY <1>1, ReadLogPrefix
<1>3. ReadLog(s) \subseteq ReadLog(r) \cup x
  <2> SUFFICES ASSUME NEW c \in ReadLog(s), c \notin x PROVE c \in ReadLog(r)
    OBVIOUS
  <2>1. PICK i \in 1..Len(s) : c \in s[i] /\ \A k \in 1..i : s[k] # Torn
    BY <1>1, ReadLogIs
  <2>2. i \in 1..Len(r)
    BY <1>1, <2>1
  <2>3. c \in r[i] /\ \A k \in 1..i : r[k] # Torn
    BY <1>1, <2>1, <2>2
  <2> QED BY <2>2, <2>3, ReadLogIs
<1>4. ASSUME \A i \in DOMAIN r : r[i] # Torn, x # Torn PROVE x \subseteq ReadLog(s)
  <2> SUFFICES ASSUME NEW c \in x PROVE c \in ReadLog(s)
    OBVIOUS
  <2>1. \A i \in 1..Len(r) : r[i] # Torn
    BY <1>4, LenProperties
  <2>2. Len(r) + 1 \in 1..Len(s) /\ c \in s[Len(r) + 1] /\ \A k \in 1..(Len(r) + 1) : s[k] # Torn
    BY <1>1, <1>4, <2>1
  <2> QED BY <1>1, <2>2, ReadLogIs
<1> QED BY <1>2, <1>3, <1>4 DEF s

LEMMA ReadLogEmpty == ReadLog(<<>>) = {}
<1>1. DOMAIN <<>> = {}
  BY EmptyLogs
<1> QED BY <1>1 DEF ReadLog

LEMMA InIs ==
  ASSUME NEW F, NEW tb, NEW c
  PROVE  c \in In(F, tb) <=> \E n \in F : n \in DOMAIN tb /\ c \in tb[n]
BY DEF In

LEMMA RecoverableIs ==
  ASSUME NEW v, NEW lg, NEW tb, NEW c
  PROVE  c \in Recoverable(v, lg, tb) <=>
           \/ c \in In(Live(v), tb)
           \/ \E n \in DOMAIN lg : n >= v.log /\ c \in ReadLog(lg[n].recs)
BY DEF Recoverable, LogsToRead

LEMMA ReachIs ==
  ASSUME NEW c
  PROVE  c \in Reach <=> \/ phase = "open" /\ c \in Held
                         \/ \E v \in Describable : c \in Recoverable(v, logs, tables)
BY DEF Reach

(* A file system with fewer records or tables gives back less.              *)
LEMMA RecoverableLess ==
  ASSUME NEW v, NEW w, NEW lg, NEW lh, NEW tb, NEW tc,
         \A n \in DOMAIN lh : n >= v.log =>
            n \in DOMAIN lg /\ n >= w.log /\ ReadLog(lh[n].recs) \subseteq ReadLog(lg[n].recs)
  PROVE  Recoverable(v, lh, tc) \subseteq In(Live(v), tc) \cup Recoverable(w, lg, tb)
<1> SUFFICES ASSUME NEW c \in Recoverable(v, lh, tc), c \notin In(Live(v), tc)
             PROVE  c \in Recoverable(w, lg, tb)
  OBVIOUS
<1>1. PICK n \in DOMAIN lh : n >= v.log /\ c \in ReadLog(lh[n].recs)
  BY RecoverableIs
<1> QED BY <1>1, RecoverableIs

LEMMA InLess ==
  ASSUME NEW F, NEW G, G \subseteq F, NEW tb, NEW tc,
         \A n \in G : n \in DOMAIN tc => n \in DOMAIN tb /\ tc[n] = tb[n]
  PROVE  In(G, tc) \subseteq In(F, tb)
<1> SUFFICES ASSUME NEW c \in In(G, tc) PROVE c \in In(F, tb)
  OBVIOUS
<1>1. PICK n \in G : n \in DOMAIN tc /\ c \in tc[n]
  BY InIs
<1> QED BY <1>1, InIs

-----------------------------------------------------------------------------
(***************************************************************************)
(* The sequence numbers.                                                   *)
(***************************************************************************)
LEMMA GroupedFacts ==
  ASSUME Base
  PROVE  /\ Grouped \subseteq Batches /\ Grouped \subseteq Calls
         /\ IsFiniteSet(Grouped) /\ Cardinality(Grouped) \in Nat
         /\ \A c \in Calls : seqOf[c] \in Nat
         /\ vs.last \in Nat /\ \A v \in Describable : v.last \in Nat
BY GroupCount, BaseFacts DEF Base, TInv, CallsOK, Grouped

LEMMA NoGroup == InGroup(<<>>) = {}
<1>1. DOMAIN <<>> = {}
  BY EmptyLogs
<1> QED BY <1>1 DEF InGroup, Range

LEMMA DoneStays ==
  ASSUME pc' = pc \/ pc' = Woken(pc), NEW c \in Calls, pc[c] = "done"
  PROVE  pc'[c] = "done"
BY DEF Woken

LEMMA SeqReachLess ==
  ASSUME Base, SeqReach, Reach' \subseteq Reach \cup Grouped, Grouped' \subseteq Grouped,
         \A c \in Batches : seqOf'[c] = seqOf[c],
         \A c \in Reach' : pc'[c] = "done" \/ c \in Grouped'
  PROVE  SeqReach'
<1>1. Grouped \subseteq Batches
  BY GroupedFacts
<1>2. Reach \subseteq Batches
  BY DEF SeqReach
<1>3. Reach' \cup Grouped' \subseteq Reach \cup Grouped /\ Reach' \subseteq Batches
  BY <1>1, <1>2
<1>4. \A c \in Reach' \cup Grouped' : seqOf'[c] = seqOf[c]
  BY <1>1, <1>2, <1>3
<1>5. \A c, d \in Reach' \cup Grouped' : seqOf'[c] = seqOf'[d] => c = d
  BY <1>3, <1>4 DEF SeqReach
<1>6. \A c \in Reach' \cup Grouped' : seqOf'[c] >= 1
  BY <1>3, <1>4 DEF SeqReach
<1> QED BY <1>3, <1>5, <1>6 DEF SeqReach

(* The steps of an open database that neither begin nor end a group.        *)
LEMMA SeqFrame ==
  ASSUME Base, SeqInv, phase = "open", phase' = "open", group' = group,
         \A c \in Batches : seqOf'[c] = seqOf[c],
         \A c \in Calls : pc[c] = "done" => pc'[c] = "done",
         vs'.last = vs.last, Reach' \subseteq Reach \cup Grouped,
         imm' \cup In(Live(vs'), tables') \subseteq imm \cup In(Live(vs), tables),
         \A v \in Describable' :
            /\ v.last <= Described'.last
            /\ \/ v \in Describable /\ In(Live(v), tables') \subseteq In(Live(v), tables)
               \/ /\ v.last = vs.last
                  /\ In(Live(v), tables') \subseteq
                        imm \cup In(Live(vs), tables) \cup In(Live(Described), tables),
         Described'.last <= vs.last
  PROVE  SeqInv'
<1>1. Grouped' = Grouped /\ Grouped \subseteq Batches /\ Batches \subseteq Calls
  BY GroupedFacts DEF Grouped, Batches
<1>2. /\ \A c \in Reach : c \in Batches /\ (pc[c] = "done" \/ c \in Grouped)
      /\ Reach \subseteq Batches /\ Reach' \subseteq Batches
  BY <1>1 DEF SeqInv, SeqReach
<1>3. SeqReach'
  <2>1. \A c \in Reach' : pc'[c] = "done" \/ c \in Grouped'
    BY <1>1, <1>2
  <2> QED BY <1>1, <2>1, SeqReachLess DEF SeqInv
<1>4. SeqLast'
  <2>1. \A c \in Reach' \ Grouped' : c \in Reach \ Grouped /\ seqOf'[c] = seqOf[c]
    BY <1>1, <1>2
  <2>2. \A c \in Reach' \ Grouped' : seqOf'[c] <= vs'.last
    BY <2>1 DEF SeqInv, SeqLast
  <2>3. \A c \in Grouped' : /\ seqOf'[c] > vs'.last
                            /\ seqOf'[c] <= vs'.last + Cardinality(Grouped')
    BY <1>1 DEF SeqInv, SeqLast
  <2>4. (imm' \cup In(Live(vs'), tables')) \cap Grouped' = {}
    BY <1>1 DEF SeqInv, SeqLast
  <2> QED BY <2>2, <2>3, <2>4 DEF SeqLast
<1>5. SeqFiles'
  <2>1. \A c \in imm \cup In(Live(vs), tables) \cup In(Live(Described), tables) :
           c \in Batches /\ c \notin Grouped /\ seqOf[c] <= vs.last
    <3> SUFFICES ASSUME NEW c \in imm \cup In(Live(vs), tables) \cup In(Live(Described), tables)
                 PROVE  c \in Reach /\ c \notin Grouped
      BY <1>2 DEF SeqInv, SeqLast
    <3>1. CASE c \in imm \cup In(Live(vs), tables)
      BY <3>1, ReachIs DEF Held, SeqInv, SeqLast
    <3>2. CASE c \in In(Live(Described), tables)
      <4>1. Described \in Describable
        BY BaseFacts
      <4> QED BY <3>2, <4>1, ReachIs, RecoverableIs DEF SeqInv, SeqFiles
    <3> QED BY <3>1, <3>2
  <2>2. ASSUME NEW v \in Describable', NEW c \in In(Live(v), tables')
        PROVE  c \notin Grouped' /\ seqOf'[c] <= v.last
    <3>1. CASE v \in Describable /\ In(Live(v), tables') \subseteq In(Live(v), tables)
      <4>1. c \in Reach
        BY <3>1, <2>2, ReachIs, RecoverableIs
      <4> QED BY <1>1, <1>2, <2>2, <3>1, <4>1 DEF SeqInv, SeqFiles
    <3>2. CASE /\ v.last = vs.last
               /\ In(Live(v), tables') \subseteq
                     imm \cup In(Live(vs), tables) \cup In(Live(Described), tables)
      BY <1>1, <2>1, <2>2, <3>2
    <3> QED BY <2>2, <3>1, <3>2
  <2> QED BY <2>2 DEF SeqFiles
<1>6. SeqReplay'
  BY DEF SeqReplay
<1> QED BY <1>3, <1>4, <1>5, <1>6 DEF SeqInv

(* Nothing that can be read changes.                                        *)
LEMMA ReachSame ==
  ASSUME phase' = phase, UNCHANGED <<mem, imm, logs, tables, man, tail>>, Live(vs') = Live(vs)
  PROVE  Reach' = Reach
<1>1. Describable' = Describable
  BY ManifestFrame
<1>2. Held' = Held
  BY DEF Held
<1> QED BY <1>1, <1>2 DEF Reach

(* The places of a queue, up to the i-th, that hold a member of D.          *)
Places(q, D, i) == {k \in 1..i : q[k] \in D}

LEMMA PlacesGrow ==
  ASSUME NEW q, NEW D, NEW n \in Nat
  PROVE  /\ \A i \in 0..n : /\ IsFiniteSet(Places(q, D, i))
                            /\ Cardinality(Places(q, D, i)) \in Nat
         /\ \A i \in 1..n : q[i] \in D => Cardinality(Places(q, D, i)) >= 1
         /\ \A i, j \in 0..n : i <= j =>
               Cardinality(Places(q, D, i)) <= Cardinality(Places(q, D, j))
         /\ \A i, j \in 1..n : i < j /\ q[j] \in D =>
               Cardinality(Places(q, D, i)) < Cardinality(Places(q, D, j))
<1>1. ASSUME NEW i \in 0..n
      PROVE  /\ IsFiniteSet(Places(q, D, i)) /\ Cardinality(Places(q, D, i)) \in Nat
  <2>1. IsFiniteSet(1..i)
    BY FS_Interval
  <2>2. Places(q, D, i) \in SUBSET (1..i)
    BY DEF Places
  <2> QED BY <2>1, <2>2, FS_Subset, FS_CardinalityType
<1>2. ASSUME NEW i \in 0..n, NEW j \in 0..n, i <= j
      PROVE  /\ Cardinality(Places(q, D, i)) <= Cardinality(Places(q, D, j))
             /\ Cardinality(Places(q, D, i)) = Cardinality(Places(q, D, j)) =>
                   Places(q, D, i) = Places(q, D, j)
  <2>1. Places(q, D, i) \in SUBSET Places(q, D, j)
    BY <1>2 DEF Places
  <2> QED BY <1>1, <2>1, FS_Subset
<1>3. ASSUME NEW i \in 1..n, NEW j \in 1..n, i < j, q[j] \in D
      PROVE  Cardinality(Places(q, D, i)) < Cardinality(Places(q, D, j))
  <2>1. i \in 0..n /\ j \in 0..n /\ i <= j
    BY <1>3
  <2>2. j \in Places(q, D, j) /\ j \notin Places(q, D, i)
    BY <1>3 DEF Places
  <2>3. Cardinality(Places(q, D, i)) # Cardinality(Places(q, D, j))
    BY <1>2, <2>1, <2>2
  <2> QED BY <1>1, <1>2, <2>1, <2>3
<1>4. ASSUME NEW i \in 1..n, q[i] \in D PROVE Cardinality(Places(q, D, i)) >= 1
  <2>1. i \in Places(q, D, i) /\ i \in 0..n
    BY <1>4 DEF Places
  <2>2. Cardinality(Places(q, D, i)) # 0
    BY <1>1, <2>1, FS_EmptySet
  <2> QED BY <1>1, <2>1, <2>2
<1> QED BY <1>1, <1>2, <1>3, <1>4

LEMMA PlacesCount ==
  ASSUME NEW q, NEW D, NEW n \in Nat, \A i, j \in 1..n : q[i] = q[j] => i = j,
         NEW T, IsFiniteSet(T), \A i \in 1..n : q[i] \in D => q[i] \in T
  PROVE  Cardinality(Places(q, D, n)) <= Cardinality(T)
<1> DEFINE f == [k \in Places(q, D, n) |-> q[k]]
<1>1. f \in Injection(Places(q, D, n), T)
  BY DEF Injection, IsInjective, Places
<1> HIDE DEF f
<1> QED BY <1>1, FS_Injection

(* Before a group is chosen there is none, and its batches are new.         *)
LEMMA FrontAlone ==
  ASSUME Base, NEW c \in Calls, pc[c] = "room"
  PROVE  group = <<>> /\ Grouped = {} /\ queue # <<>> /\ queue[1] = c
<1>1. QInv /\ LoggingInv
  BY DEF Base, StagesInv
<1>2. queue # <<>> /\ queue[1] = c
  BY <1>1 DEF QInv, FrontWriterOnly, InFront
<1>3. \A d \in Calls : pc[d] \notin Logging
  BY <1>1, <1>2 DEF QInv, FrontWriterOnly, InFront, Logging
<1>4. group = <<>>
  BY <1>1, <1>3 DEF LoggingInv
<1> QED BY <1>2, <1>4, NoGroup DEF Grouped

LEMMA QueuedNotDone ==
  ASSUME Base
  PROVE  /\ Len(queue) \in Nat
         /\ \A i \in 1..Len(queue) : queue[i] \in Calls /\ pc[queue[i]] \notin {"idle", "done"}
         /\ \A i, j \in 1..Len(queue) : queue[i] = queue[j] => i = j
<1>1. QInv
  BY DEF Base
<1>2. Len(queue) \in Nat /\ \A i \in 1..Len(queue) : queue[i] \in Calls
  BY <1>1, ElementOfSeq, LenProperties DEF QInv, QueueType
<1>3. \A i \in 1..Len(queue) : pc[queue[i]] \in InFront \cup {"wait"}
  BY <1>1 DEF QInv, FrontWriterOnly
<1>4. \A i, j \in 1..Len(queue) : queue[i] = queue[j] => i = j
  BY <1>1 DEF QInv, FrontWriterOnly
<1> QED BY <1>2, <1>3, <1>4 DEF InFront, Logging

(* The sequence numbers that a new group is given.                          *)
LEMMA StartNumbers ==
  ASSUME Base, NEW c \in Calls, StartLogging(c)
  PROVE  /\ Grouped' \subseteq Batches /\ Cardinality(Grouped') \in Nat
         /\ \A d \in Grouped' : pc[d] \notin {"idle", "done"}
         /\ \A d \in Calls \ Grouped' : seqOf'[d] = seqOf[d]
         /\ \A d \in Grouped' : seqOf'[d] > vs.last /\ seqOf'[d] <= vs.last + Cardinality(Grouped')
         /\ \A d, e \in Grouped' : seqOf'[d] = seqOf'[e] => d = e
         /\ pc' = [pc EXCEPT ![c] = "append"] /\ queue' = queue
<1>1. PICK n \in GroupLengths :
        /\ group' = SubSeq(queue, 1, n)
        /\ seqOf' = [d \in Calls |->
              IF d \in InGroup(group')
              THEN vs.last + Cardinality({i \in 1..n : queue[i] \in Batches /\
                                \E j \in i..n : queue[j] = d})
              ELSE seqOf[d]]
        /\ pc' = [pc EXCEPT ![c] = "append"] /\ queue' = queue
  BY DEF StartLogging
<1>2. /\ n \in Nat /\ n \in 1..Len(queue) /\ Len(queue) \in Nat
      /\ group' \in Seq(Calls) /\ Len(group') = n
      /\ \A i \in 1..n : group'[i] = queue[i] /\ queue[i] \in Calls
  BY <1>1, GroupLength DEF Base
<1>3. \A i, j \in 1..n : queue[i] = queue[j] => i = j
  BY <1>2, QueuedNotDone
<1>4. Grouped' = {queue[i] : i \in 1..n} \ Forced
  <2>1. DOMAIN group' = 1..n
    BY <1>2, LenProperties
  <2> QED BY <1>2, <2>1 DEF Grouped, InGroup, Range
<1>5. /\ Grouped' \subseteq Batches /\ Grouped' \subseteq Calls
      /\ IsFiniteSet(Grouped') /\ Cardinality(Grouped') \in Nat
  BY <1>2, GroupCount DEF Grouped
<1>6. vs.last \in Nat
  BY BaseFacts
<1>7. \A d \in Grouped' : \E i \in 1..n : d = queue[i] /\ queue[i] \in Batches
  BY <1>4, <1>5
<1>8. ASSUME NEW i \in 1..n, queue[i] \in Batches
      PROVE  seqOf'[queue[i]] = vs.last + Cardinality(Places(queue, Batches, i))
  <2>1. queue[i] \in Grouped'
    BY <1>4, <1>8 DEF Batches
  <2>2. {k \in 1..n : queue[k] \in Batches /\ \E j \in k..n : queue[j] = queue[i]}
           = Places(queue, Batches, i)
    <3>1. \A k \in 1..n : (\E j \in k..n : queue[j] = queue[i]) <=> k \in 1..i
      <4> SUFFICES ASSUME NEW k \in 1..n
                   PROVE  (\E j \in k..n : queue[j] = queue[i]) <=> k \in 1..i
        OBVIOUS
      <4>1. ASSUME NEW j \in k..n, queue[j] = queue[i] PROVE k \in 1..i
        <5>1. j \in 1..n
          BY <1>2
        <5>2. j = i
          BY <1>3, <4>1, <5>1
        <5> QED BY <1>2, <5>2
      <4>2. k \in 1..i => i \in k..n
        BY <1>2
      <4> QED BY <4>1, <4>2
    <3>2. 1..i \subseteq 1..n
      BY <1>2
    <3>3. \A k : k \in Places(queue, Batches, i) <=> k \in 1..i /\ queue[k] \in Batches
      BY DEF Places
    <3> QED BY <3>1, <3>2, <3>3
  <2>3. queue[i] \in Calls /\ queue[i] \in InGroup(group')
    BY <1>2, <2>1 DEF Grouped
  <2> QED BY <1>1, <2>2, <2>3
<1>9. ASSUME NEW d \in Grouped'
      PROVE  seqOf'[d] > vs.last /\ seqOf'[d] <= vs.last + Cardinality(Grouped')
  <2>1. PICK i \in 1..n : d = queue[i] /\ queue[i] \in Batches
    BY <1>7
  <2>2. /\ Cardinality(Places(queue, Batches, i)) \in Nat
        /\ Cardinality(Places(queue, Batches, n)) \in Nat
        /\ Cardinality(Places(queue, Batches, i)) >= 1
        /\ Cardinality(Places(queue, Batches, i)) <= Cardinality(Places(queue, Batches, n))
    <3>1. i \in 0..n /\ n \in 0..n /\ i <= n
      BY <1>2
    <3> QED BY <1>2, <2>1, <3>1, PlacesGrow
  <2>3. \A k \in 1..n : queue[k] \in Batches => queue[k] \in Grouped'
    BY <1>4 DEF Batches
  <2>4. Cardinality(Places(queue, Batches, n)) <= Cardinality(Grouped')
    BY <1>2, <1>3, <1>5, <2>3, PlacesCount
  <2>5. seqOf'[d] = vs.last + Cardinality(Places(queue, Batches, i))
    BY <1>8, <2>1
  <2> QED BY <1>5, <1>6, <2>2, <2>4, <2>5
<1>10. ASSUME NEW d \in Grouped', NEW e \in Grouped', seqOf'[d] = seqOf'[e]
       PROVE  d = e
  <2>1. PICK i \in 1..n : d = queue[i] /\ queue[i] \in Batches
    BY <1>7
  <2>2. PICK j \in 1..n : e = queue[j] /\ queue[j] \in Batches
    BY <1>7
  <2>3. /\ seqOf'[d] = vs.last + Cardinality(Places(queue, Batches, i))
        /\ seqOf'[e] = vs.last + Cardinality(Places(queue, Batches, j))
    BY <1>8, <2>1, <2>2
  <2>4. /\ Cardinality(Places(queue, Batches, i)) \in Nat
        /\ Cardinality(Places(queue, Batches, j)) \in Nat
        /\ i < j => Cardinality(Places(queue, Batches, i)) < Cardinality(Places(queue, Batches, j))
        /\ j < i => Cardinality(Places(queue, Batches, j)) < Cardinality(Places(queue, Batches, i))
    <3>1. i \in 0..n /\ j \in 0..n
      BY <1>2
    <3> QED BY <1>2, <2>1, <2>2, <3>1, PlacesGrow
  <2>5. i = j
    <3>1. Cardinality(Places(queue, Batches, i)) = Cardinality(Places(queue, Batches, j))
      <4>1. PICK a \in Nat : a = Cardinality(Places(queue, Batches, i))
        BY <2>4
      <4>2. PICK b \in Nat : b = Cardinality(Places(queue, Batches, j))
        BY <2>4
      <4>3. vs.last + a = vs.last + b
        BY <1>10, <2>3, <4>1, <4>2
      <4> QED BY <1>6, <4>1, <4>2, <4>3
    <3>2. ~(i < j) /\ ~(j < i)
      <4>1. PICK a \in Nat : a = Cardinality(Places(queue, Batches, i))
        BY <2>4
      <4>2. (i < j => a < a) /\ (j < i => a < a)
        BY <2>4, <3>1, <4>1
      <4> QED BY <4>2
    <3>3. i \in Nat /\ j \in Nat
      BY <1>2
    <3> QED BY <3>2, <3>3
  <2> QED BY <2>1, <2>2, <2>5
<1>11. \A d \in Grouped' : pc[d] \notin {"idle", "done"}
  <2> SUFFICES ASSUME NEW d \in Grouped' PROVE pc[d] \notin {"idle", "done"}
    OBVIOUS
  <2>1. PICK i \in 1..n : d = queue[i]
    BY <1>7
  <2>2. i \in 1..Len(queue)
    BY <1>2
  <2> QED BY <2>1, <2>2, QueuedNotDone
<1>12. \A d \in Calls \ Grouped' : seqOf'[d] = seqOf[d]
  BY <1>1 DEF Grouped
<1> QED BY <1>1, <1>5, <1>9, <1>10, <1>11, <1>12

-----------------------------------------------------------------------------
(* The steps that leave what is in files, but for a record of the group.    *)
LEMMA SeqQuiet ==
  ASSUME Base, SeqInv, phase = "open", phase' = "open", group' = group,
         \A c \in Batches : seqOf'[c] = seqOf[c],
         \A c \in Calls : pc[c] = "done" => pc'[c] = "done",
         UNCHANGED <<imm, tables, man, tail>>, vs'.last = vs.last, Live(vs') = Live(vs),
         mem' \subseteq mem \cup Grouped,
         \A n \in DOMAIN logs' :
            n \in DOMAIN logs /\ ReadLog(logs'[n].recs) \subseteq ReadLog(logs[n].recs) \cup Grouped
  PROVE  SeqInv'
<1>1. Described' = Described /\ Describable' = Describable
  BY ManifestFrame
<1>2. Described \in Describable
  BY BaseFacts
<1>3. Reach' \subseteq Reach \cup Grouped
  <2> SUFFICES ASSUME NEW c \in Reach', c \notin Grouped PROVE c \in Reach
    OBVIOUS
  <2>1. Held' \subseteq Held \cup Grouped
    BY DEF Held
  <2>2. CASE c \in Held'
    BY <2>1, <2>2, ReachIs
  <2>3. ASSUME NEW v \in Describable, c \in Recoverable(v, logs', tables)
        PROVE  c \in Recoverable(v, logs, tables)
    BY <2>3, RecoverableIs
  <2>4. CASE \E v \in Describable' : c \in Recoverable(v, logs', tables')
    <3>1. PICK v \in Describable : c \in Recoverable(v, logs', tables)
      BY <1>1, <2>4
    <3> QED BY <2>3, <3>1, ReachIs
  <2>5. c \in Reach' => \/ c \in Held'
                        \/ \E v \in Describable' : c \in Recoverable(v, logs', tables')
    BY DEF Reach
  <2> QED BY <2>2, <2>4, <2>5
<1>4. imm' \cup In(Live(vs'), tables') = imm \cup In(Live(vs), tables)
  OBVIOUS
<1>5. \A v \in Describable' : /\ v \in Describable /\ v.last <= Described'.last
                              /\ In(Live(v), tables') = In(Live(v), tables)
  BY <1>1 DEF SeqInv, SeqFiles
<1>6. Described'.last <= vs.last
  BY <1>1 DEF SeqInv, SeqFiles
<1> QED BY <1>3, <1>4, <1>5, <1>6, SeqFrame

(* There was no group; there may be one now, whose writes are new.          *)
LEMMA SeqStart ==
  ASSUME Base, SeqInv, phase = "open", phase' = "open", Grouped = {},
         Reach' \subseteq Reach, vs'.last = vs.last, UNCHANGED <<tables, man, tail>>,
         \A c \in Calls : pc[c] = "done" => pc'[c] = "done",
         Grouped' \subseteq Batches, Cardinality(Grouped') \in Nat,
         \A d \in Grouped' : /\ pc[d] # "done" /\ seqOf'[d] \in Nat /\ seqOf'[d] > vs.last
                             /\ seqOf'[d] <= vs.last + Cardinality(Grouped'),
         \A d, e \in Grouped' : seqOf'[d] = seqOf'[e] => d = e,
         \A d \in Calls \ Grouped' : seqOf'[d] = seqOf[d]
  PROVE  SeqInv'
<1>1. Described' = Described /\ Describable' = Describable /\ Described \in Describable
  BY ManifestFrame, BaseFacts
<1>2. vs.last \in Nat /\ Batches \subseteq Calls /\ \A c \in Calls : seqOf[c] \in Nat
  BY GroupedFacts DEF Batches
<1>3. ASSUME NEW c \in Reach
      PROVE  /\ c \in Batches /\ c \in Calls /\ pc[c] = "done" /\ c \notin Grouped'
             /\ seqOf'[c] = seqOf[c] /\ seqOf[c] <= vs.last /\ seqOf[c] >= 1
  <2>1. c \in Batches /\ c \in Calls /\ pc[c] = "done"
    BY <1>2, <1>3 DEF SeqInv, SeqReach
  <2>2. seqOf[c] <= vs.last /\ seqOf[c] >= 1
    BY <1>3 DEF SeqInv, SeqLast, SeqReach
  <2> QED BY <2>1, <2>2
<1>4. SeqReach'
  <2>1. \A c \in Reach' : c \in Batches /\ pc'[c] = "done"
    BY <1>3
  <2>2. ASSUME NEW c \in Reach' \cup Grouped', NEW d \in Reach' \cup Grouped', seqOf'[c] = seqOf'[d]
        PROVE  c = d
    <3>1. CASE c \in Grouped' /\ d \in Grouped'
      BY <2>2, <3>1
    <3>2. CASE c \in Reach /\ d \in Reach
      BY <1>3, <2>2, <3>2 DEF SeqInv, SeqReach
    <3>3. CASE c \in Reach /\ d \in Grouped'
      <4>1. seqOf'[c] = seqOf[c] /\ seqOf[c] <= vs.last /\ seqOf[c] \in Nat
        BY <1>2, <1>3, <3>3
      <4>2. seqOf'[d] > vs.last
        BY <3>3
      <4> QED BY <1>2, <2>2, <4>1, <4>2
    <3>4. CASE c \in Grouped' /\ d \in Reach
      <4>1. seqOf'[d] = seqOf[d] /\ seqOf[d] <= vs.last /\ seqOf[d] \in Nat
        BY <1>2, <1>3, <3>4
      <4>2. seqOf'[c] > vs.last
        BY <3>4
      <4> QED BY <1>2, <2>2, <4>1, <4>2
    <3> QED BY <3>1, <3>2, <3>3, <3>4
  <2>3. ASSUME NEW c \in Reach' \cup Grouped' PROVE seqOf'[c] >= 1
    <3>1. CASE c \in Reach
      BY <1>3, <3>1
    <3>2. CASE c \in Grouped'
      <4>1. seqOf'[c] > vs.last /\ seqOf'[c] \in Nat
        BY <3>2
      <4> QED BY <1>2, <4>1
    <3> QED BY <2>3, <3>1, <3>2
  <2> QED BY <2>1, <2>2, <2>3 DEF SeqReach
<1>5. SeqLast'
  <2>1. \A c \in Reach' \ Grouped' : seqOf'[c] <= vs'.last
    BY <1>3
  <2>2. imm' \cup In(Live(vs'), tables') \subseteq Reach'
    BY ReachIs DEF Held, Reach
  <2>3. (imm' \cup In(Live(vs'), tables')) \cap Grouped' = {}
    BY <1>3, <2>2
  <2> QED BY <2>1, <2>3 DEF SeqLast
<1>6. SeqFiles'
  <2>1. ASSUME NEW v \in Describable, NEW c \in In(Live(v), tables)
        PROVE  c \notin Grouped' /\ seqOf'[c] <= v.last
    <3>1. c \in Reach
      BY <2>1, ReachIs, RecoverableIs
    <3> QED BY <1>3, <2>1, <3>1 DEF SeqInv, SeqFiles
  <2>2. \A v \in Describable : v.last <= Described.last
    BY DEF SeqInv, SeqFiles
  <2>3. Described.last <= vs.last
    BY DEF SeqInv, SeqFiles
  <2> QED BY <1>1, <2>1, <2>2, <2>3 DEF SeqFiles
<1>7. SeqReplay'
  BY DEF SeqReplay
<1> QED BY <1>4, <1>5, <1>6, <1>7 DEF SeqInv

(* Who leaves the queue is done, but for a forced flush that goes on; who   *)
(* was done before was not in it.                                           *)
LEMMA LeaveDone ==
  ASSUME Base, NEW n \in 1..Len(queue), NEW st, NEW p, Leave(n, st, p),
         \A d \in Calls : pc[d] = "done" => p[d] = "done"
  PROVE  /\ \A d \in Calls : pc[d] = "done" => pc'[d] = "done"
         /\ \A i \in 1..n : queue[i] \notin Forced => pc'[queue[i]] = "done"
         /\ group' = <<>>
<1> DEFINE gone == Range(SubSeq(queue, 1, n))
           rest == SubSeq(queue, n + 1, Len(queue))
<1>1. /\ queue \in Seq(Calls) /\ Len(queue) \in Nat /\ n \in Nat
      /\ \A i \in 1..Len(queue) : queue[i] \in Calls /\ pc[queue[i]] # "done"
  BY QueuedNotDone DEF Base, QInv, QueueType
<1>2. gone = {queue[i] : i \in 1..n}
  <2>1. /\ SubSeq(queue, 1, n) \in Seq(Calls)
        /\ Len(SubSeq(queue, 1, n)) = n
        /\ \A i \in 1..n : SubSeq(queue, 1, n)[i] = queue[i]
    BY <1>1, SubSeqProperties
  <2>2. DOMAIN SubSeq(queue, 1, n) = 1..n
    BY <2>1, LenProperties
  <2> QED BY <2>1, <2>2 DEF Range
<1>3. /\ rest \in Seq(Calls)
      /\ Len(rest) = Len(queue) - n
      /\ \A i \in 1..Len(rest) : rest[i] = queue[n + i]
  BY <1>1, SubSeqProperties
<1>4. /\ pc' = [c \in Calls |->
               IF c \in gone
               THEN IF st = "ok" /\ c \in Forced THEN "flush" ELSE "done"
               ELSE IF rest # <<>> /\ c = rest[1] THEN "room" ELSE p[c]]
      /\ group' = <<>>
  BY DEF Leave
<1>5. \A d \in Calls : pc[d] = "done" => d \notin gone
  <2>1. \A i \in 1..n : i \in 1..Len(queue)
    BY <1>1
  <2> QED BY <1>1, <1>2, <2>1
<1>6. rest # <<>> => pc[rest[1]] # "done"
  <2> SUFFICES ASSUME rest # <<>> PROVE pc[rest[1]] # "done"
    OBVIOUS
  <2>1. 1 \in 1..Len(rest)
    <3> HIDE DEF rest
    <3> QED BY <1>3, EmptySeq, LenProperties
  <2>2. rest[1] = queue[n + 1] /\ n + 1 \in 1..Len(queue)
    BY <1>1, <1>3, <2>1
  <2> QED BY <1>1, <2>2
<1>7. \A d \in Calls : pc[d] = "done" => pc'[d] = "done"
  <2> HIDE DEF gone, rest
  <2> QED BY <1>4, <1>5, <1>6
<1>8. \A i \in 1..n : queue[i] \notin Forced => pc'[queue[i]] = "done"
  <2>1. \A i \in 1..n : queue[i] \in gone /\ queue[i] \in Calls
    BY <1>1, <1>2
  <2> HIDE DEF gone, rest
  <2> QED BY <1>4, <2>1
<1> QED BY <1>4, <1>7, <1>8

(* The group leaves, and the last sequence number passes its writes.        *)
LEMMA FinishSeq ==
  ASSUME Base, Base', SeqInv, NEW c \in Calls, FinishWrite(c)
  PROVE  SeqInv'
<1> DEFINE st == IF pc[c] = "finish" THEN "ok" ELSE "err"
           p  == IF bgErr' # bgErr THEN Woken(pc) ELSE pc
<1>1. /\ pc[c] \in Logging /\ Leave(Len(group), st, p)
      /\ vs' = [vs EXCEPT !.last = @ + Cardinality(InGroup(group))]
      /\ UNCHANGED <<logs, tables, man, tail, mem, imm, phase, seqOf, replay>>
  BY DEF FinishWrite, Logging, disk
<1>2. QInv /\ BackgroundInv /\ LoggingInv
  BY DEF Base, StagesInv
<1>3. phase = "open"
  <2>1. ~Quiet
    BY <1>1 DEF Quiet, Logging
  <2> QED BY <1>2, <2>1 DEF BackgroundInv
<1>4. /\ Len(group) \in 1..Len(queue) /\ Len(queue) \in Nat /\ Len(group) \in Nat
      /\ \A i \in 1..Len(group) : group[i] = queue[i]
      /\ \A i \in 1..Len(queue) : queue[i] \in Calls /\ pc[queue[i]] # "done"
  <2>1. Len(group) \in 1..Len(queue) /\ \A i \in 1..Len(group) : group[i] = queue[i]
    BY <1>1, <1>2 DEF QInv, FrontWriterOnly
  <2> QED BY <2>1, QueuedNotDone
<1>5. Grouped' = {} /\ group' = <<>>
  BY <1>1, NoGroup DEF Leave, Grouped
<1>6. /\ Grouped \subseteq Batches /\ Grouped \subseteq Calls /\ Cardinality(Grouped) \in Nat
      /\ \A d \in Calls : seqOf[d] \in Nat
      /\ vs.last \in Nat /\ vs \in Version
  BY GroupedFacts, BaseFacts
<1>7. vs'.last = vs.last + Cardinality(Grouped) /\ Live(vs') = Live(vs) /\ vs'.last \in Nat
  <2>1. vs' = [vs EXCEPT !.last = vs.last + Cardinality(Grouped)]
    BY <1>1 DEF Grouped
  <2>2. vs'.last = vs.last + Cardinality(Grouped) /\ Live(vs') = Live(vs)
    BY <1>6, <2>1 DEF Version, Live
  <2> QED BY <1>6, <2>2
<1>8. Reach' = Reach
  BY <1>1, <1>7, ReachSame
<1>9. /\ \A d \in Calls : pc[d] = "done" => pc'[d] = "done"
      /\ \A i \in 1..Len(group) : queue[i] \notin Forced => pc'[queue[i]] = "done"
  <2>1. \A d \in Calls : pc[d] = "done" => p[d] = "done"
    BY DEF Woken
  <2> HIDE DEF p, st
  <2> QED BY <1>1, <1>4, <2>1, LeaveDone
<1>10. \A d \in Grouped : pc'[d] = "done"
  <2> SUFFICES ASSUME NEW d \in Grouped PROVE pc'[d] = "done"
    OBVIOUS
  <2>1. group \in Seq(Calls)
    BY DEF Base, TInv, CallsOK
  <2>2. PICK i \in 1..Len(group) : group[i] = d
    BY <2>1, LenProperties DEF Grouped, InGroup, Range
  <2>3. d \notin Forced
    BY <1>6 DEF Batches
  <2> QED BY <1>4, <1>9, <2>2, <2>3
<1>11. SeqReach'
  <2>1. \A d \in Reach : d \in Batches /\ pc'[d] = "done"
    <3>1. \A d \in Reach : d \in Batches /\ d \in Calls /\ (pc[d] = "done" \/ d \in Grouped)
      BY DEF SeqInv, SeqReach, Batches
    <3> QED BY <1>9, <1>10, <3>1
  <2> QED BY <1>1, <1>5, <1>8, <2>1 DEF SeqInv, SeqReach
<1>12. SeqLast'
  <2>1. ASSUME NEW d \in Reach PROVE seqOf[d] <= vs'.last
    <3>0. d \in Calls /\ seqOf[d] \in Nat
      BY <1>6, <2>1 DEF SeqInv, SeqReach, Batches
    <3>1. CASE d \in Grouped
      <4>1. seqOf[d] <= vs.last + Cardinality(Grouped)
        BY <1>3, <3>1 DEF SeqInv, SeqLast
      <4> QED BY <1>7, <4>1
    <3>2. CASE d \notin Grouped
      <4>1. seqOf[d] <= vs.last
        BY <1>3, <2>1, <3>2 DEF SeqInv, SeqLast
      <4>2. PICK a \in Nat : a = Cardinality(Grouped)
        BY <1>6
      <4>3. vs'.last = vs.last + a
        BY <1>7, <4>2
      <4> QED BY <1>6, <3>0, <4>1, <4>3
    <3> QED BY <3>1, <3>2
  <2> QED BY <1>1, <1>5, <1>8, <2>1 DEF SeqLast
<1>13. SeqFiles'
  <2>1. Described' = Described /\ Describable' = Describable /\ Described.last \in Nat
    BY <1>1, ManifestFrame, BaseFacts, GroupedFacts
  <2>2. Described.last <= vs'.last
    <3>1. Described.last <= vs.last
      BY <1>3 DEF SeqInv, SeqFiles
    <3>2. PICK a \in Nat : a = Cardinality(Grouped)
      BY <1>6
    <3>3. vs'.last = vs.last + a
      BY <1>7, <3>2
    <3> QED BY <1>6, <2>1, <3>1, <3>3
  <2>3. \A v \in Describable :
          /\ \A d \in In(Live(v), tables) : seqOf[d] <= v.last
          /\ v.last <= Described.last
    BY DEF SeqInv, SeqFiles
  <2> QED BY <1>1, <1>5, <2>1, <2>2, <2>3 DEF SeqFiles
<1>14. SeqReplay'
  BY <1>1, <1>3 DEF SeqReplay
<1> QED BY <1>11, <1>12, <1>13, <1>14 DEF SeqInv

(* MakeRoomForWrite, when it gives up or finds room.                        *)
LEMMA RoomSeq ==
  ASSUME Base, Base', LogNumbers, SeqInv, NEW c \in Calls,
         RoomError(c) \/ RoomSwitchFails(c) \/ RoomFound(c) \/ RoomSwitch(c)
  PROVE  SeqInv'
<1>1. /\ phase = "open" /\ phase' = "open" /\ pc[c] = "room"
      /\ UNCHANGED <<tables, man, tail>>
  BY DEF RoomError, RoomSwitchFails, RoomFound, RoomSwitch, CanSwitch, AtFront, disk, flags
<1>2. Grouped = {} /\ group = <<>> /\ queue # <<>> /\ queue[1] = c
  BY <1>1, FrontAlone
<1>3. vs \in Version /\ vs.last \in Nat /\ \A d \in Calls : seqOf'[d] \in Nat
  <2>1. \A d \in Calls : seqOf'[d] \in Nat
    BY DEF Base, TInv, CallsOK
  <2> QED BY <2>1, BaseFacts
<1>4. Reach' \subseteq Reach /\ vs'.last = vs.last
  <2>1. CASE RoomError(c) \/ RoomSwitchFails(c) \/ RoomFound(c)
    <3>1. UNCHANGED <<phase, mem, imm, logs, tables, man, tail, vs>>
      BY <2>1 DEF RoomError, RoomSwitchFails, RoomFound, disk, core, flags
    <3> QED BY <3>1, ReachSame
  <2>2. CASE RoomSwitch(c)
    <3>1. /\ logs' = Put(logs, vs.next, [recs |-> <<>>, synced |-> 0])
          /\ vs' = [vs EXCEPT !.next = @ + 1]
          /\ imm' = mem /\ mem' = {} /\ ~hasImm
      BY <2>2 DEF RoomSwitch, CanSwitch
    <3>2. imm = {}
      BY <3>1 DEF Base, StagesInv, BackgroundInv
    <3>3. Live(vs') = Live(vs) /\ vs'.last = vs.last
      BY <1>3, <3>1 DEF Version, Live
    <3>4. Describable' = Describable
      BY <1>1, ManifestFrame
    <3>5. Held' = Held
      BY <1>1, <3>1, <3>2, <3>3 DEF Held
    <3>6. ASSUME NEW v, NEW d, d \in Recoverable(v, logs', tables)
          PROVE  d \in Recoverable(v, logs, tables)
      <4>1. \A n \in DOMAIN logs' : \/ n \in DOMAIN logs /\ logs'[n] = logs[n]
                                    \/ logs'[n].recs = <<>>
        BY <3>1 DEF Put
      <4>2. \A n \in DOMAIN logs' : d \in ReadLog(logs'[n].recs) =>
               n \in DOMAIN logs /\ logs'[n] = logs[n]
        BY <4>1, ReadLogEmpty
      <4>3. CASE d \in In(Live(v), tables)
        BY <4>3, RecoverableIs
      <4>4. ASSUME NEW n \in DOMAIN logs', n >= v.log, d \in ReadLog(logs'[n].recs)
            PROVE  d \in Recoverable(v, logs, tables)
        BY <4>2, <4>4, RecoverableIs
      <4> QED BY <3>6, <4>3, <4>4, RecoverableIs
    <3> QED BY <1>1, <3>3, <3>4, <3>5, <3>6 DEF Reach
  <2> QED BY <2>1, <2>2
<1>5. CASE StartLogging(c)
  <2>1. /\ Grouped' \subseteq Batches /\ Cardinality(Grouped') \in Nat
        /\ \A d \in Grouped' : pc[d] \notin {"idle", "done"}
        /\ \A d \in Calls \ Grouped' : seqOf'[d] = seqOf[d]
        /\ \A d \in Grouped' : seqOf'[d] > vs.last /\ seqOf'[d] <= vs.last + Cardinality(Grouped')
        /\ \A d, e \in Grouped' : seqOf'[d] = seqOf'[e] => d = e
        /\ pc' = [pc EXCEPT ![c] = "append"]
    BY <1>5, StartNumbers
  <2>2. \A d \in Grouped' : seqOf'[d] \in Nat
    BY <1>3, <2>1 DEF Batches
  <2>3. pc \in [Calls -> Stages]
    BY DEF Base, QInv, QueueType
  <2>4. \A d \in Calls : pc[d] = "done" => pc'[d] = "done"
    BY <1>1, <2>1, <2>3
  <2> QED BY <1>1, <1>2, <1>4, <2>1, <2>2, <2>4, SeqStart
<1>6. ASSUME NEW st, Leave(1, st, pc), seqOf' = seqOf PROVE SeqInv'
  <2>1. 1 \in 1..Len(queue)
    <3>1. queue \in Seq(Calls)
      BY DEF Base, QInv, QueueType
    <3>2. Len(queue) \in Nat \ {0}
      BY <1>2, <3>1, EmptySeq, LenProperties
    <3> QED BY <3>2
  <2>2. /\ \A d \in Calls : pc[d] = "done" => pc'[d] = "done"
        /\ group' = <<>>
    BY <1>6, <2>1, LeaveDone
  <2>3. Grouped' = {}
    BY <2>2, NoGroup DEF Grouped
  <2>4. Cardinality(Grouped') \in Nat
    BY <2>3, FS_EmptySet
  <2> QED BY <1>1, <1>2, <1>4, <1>6, <2>2, <2>3, <2>4, SeqStart
<1>7. StartLogging(c) \/ \E st : Leave(1, st, pc) /\ seqOf' = seqOf
  BY DEF RoomError, RoomSwitchFails, RoomFound, RoomSwitch
<1> QED BY <1>5, <1>6, <1>7

(* The log, the memtable, and the calls that only wait.                     *)
LEMMA WriterSeq ==
  ASSUME Base, Base', LogNumbers, SeqInv, NEW c \in Calls, Enqueue(c) \/ WriterStep(c)
  PROVE  SeqInv'
<1>1. phase = "open" /\ phase' = "open"
  BY WorkingStaysOpen DEF Working, Base, StagesInv
<1>2. /\ pc \in [Calls -> Stages] /\ LogsOK(logs)
      /\ Grouped \in SUBSET Batches /\ Torn \in SUBSET Batches
      /\ logfile \in DOMAIN logs
  BY <1>1, GroupedFacts DEF Base, QInv, QueueType, TInv, DiskOK, Torn, LogNumbers
<1>3. CASE RoomError(c) \/ RoomSwitchFails(c) \/ RoomFound(c) \/ RoomSwitch(c)
  BY <1>3, RoomSeq
<1>4. CASE FinishWrite(c)
  BY <1>4, FinishSeq
<1>5. CASE Enqueue(c)
  <2>1. /\ UNCHANGED <<group, imm, tables, man, tail, vs, mem, logs>> /\ pc[c] = "idle"
        /\ \E st : pc' = [pc EXCEPT ![c] = st]
        /\ seqOf' = IF c \in Forced THEN [seqOf EXCEPT ![c] = vs.last] ELSE seqOf
    BY <1>5 DEF Enqueue, disk, core
  <2>2. \A d \in Batches : seqOf'[d] = seqOf[d]
    BY <2>1 DEF Batches, Base, TInv, CallsOK
  <2>3. \A d \in Calls : pc[d] = "done" => pc'[d] = "done"
    BY <1>2, <2>1
  <2> QED BY <1>1, <2>1, <2>2, <2>3, SeqQuiet
<1>6. CASE RoomDelay(c) \/ RoomStall(c) \/ ForceWaits(c) \/ ForceReturns(c) \/ SyncLogFails(c)
  <2>1. /\ UNCHANGED <<group, imm, tables, man, tail, vs, mem, logs, seqOf>>
        /\ pc[c] # "done" /\ (pc' = pc \/ \E st : pc' = [pc EXCEPT ![c] = st])
    BY <1>6 DEF RoomDelay, RoomStall, ForceWaits, ForceReturns, SyncLogFails, AtFront, disk, core
  <2>2. \A d \in Calls : pc[d] = "done" => pc'[d] = "done"
    BY <1>2, <2>1
  <2> QED BY <1>1, <2>1, <2>2, SeqQuiet
<1>7. CASE AddRecord(c) \/ AddRecordFails(c)
  <2>1. /\ UNCHANGED <<group, imm, tables, man, tail, vs, mem, seqOf>>
        /\ pc[c] # "done" /\ \E st : pc' = [pc EXCEPT ![c] = st]
        /\ logs' = logs \/ \E rec \in {Torn, Grouped} : Append1(rec)
    BY <1>7 DEF AddRecord, AddRecordFails, core, Grouped
  <2>2. \A d \in Calls : pc[d] = "done" => pc'[d] = "done"
    BY <1>2, <2>1
  <2>3. ASSUME NEW rec \in {Torn, Grouped}, Append1(rec), NEW n \in DOMAIN logs'
        PROVE  n \in DOMAIN logs /\ ReadLog(logs'[n].recs) \subseteq ReadLog(logs[n].recs) \cup Grouped
    <3>0. rec \in SUBSET Batches /\ rec \subseteq Grouped
      BY <1>2 DEF Torn
    <3>1. /\ DOMAIN logs' = DOMAIN logs
          /\ \A m \in DOMAIN logs \ {logfile} : logs'[m] = logs[m]
          /\ logs'[logfile].recs = Append(logs[logfile].recs, rec)
      BY <1>2, <2>3, <3>0, AppendedRecord
    <3>2. logs[logfile].recs \in Seq(SUBSET Batches)
      BY <1>2 DEF LogsOK, Log
    <3>3. ReadLog(Append(logs[logfile].recs, rec)) \subseteq ReadLog(logs[logfile].recs) \cup rec
      BY <3>0, <3>2, ReadLogAppend
    <3>4. CASE n = logfile
      BY <1>2, <3>0, <3>1, <3>3, <3>4
    <3>5. CASE n # logfile
      BY <2>3, <3>1, <3>5
    <3> QED BY <3>4, <3>5
  <2>4. \A n \in DOMAIN logs' :
            n \in DOMAIN logs /\ ReadLog(logs'[n].recs) \subseteq ReadLog(logs[n].recs) \cup Grouped
    BY <2>1, <2>3
  <2> QED BY <1>1, <2>1, <2>2, <2>4, SeqQuiet
<1>8. CASE SyncLog(c)
  <2>1. /\ UNCHANGED <<group, imm, tables, man, tail, vs, mem, seqOf>>
        /\ pc[c] # "done" /\ \E st : pc' = [pc EXCEPT ![c] = st]
        /\ logs' = [logs EXCEPT ![logfile].synced = Durable]
    BY <1>8 DEF SyncLog, core
  <2>2. \A d \in Calls : pc[d] = "done" => pc'[d] = "done"
    BY <1>2, <2>1
  <2>3. DOMAIN logs' = DOMAIN logs /\ \A n \in DOMAIN logs : logs'[n].recs = logs[n].recs
    BY <1>2, <2>1, SyncedRecords
  <2> QED BY <1>1, <2>1, <2>2, <2>3, SeqQuiet
<1>9. CASE InsertInto(c)
  <2>1. /\ UNCHANGED <<group, imm, tables, man, tail, vs, logs, seqOf>>
        /\ pc[c] # "done" /\ \E st : pc' = [pc EXCEPT ![c] = st]
        /\ mem' = mem \cup Grouped
    BY <1>9 DEF InsertInto, disk, Grouped
  <2>2. \A d \in Calls : pc[d] = "done" => pc'[d] = "done"
    BY <1>2, <2>1
  <2> QED BY <1>1, <2>1, <2>2, SeqQuiet
<1> QED BY <1>3, <1>4, <1>5, <1>6, <1>7, <1>8, <1>9 DEF WriterStep

(* The steps that touch nothing that can be read.                           *)
LEMMA IdleSeq ==
  ASSUME Base, SeqInv,
         \/ Pin \/ Unpin \/ Close \/ BackgroundNothing \/ UNCHANGED vars
         \/ FlushStart \/ FlushFails \/ CompactionStart \/ OpenCompactionOutputFile
         \/ CompactionFails
  PROVE  SeqInv'
<1>1. CASE UNCHANGED vars
  <2>1. UNCHANGED <<logs, tables, man, tail, phase, mem, imm, vs, pc, group, seqOf, replay, logfile>>
    BY <1>1 DEF vars, disk, core, calls, flags
  <2>2. Grouped' = Grouped /\ Describable' = Describable /\ Described' = Described
        /\ LogsToRead(Described, logs)' = LogsToRead(Described, logs)
        /\ ReplayedLogs' = ReplayedLogs
    BY <2>1 DEF Grouped, Describable, Described, LogsToRead, ReplayedLogs
  <2>3. Reach' = Reach
    BY <2>1, ReachSame
  <2> QED BY <2>1, <2>2, <2>3 DEF SeqInv, SeqReach, SeqLast, SeqFiles, SeqReplay
<1>2. CASE ~UNCHANGED vars
  <2>1. phase = "open" /\ phase' = "open"
    <3>1. Working
      BY <1>2 DEF Working, BackgroundStep
    <3> QED BY <3>1, WorkingStaysOpen DEF Base, StagesInv
  <2>2. UNCHANGED <<logs, tables, man, tail, mem, imm, group, seqOf>>
    BY <1>2 DEF Pin, Unpin, Close, BackgroundNothing, FlushStart, FlushFails, CompactionStart,
                OpenCompactionOutputFile, CompactionFails, disk, core, calls, flags
  <2>3. pc' = pc \/ pc' = Woken(pc)
    BY <1>2 DEF Pin, Unpin, Close, BackgroundNothing, FlushStart, FlushFails, CompactionStart,
                OpenCompactionOutputFile, CompactionFails, BackgroundEnd, calls
  <2>4. vs' = vs \/ vs' = [vs EXCEPT !.next = @ + 1]
    BY <1>2 DEF Pin, Unpin, Close, BackgroundNothing, FlushStart, FlushFails, CompactionStart,
                OpenCompactionOutputFile, CompactionFails, core
  <2>5. vs'.last = vs.last /\ Live(vs') = Live(vs)
    BY <2>4, BaseFacts DEF Version, Live
  <2>6. \A c \in Calls : pc[c] = "done" => pc'[c] = "done"
    BY <2>3, DoneStays
  <2> QED BY <2>1, <2>2, <2>5, <2>6, SeqQuiet
<1> QED BY <1>1, <1>2

(* The background thread: a table is built of what the memtable or older    *)
(* tables hold, and an edit is logged or installed.                         *)
LEMMA BackSeq ==
  ASSUME Base, SeqInv, phase = "open", phase' = "open", UNCHANGED <<mem, group, seqOf>>,
         pc' = pc \/ pc' = Woken(pc), vs'.last = vs.last,
         imm' \cup In(Live(vs'), tables') \subseteq imm \cup In(Live(vs), tables),
         \A n \in DOMAIN logs' : n \in DOMAIN logs /\ logs'[n] = logs[n],
         \A v \in Describable' :
            /\ v.last <= Described'.last
            /\ \/ v \in Describable /\ In(Live(v), tables') \subseteq In(Live(v), tables)
               \/ /\ v.last = vs.last /\ v \in Version
                  /\ In(Live(v), tables') \subseteq
                        imm \cup In(Live(vs), tables) \cup In(Live(Described), tables)
                  /\ \E w \in Describable : w.log <= v.log,
         Described'.last <= vs.last
  PROVE  SeqInv'
<1>1. LogsOK(logs) /\ Described \in Describable /\ \A v \in Describable : v.log \in Nat
  BY BaseFacts DEF Base, TInv, DiskOK
<1>2. \A c \in Calls : pc[c] = "done" => pc'[c] = "done"
  BY DoneStays
<1>3. imm \cup In(Live(vs), tables) \cup In(Live(Described), tables) \subseteq Reach
  <2>1. In(Live(Described), tables) \subseteq Reach
    BY <1>1, ReachIs, RecoverableIs
  <2> QED BY <2>1 DEF Reach, Held
<1>4. Reach' \subseteq Reach
  <2> SUFFICES ASSUME NEW c \in Reach' PROVE c \in Reach
    OBVIOUS
  <2>1. CASE c \in Held'
    BY <1>3, <2>1, ReachIs DEF Held
  <2>2. ASSUME NEW v \in Describable', c \in Recoverable(v, logs', tables')
        PROVE  c \in Reach
    <3>1. CASE c \in In(Live(v), tables')
      <4>1. CASE v \in Describable /\ In(Live(v), tables') \subseteq In(Live(v), tables)
        BY <3>1, <4>1, ReachIs, RecoverableIs
      <4>2. CASE In(Live(v), tables') \subseteq
                    imm \cup In(Live(vs), tables) \cup In(Live(Described), tables)
        BY <1>3, <3>1, <4>2
      <4> QED BY <4>1, <4>2
    <3>2. ASSUME NEW n \in DOMAIN logs', n >= v.log, c \in ReadLog(logs'[n].recs)
          PROVE  c \in Reach
      <4>1. PICK w \in Describable : w.log <= v.log
        BY <1>1
      <4>2. n \in DOMAIN logs /\ c \in ReadLog(logs[n].recs) /\ n \in Nat
        BY <1>1, <3>2 DEF LogsOK
      <4>3. v.log \in Nat
        BY <1>1 DEF Version
      <4>4. n >= w.log
        BY <1>1, <3>2, <4>1, <4>2, <4>3
      <4> QED BY <4>1, <4>2, <4>4, ReachIs, RecoverableIs
    <3> QED BY <2>2, <3>1, <3>2, RecoverableIs
  <2>3. \/ c \in Held'
        \/ \E v \in Describable' : c \in Recoverable(v, logs', tables')
    BY DEF Reach
  <2> QED BY <2>1, <2>2, <2>3
<1> QED BY <1>2, <1>4, SeqFrame

(* Where a new table is not among a version's files, these are as before.   *)
LEMMA PutIn ==
  ASSUME NEW F, NEW n, n \notin F, NEW x
  PROVE  In(F, Put(tables, n, x)) = In(F, tables)
BY DEF In, Put

LEMMA DeletedIn ==
  ASSUME NEW F, NEW v, NEW base, NEW pend, DeleteObsoleteFiles(v, base, pend, tables)
  PROVE  In(F, tables') \subseteq In(F, tables)
<1>1. \A n \in DOMAIN tables' : n \in DOMAIN tables /\ tables'[n] = tables[n]
  BY DeletedTables
<1> QED BY <1>1, InLess

LEMMA DeletedLogs ==
  ASSUME Base, NEW v, NEW base, NEW pend, DeleteObsoleteFiles(v, base, pend, tables)
  PROVE  \A n \in DOMAIN logs' : n \in DOMAIN logs /\ logs'[n] = logs[n]
<1>1. /\ LogsOK(logs) /\ LogsOK(ghosts)
      /\ DOMAIN tables \subseteq Nat /\ tables \in [DOMAIN tables -> SUBSET Batches]
  BY DEF Base, TInv, DiskOK
<1> QED BY <1>1, DeleteEffect

LEMMA FlushBuiltSeq ==
  ASSUME Base, TablesInv, LogNumbers, SeqInv, FlushBuilt
  PROVE  SeqInv'
<1>1. /\ fl = "build"
      /\ tables' = IF imm = {} THEN tables ELSE Put(tables, fnum, imm)
      /\ UNCHANGED <<man, vs, imm, mem, logs, phase, pc, group, seqOf>>
  BY DEF FlushBuilt, core, calls
<1>2. phase = "open" /\ phase' = "open"
  BY <1>1, AtWork
<1>3. PICK lvl \in {0, 1} :
         LogEdit(Edit(IF lvl = 0 /\ imm # {} THEN {fnum} ELSE {},
                      IF lvl = 1 /\ imm # {} THEN {fnum} ELSE {}, {}, logfile))
  BY DEF FlushBuilt, FlushLogNumber
<1>4. /\ tail \in Edits /\ man \in Version /\ vs \in Version /\ Described \in Version
      /\ fnum \in Nat /\ logfile \in Nat /\ vs.last \in Nat /\ Described \in Describable
      /\ \A v \in Describable : v.next \in Nat /\ Live(v) \subseteq Nat /\ v.last \in Nat
      /\ Live(vs) \subseteq Nat
  BY BaseFacts
<1>5. PICK a \in SUBSET Nat, b \in SUBSET Nat :
         /\ a \cup b = IF imm = {} THEN {} ELSE {fnum}
         /\ LogEdit(Edit(a, b, {}, logfile))
  <2>1. /\ (IF lvl = 0 /\ imm # {} THEN {fnum} ELSE {}) \in SUBSET Nat
        /\ (IF lvl = 1 /\ imm # {} THEN {fnum} ELSE {}) \in SUBSET Nat
    BY <1>4
  <2> QED BY <1>3, <2>1
<1>6. PICK e \in VersionEdit :
         /\ e.add0 = a /\ e.add1 = b /\ e.del = {} /\ e.log = logfile /\ e.last = vs.last
         /\ LogEdit(e)
  BY <1>4, <1>5, EditType
<1>7. /\ Described' = Apply(Described, e)
      /\ Describable' = Describable \cup {Described'}
  BY <1>1, <1>4, <1>6, LogEditAdds
<1>8. /\ Described' \in Version /\ Described'.last = vs.last /\ Described'.log = logfile
      /\ Live(Described') = Live(Described) \cup (IF imm = {} THEN {} ELSE {fnum})
  BY <1>4, <1>5, <1>6, <1>7, ApplyType
<1>9. \A v \in Describable : fnum \notin Live(v)
  <2> SUFFICES ASSUME NEW v \in Describable, fnum \in Live(v) PROVE FALSE
    OBVIOUS
  <2>1. fnum < v.next /\ v.next <= fnum
    BY <1>1 DEF TablesInv, TableNumbers, Below
  <2> QED BY <1>4, <2>1
<1>10. fnum \notin Live(vs)
  <2>1. \A n \in Live(vs) : n < fnum
    BY <1>1 DEF TablesInv, TableNumbers, Below, LiveFiles
  <2> QED BY <1>4, <2>1
<1>11. \A F : fnum \notin F => In(F, tables') = In(F, tables)
  BY <1>1, PutIn
<1>12. imm' \cup In(Live(vs'), tables') = imm \cup In(Live(vs), tables)
  BY <1>1, <1>10, <1>11
<1>13. \A n \in DOMAIN logs' : n \in DOMAIN logs /\ logs'[n] = logs[n]
  BY <1>1
<1>14. \A v \in Describable : In(Live(v), tables') = In(Live(v), tables)
  BY <1>9, <1>11
<1>15. In(Live(Described'), tables') \subseteq imm \cup In(Live(Described), tables)
  <2> SUFFICES ASSUME NEW c \in In(Live(Described'), tables'), c \notin imm
               PROVE  c \in In(Live(Described), tables)
    OBVIOUS
  <2>1. PICK n \in Live(Described') : n \in DOMAIN tables' /\ c \in tables'[n]
    BY InIs
  <2>2. n \in Live(Described)
    <3> SUFFICES ASSUME n \notin Live(Described) PROVE FALSE
      OBVIOUS
    <3>1. imm # {} /\ n = fnum
      BY <1>8, <2>1
    <3>2. tables'[fnum] = imm
      BY <1>1, <3>1 DEF Put
    <3> QED BY <2>1, <3>1, <3>2
  <2>3. c \in In(Live(Described), tables')
    BY <2>1, <2>2, InIs
  <2> QED BY <1>4, <1>14, <2>3
<1>16. Described.last <= vs.last /\ Described.log <= logfile
       /\ \A v \in Describable : v.last <= Described.last
  BY <1>2, <1>4 DEF SeqInv, SeqFiles, LogNumbers
<1>17. \A v \in Describable : v.last <= Described'.last
  BY <1>4, <1>8, <1>16
<1>18. \A v \in Describable' :
            /\ v.last <= Described'.last
            /\ \/ v \in Describable /\ In(Live(v), tables') \subseteq In(Live(v), tables)
               \/ /\ v.last = vs.last /\ v \in Version
                  /\ In(Live(v), tables') \subseteq
                        imm \cup In(Live(vs), tables) \cup In(Live(Described), tables)
                  /\ \E w \in Describable : w.log <= v.log
  BY <1>4, <1>7, <1>8, <1>14, <1>15, <1>16, <1>17
<1>19. Described'.last <= vs.last
  BY <1>4, <1>8
<1> QED BY <1>1, <1>2, <1>12, <1>13, <1>18, <1>19, BackSeq

LEMMA FlushInstallSeq ==
  ASSUME Base, TablesInv, SeqInv, FlushInstall
  PROVE  SeqInv'
<1>1. /\ fl = "manifest" /\ SyncManifest /\ vs' = Installed /\ imm' = {}
      /\ DeleteObsoleteFiles(vs', cin.base, pending, tables)
      /\ pc' = pc \/ pc' = Woken(pc)
      /\ UNCHANGED <<mem, group, seqOf, phase>>
  BY DEF FlushInstall, BackgroundEnd, flags
<1>2. phase = "open" /\ phase' = "open"
  BY <1>1, AtWork
<1>3. /\ tail \in Edits /\ man \in Version /\ vs \in Version /\ Described \in Describable
      /\ Described.last \in Nat
  BY BaseFacts, GroupedFacts
<1>4. /\ tail # <<>> /\ Logged.del = {}
      /\ Logged.add0 \cup Logged.add1 = IF imm = {} THEN {} ELSE {fnum}
      /\ imm # {} => tables[fnum] = imm
  BY <1>1 DEF TablesInv, EditInv
<1>5. /\ vs'.last = vs.last
      /\ Live(vs') = Live(vs) \cup (IF imm = {} THEN {} ELSE {fnum})
  BY <1>1, <1>3, <1>4, InstalledType
<1>6. Describable' = {Described} /\ Described' = Described
  BY <1>1, <1>3, SyncLeavesOne
<1>7. In(Live(vs'), tables') \subseteq imm \cup In(Live(vs), tables)
  <2> SUFFICES ASSUME NEW c \in In(Live(vs'), tables), c \notin imm
               PROVE  c \in In(Live(vs), tables)
    BY <1>1, DeletedIn
  <2>1. PICK n \in Live(vs') : n \in DOMAIN tables /\ c \in tables[n]
    BY InIs
  <2>2. n \in Live(vs)
    BY <1>4, <1>5, <2>1
  <2> QED BY <2>1, <2>2, InIs
<1>8. \A n \in DOMAIN logs' : n \in DOMAIN logs /\ logs'[n] = logs[n]
  BY <1>1, DeletedLogs
<1>9. In(Live(Described), tables') \subseteq In(Live(Described), tables)
  BY <1>1, DeletedIn
<1>10. Described.last <= vs.last
  BY <1>2 DEF SeqInv, SeqFiles
<1> QED BY <1>1, <1>2, <1>3, <1>5, <1>6, <1>7, <1>8, <1>9, <1>10, BackSeq

(* An edit of the compaction: its files are of the current version, and so  *)
(* is what its output holds.                                                *)
LEMMA MoveSeq ==
  ASSUME Base, TablesInv, LogNumbers, SeqInv, phase = "open", phase' = "open",
         UNCHANGED <<man, tables, vs, imm, mem, logs, pc, group, seqOf>>,
         NEW f \in Nat, NEW D \in SUBSET Nat, LogEdit(Edit({}, {f}, D, vs.log)),
         f \in DOMAIN tables => tables[f] \subseteq In(Live(vs), tables)
  PROVE  SeqInv'
<1>1. /\ tail \in Edits /\ man \in Version /\ vs \in Version /\ Described \in Version
      /\ vs.log \in Nat /\ vs.last \in Nat /\ Described \in Describable
      /\ \A v \in Describable : v.last \in Nat /\ v.log \in Nat
      /\ man \in Describable
  BY BaseFacts DEF Describable
<1>2. PICK e \in VersionEdit :
         /\ e.add0 = {} /\ e.add1 = {f} /\ e.del = D /\ e.log = vs.log /\ e.last = vs.last
         /\ LogEdit(e)
  BY <1>1, EditType
<1>3. /\ Described' = Apply(Described, e)
      /\ Describable' = Describable \cup {Described'}
  BY <1>1, <1>2, LogEditAdds
<1>4. /\ Described' \in Version /\ Described'.last = vs.last /\ Described'.log = vs.log
      /\ Live(Described') = (Live(Described) \ D) \cup {f}
  BY <1>1, <1>2, <1>3, ApplyType
<1>5. In(Live(Described'), tables') \subseteq In(Live(vs), tables) \cup In(Live(Described), tables)
  <2> SUFFICES ASSUME NEW c \in In(Live(Described'), tables), c \notin In(Live(vs), tables)
               PROVE  c \in In(Live(Described), tables)
    OBVIOUS
  <2>1. PICK n \in Live(Described') : n \in DOMAIN tables /\ c \in tables[n]
    BY InIs
  <2>2. n \in Live(Described)
    BY <1>4, <2>1
  <2> QED BY <2>1, <2>2, InIs
<1>6. Described.last <= vs.last /\ man.log = vs.log
      /\ \A v \in Describable : v.last <= Described.last
  BY DEF SeqInv, SeqFiles, LogNumbers
<1>7. \A v \in Describable : v.last <= Described'.last
  BY <1>1, <1>4, <1>6
<1>8. \A v \in Describable' :
            /\ v.last <= Described'.last
            /\ \/ v \in Describable /\ In(Live(v), tables') \subseteq In(Live(v), tables)
               \/ /\ v.last = vs.last /\ v \in Version
                  /\ In(Live(v), tables') \subseteq
                        imm \cup In(Live(vs), tables) \cup In(Live(Described), tables)
                  /\ \E w \in Describable : w.log <= v.log
  <2>1. \A v \in Describable : In(Live(v), tables') = In(Live(v), tables)
    OBVIOUS
  <2>2. man.log <= Described'.log /\ Described'.last <= Described'.last
    BY <1>1, <1>4, <1>6
  <2>3. \E w \in Describable : w.log <= Described'.log
    BY <1>1, <2>2
  <2> QED BY <1>3, <1>4, <1>5, <1>7, <2>1, <2>2, <2>3
<1>9. Described'.last <= vs.last /\ vs'.last = vs.last
      /\ imm' \cup In(Live(vs'), tables') = imm \cup In(Live(vs), tables)
  BY <1>1, <1>4
<1> QED BY <1>8, <1>9, BackSeq

LEMMA CompactionSeq ==
  ASSUME Base, TablesInv, LogNumbers, SeqInv,
         TrivialMove \/ FinishCompactionOutputFile \/ InstallCompactionResults \/ CompactionInstall
  PROVE  SeqInv'
<1>1. /\ phase = "open" /\ phase' = "open"
      /\ UNCHANGED <<imm, mem, group, seqOf>> /\ (pc' = pc \/ pc' = Woken(pc))
  <2>1. Working
    BY DEF Working, BackgroundStep
  <2>2. UNCHANGED <<imm, mem, group, seqOf>> /\ (pc' = pc \/ pc' = Woken(pc))
    BY DEF TrivialMove, FinishCompactionOutputFile, InstallCompactionResults, CompactionInstall,
           BackgroundEnd, core, calls
  <2> QED BY <2>1, <2>2, WorkingStaysOpen DEF Base, StagesInv
<1>2. /\ tail \in Edits /\ man \in Version /\ vs \in Version /\ Described \in Describable
      /\ vs.last \in Nat /\ cout \in Nat /\ Live(vs) \subseteq Nat /\ vs.l0 \subseteq Nat
      /\ cin.files \subseteq Nat /\ Described.last \in Nat
  BY BaseFacts, GroupedFacts
<1>3. TableNumbers /\ FilesInv /\ EditInv
  BY DEF TablesInv
<1>4. /\ Described.last <= vs.last
      /\ \A v \in Describable : v.last <= Described.last
  BY <1>1 DEF SeqInv, SeqFiles
<1>5. CASE TrivialMove
  <2>1. PICK f \in vs.l0 : LogEdit(Edit({}, {f}, {f}, vs.log))
    BY <1>5 DEF TrivialMove
  <2>2. UNCHANGED <<man, tables, vs, imm, mem, logs, pc, group, seqOf>>
    BY <1>5 DEF TrivialMove, core, calls
  <2>3. f \in Nat /\ {f} \in SUBSET Nat /\ f \in Live(vs)
    BY <1>2, <2>1 DEF Live
  <2>4. f \in DOMAIN tables => tables[f] \subseteq In(Live(vs), tables)
    BY <2>3, InIs
  <2> QED BY <1>1, <2>1, <2>2, <2>3, <2>4, MoveSeq
<1>6. CASE InstallCompactionResults
  <2>1. LogEdit(Edit({}, {cout}, cin.files, vs.log)) /\ cp = "merged"
    BY <1>6 DEF InstallCompactionResults
  <2>2. UNCHANGED <<man, tables, vs, imm, mem, logs, pc, group, seqOf>>
    BY <1>6 DEF InstallCompactionResults, core, calls
  <2>3. tables[cout] = In(cin.files, tables) /\ cin.files \subseteq Live(vs)
    BY <1>3, <2>1 DEF FilesInv
  <2>4. tables[cout] \subseteq In(Live(vs), tables)
    BY <2>3, InLess
  <2>5. cin.files \in SUBSET Nat
    BY <1>2
  <2> QED BY <1>1, <1>2, <2>1, <2>2, <2>4, <2>5, MoveSeq
<1>7. CASE FinishCompactionOutputFile
  <2>1. /\ cp = "out" /\ tables' = Put(tables, cout, In(cin.files, tables))
        /\ UNCHANGED <<man, tail, vs, logs>>
    BY <1>7 DEF FinishCompactionOutputFile, core
  <2>2. /\ cout \notin Live(vs)
        /\ \A v \in Describable : cout \notin Live(v)
    BY <1>3, <2>1 DEF TableNumbers, LiveFiles
  <2>3. /\ In(Live(vs), tables') = In(Live(vs), tables)
        /\ \A v \in Describable : In(Live(v), tables') = In(Live(v), tables)
    BY <2>1, <2>2, PutIn
  <2>4. Described' = Described /\ Describable' = Describable
    BY <2>1, ManifestFrame
  <2> QED BY <1>1, <1>4, <2>1, <2>3, <2>4, BackSeq
<1>8. CASE CompactionInstall
  <2>1. /\ cp \in {"manifest", "move"} /\ SyncManifest /\ vs' = Installed
        /\ \/ UNCHANGED <<logs, tables>>
           \/ DeleteObsoleteFiles(vs', {}, pending', tables)
    BY <1>8 DEF CompactionInstall
  <2>2. tail # <<>> /\ Logged.add0 = {} /\ Logged.add1 = {cout}
    BY <1>3, <2>1 DEF EditInv
  <2>3. vs'.last = vs.last /\ Live(vs') \subseteq Live(vs) \cup {cout}
    BY <1>2, <2>1, <2>2, InstalledType
  <2>4. Describable' = {Described} /\ Described' = Described
    BY <1>2, <2>1, SyncLeavesOne
  <2>5. cout \in DOMAIN tables => tables[cout] \subseteq In(Live(vs), tables)
    <3>1. CASE cp = "manifest"
      <4>1. tables[cout] = In(cin.files, tables) /\ cin.files \subseteq Live(vs)
        BY <1>3, <3>1 DEF FilesInv
      <4> QED BY <4>1, InLess
    <3>2. CASE cp = "move"
      <4>1. cout \in Live(vs)
        BY <1>3, <3>2 DEF EditInv
      <4> QED BY <4>1, InIs
    <3> QED BY <2>1, <3>1, <3>2
  <2>6. \A F : In(F, tables') \subseteq In(F, tables)
    BY <2>1, DeletedIn
  <2>7. In(Live(vs'), tables') \subseteq In(Live(vs), tables)
    <3> SUFFICES ASSUME NEW c \in In(Live(vs'), tables) PROVE c \in In(Live(vs), tables)
      BY <2>6
    <3>1. PICK n \in Live(vs') : n \in DOMAIN tables /\ c \in tables[n]
      BY InIs
    <3>2. CASE n = cout
      BY <2>5, <3>1, <3>2
    <3>3. CASE n \in Live(vs)
      BY <3>1, <3>3, InIs
    <3> QED BY <2>3, <3>1, <3>2, <3>3
  <2>8. \A n \in DOMAIN logs' : n \in DOMAIN logs /\ logs'[n] = logs[n]
    BY <2>1, DeletedLogs
  <2> QED BY <1>1, <1>2, <1>4, <2>3, <2>4, <2>6, <2>7, <2>8, BackSeq
<1> QED BY <1>5, <1>6, <1>7, <1>8

LEMMA BackgroundSeq ==
  ASSUME Base, TablesInv, LogNumbers, SeqInv, BackgroundStep
  PROVE  SeqInv'
BY IdleSeq, FlushBuiltSeq, FlushInstallSeq, CompactionSeq DEF BackgroundStep

(* What a machine crash leaves of the MANIFEST and of the logs.             *)
LEMMA CrashLeavesOne ==
  ASSUME tail' = <<>>
  PROVE  Describable' = {man'} /\ Described' = man'
<1>1. DOMAIN <<>> = {}
  BY EmptyLogs
<1> QED BY <1>1 DEF Describable, Described

LEMMA CrashKeepsPrefix ==
  ASSUME Base, LogNumbers, MachineCrash
  PROVE  /\ man' \in Describable
         /\ \A n \in DOMAIN logs' : n >= man'.log =>
              /\ n \in DOMAIN logs
              /\ logs'[n].recs \in Seq(SUBSET Batches)
              /\ Len(logs'[n].recs) \in logs[n].synced..Len(logs[n].recs)
              /\ \A i \in 1..Len(logs'[n].recs) : logs'[n].recs[i] = logs[n].recs[i]
              /\ logs'[n].synced = Len(logs'[n].recs)
         /\ DOMAIN logs \subseteq DOMAIN logs'
<1>1. PICK keep \in Keeps, v \in Describable, back \in SUBSET DOMAIN ghosts :
        /\ logs' = [n \in DOMAIN logs \cup back |->
                      IF n \in DOMAIN logs THEN Cut(logs, keep)[n] ELSE ghosts[n]]
        /\ man' = v
  BY DEF MachineCrash
<1>2. LogsOK(logs) /\ LogsOK(ghosts) /\ v.log \in Nat
  BY BaseFacts DEF Base, TInv, DiskOK
<1>3. \A n \in DOMAIN logs : keep[n] \in logs[n].synced..Len(logs[n].recs)
  BY DEF Keeps
<1>4. /\ LogsOK(Cut(logs, keep)) /\ DOMAIN Cut(logs, keep) = DOMAIN logs
      /\ \A n \in DOMAIN logs :
           /\ keep[n] \in Nat
           /\ Cut(logs, keep)[n].synced = keep[n]
           /\ Len(Cut(logs, keep)[n].recs) = keep[n]
           /\ \A i \in 1..keep[n] : Cut(logs, keep)[n].recs[i] = logs[n].recs[i]
  BY <1>2, <1>3, CutLogs
<1>5. ASSUME NEW n \in DOMAIN logs', n >= man'.log
      PROVE  n \in DOMAIN logs
  <2> SUFFICES ASSUME n \in DOMAIN ghosts PROVE FALSE
    BY <1>1
  <2>1. n < v.log /\ n \in Nat
    BY <1>2 DEF LogNumbers, LogsOK
  <2> QED BY <1>1, <1>2, <1>5, <2>1
<1>6. \A n \in DOMAIN logs : logs'[n] = Cut(logs, keep)[n]
  BY <1>1
<1>7. \A n \in DOMAIN logs : Cut(logs, keep)[n].recs \in Seq(SUBSET Batches)
  BY <1>4 DEF LogsOK, Log
<1> QED BY <1>1, <1>3, <1>4, <1>5, <1>6, <1>7

(* The calls of a group are running.                                        *)
LEMMA GroupedBusy ==
  ASSUME Base, NEW c \in Grouped
  PROVE  pc[c] # "idle"
<1>1. group # <<>>
  BY NoGroup DEF Grouped
<1>2. PICK d \in Calls : pc[d] \in Logging
  BY <1>1 DEF Base, StagesInv, LoggingInv
<1>3. /\ Len(group) \in 1..Len(queue) /\ Len(queue) \in Nat
      /\ \A i \in 1..Len(group) : group[i] = queue[i]
  BY <1>2, QueuedNotDone DEF Base, QInv, FrontWriterOnly
<1>4. group \in Seq(Calls)
  BY DEF Base, TInv, CallsOK
<1>5. PICK i \in 1..Len(group) : group[i] = c
  BY <1>4, LenProperties DEF Grouped, InGroup, Range
<1>6. i \in 1..Len(queue)
  BY <1>3
<1> QED BY <1>3, <1>5, <1>6, QueuedNotDone

(* The process is gone; files hold what they held, or less of it.           *)
LEMMA GoneSeq ==
  ASSUME Base, LogNumbers, SeqInv, Gone, tables' = tables,
         \/ UNCHANGED <<logs, man, tail>>
         \/ MachineCrash
  PROVE  SeqInv'
<1>1. phase' = "down" /\ Grouped' = {} /\ seqOf' = seqOf
      /\ pc' = [c \in Calls |-> IF pc[c] = "idle" THEN "idle" ELSE "done"]
  BY NoGroup DEF Gone, Grouped
<1>2. LogsOK(logs) /\ Described \in Describable
  BY BaseFacts DEF Base, TInv, DiskOK
<1>3. /\ Describable' \subseteq Describable
      /\ \A v \in Describable' : v.last <= Described'.last
      /\ \A v \in Describable' : \A n \in DOMAIN logs' : n >= v.log =>
           n \in DOMAIN logs /\ ReadLog(logs'[n].recs) \subseteq ReadLog(logs[n].recs)
  <2>1. CASE UNCHANGED <<logs, man, tail>>
    <3>1. Describable' = Describable /\ Described' = Described
      BY <2>1, ManifestFrame
    <3> QED BY <2>1, <3>1 DEF SeqInv, SeqFiles
  <2>2. CASE MachineCrash
    <3>1. /\ man' \in Describable
          /\ \A n \in DOMAIN logs' : n >= man'.log =>
              /\ n \in DOMAIN logs
              /\ logs'[n].recs \in Seq(SUBSET Batches)
              /\ Len(logs'[n].recs) \in logs[n].synced..Len(logs[n].recs)
              /\ \A i \in 1..Len(logs'[n].recs) : logs'[n].recs[i] = logs[n].recs[i]
      BY <2>2, CrashKeepsPrefix
    <3>2. Describable' = {man'} /\ Described' = man'
      BY <2>2, CrashLeavesOne DEF MachineCrash
    <3>3. ASSUME NEW n \in DOMAIN logs', n >= man'.log
          PROVE  n \in DOMAIN logs /\ ReadLog(logs'[n].recs) \subseteq ReadLog(logs[n].recs)
      <4>1. logs[n].recs \in Seq(SUBSET Batches) /\ logs[n].synced \in Nat
        BY <1>2, <3>1, <3>3 DEF LogsOK, Log
      <4>2. Len(logs'[n].recs) <= Len(logs[n].recs)
        BY <3>1, <3>3, <4>1, LenProperties
      <4> QED BY <3>1, <3>3, <4>1, <4>2, ReadLogPrefix
    <3>4. man'.last \in Nat
      BY <3>1, GroupedFacts
    <3>5. man'.last <= man'.last
      BY <3>4
    <3> QED BY <3>1, <3>2, <3>3, <3>5
  <2> QED BY <2>1, <2>2
<1>4. Reach' \subseteq Reach
  <2> SUFFICES ASSUME NEW v \in Describable', NEW c \in Recoverable(v, logs', tables)
               PROVE  c \in Reach
    BY <1>1 DEF Reach
  <2>1. c \in In(Live(v), tables) \cup Recoverable(v, logs, tables)
    BY <1>3, RecoverableLess
  <2>2. c \in Recoverable(v, logs, tables)
    BY <2>1, RecoverableIs
  <2> QED BY <1>3, <2>2, ReachIs
<1>5. SeqReach'
  <2>1. ASSUME NEW c \in Reach' PROVE c \in Batches /\ pc'[c] = "done"
    <3>1. c \in Batches /\ c \in Calls /\ (pc[c] = "done" \/ c \in Grouped)
      BY <1>4, <2>1 DEF SeqInv, SeqReach, Batches
    <3>2. pc[c] # "idle"
      BY <3>1, GroupedBusy
    <3> QED BY <1>1, <3>1, <3>2
  <2>2. \A c, d \in Reach' : seqOf[c] = seqOf[d] => c = d
    BY <1>4 DEF SeqInv, SeqReach
  <2>3. \A c \in Reach' : seqOf[c] >= 1
    BY <1>4 DEF SeqInv, SeqReach
  <2> QED BY <1>1, <2>1, <2>2, <2>3 DEF SeqReach
<1>6. SeqLast' /\ SeqReplay'
  BY <1>1 DEF SeqLast, SeqReplay
<1>7. SeqFiles'
  <2>1. \A v \in Describable : \A c \in In(Live(v), tables) : seqOf[c] <= v.last
    BY DEF SeqInv, SeqFiles
  <2> QED BY <1>1, <1>3, <2>1 DEF SeqFiles
<1> QED BY <1>5, <1>6, <1>7 DEF SeqInv

(* DB::Open reads the MANIFEST, ...                                         *)
LEMMA RecoverSeq ==
  ASSUME Base, SeqInv, Recover
  PROVE  SeqInv'
<1>1. /\ phase = "down" /\ phase' = "replay"
      /\ vs' = [Described EXCEPT !.next = MaxNat({Described.next + 1, Described.log + 1})]
      /\ replay' = [NoReplay EXCEPT !.todo = LogsToRead(Described, logs)]
      /\ UNCHANGED <<logs, tables, man, tail, logfile, pc, group, seqOf>>
  BY DEF Recover, disk, calls
<1>2. Described' = Described /\ Describable' = Describable /\ Grouped' = Grouped
  BY <1>1, ManifestFrame DEF Grouped
<1>3. Reach' = Reach
  BY <1>1, <1>2 DEF Reach
<1>4. Described \in Version /\ Described.last \in Nat /\ logfile = 0
  BY <1>1, BaseFacts DEF Base, StagesInv, BackgroundInv
<1>5. vs'.last = Described.last /\ replay'.todo = LogsToRead(Described, logs)
      /\ replay'.add = {}
  BY <1>1, <1>4 DEF Version, NoReplay
<1>6. LogsToRead(Described, logs)' = LogsToRead(Described, logs)
  BY <1>1, <1>2
<1>7. SeqReplay'
  <2>1. In(replay'.add, tables') = {}
    BY <1>5 DEF In
  <2>2. vs'.last >= Described'.last
    BY <1>2, <1>4, <1>5
  <2> QED BY <1>1, <1>4, <1>5, <1>6, <2>1, <2>2 DEF SeqReplay
<1>8. SeqReach' /\ SeqLast'
  BY <1>1, <1>2, <1>3 DEF SeqInv, SeqReach, SeqLast
<1>9. SeqFiles'
  BY <1>1, <1>2 DEF SeqInv, SeqFiles
<1> QED BY <1>7, <1>8, <1>9 DEF SeqInv

(* ... then the logs from the oldest, ...                                   *)
LEMMA ReplaySeq ==
  ASSUME Base, TablesInv, LogNumbers, SeqInv, RecoverLogFile \/ RecoverLogFileFails
  PROVE  SeqInv'
<1>1. /\ phase = "replay" /\ phase' = "replay" /\ logfile = 0 /\ logfile' = 0
      /\ replay.todo # {}
      /\ UNCHANGED <<logs, man, tail, pc, group, seqOf>>
  BY DEF RecoverLogFile, RecoverLogFileFails, ReplayNext, disk, calls
<1>2. /\ replay \in [todo : SUBSET Nat, add : SUBSET Nat, max : Nat, err : BOOLEAN]
      /\ vs \in Version /\ vs.next \in Nat /\ vs.last \in Nat
      /\ \A v \in Describable : v.next \in Nat /\ Live(v) \subseteq Nat
      /\ \A c \in Calls : seqOf[c] \in Nat
  BY BaseFacts, GroupedFacts DEF Base, TInv, StageOK
<1>3. /\ NextLog \in replay.todo /\ NextLog \in DOMAIN logs
      /\ Replayed \subseteq Batches
      /\ MaxSeen \in Nat /\ MaxSeen >= replay.max
      /\ \A c \in Replayed : seqOf[c] <= MaxSeen
  BY <1>1, ReplayType DEF Base
<1>4. Described' = Described /\ Describable' = Describable /\ Grouped' = Grouped
  BY <1>1, ManifestFrame DEF Grouped
<1>5. vs'.last = vs.last
  <2>1. \E x : vs' = [vs EXCEPT !.next = x]
    BY DEF RecoverLogFile, RecoverLogFileFails
  <2> QED BY <1>2, <2>1 DEF Version
<1>6. /\ replay'.todo = replay.todo \ {NextLog}
      /\ replay'.max >= replay.max /\ replay'.max \in Nat
      /\ \A c \in Replayed : seqOf[c] <= replay'.max
      /\ \/ tables' = tables /\ replay'.add = replay.add
         \/ tables' = Put(tables, vs.next, Replayed) /\ replay'.add = replay.add \cup {vs.next}
  <2>1. CASE RecoverLogFile /\ Replayed = {}
    <3>1. tables' = tables
          /\ replay' = [replay EXCEPT !.todo = replay.todo \ {NextLog}, !.err = FALSE]
      BY <2>1 DEF RecoverLogFile
    <3>2. replay'.todo = replay.todo \ {NextLog} /\ replay'.max = replay.max
          /\ replay'.add = replay.add
      BY <1>2, <3>1
    <3> QED BY <1>2, <2>1, <3>1, <3>2
  <2>2. CASE RecoverLogFile /\ Replayed # {}
    <3>1. /\ tables' = Put(tables, vs.next, Replayed)
          /\ replay' = [todo |-> replay.todo \ {NextLog}, add |-> replay.add \cup {vs.next},
                        max |-> MaxSeen, err |-> FALSE]
      BY <2>2 DEF RecoverLogFile
    <3>2. replay'.todo = replay.todo \ {NextLog} /\ replay'.max = MaxSeen
          /\ replay'.add = replay.add \cup {vs.next}
      BY <3>1
    <3> QED BY <1>3, <3>1, <3>2
  <2>3. CASE RecoverLogFileFails
    <3>1. /\ tables' = tables
          /\ replay' = [replay EXCEPT !.todo = @ \ {NextLog}, !.max = MaxSeen, !.err = TRUE]
      BY <2>3 DEF RecoverLogFileFails, disk
    <3>2. replay'.todo = replay.todo \ {NextLog} /\ replay'.max = MaxSeen
          /\ replay'.add = replay.add
      BY <1>2, <3>1
    <3> QED BY <1>3, <3>1, <3>2
  <2> QED BY <2>1, <2>2, <2>3
<1>7. vs.next \notin replay.add /\ \A v \in Describable : vs.next \notin Live(v)
  <2>1. /\ Below(replay.add, vs.next)
        /\ \A v \in Describable : v.next <= vs.next /\ Below(Live(v), v.next)
    BY <1>1 DEF TablesInv, TableNumbers
  <2>2. vs.next \notin replay.add
    BY <1>2, <2>1 DEF Below
  <2>3. ASSUME NEW v \in Describable, vs.next \in Live(v) PROVE FALSE
    <3>1. vs.next < v.next /\ v.next <= vs.next
      BY <2>1, <2>3 DEF Below
    <3> QED BY <1>2, <3>1
  <2> QED BY <2>2, <2>3
<1>8. \A F : vs.next \notin F => In(F, tables') = In(F, tables)
  BY <1>6, PutIn
<1>9. \A v \in Describable : In(Live(v), tables') = In(Live(v), tables)
  BY <1>7, <1>8
<1>10. Reach' = Reach
  <2>1. \A v \in Describable : Recoverable(v, logs', tables') = Recoverable(v, logs, tables)
    BY <1>1, <1>9 DEF Recoverable
  <2> QED BY <1>1, <1>4, <2>1 DEF Reach
<1>11. NextLog \in LogsToRead(Described, logs) /\ LogsToRead(Described, logs)' = LogsToRead(Described, logs)
  BY <1>1, <1>3, <1>4 DEF LogNumbers
<1>12. ReplayedLogs' = ReplayedLogs /\ Replayed \subseteq ReplayedLogs
  BY <1>1, <1>4, <1>11 DEF ReplayedLogs, Replayed
<1>13. In(replay.add, tables) \subseteq ReplayedLogs
  BY <1>1 DEF SeqInv, SeqReplay, ReplayedLogs
<1>14. In(replay'.add, tables') \subseteq ReplayedLogs
  <2>1. CASE tables' = tables /\ replay'.add = replay.add
    BY <1>13, <2>1
  <2>2. CASE tables' = Put(tables, vs.next, Replayed) /\ replay'.add = replay.add \cup {vs.next}
    <3> SUFFICES ASSUME NEW c \in In(replay'.add, tables'), c \notin Replayed
                 PROVE  c \in In(replay.add, tables)
      BY <1>12, <1>13
    <3>1. PICK n \in replay'.add : n \in DOMAIN tables' /\ c \in tables'[n]
      BY InIs
    <3>2. tables'[vs.next] = Replayed
      BY <2>2 DEF Put
    <3>3. n \in replay.add
      BY <2>2, <3>1, <3>2
    <3>4. c \in In(replay.add, tables')
      BY <3>1, <3>3, InIs
    <3> QED BY <1>7, <1>8, <3>4
  <2> QED BY <1>6, <2>1, <2>2
<1>15. \A n \in LogsToRead(Described, logs) \ replay'.todo :
          \A c \in ReadLog(logs[n].recs) : seqOf[c] <= replay'.max
  <2> SUFFICES ASSUME NEW n \in LogsToRead(Described, logs) \ replay'.todo,
                      NEW c \in ReadLog(logs[n].recs)
               PROVE  seqOf[c] <= replay'.max
    OBVIOUS
  <2>1. CASE n = NextLog
    BY <1>6, <2>1 DEF Replayed
  <2>2. CASE n # NextLog
    <3>1. n \in LogsToRead(Described, logs) \ replay.todo
      BY <1>6, <2>2
    <3>2. seqOf[c] <= replay.max
      BY <1>1, <3>1 DEF SeqInv, SeqReplay
    <3>3. c \in Calls
      <4>1. logs[n].recs \in Seq(SUBSET Batches)
        BY DEF LogsToRead, Base, TInv, DiskOK, LogsOK, Log
      <4> QED BY <4>1, ReadLogType DEF Batches
    <3>4. seqOf[c] \in Nat /\ replay.max \in Nat
      BY <1>2, <3>3
    <3> QED BY <1>6, <3>2, <3>4
  <2> QED BY <2>1, <2>2
<1>16. SeqReplay'
  <2>1. vs.last >= Described.last
    BY <1>1 DEF SeqInv, SeqReplay
  <2> QED BY <1>1, <1>4, <1>5, <1>11, <1>12, <1>14, <1>15, <2>1 DEF SeqReplay, ReplayedLogs
<1>17. SeqReach' /\ SeqLast'
  BY <1>1, <1>4, <1>10 DEF SeqInv, SeqReach, SeqLast
<1>18. SeqFiles'
  BY <1>1, <1>4, <1>9 DEF SeqInv, SeqFiles
<1> QED BY <1>16, <1>17, <1>18 DEF SeqInv

(* ... begins a new log, ...                                                *)
LEMMA OpenLogSeq ==
  ASSUME Base, LogNumbers, SeqInv, OpenLog
  PROVE  SeqInv'
<1>1. /\ phase = "replay" /\ phase' = "replay" /\ logfile = 0 /\ replay.todo = {} /\ replay' = replay
      /\ logs' = Put(logs, vs.next, [recs |-> <<>>, synced |-> 0])
      /\ vs' = [vs EXCEPT !.next = @ + 1, !.last = MaxNat({@, replay.max})]
      /\ UNCHANGED <<tables, man, tail, pc, group, seqOf>>
  BY DEF OpenLog, calls
<1>2. Described' = Described /\ Describable' = Describable /\ Grouped' = Grouped
  BY <1>1, ManifestFrame DEF Grouped
<1>3. /\ vs.next \in Nat /\ vs.last \in Nat /\ vs \in Version /\ replay.max \in Nat
      /\ DOMAIN logs \subseteq Nat /\ Described.last \in Nat /\ Described \in Describable
  BY BaseFacts, GroupedFacts DEF Base, TInv, DiskOK, LogsOK, StageOK
<1>4. vs.next \notin DOMAIN logs
  <2>1. \A n \in DOMAIN logs : n < vs.next
    BY <1>1 DEF LogNumbers
  <2> QED BY <1>3, <2>1
<1>5. /\ DOMAIN logs' = DOMAIN logs \cup {vs.next} /\ logs'[vs.next].recs = <<>>
      /\ \A n \in DOMAIN logs : logs'[n] = logs[n]
  BY <1>1, <1>4 DEF Put
<1>6. vs'.last \in Nat /\ vs'.last >= vs.last /\ vs'.last >= replay.max
  <2>1. PICK x : x = MaxNat({vs.last, replay.max})
    OBVIOUS
  <2>2. x \in Nat /\ x >= vs.last /\ x >= replay.max
    BY <1>3, <2>1, MaxNatPair
  <2>3. vs'.last = x
    BY <1>1, <1>3, <2>1 DEF Version
  <2> QED BY <2>2, <2>3
<1>7. Reach' \subseteq Reach
  <2> SUFFICES ASSUME NEW v \in Describable, NEW c \in Recoverable(v, logs', tables)
               PROVE  c \in Recoverable(v, logs, tables)
    BY <1>1, <1>2 DEF Reach
  <2>1. ASSUME NEW n \in DOMAIN logs', n >= v.log, c \in ReadLog(logs'[n].recs)
        PROVE  c \in Recoverable(v, logs, tables)
    <3>1. n \in DOMAIN logs
      BY <1>5, <2>1, ReadLogEmpty
    <3> QED BY <1>5, <2>1, <3>1, RecoverableIs
  <2> QED BY <2>1, RecoverableIs
<1>8. LogsToRead(Described, logs) \subseteq LogsToRead(Described, logs)'
      /\ LogsToRead(Described, logs)' \subseteq LogsToRead(Described, logs) \cup {vs.next}
  BY <1>2, <1>5 DEF LogsToRead
<1>9. SeqReplay'
  <2>1. ReplayedLogs \subseteq ReplayedLogs'
    <3>1. \A n \in LogsToRead(Described, logs) : ReadLog(logs'[n].recs) = ReadLog(logs[n].recs)
      BY <1>5 DEF LogsToRead
    <3> QED BY <1>8, <3>1 DEF ReplayedLogs
  <2>2. In(replay.add, tables) \subseteq ReplayedLogs'
    BY <1>1, <2>1 DEF SeqInv, SeqReplay, ReplayedLogs
  <2>3. ASSUME NEW n \in LogsToRead(Described, logs)', NEW c \in ReadLog(logs'[n].recs)
        PROVE  seqOf[c] <= replay.max
    <3>1. n # vs.next
      BY <1>5, <2>3, ReadLogEmpty
    <3>2. n \in LogsToRead(Described, logs) \ replay.todo /\ logs'[n] = logs[n]
      BY <1>1, <1>5, <1>8, <2>3, <3>1 DEF LogsToRead
    <3> QED BY <1>1, <2>3, <3>2 DEF SeqInv, SeqReplay
  <2>4. vs.last >= Described.last
    BY <1>1 DEF SeqInv, SeqReplay
  <2>5. vs'.last >= Described.last
    BY <1>3, <1>6, <2>4
  <2> QED BY <1>1, <1>2, <1>6, <2>2, <2>3, <2>5 DEF SeqReplay, ReplayedLogs
<1>10. SeqReach'
  BY <1>1, <1>2, <1>7 DEF SeqInv, SeqReach
<1>11. SeqLast' /\ SeqFiles'
  BY <1>1, <1>2 DEF SeqInv, SeqLast, SeqFiles
<1> QED BY <1>9, <1>10, <1>11 DEF SeqInv

(* ... and installs what was read as the current version.                   *)
LEMMA OpenInstallSeq ==
  ASSUME Base, Base', TablesInv, LogNumbers, SeqInv, OpenInstall
  PROVE  SeqInv'
<1>1. /\ phase = "replay" /\ phase' = "open" /\ logfile # 0
      /\ vs' = [vs EXCEPT !.log = logfile, !.l0 = @ \cup replay.add]
      /\ man' = vs' /\ tail' = <<>>
      /\ DeleteObsoleteFiles(vs', {}, {}, tables)
      /\ UNCHANGED <<mem, imm, pc, group, seqOf>>
  BY DEF OpenInstall, calls
<1>2. /\ ~bgErr /\ mem = {} /\ imm = {} /\ group = <<>>
  BY <1>1 DEF Base, StagesInv, BackgroundInv, Quiet
<1>3. Grouped = {} /\ Grouped' = {}
  BY <1>1, <1>2, NoGroup DEF Grouped
<1>4. /\ vs \in Version /\ vs.last \in Nat /\ logfile \in Nat /\ LogsOK(logs)
      /\ Described \in Describable /\ Described.last \in Nat /\ replay.max \in Nat
      /\ \A c \in Calls : seqOf[c] \in Nat
  BY BaseFacts, GroupedFacts DEF Base, TInv, DiskOK, StageOK
<1>5. /\ vs'.last = vs.last /\ vs'.log = logfile
      /\ Live(vs') = Live(Described) \cup replay.add
  <2>1. vs'.last = vs.last /\ vs'.log = logfile /\ Live(vs') = Live(vs) \cup replay.add
    BY <1>1, <1>4 DEF Version, Live
  <2>2. Live(vs) = Live(Described)
    BY <1>1 DEF TablesInv, FilesInv, Live
  <2> QED BY <2>1, <2>2
<1>6. Describable' = {vs'} /\ Described' = vs'
  BY <1>1, CrashLeavesOne
<1>7. /\ replay.todo = {} /\ logs[logfile].recs = <<>> /\ \A n \in DOMAIN logs : n <= logfile
  BY <1>1 DEF LogNumbers
<1>8. \A n \in DOMAIN logs' : n >= logfile => ReadLog(logs'[n].recs) = {}
  <2> SUFFICES ASSUME NEW n \in DOMAIN logs', n >= logfile PROVE ReadLog(logs'[n].recs) = {}
    OBVIOUS
  <2>1. n \in DOMAIN logs /\ logs'[n] = logs[n]
    BY <1>1, DeletedLogs
  <2>2. n = logfile
    <3>1. n \in Nat /\ n <= logfile
      BY <1>4, <1>7, <2>1 DEF LogsOK
    <3> QED BY <1>4, <3>1
  <2> QED BY <1>7, <2>1, <2>2, ReadLogEmpty
<1>9. /\ In(replay.add, tables) \subseteq ReplayedLogs
      /\ \A c \in ReplayedLogs : seqOf[c] <= replay.max
      /\ vs.last >= Described.last /\ vs.last >= replay.max
  BY <1>1, <1>7 DEF SeqInv, SeqReplay, ReplayedLogs
<1>10. ReplayedLogs \subseteq Reach
  <2> SUFFICES ASSUME NEW c \in ReplayedLogs PROVE c \in Recoverable(Described, logs, tables)
    BY <1>4, ReachIs
  <2> QED BY DEF ReplayedLogs, Recoverable
<1>11. ASSUME NEW c \in In(Live(vs'), tables')
       PROVE  c \in Reach /\ c \in Calls /\ seqOf[c] <= vs.last
  <2>1. c \in In(Live(vs'), tables)
    BY <1>1, DeletedIn
  <2>2. c \in In(Live(Described), tables) \/ c \in In(replay.add, tables)
    BY <1>5, <2>1, InIs
  <2>3. \A d \in Reach : d \in Calls /\ seqOf[d] \in Nat
    BY <1>4 DEF SeqInv, SeqReach, Batches
  <2>4. CASE c \in In(Live(Described), tables)
    <3>1. c \in Reach
      BY <1>4, <2>4, ReachIs, RecoverableIs
    <3>2. seqOf[c] <= Described.last
      BY <1>4, <2>4 DEF SeqInv, SeqFiles
    <3> QED BY <1>4, <1>9, <2>3, <3>1, <3>2
  <2>5. CASE c \in In(replay.add, tables)
    <3>1. c \in ReplayedLogs
      BY <1>9, <2>5
    <3>2. c \in Reach /\ seqOf[c] <= replay.max
      BY <1>9, <1>10, <3>1
    <3> QED BY <1>4, <1>9, <2>3, <3>2
  <2> QED BY <2>2, <2>4, <2>5
<1>12. Reach' \subseteq In(Live(vs'), tables')
  <2> SUFFICES ASSUME NEW c \in Reach' PROVE c \in In(Live(vs'), tables')
    OBVIOUS
  <2>1. CASE c \in Held'
    BY <1>1, <1>2, <2>1 DEF Held
  <2>2. CASE c \in Recoverable(vs', logs', tables')
    BY <1>5, <1>8, <2>2, RecoverableIs
  <2> QED BY <1>6, <2>1, <2>2 DEF Reach
<1>13. Reach' \subseteq Reach
  BY <1>11, <1>12
<1>14. SeqReach'
  BY <1>1, <1>3, <1>13 DEF SeqInv, SeqReach
<1>15. SeqLast'
  BY <1>1, <1>3, <1>5, <1>11, <1>12 DEF SeqLast
<1>16. SeqFiles'
  <2>1. vs'.last <= vs'.last
    BY <1>4, <1>5
  <2> QED BY <1>1, <1>3, <1>5, <1>6, <1>11, <2>1 DEF SeqFiles
<1>17. SeqReplay'
  BY <1>1 DEF SeqReplay
<1> QED BY <1>14, <1>15, <1>16, <1>17 DEF SeqInv

LEMMA SeqInit == Init => SeqInv
<1> SUFFICES ASSUME Init PROVE SeqInv
  OBVIOUS
<1>1. /\ phase = "down" /\ logs = <<>> /\ tables = <<>> /\ man = NoVersions /\ tail = <<>>
      /\ group = <<>>
  BY DEF Init
<1>2. Described = NoVersions /\ Describable = {NoVersions}
  <2>1. DOMAIN tail = {}
    BY <1>1, EmptyLogs
  <2> QED BY <1>1, <2>1 DEF Described, Describable
<1>3. Grouped = {}
  BY <1>1, NoGroup DEF Grouped
<1>4. \A F : In(F, tables) = {}
  <2>1. DOMAIN tables = {}
    BY <1>1, EmptyLogs
  <2> QED BY <2>1 DEF In
<1>5. Reach = {}
  <2>1. DOMAIN logs = {}
    BY <1>1, EmptyLogs
  <2>2. Recoverable(NoVersions, logs, tables) = {}
    BY <1>4, <2>1 DEF Recoverable, LogsToRead
  <2> QED BY <1>1, <1>2, <2>2 DEF Reach
<1>6. SeqFiles
  <2>1. NoVersions.last <= NoVersions.last
    BY DEF NoVersions
  <2> QED BY <1>1, <1>2, <1>4, <2>1 DEF SeqFiles
<1> QED BY <1>1, <1>3, <1>5, <1>6 DEF SeqInv, SeqReach, SeqLast, SeqReplay

LEMMA SeqStep ==
  ASSUME Files, Files', SeqInv, [Next]_vars
  PROVE  SeqInv'
<1>1. Base /\ Base' /\ TablesInv /\ LogNumbers
  BY DEF Files
<1>2. CASE Working
  BY <1>1, <1>2, WriterSeq, IdleSeq, BackgroundSeq DEF Working
<1>3. CASE OpenStep
  <2>1. CASE OpenFails
    <3>1. Gone /\ UNCHANGED <<logs, tables, man, tail>>
      BY <2>1 DEF OpenFails, disk
    <3> QED BY <1>1, <3>1, GoneSeq
  <2> QED BY <1>1, <1>3, <2>1, RecoverSeq, ReplaySeq, OpenLogSeq, OpenInstallSeq DEF OpenStep
<1>4. CASE Closed \/ ProcessCrash
  <2>1. Gone /\ UNCHANGED <<logs, tables, man, tail>>
    BY <1>4 DEF Closed, ProcessCrash, disk
  <2> QED BY <1>1, <2>1, GoneSeq
<1>5. CASE MachineCrash
  <2>1. Gone /\ tables' = tables
    BY <1>5 DEF MachineCrash
  <2> QED BY <1>1, <1>5, <2>1, GoneSeq
<1>6. CASE UNCHANGED vars
  BY <1>1, <1>6, IdleSeq
<1> QED BY <1>2, <1>3, <1>4, <1>5, <1>6, NextSteps

LEMMA SeqHolds == Spec => [](Files /\ SeqInv)
<1>1. Init => SeqInv
  BY SeqInit
<1>2. Files /\ Files' /\ SeqInv /\ [Next]_vars => SeqInv'
  BY SeqStep
<1>3. Spec => []SeqInv
  BY <1>1, <1>2, FilesHold, PTL DEF Spec
<1> QED BY <1>3, FilesHold, PTL

(* No two writes that can be read share a sequence number and none is       *)
(* beyond the last one, however the groups are formed, their log or its     *)
(* sync fails, the memtable is flushed, tables are merged, and the logs are *)
(* cut short by crashes and replayed, so that LastSequence restarts below   *)
(* numbers once given (DBImpl::Write, RecoverLogFile, VersionSet::Recover). *)
THEOREM SequencesDistinctHolds == Spec => []SequencesDistinct
<1>1. Files /\ SeqInv => SequencesDistinct
  <2> SUFFICES ASSUME Files, SeqInv, phase = "open",
                      NEW c \in Held \ (IF group = <<>> THEN {} ELSE InGroup(group))
               PROVE  seqOf[c] \in 1..vs.last /\ \A d \in Held \ {c} : seqOf[d] # seqOf[c]
    BY DEF SequencesDistinct
  <2>1. Held \subseteq Reach /\ Base
    BY DEF Reach, Files
  <2>2. c \in Reach \ Grouped
    BY <2>1, NoGroup DEF Grouped
  <2>3. seqOf[c] <= vs.last /\ seqOf[c] >= 1
    BY <2>2 DEF SeqInv, SeqReach, SeqLast
  <2>4. seqOf[c] \in Nat /\ vs.last \in Nat
    BY <2>1, <2>2, GroupedFacts DEF SeqInv, SeqReach, Batches
  <2> QED BY <2>1, <2>2, <2>3, <2>4 DEF SeqInv, SeqReach
<1> QED BY <1>1, SeqHolds, PTL

-----------------------------------------------------------------------------
(***************************************************************************)
(* Edits: what they leave to recover.                                      *)
(***************************************************************************)

LEMMA DurablyFacts ==
  ASSUME NEW lg, LogsOK(lg)
  PROVE  /\ LogsOK(Durably(lg)) /\ DOMAIN Durably(lg) = DOMAIN lg
         /\ \A n \in DOMAIN lg :
              /\ lg[n].recs \in Seq(SUBSET Batches) /\ lg[n].synced \in Nat
              /\ Durably(lg)[n].recs \in Seq(SUBSET Batches)
              /\ Len(Durably(lg)[n].recs) = lg[n].synced
              /\ lg[n].synced <= Len(lg[n].recs)
              /\ \A i \in 1..lg[n].synced : Durably(lg)[n].recs[i] = lg[n].recs[i]
<1> DEFINE keep == [n \in DOMAIN lg |-> lg[n].synced]
<1>1. \A n \in DOMAIN lg : /\ lg[n].recs \in Seq(SUBSET Batches) /\ lg[n].synced \in Nat
                           /\ lg[n].synced <= Len(lg[n].recs)
  BY DEF LogsOK, Log
<1>2. \A n \in DOMAIN lg : keep[n] \in lg[n].synced..Len(lg[n].recs)
  BY <1>1, LenProperties
<1>3. /\ LogsOK(Cut(lg, keep)) /\ DOMAIN Cut(lg, keep) = DOMAIN lg
      /\ \A n \in DOMAIN lg :
              /\ Len(Cut(lg, keep)[n].recs) = keep[n]
              /\ \A i \in 1..keep[n] : Cut(lg, keep)[n].recs[i] = lg[n].recs[i]
  BY <1>2, CutLogs
<1>4. \A n \in DOMAIN lg : keep[n] = lg[n].synced
  OBVIOUS
<1>5. Durably(lg) = Cut(lg, keep)
  BY DEF Durably
<1>6. \A n \in DOMAIN lg : Cut(lg, keep)[n].recs \in Seq(SUBSET Batches)
  BY <1>3 DEF LogsOK, Log
<1> HIDE DEF keep
<1> QED BY <1>1, <1>3, <1>4, <1>5, <1>6

(* A version whose log number is no larger, in a file system with more,     *)
(* gives back more.                                                         *)
LEMMA RecoverableMore ==
  ASSUME NEW v, NEW w, NEW lg, NEW lh, NEW tb, NEW tc,
         In(Live(v), tb) \subseteq In(Live(w), tc),
         \A n \in DOMAIN lg : n >= v.log =>
            n \in DOMAIN lh /\ n >= w.log /\ ReadLog(lg[n].recs) \subseteq ReadLog(lh[n].recs)
  PROVE  Recoverable(v, lg, tb) \subseteq Recoverable(w, lh, tc)
<1> SUFFICES ASSUME NEW c \in Recoverable(v, lg, tb) PROVE c \in Recoverable(w, lh, tc)
  OBVIOUS
<1>1. CASE c \in In(Live(v), tb)
  BY <1>1, RecoverableIs
<1>2. ASSUME NEW n \in DOMAIN lg, n >= v.log, c \in ReadLog(lg[n].recs)
      PROVE  c \in Recoverable(w, lh, tc)
  BY <1>2, RecoverableIs
<1> QED BY <1>1, <1>2, RecoverableIs

(* What an edit that moves tables leaves to recover: what was there.        *)
LEMMA MoveEdit ==
  ASSUME Base, LogNumbers, phase = "open", man' = man,
         NEW f \in Nat, NEW D \in SUBSET Nat, LogEdit(Edit({}, {f}, D, vs.log)),
         f \in DOMAIN tables, In(D, tables) \subseteq tables[f]
  PROVE  /\ Describable' = Describable \cup {Described'}
         /\ In(Live(Described), tables) \subseteq In(Live(Described'), tables)
         /\ In(Live(Described'), tables) \subseteq In(Live(Described), tables) \cup tables[f]
         /\ Recoverable(Described, logs, tables) \subseteq Recoverable(Described', logs, tables)
         /\ Recoverable(Described, Hard, tables) \subseteq Recoverable(Described', Hard, tables)
<1>1. /\ tail \in Edits /\ man \in Version /\ vs \in Version /\ Described \in Version
      /\ vs.log \in Nat /\ Described \in Describable /\ Described.log \in Nat
  BY BaseFacts
<1>2. PICK e \in VersionEdit :
         /\ e.add0 = {} /\ e.add1 = {f} /\ e.del = D /\ e.log = vs.log
         /\ LogEdit(e)
  BY <1>1, EditType
<1>3. /\ Described' = Apply(Described, e)
      /\ Describable' = Describable \cup {Described'}
  BY <1>1, <1>2, LogEditAdds
<1>4. /\ Described'.log = vs.log
      /\ Live(Described') = (Live(Described) \ D) \cup {f}
  BY <1>1, <1>2, <1>3, ApplyType
<1>5. Described'.log <= Described.log
  BY <1>1, <1>4 DEF LogNumbers
<1>6. In(Live(Described), tables) \subseteq In(Live(Described'), tables)
  <2> SUFFICES ASSUME NEW x \in In(Live(Described), tables)
               PROVE  x \in In(Live(Described'), tables)
    OBVIOUS
  <2>1. PICK n \in Live(Described) : n \in DOMAIN tables /\ x \in tables[n]
    BY InIs
  <2>2. CASE n \in D
    <3>1. x \in tables[f]
      BY <2>1, <2>2, InIs
    <3> QED BY <1>4, <3>1, InIs
  <2>3. CASE n \notin D
    BY <1>4, <2>1, <2>3, InIs
  <2> QED BY <2>2, <2>3
<1>7. LogsOK(logs) /\ \A n \in DOMAIN logs : n \in Nat
  BY DEF Base, TInv, DiskOK, LogsOK
<1>8. DOMAIN Hard = DOMAIN logs
  BY <1>7, DurablyFacts DEF Hard
<1>9. \A n \in DOMAIN logs : n >= Described.log => n >= Described'.log
  <2>1. Described'.log \in Nat
    BY <1>1, <1>4
  <2> QED BY <1>1, <1>5, <1>7, <2>1
<1>10. Recoverable(Described, logs, tables) \subseteq Recoverable(Described', logs, tables)
  BY <1>6, <1>9, RecoverableMore
<1>11. Recoverable(Described, Hard, tables) \subseteq Recoverable(Described', Hard, tables)
  BY <1>6, <1>8, <1>9, RecoverableMore
<1>12. In(Live(Described'), tables) \subseteq In(Live(Described), tables) \cup tables[f]
  <2> SUFFICES ASSUME NEW x \in In(Live(Described'), tables), x \notin tables[f]
               PROVE  x \in In(Live(Described), tables)
    OBVIOUS
  <2>1. PICK n \in Live(Described') : n \in DOMAIN tables /\ x \in tables[n]
    BY InIs
  <2> QED BY <1>4, <2>1, InIs
<1> QED BY <1>3, <1>6, <1>10, <1>11, <1>12

(* The memtable's table joins the version that the MANIFEST describes, and  *)
(* no other.                                                                *)
LEMMA FlushEdit ==
  ASSUME Base, TablesInv, FlushBuilt
  PROVE  /\ phase = "open" /\ phase' = "open" /\ Described'.log = logfile
         /\ Describable' = Describable \cup {Described'}
         /\ In(Live(vs'), tables') = In(Live(vs), tables)
         /\ \A v \in Describable : In(Live(v), tables') = In(Live(v), tables)
         /\ In(Live(Described'), tables') = imm \cup In(Live(Described), tables)
<1>1. /\ fl = "build"
      /\ tables' = IF imm = {} THEN tables ELSE Put(tables, fnum, imm)
      /\ UNCHANGED <<man, vs, imm, mem, logs, ghosts, logfile, phase, owed>>
  BY DEF FlushBuilt, core, calls
<1>2. phase = "open" /\ phase' = "open"
  BY <1>1, AtWork
<1>3. PICK lvl \in {0, 1} :
         LogEdit(Edit(IF lvl = 0 /\ imm # {} THEN {fnum} ELSE {},
                      IF lvl = 1 /\ imm # {} THEN {fnum} ELSE {}, {}, logfile))
  BY DEF FlushBuilt, FlushLogNumber
<1>4. /\ tail \in Edits /\ man \in Version /\ vs \in Version /\ Described \in Version
      /\ fnum \in Nat /\ logfile \in Nat /\ Described \in Describable
      /\ \A v \in Describable : v.next \in Nat /\ Live(v) \subseteq Nat
      /\ Live(vs) \subseteq Nat
  BY BaseFacts
<1>5. PICK a \in SUBSET Nat, b \in SUBSET Nat :
         /\ a \cup b = IF imm = {} THEN {} ELSE {fnum}
         /\ LogEdit(Edit(a, b, {}, logfile))
  <2>1. /\ (IF lvl = 0 /\ imm # {} THEN {fnum} ELSE {}) \in SUBSET Nat
        /\ (IF lvl = 1 /\ imm # {} THEN {fnum} ELSE {}) \in SUBSET Nat
    BY <1>4
  <2> QED BY <1>3, <2>1
<1>6. PICK e \in VersionEdit :
         /\ e.add0 = a /\ e.add1 = b /\ e.del = {} /\ e.log = logfile
         /\ LogEdit(e)
  BY <1>4, <1>5, EditType
<1>7. /\ Described' = Apply(Described, e)
      /\ Describable' = Describable \cup {Described'}
  BY <1>1, <1>4, <1>6, LogEditAdds
<1>8. /\ Described'.log = logfile
      /\ Live(Described') = Live(Described) \cup (IF imm = {} THEN {} ELSE {fnum})
  BY <1>4, <1>5, <1>6, <1>7, ApplyType
<1>9. \A v \in Describable : fnum \notin Live(v)
  <2> SUFFICES ASSUME NEW v \in Describable, fnum \in Live(v) PROVE FALSE
    OBVIOUS
  <2>1. fnum < v.next /\ v.next <= fnum
    BY <1>1 DEF TablesInv, TableNumbers, Below
  <2> QED BY <1>4, <2>1
<1>10. fnum \notin Live(vs)
  <2>1. \A n \in Live(vs) : n < fnum
    BY <1>1 DEF TablesInv, TableNumbers, Below, LiveFiles
  <2> QED BY <1>4, <2>1
<1>11. \A F : fnum \notin F => In(F, tables') = In(F, tables)
  BY <1>1, PutIn
<1>12. In(Live(vs'), tables') = In(Live(vs), tables)
  BY <1>1, <1>10, <1>11
<1>13. \A v \in Describable : In(Live(v), tables') = In(Live(v), tables)
  BY <1>9, <1>11
<1>14. imm # {} => fnum \in DOMAIN tables' /\ tables'[fnum] = imm
  BY <1>1 DEF Put
<1>15. In(Live(Described'), tables') = imm \cup In(Live(Described), tables)
  <2>1. ASSUME NEW x PROVE x \in In(Live(Described'), tables') <=> x \in imm \cup In(Live(Described), tables')
    <3>1. x \in In(Live(Described'), tables') <=>
             \E n \in Live(Described') : n \in DOMAIN tables' /\ x \in tables'[n]
      BY InIs
    <3>2. x \in In(Live(Described), tables') <=>
             \E n \in Live(Described) : n \in DOMAIN tables' /\ x \in tables'[n]
      BY InIs
    <3> QED BY <1>8, <1>14, <3>1, <3>2
  <2> QED BY <1>4, <1>13, <2>1
<1> QED BY <1>2, <1>7, <1>8, <1>12, <1>13, <1>15

(* The edit is synced: its version is the only one that the MANIFEST may    *)
(* describe, and what it does not need is deleted.                          *)
LEMMA InstallLeaves ==
  ASSUME Base, Base', TablesInv', LogNumbers', phase' = "open",
         SyncManifest, NEW base, NEW pend,
         \/ UNCHANGED <<logs, ghosts, tables>>
         \/ DeleteObsoleteFiles(vs', base, pend, tables)
  PROVE  /\ Describable' = {Described} /\ Described' = Described
         /\ \A n \in DOMAIN tables' : n \in DOMAIN tables /\ tables'[n] = tables[n]
         /\ \A n \in DOMAIN logs' : n \in DOMAIN logs /\ logs'[n] = logs[n]
         /\ \A n \in DOMAIN ghosts' : \/ n \in DOMAIN ghosts /\ ghosts'[n] = ghosts[n]
                                      \/ n \in DOMAIN logs /\ ghosts'[n] = logs[n]
         /\ logfile' \in DOMAIN logs'
         /\ DOMAIN Hard' = DOMAIN logs' /\ \A n \in DOMAIN logs' : Hard'[n] = Hard[n]
         /\ In(Live(vs'), tables') = In(Live(vs'), tables)
         /\ In(Live(Described), tables') = In(Live(Described), tables)
         /\ Recoverable(Described, logs, tables) \subseteq Recoverable(Described, logs', tables')
         /\ Recoverable(Described, Hard, tables) \subseteq Recoverable(Described, Hard', tables')
<1>1. /\ tail \in Edits /\ man \in Version /\ Described \in Describable
      /\ LogsOK(logs) /\ LogsOK(ghosts)
      /\ \A n \in DOMAIN logs : n \in Nat
  BY BaseFacts DEF Base, TInv, DiskOK, LogsOK
<1>2. Describable' = {Described} /\ Described' = Described
  BY <1>1, SyncLeavesOne
<1>3. /\ \A n \in DOMAIN tables' : n \in DOMAIN tables /\ tables'[n] = tables[n]
      /\ \A n \in DOMAIN logs' : n \in DOMAIN logs /\ logs'[n] = logs[n]
      /\ \A n \in DOMAIN ghosts' : \/ n \in DOMAIN ghosts /\ ghosts'[n] = ghosts[n]
                                   \/ n \in DOMAIN logs /\ ghosts'[n] = logs[n]
      /\ \A n \in DOMAIN logs : n >= vs'.log => n \in DOMAIN logs'
  <2>1. CASE UNCHANGED <<logs, ghosts, tables>>
    BY <2>1
  <2>2. CASE DeleteObsoleteFiles(vs', base, pend, tables)
    BY <2>2 DEF DeleteObsoleteFiles, KeepsLog
  <2> QED BY <2>1, <2>2
<1>4. /\ Live(vs') \subseteq DOMAIN tables' /\ Live(Described) \subseteq DOMAIN tables'
  BY <1>2 DEF TablesInv, FilesInv, LiveFiles
<1>5. /\ In(Live(vs'), tables') = In(Live(vs'), tables)
      /\ In(Live(Described), tables') = In(Live(Described), tables)
  BY <1>3, <1>4 DEF In
<1>6. /\ logfile' \in DOMAIN logs' /\ vs'.log <= Described.log
      /\ Described.log \in Nat /\ vs'.log \in Nat
  <2>1. logfile' \in DOMAIN logs' /\ \A v \in Describable' : vs'.log <= v.log
    BY DEF LogNumbers
  <2>2. vs'.log \in Nat
    <3>1. vs' \in Version
      BY DEF Base, TInv, CoreOK
    <3> QED BY <3>1 DEF Version
  <2> QED BY <1>2, <2>1, <2>2, BaseFacts
<1>7. \A n \in DOMAIN logs : n >= Described.log => n \in DOMAIN logs'
  <2> SUFFICES ASSUME NEW n \in DOMAIN logs, n >= Described.log PROVE n >= vs'.log
    BY <1>3
  <2> QED BY <1>1, <1>6
<1>8. /\ DOMAIN Hard = DOMAIN logs /\ DOMAIN Hard' = DOMAIN logs'
      /\ \A n \in DOMAIN logs' : Hard'[n] = Hard[n]
  <2>1. DOMAIN Hard = DOMAIN logs /\ DOMAIN Hard' = DOMAIN logs'
    BY DurablyFacts DEF Hard, Base, TInv, DiskOK
  <2> QED BY <1>3, <2>1 DEF Hard, Durably, Cut
<1>9. Recoverable(Described, logs, tables) \subseteq Recoverable(Described, logs', tables')
  BY <1>3, <1>5, <1>7, RecoverableMore
<1>10. Recoverable(Described, Hard, tables) \subseteq Recoverable(Described, Hard', tables')
  BY <1>5, <1>7, <1>8, RecoverableMore
<1> QED BY <1>2, <1>3, <1>5, <1>6, <1>8, <1>9, <1>10

(* The version that a flush installs.                                       *)
LEMMA FlushInstalls ==
  ASSUME Base, TablesInv, FlushInstall
  PROVE  /\ phase = "open" /\ phase' = "open" /\ Described \in Describable
         /\ vs'.log = logfile /\ vs'.last = vs.last
         /\ In(Live(vs'), tables) = imm \cup In(Live(vs), tables)
         /\ imm \subseteq In(Live(Described), tables)
<1>1. fl = "manifest" /\ vs' = Installed /\ phase' = phase
  BY DEF FlushInstall, flags
<1>2. phase = "open"
  BY <1>1, AtWork
<1>3. tail \in Edits /\ vs \in Version /\ Described \in Describable
  BY BaseFacts
<1>4. /\ tail # <<>> /\ Logged.del = {} /\ Logged.log = logfile
      /\ Logged.add0 \cup Logged.add1 = IF imm = {} THEN {} ELSE {fnum}
      /\ imm # {} => fnum \in DOMAIN tables /\ tables[fnum] = imm /\ fnum \in Live(Described)
  BY <1>1 DEF TablesInv, EditInv
<1>5. /\ Live(vs') = Live(vs) \cup (IF imm = {} THEN {} ELSE {fnum})
      /\ vs'.log = logfile /\ vs'.last = vs.last
  BY <1>1, <1>3, <1>4, InstalledType
<1>6. In(Live(vs'), tables) = imm \cup In(Live(vs), tables)
  <2>1. ASSUME NEW x \in In(Live(vs'), tables), x \notin imm PROVE x \in In(Live(vs), tables)
    <3>1. PICK n \in Live(vs') : n \in DOMAIN tables /\ x \in tables[n]
      BY <2>1, InIs
    <3>2. n \in Live(vs)
      BY <1>4, <1>5, <2>1, <3>1
    <3> QED BY <3>1, <3>2, InIs
  <2>2. ASSUME NEW x \in imm PROVE x \in In(Live(vs'), tables)
    BY <1>4, <1>5, <2>2, InIs
  <2>3. In(Live(vs), tables) \subseteq In(Live(vs'), tables)
    BY <1>5, InLess
  <2> QED BY <2>1, <2>2, <2>3
<1>7. imm \subseteq In(Live(Described), tables)
  <2> SUFFICES ASSUME NEW x \in imm PROVE x \in In(Live(Described), tables)
    OBVIOUS
  <2> QED BY <1>4, InIs
<1> QED BY <1>1, <1>2, <1>3, <1>5, <1>6, <1>7

(* The version that a compaction installs: with the same contents.          *)
LEMMA CompactionInstalls ==
  ASSUME Base, TablesInv, CompactionInstall
  PROVE  /\ phase = "open" /\ phase' = "open" /\ Described \in Describable
         /\ vs'.log = vs.log /\ vs'.last = vs.last
         /\ In(Live(vs'), tables) = In(Live(vs), tables)
<1>1. cp \in {"manifest", "move"} /\ vs' = Installed /\ phase' = phase
  BY DEF CompactionInstall
<1>2. phase = "open"
  BY <1>1, AtWork
<1>3. tail \in Edits /\ vs \in Version /\ Described \in Describable
  BY BaseFacts
<1>4. FilesInv /\ EditInv /\ Live(vs) \subseteq DOMAIN tables
  BY <1>2 DEF TablesInv, FilesInv, LiveFiles
<1>5. /\ tail # <<>> /\ Logged.add0 = {} /\ Logged.add1 = {cout} /\ Logged.log = vs.log
      /\ Logged.del = IF cp = "move" THEN {cout} ELSE cin.files
  BY <1>1, <1>4 DEF EditInv
<1>6. /\ Live(vs') = (Live(vs) \ Logged.del) \cup {cout}
      /\ vs'.log = vs.log /\ vs'.last = vs.last
  BY <1>1, <1>3, <1>5, InstalledType
<1>7. /\ cout \in DOMAIN tables /\ tables[cout] \subseteq In(Live(vs), tables)
      /\ In(Logged.del, tables) \subseteq tables[cout]
  <2>1. CASE cp = "manifest"
    <3>1. /\ tables[cout] = In(cin.files, tables) /\ cin.files \subseteq Live(vs)
          /\ cout \in DOMAIN tables
      BY <1>4, <2>1 DEF FilesInv
    <3>2. In(cin.files, tables) \subseteq In(Live(vs), tables)
      BY <3>1, InLess
    <3> QED BY <1>5, <2>1, <3>1, <3>2
  <2>2. CASE cp = "move"
    <3>1. cout \in Live(vs) /\ cout \in DOMAIN tables
      BY <1>4, <2>2 DEF EditInv
    <3>2. In({cout}, tables) \subseteq tables[cout] /\ tables[cout] \subseteq In(Live(vs), tables)
      BY <3>1, InIs
    <3> QED BY <1>5, <2>2, <3>1, <3>2
  <2> QED BY <1>1, <2>1, <2>2
<1>8. In(Live(vs'), tables) \subseteq In(Live(vs), tables)
  <2> SUFFICES ASSUME NEW x \in In(Live(vs'), tables) PROVE x \in In(Live(vs), tables)
    OBVIOUS
  <2>1. PICK n \in Live(vs') : n \in DOMAIN tables /\ x \in tables[n]
    BY InIs
  <2>2. CASE n = cout
    BY <1>7, <2>1, <2>2
  <2>3. CASE n \in Live(vs)
    BY <2>1, <2>3, InIs
  <2> QED BY <1>6, <2>1, <2>2, <2>3
<1>9. In(Live(vs), tables) \subseteq In(Live(vs'), tables)
  <2> SUFFICES ASSUME NEW x \in In(Live(vs), tables) PROVE x \in In(Live(vs'), tables)
    OBVIOUS
  <2>1. PICK n \in Live(vs) : n \in DOMAIN tables /\ x \in tables[n]
    BY InIs
  <2>2. CASE n \in Logged.del
    <3>1. x \in tables[cout]
      BY <1>7, <2>1, <2>2, InIs
    <3> QED BY <1>6, <1>7, <3>1, InIs
  <2>3. CASE n \notin Logged.del
    BY <1>6, <2>1, <2>3, InIs
  <2> QED BY <2>2, <2>3
<1> QED BY <1>1, <1>2, <1>3, <1>6, <1>8, <1>9

-----------------------------------------------------------------------------
(***************************************************************************)
(* The order of the writes: what is read first is the newer.               *)
(***************************************************************************)

(* A version whose files and logs hold no more than those of one in order   *)
(* is in order.                                                             *)
LEMMA LessOrder ==
  ASSUME NEW v, NEW w, NEW lg, NEW lh, NEW tb, NEW tc, NEW sq, NEW sr,
         InOrder(w, lg, tb, sq), w.l0 \subseteq DOMAIN tb,
         v.l0 \subseteq w.l0, \A f \in v.l0 : tc[f] = tb[f],
         In(Live(v), tc) \subseteq In(Live(w), tb),
         \A n \in DOMAIN lh : n >= v.log =>
            \/ ReadLog(lh[n].recs) = {}
            \/ /\ n \in DOMAIN lg /\ n >= w.log
               /\ ReadLog(lh[n].recs) \subseteq ReadLog(lg[n].recs),
         DOMAIN lh \subseteq Nat, v.log \in Nat,
         \A c \in Recoverable(w, lg, tb) : sr[c] = sq[c]
  PROVE  InOrder(v, lh, tc, sr)
<1>1. ASSUME NEW f \in v.l0, NEW g \in v.l0, f < g, NEW a \in tc[f], NEW b \in tc[g]
      PROVE  sr[a] < sr[b]
  <2>1. a \in tb[f] /\ b \in tb[g] /\ f \in w.l0 /\ g \in w.l0
    BY <1>1
  <2>2. sq[a] < sq[b]
    BY <1>1, <2>1 DEF InOrder, Before
  <2>3. a \in In(Live(w), tb) /\ b \in In(Live(w), tb)
    BY <2>1 DEF In, Live
  <2> QED BY <2>2, <2>3, RecoverableIs
<1>2. ASSUME NEW n \in DOMAIN lh, n >= v.log, NEW b \in ReadLog(lh[n].recs)
      PROVE  n \in DOMAIN lg /\ n >= w.log /\ b \in ReadLog(lg[n].recs) /\ sr[b] = sq[b]
  <2>1. n \in DOMAIN lg /\ n >= w.log /\ b \in ReadLog(lg[n].recs)
    BY <1>2
  <2> QED BY <2>1, RecoverableIs
<1>3. ASSUME NEW n \in DOMAIN lh, n >= v.log, NEW a \in In(Live(v), tc),
             NEW b \in ReadLog(lh[n].recs)
      PROVE  sr[a] < sr[b]
  <2>1. n \in DOMAIN lg /\ n >= w.log /\ b \in ReadLog(lg[n].recs) /\ sr[b] = sq[b]
    BY <1>2, <1>3
  <2>2. a \in In(Live(w), tb) /\ sr[a] = sq[a]
    BY <1>3, RecoverableIs
  <2> QED BY <2>1, <2>2 DEF InOrder, Before
<1>4. ASSUME NEW n \in DOMAIN lh, NEW m \in DOMAIN lh, n >= v.log, n < m,
             NEW a \in ReadLog(lh[n].recs), NEW b \in ReadLog(lh[m].recs)
      PROVE  sr[a] < sr[b]
  <2>1. m >= v.log
    BY <1>4
  <2>2. n \in DOMAIN lg /\ n >= w.log /\ a \in ReadLog(lg[n].recs) /\ sr[a] = sq[a]
    BY <1>2, <1>4
  <2>3. m \in DOMAIN lg /\ b \in ReadLog(lg[m].recs) /\ sr[b] = sq[b]
    BY <1>2, <1>4, <2>1
  <2> QED BY <1>4, <2>2, <2>3 DEF InOrder, Before
<1> QED BY <1>1, <1>3, <1>4 DEF InOrder, Before

(* What is not idle keeps its number, and a group is formed of calls that   *)
(* nothing can read yet.                                                    *)
LEMMA NumbersKept ==
  ASSUME Base, SeqInv, [Next]_vars
  PROVE  /\ \A c \in Reach : seqOf'[c] = seqOf[c]
         /\ Reach \cap Grouped' \subseteq Grouped
<1>0. /\ Reach \subseteq Batches /\ Batches \subseteq Calls /\ seqOf \in [Calls -> Nat]
      /\ \A c \in Reach : pc[c] = "done" \/ c \in Grouped
  BY DEF SeqInv, SeqReach, Base, TInv, CallsOK, Batches
<1>1. ASSUME NEW c \in Calls, Enqueue(c)
      PROVE  /\ \A d \in Batches : seqOf'[d] = seqOf[d]
             /\ group' = group
  BY <1>0, <1>1 DEF Enqueue, Batches
<1>2. ASSUME NEW c \in Calls, AtFront(c), StartLogging(c)
      PROVE  /\ \A d \in Reach : seqOf'[d] = seqOf[d]
             /\ Reach \cap Grouped' = {}
  <2>1. Grouped = {}
    BY <1>2, FrontAlone DEF AtFront
  <2>2. \A d \in Grouped' : pc[d] # "done"
    BY <1>2, StartNumbers
  <2>3. \A d \in Calls \ Grouped' : seqOf'[d] = seqOf[d]
    BY <1>2, StartNumbers
  <2> QED BY <1>0, <2>1, <2>2, <2>3
<1>3. ASSUME NEW n, NEW st, NEW p, Leave(n, st, p)
      PROVE  Grouped' = {}
  BY <1>3, NoGroup DEF Leave, Grouped
<1>4. ASSUME NEW c \in Calls, WriterStep(c)
      PROVE  \/ AtFront(c) /\ StartLogging(c)
             \/ seqOf' = seqOf /\ (group' = group \/ Grouped' = {})
  BY <1>3, <1>4 DEF WriterStep, RoomError, RoomDelay, RoomFound, RoomStall, RoomSwitch, CanSwitch,
       RoomSwitchFails, AddRecord, AddRecordFails, SyncLog, SyncLogFails, InsertInto, FinishWrite,
       ForceWaits, ForceReturns
<1>5. ASSUME Pin \/ Unpin \/ Close \/ BackgroundStep \/ OpenStep
      PROVE  seqOf' = seqOf /\ (group' = group \/ Grouped' = {})
  <2>1. Gone => Grouped' = {} /\ seqOf' = seqOf
    BY NoGroup DEF Gone, Grouped
  <2> QED BY <1>5, <2>1 DEF Pin, Unpin, Close, BackgroundStep, BackgroundNothing, FlushStart, FlushFails,
       FlushBuilt, FlushInstall, CompactionStart, TrivialMove, OpenCompactionOutputFile,
       FinishCompactionOutputFile, InstallCompactionResults, CompactionInstall, CompactionFails,
       OpenStep, Recover, RecoverLogFile, RecoverLogFileFails, OpenLog, OpenInstall, OpenFails, calls
<1>6. ASSUME Closed \/ ProcessCrash \/ MachineCrash
      PROVE  Grouped' = {} /\ seqOf' = seqOf
  <2>1. Gone
    BY <1>6 DEF Closed, ProcessCrash, MachineCrash
  <2> QED BY <2>1, NoGroup DEF Gone, Grouped
<1>7. ASSUME UNCHANGED vars
      PROVE  group' = group /\ seqOf' = seqOf
  BY <1>7 DEF vars, calls
<1>8. group' = group => Grouped' = Grouped
  BY DEF Grouped
<1> QED BY <1>0, <1>1, <1>2, <1>4, <1>5, <1>6, <1>7, <1>8, NextSteps DEF Working

(* Nothing is appended to the MANIFEST or installed.                        *)
LEMMA EditingKept ==
  ASSUME Base, OneEdit, phase = "open", UNCHANGED <<man, tail>>, Editing' = Editing,
         vs'.l0 = vs.l0, vs'.l1 = vs.l1, vs'.log = vs.log
  PROVE  OneEdit'
<1>1. Described' = Described /\ Logged' = Logged
  BY ManifestFrame
<1> QED BY <1>1 DEF OneEdit, Editing

(* An edit is appended to a MANIFEST that has none left, ...                *)
LEMMA EditLogged ==
  ASSUME Base, OneEdit, phase = "open", man' = man, ~Editing, Editing',
         NEW e \in VersionEdit, LogEdit(e),
         vs'.l0 = vs.l0, vs'.l1 = vs.l1, vs'.log = vs.log
  PROVE  OneEdit'
<1>1. tail = <<>> /\ Described = man
  BY DEF OneEdit, Editing, Described
<1>2. /\ Len(tail') = Len(tail) + 1 /\ Logged' = e /\ Described' = Apply(Described, e)
  BY BaseFacts, LogEditAdds
<1>3. Len(tail) = 0
  BY <1>1
<1> QED BY <1>1, <1>2, <1>3 DEF OneEdit, Editing

(* ... and installed: memory and MANIFEST agree again.                      *)
LEMMA EditInstalled ==
  ASSUME Base, TablesInv, OneEdit, phase = "open", Editing, ~Editing', SyncManifest,
         vs' = Installed
  PROVE  OneEdit'
<1>1. /\ Described = Apply(man, Logged) /\ man.log = vs.log /\ man.l0 = vs.l0 /\ man.l1 = vs.l1
      /\ Len(tail) = 1
  BY DEF OneEdit, Editing
<1>0. tail # <<>>
  BY DEF Base, TInv, StageOK, Editing
<1>2. tail \in Edits /\ man \in Version /\ vs \in Version /\ tail # <<>>
  BY <1>0, BaseFacts
<1>3. Logged \in VersionEdit
  BY <1>2, TailEntries DEF Logged
<1>4. /\ man' = Described /\ tail' = <<>>
  BY DEF SyncManifest
<1>5. /\ Described.log = Logged.log
      /\ Described.l0 = (man.l0 \ Logged.del) \cup Logged.add0
      /\ Described.l1 = (man.l1 \ Logged.del) \cup Logged.add1
  BY <1>1, <1>2, <1>3, ApplyType
<1>6. /\ vs'.log = Logged.log
      /\ vs'.l0 = (vs.l0 \ Logged.del) \cup Logged.add0
      /\ vs'.l1 = (vs.l1 \ Logged.del) \cup Logged.add1
  BY <1>2, InstalledType
<1> QED BY <1>1, <1>4, <1>5, <1>6 DEF OneEdit, Editing

LEMMA OneEditBackground ==
  ASSUME Base, TablesInv, OneEdit, "manifest" \notin Faults, BackgroundStep
  PROVE  OneEdit'
<1>1. phase = "open" /\ phase' = "open"
  <2>1. Working
    BY DEF Working
  <2> QED BY <2>1, WorkingStaysOpen DEF Base, StagesInv
<1>2. vs \in Version /\ BackgroundInv /\ logfile \in Nat
  BY BaseFacts DEF Base, StagesInv
<1>3. CASE BackgroundNothing \/ FlushStart \/ FlushFails \/ CompactionStart
           \/ OpenCompactionOutputFile \/ FinishCompactionOutputFile \/ CompactionFails
  <2>1. UNCHANGED <<man, tail>>
    BY <1>3 DEF BackgroundNothing, FlushStart, FlushFails, CompactionStart,
       OpenCompactionOutputFile, FinishCompactionOutputFile, CompactionFails, disk
  <2>2. vs' = vs \/ vs' = [vs EXCEPT !.next = @ + 1]
    BY <1>3 DEF BackgroundNothing, FlushStart, FlushFails, CompactionStart,
       OpenCompactionOutputFile, FinishCompactionOutputFile, CompactionFails, core
  <2>3. vs'.l0 = vs.l0 /\ vs'.l1 = vs.l1 /\ vs'.log = vs.log
    BY <1>2, <2>2 DEF Version
  <2>4. Editing' = Editing
    <3>1. CASE BackgroundNothing
      BY <3>1 DEF BackgroundNothing, Editing
    <3>2. CASE FlushStart
      BY <3>2 DEF FlushStart, Editing, Idle, InLoop
    <3>3. CASE FlushFails
      BY <1>2, <3>3 DEF FlushFails, Editing, Fault, BackgroundInv
    <3>4. CASE CompactionStart
      BY <3>4 DEF CompactionStart, Editing, CanCompact, Idle
    <3>5. CASE OpenCompactionOutputFile \/ FinishCompactionOutputFile
      BY <3>5 DEF OpenCompactionOutputFile, FinishCompactionOutputFile, Editing
    <3>6. CASE CompactionFails
      BY <3>6 DEF CompactionFails, Editing, Fault, InLoop
    <3> QED BY <1>3, <3>1, <3>2, <3>3, <3>4, <3>5, <3>6
  <2> QED BY <1>1, <2>1, <2>3, <2>4, EditingKept
<1>4. CASE FlushBuilt
  <2>1. /\ fl = "build" /\ fl' = "manifest" /\ UNCHANGED <<man, vs, cp>>
        /\ \E lvl \in {0, 1} :
              LogEdit(Edit(IF lvl = 0 /\ imm # {} THEN {fnum} ELSE {},
                           IF lvl = 1 /\ imm # {} THEN {fnum} ELSE {}, {}, logfile))
    BY <1>4 DEF FlushBuilt, FlushLogNumber, core
  <2>2. PICK A \in SUBSET Nat, B \in SUBSET Nat : LogEdit(Edit(A, B, {}, logfile))
    BY <2>1, BaseFacts
  <2>3. Edit(A, B, {}, logfile) \in VersionEdit
    BY <1>2, EditType
  <2>4. ~Editing /\ Editing'
    BY <1>2, <2>1 DEF BackgroundInv, Editing
  <2> QED BY <1>1, <2>1, <2>2, <2>3, <2>4, EditLogged
<1>5. CASE TrivialMove \/ InstallCompactionResults
  <2>1. /\ fl = "no" /\ cp \in {"no", "merged"} /\ UNCHANGED <<man, vs, fl>>
        /\ cp' \in {"manifest", "move"}
        /\ \E f \in Nat, D \in SUBSET Nat : LogEdit(Edit({}, {f}, D, vs.log))
    <3>1. CASE TrivialMove
      <4>1. PICK f \in vs.l0 : LogEdit(Edit({}, {f}, {f}, vs.log))
        BY <3>1 DEF TrivialMove
      <4>2. f \in Nat /\ {f} \in SUBSET Nat
        BY BaseFacts
      <4> QED BY <3>1, <4>1, <4>2 DEF TrivialMove, CanCompact, Idle, core
    <3>2. CASE InstallCompactionResults
      <4>1. LogEdit(Edit({}, {cout}, cin.files, vs.log))
        BY <3>2 DEF InstallCompactionResults
      <4>2. cout \in Nat /\ cin.files \in SUBSET Nat
        BY BaseFacts
      <4> QED BY <3>2, <4>1, <4>2 DEF InstallCompactionResults, core
    <3> QED BY <1>5, <3>1, <3>2
  <2>2. PICK f \in Nat, D \in SUBSET Nat : LogEdit(Edit({}, {f}, D, vs.log))
    BY <2>1
  <2>3. vs.log \in Nat
    BY BaseFacts
  <2>4. Edit({}, {f}, D, vs.log) \in VersionEdit
    BY <1>2, <2>3, EditType
  <2>5. ~Editing /\ Editing'
    BY <2>1 DEF Editing
  <2> QED BY <1>1, <2>1, <2>2, <2>4, <2>5, EditLogged
<1>6. CASE FlushInstall \/ CompactionInstall
  <2>1. SyncManifest /\ vs' = Installed
    BY <1>6 DEF FlushInstall, CompactionInstall
  <2>2. Editing /\ ~Editing'
    BY <1>2, <1>6 DEF FlushInstall, CompactionInstall, Editing, BackgroundInv
  <2> QED BY <1>1, <2>1, <2>2, EditInstalled
<1> QED BY <1>3, <1>4, <1>5, <1>6 DEF BackgroundStep

LEMMA OneEditStep ==
  ASSUME Base, TablesInv, OneEdit, "manifest" \notin Faults, [Next]_vars
  PROVE  OneEdit'
<1>1. vs \in Version /\ BackgroundInv
  BY BaseFacts DEF Base, StagesInv
<1>2. CASE Working
  <2>1. phase = "open" /\ phase' = "open"
    BY <1>2, WorkingStaysOpen DEF Base, StagesInv
  <2>2. CASE BackgroundStep
    BY <2>2, OneEditBackground
  <2>3. ASSUME Pin \/ Unpin \/ Close \/ \E c \in Calls : Enqueue(c) \/ WriterStep(c)
        PROVE  OneEdit'
    <3>1. /\ UNCHANGED <<man, tail, fl, cp>>
          /\ \/ vs' = vs \/ vs' = [vs EXCEPT !.next = @ + 1]
             \/ vs' = [vs EXCEPT !.last = @ + Cardinality(InGroup(group))]
      BY <2>3 DEF Pin, Unpin, Close, Enqueue, WriterStep, RoomError, RoomDelay, RoomFound, RoomStall,
         RoomSwitch, RoomSwitchFails, AddRecord, AddRecordFails, SyncLog, SyncLogFails, InsertInto,
         FinishWrite, ForceWaits, ForceReturns, disk, core, bg
    <3>2. vs'.l0 = vs.l0 /\ vs'.l1 = vs.l1 /\ vs'.log = vs.log
      BY <1>1, <3>1 DEF Version
    <3>3. Editing' = Editing
      BY <3>1 DEF Editing
    <3> QED BY <2>1, <3>1, <3>2, <3>3, EditingKept
  <2> QED BY <1>2, <2>2, <2>3 DEF Working
<1>3. CASE OpenInstall
  <2>1. /\ phase = "replay" /\ man' = vs' /\ tail' = <<>> /\ UNCHANGED <<fl, cp>>
    BY <1>3 DEF OpenInstall
  <2>2. ~Editing'
    BY <1>1, <2>1 DEF BackgroundInv, Quiet, Editing
  <2> QED BY <2>1, <2>2 DEF OneEdit, Editing
<1>4. CASE UNCHANGED vars
  <2>1. UNCHANGED <<man, tail, fl, cp, vs, phase>>
    BY <1>4 DEF vars, disk, core, bg, flags
  <2>2. Described' = Described /\ Logged' = Logged
    BY <2>1, ManifestFrame
  <2> QED BY <2>1, <2>2 DEF OneEdit
<1>5. ASSUME Closed \/ ProcessCrash \/ MachineCrash \/ OpenStep, ~OpenInstall
      PROVE  phase' # "open"
  BY <1>5 DEF Closed, ProcessCrash, MachineCrash, OpenStep, Recover, RecoverLogFile, RecoverLogFileFails,
     ReplayNext, OpenLog, OpenFails, Gone
<1>6. phase' # "open" => OneEdit'
  BY DEF OneEdit
<1> QED BY <1>2, <1>3, <1>4, <1>5, <1>6, NextSteps

(* What a log that is read or a version that is described or in memory      *)
(* holds has a number, and no later than the last one if it is not being    *)
(* logged.                                                                  *)
LEMMA Numbered ==
  ASSUME Base, SeqInv
  PROVE  /\ \A c \in Reach \cup Grouped : seqOf[c] \in Nat
         /\ \A v \in Describable : Recoverable(v, logs, tables) \subseteq Reach
         /\ phase = "open" => Held \subseteq Reach
         /\ phase = "open" => \A a \in Reach \ Grouped, b \in Grouped : seqOf[a] < seqOf[b]
<1>1. /\ Reach \cup Grouped \subseteq Calls /\ \A c \in Calls : seqOf[c] \in Nat
      /\ vs.last \in Nat
  BY GroupedFacts DEF SeqInv, SeqReach, Batches
<1>2. ASSUME phase = "open", NEW a \in Reach \ Grouped, NEW b \in Grouped
      PROVE  seqOf[a] < seqOf[b]
  <2>1. seqOf[a] <= vs.last /\ seqOf[b] > vs.last
    BY <1>2 DEF SeqInv, SeqLast
  <2>2. seqOf[a] \in Nat /\ seqOf[b] \in Nat
    BY <1>1
  <2> QED BY <1>1, <2>1, <2>2
<1> QED BY <1>1, <1>2 DEF Reach

(* The logs that recovery would read, while the database is open.           *)
LEMMA LogReach ==
  ASSUME Base, LogNumbers, phase = "open"
  PROVE  /\ DOMAIN logs \subseteq Nat /\ logfile \in DOMAIN logs /\ vs.log \in Nat
         /\ logfile >= vs.log /\ \A n \in DOMAIN logs : n <= logfile
         /\ \A v \in Describable : v.log \in Nat /\ v.log >= vs.log /\ v.log <= logfile
         /\ \A n \in DOMAIN logs : n >= vs.log => ReadLog(logs[n].recs) \subseteq Reach
<1>1. DOMAIN logs \subseteq Nat /\ man \in Describable
  BY DEF Base, TInv, DiskOK, LogsOK, Describable
<1>2. /\ vs.log \in Nat /\ logfile \in Nat /\ \A v \in Describable : v.log \in Nat
  BY BaseFacts
<1>3. /\ logfile \in DOMAIN logs /\ man.log = vs.log /\ \A n \in DOMAIN logs : n <= logfile
      /\ \A v \in Describable : vs.log <= v.log /\ v.log <= logfile
  BY DEF LogNumbers
<1>4. \A n \in DOMAIN logs : n >= vs.log => ReadLog(logs[n].recs) \subseteq Reach
  BY <1>1, <1>3, ReachIs, RecoverableIs
<1> QED BY <1>1, <1>2, <1>3, <1>4

(* The order on disk is kept by a step after which each version described   *)
(* holds no more than one did before.                                       *)
LEMMA DiskOrderKept ==
  ASSUME Base, Base', TablesInv, SeqInv, OrderDisk,
         \A c \in Reach : seqOf'[c] = seqOf[c],
         \A v \in Describable' : \E w \in Describable :
            /\ v.l0 \subseteq w.l0 /\ \A f \in v.l0 : tables'[f] = tables[f]
            /\ In(Live(v), tables') \subseteq In(Live(w), tables)
            /\ \A n \in DOMAIN logs' : n >= v.log =>
                  \/ ReadLog(logs'[n].recs) = {}
                  \/ /\ n \in DOMAIN logs /\ n >= w.log
                     /\ ReadLog(logs'[n].recs) \subseteq ReadLog(logs[n].recs)
  PROVE  OrderDisk'
<1> SUFFICES ASSUME NEW v \in Describable' PROVE InOrder(v, logs', tables', seqOf')
  BY DEF OrderDisk
<1>1. PICK w \in Describable :
         /\ v.l0 \subseteq w.l0 /\ \A f \in v.l0 : tables'[f] = tables[f]
         /\ In(Live(v), tables') \subseteq In(Live(w), tables)
         /\ \A n \in DOMAIN logs' : n >= v.log =>
               \/ ReadLog(logs'[n].recs) = {}
               \/ /\ n \in DOMAIN logs /\ n >= w.log
                  /\ ReadLog(logs'[n].recs) \subseteq ReadLog(logs[n].recs)
  OBVIOUS
<1>2. InOrder(w, logs, tables, seqOf) /\ w.l0 \subseteq DOMAIN tables
  BY DEF OrderDisk, TablesInv, FilesInv, Live
<1>3. \A c \in Recoverable(w, logs, tables) : seqOf'[c] = seqOf[c]
  BY Numbered
<1>4. DOMAIN logs' \subseteq Nat /\ v.log \in Nat
  <2>1. v.log \in Nat
    <3>1. man' \in Version /\ tail' \in Edits
      BY DEF Base, TInv, DiskOK, Edits
    <3>2. \A k \in DOMAIN tail' : tail'[k].ver \in Version
      BY <3>1, TailEntries
    <3>3. v \in Version
      BY <3>1, <3>2 DEF Describable
    <3> QED BY <3>3 DEF Version
  <2> QED BY <2>1 DEF Base, TInv, DiskOK, LogsOK
<1> QED BY <1>1, <1>2, <1>3, <1>4, LessOrder

(* Likewise in memory, while the log is the same.                           *)
LEMMA MemOrderKept ==
  ASSUME Base, Base', LogNumbers, SeqInv, OrderMem, phase = "open",
         \A c \in Reach : seqOf'[c] = seqOf[c], Reach \cap Grouped' \subseteq Grouped,
         logfile' = logfile, mem' \subseteq mem, imm' \subseteq imm,
         In(Live(vs'), tables') \subseteq In(Live(vs), tables), vs'.log >= vs.log,
         logfile' \in DOMAIN logs',
         \A n \in DOMAIN logs' :
            n \in DOMAIN logs /\ ReadLog(logs'[n].recs) \subseteq ReadLog(logs[n].recs)
  PROVE  OrderMem'
<1>1. /\ logfile >= vs.log /\ logfile \in DOMAIN logs /\ DOMAIN logs \subseteq Nat
      /\ \A n \in DOMAIN logs : n >= vs.log => ReadLog(logs[n].recs) \subseteq Reach
  BY LogReach
<1>2. imm \subseteq Reach /\ mem \subseteq Reach /\ In(Live(vs), tables) \subseteq Reach
      /\ ReadLog(logs[logfile].recs) \subseteq Reach
  BY <1>1, Numbered DEF Held
<1>3. Before(seqOf', imm', mem') /\ Before(seqOf', imm', ReadLog(logs'[logfile'].recs))
  BY <1>2 DEF OrderMem, Before
<1>4. Before(seqOf', In(Live(vs'), tables'), imm' \cup mem')
  BY <1>2 DEF OrderMem, Before
<1>5. ASSUME NEW n \in DOMAIN logs', n >= vs'.log, n # logfile'
      PROVE  ReadLog(logs'[n].recs) \cap Grouped' = {}
  <2>1. n >= vs.log
    <3>1. n \in Nat /\ vs.log \in Nat /\ vs'.log \in Nat
      BY <1>1, BaseFacts DEF Base, TInv, CoreOK, Version
    <3> QED BY <1>5, <3>1
  <2>2. ReadLog(logs'[n].recs) \subseteq ReadLog(logs[n].recs) /\ n \in DOMAIN logs
    BY <1>5
  <2>3. ReadLog(logs[n].recs) \cap Grouped = {} /\ ReadLog(logs[n].recs) \subseteq Reach
    BY <1>1, <1>5, <2>1, <2>2 DEF OrderMem
  <2> QED BY <2>2, <2>3
<1> QED BY <1>3, <1>4, <1>5 DEF OrderMem

(* The writers.                                                             *)
LEMMA StillOrder ==
  ASSUME Base, Base', TablesInv, LogNumbers, LogNumbers', SeqInv, OrderInv,
         phase = "open", phase' = "open",
         \A c \in Reach : seqOf'[c] = seqOf[c], Reach \cap Grouped' \subseteq Grouped,
         UNCHANGED <<tables, man, tail, mem, imm, logfile>>,
         vs'.log = vs.log, Live(vs') = Live(vs),
         DOMAIN logs' = DOMAIN logs, \A n \in DOMAIN logs : logs'[n].recs = logs[n].recs
  PROVE  OrderInv'
<1>1. Describable' = Describable
  BY ManifestFrame
<1>2. OrderDisk'
  BY <1>1, DiskOrderKept DEF OrderInv
<1>3. vs'.log >= vs.log /\ logfile' \in DOMAIN logs'
  BY BaseFacts DEF LogNumbers
<1>4. OrderMem'
  BY <1>3, MemOrderKept DEF OrderInv
<1> QED BY <1>2, <1>4 DEF OrderInv, OrderReplay

(* A record is newer than all that can be read.                             *)
LEMMA AddedOrder ==
  ASSUME Base, Base', TablesInv, LogNumbers, LogNumbers', SeqInv, OrderInv,
         phase = "open", phase' = "open", UNCHANGED <<tables, man, tail, mem, imm, logfile, vs, group, seqOf>>,
         DOMAIN logs' = DOMAIN logs, \A n \in DOMAIN logs \ {logfile} : logs'[n] = logs[n],
         ReadLog(logs'[logfile].recs) \subseteq ReadLog(logs[logfile].recs) \cup Grouped
  PROVE  OrderInv'
<1>1. /\ Describable' = Describable /\ Grouped' = Grouped
  BY ManifestFrame DEF Grouped
<1>2. /\ logfile >= vs.log /\ logfile \in DOMAIN logs /\ DOMAIN logs \subseteq Nat /\ vs.log \in Nat
      /\ \A n \in DOMAIN logs : n <= logfile
      /\ \A v \in Describable : v.log \in Nat /\ v.log >= vs.log /\ v.log <= logfile
      /\ \A n \in DOMAIN logs : n >= vs.log => ReadLog(logs[n].recs) \subseteq Reach
  BY LogReach
<1>3. \A a \in Reach \ Grouped, b \in Grouped : seqOf[a] < seqOf[b]
  BY Numbered
<1>4. ASSUME NEW v \in Describable
      PROVE  InOrder(v, logs', tables', seqOf')
  <2>1. InOrder(v, logs, tables, seqOf)
    BY DEF OrderInv, OrderDisk
  <2>2. ASSUME NEW n \in DOMAIN logs, n >= v.log
        PROVE  Before(seqOf, In(Live(v), tables), ReadLog(logs'[n].recs))
    <3>1. In(Live(v), tables) \subseteq Reach \ Grouped
      BY Numbered, RecoverableIs DEF SeqInv, SeqFiles
    <3>2. CASE n = logfile
      BY <1>3, <2>1, <2>2, <3>1, <3>2 DEF InOrder, Before
    <3>3. CASE n # logfile
      BY <2>1, <2>2, <3>3 DEF InOrder
    <3> QED BY <3>2, <3>3
  <2>3. ASSUME NEW n \in DOMAIN logs, NEW m \in DOMAIN logs, n >= v.log, n < m
        PROVE  Before(seqOf, ReadLog(logs'[n].recs), ReadLog(logs'[m].recs))
    <3>1. n # logfile /\ n >= vs.log
      BY <1>2, <2>3
    <3>2. ReadLog(logs[n].recs) \subseteq Reach \ Grouped
      BY <1>2, <3>1 DEF OrderInv, OrderMem
    <3>3. Before(seqOf, ReadLog(logs[n].recs), ReadLog(logs[m].recs))
      BY <2>1, <2>3 DEF InOrder
    <3>4. CASE m = logfile
      BY <1>3, <3>1, <3>2, <3>3, <3>4 DEF Before
    <3>5. CASE m # logfile
      BY <3>1, <3>3, <3>5
    <3> QED BY <3>4, <3>5
  <2> QED BY <2>1, <2>2, <2>3 DEF InOrder
<1>5. OrderMem'
  <2>1. imm \subseteq Reach \ Grouped
    BY Numbered DEF Held, SeqInv, SeqLast
  <2>2. Before(seqOf, imm, ReadLog(logs'[logfile].recs))
    BY <1>3, <2>1 DEF OrderInv, OrderMem, Before
  <2>3. \A n \in DOMAIN logs : n >= vs.log /\ n # logfile => ReadLog(logs'[n].recs) \cap Grouped = {}
    BY DEF OrderInv, OrderMem
  <2> QED BY <1>1, <2>2, <2>3 DEF OrderInv, OrderMem
<1> QED BY <1>1, <1>4, <1>5 DEF OrderInv, OrderDisk, OrderReplay

(* The group goes from the log's end into the memtable.                     *)
LEMMA InsertOrder ==
  ASSUME Base, SeqInv, OrderInv, phase = "open", phase' = "open",
         UNCHANGED <<logs, tables, man, tail, imm, logfile, vs, group, seqOf>>,
         mem' = mem \cup Grouped
  PROVE  OrderInv'
<1>1. Describable' = Describable /\ Grouped' = Grouped
  BY ManifestFrame DEF Grouped
<1>2. \A a \in imm \cup In(Live(vs), tables), b \in Grouped : seqOf[a] < seqOf[b]
  BY Numbered DEF Held, SeqInv, SeqLast
<1>3. OrderMem'
  BY <1>1, <1>2 DEF OrderInv, OrderMem, Before
<1> QED BY <1>1, <1>3 DEF OrderInv, OrderDisk, OrderReplay

(* Whatever the writers do short of making room.                            *)
LEMMA WriterOrder ==
  ASSUME Base, Base', TablesInv, LogNumbers, LogNumbers', SeqInv, OrderInv,
         \A c \in Reach : seqOf'[c] = seqOf[c], Reach \cap Grouped' \subseteq Grouped,
         NEW c \in Calls, Enqueue(c) \/ WriterStep(c), ~RoomSwitch(c)
  PROVE  OrderInv'
<1>1. phase = "open" /\ phase' = "open"
  BY WorkingStaysOpen DEF Working, Base, StagesInv
<1>2. /\ LogsOK(logs) /\ logfile \in DOMAIN logs /\ vs \in Version
      /\ Grouped \in SUBSET Batches /\ Torn \in SUBSET Batches
  BY <1>1, GroupedFacts, BaseFacts DEF Base, TInv, DiskOK, Torn, LogNumbers
<1>3. CASE AddRecord(c) \/ AddRecordFails(c)
  <2>1. /\ UNCHANGED <<tables, man, tail, mem, imm, logfile, vs, group, seqOf>>
        /\ logs' = logs \/ \E rec \in {Torn, Grouped} : Append1(rec)
    BY <1>3 DEF AddRecord, AddRecordFails, core, Grouped
  <2>2. ASSUME NEW rec \in {Torn, Grouped}, Append1(rec)
        PROVE  /\ DOMAIN logs' = DOMAIN logs
               /\ \A n \in DOMAIN logs \ {logfile} : logs'[n] = logs[n]
               /\ ReadLog(logs'[logfile].recs) \subseteq ReadLog(logs[logfile].recs) \cup Grouped
    <3>1. rec \in SUBSET Batches /\ rec \subseteq Grouped
      BY <1>2 DEF Torn
    <3>2. /\ DOMAIN logs' = DOMAIN logs
          /\ \A m \in DOMAIN logs \ {logfile} : logs'[m] = logs[m]
          /\ logs'[logfile].recs = Append(logs[logfile].recs, rec)
      BY <1>2, <2>2, <3>1, AppendedRecord
    <3>3. logs[logfile].recs \in Seq(SUBSET Batches)
      BY <1>2 DEF LogsOK, Log
    <3>4. ReadLog(Append(logs[logfile].recs, rec)) \subseteq ReadLog(logs[logfile].recs) \cup rec
      BY <3>1, <3>3, ReadLogAppend
    <3> QED BY <3>1, <3>2, <3>4
  <2>3. /\ DOMAIN logs' = DOMAIN logs
        /\ \A n \in DOMAIN logs \ {logfile} : logs'[n] = logs[n]
        /\ ReadLog(logs'[logfile].recs) \subseteq ReadLog(logs[logfile].recs) \cup Grouped
    BY <2>1, <2>2
  <2> QED BY <1>1, <2>1, <2>3, AddedOrder
<1>4. CASE InsertInto(c)
  <2>1. /\ UNCHANGED <<logs, tables, man, tail, imm, logfile, vs, group, seqOf>>
        /\ mem' = mem \cup Grouped
    BY <1>4 DEF InsertInto, disk, Grouped
  <2> QED BY <1>1, <2>1, InsertOrder
<1>5. ASSUME ~AddRecord(c), ~AddRecordFails(c), ~InsertInto(c)
      PROVE  OrderInv'
  <2>1. /\ UNCHANGED <<tables, man, tail, mem, imm, logfile>>
        /\ vs' = vs \/ vs' = [vs EXCEPT !.last = @ + Cardinality(InGroup(group))]
        /\ logs' = logs \/ logs' = [logs EXCEPT ![logfile].synced = Durable]
    BY <1>5 DEF Enqueue, WriterStep, RoomError, RoomDelay, RoomFound, RoomStall, RoomSwitchFails,
       SyncLog, SyncLogFails, FinishWrite, ForceWaits, ForceReturns, disk, core
  <2>2. vs'.log = vs.log /\ Live(vs') = Live(vs)
    BY <1>2, <2>1 DEF Version, Live
  <2>3. DOMAIN logs' = DOMAIN logs /\ \A n \in DOMAIN logs : logs'[n].recs = logs[n].recs
    BY <1>2, <2>1, SyncedRecords
  <2> QED BY <1>1, <2>1, <2>2, <2>3, StillOrder
<1> QED BY <1>3, <1>4, <1>5

(* The memtable becomes the immutable one and a new log begins.             *)
LEMMA SwitchOrder ==
  ASSUME Base, Base', TablesInv, LogNumbers, LogNumbers', SeqInv, OrderInv,
         \A c \in Reach : seqOf'[c] = seqOf[c], Reach \cap Grouped' \subseteq Grouped,
         NEW c \in Calls, RoomSwitch(c)
  PROVE  OrderInv'
<1>1. /\ phase = "open" /\ phase' = "open" /\ pc[c] = "room" /\ ~hasImm
      /\ logs' = Put(logs, vs.next, [recs |-> <<>>, synced |-> 0])
      /\ logfile' = vs.next /\ imm' = mem /\ mem' = {}
      /\ vs' = [vs EXCEPT !.next = @ + 1]
      /\ UNCHANGED <<tables, man, tail>>
  BY DEF RoomSwitch, CanSwitch, AtFront, flags
<1>2. Grouped = {} /\ Describable' = Describable
  BY <1>1, FrontAlone, ManifestFrame
<1>3. vs \in Version /\ vs'.log = vs.log /\ Live(vs') = Live(vs)
  BY <1>1, BaseFacts DEF Version, Live
<1>4. \A n \in DOMAIN logs' : \/ n \in DOMAIN logs /\ logs'[n] = logs[n] /\ n # vs.next
                              \/ n = vs.next /\ ReadLog(logs'[n].recs) = {}
  BY <1>1, ReadLogEmpty DEF Put
<1>5. OrderDisk'
  BY <1>1, <1>2, <1>4, DiskOrderKept DEF OrderInv
<1>6. vs.next \in DOMAIN logs' /\ ReadLog(logs'[vs.next].recs) = {}
  BY <1>1, ReadLogEmpty DEF Put
<1>7. OrderMem'
  <2>1. Before(seqOf', In(Live(vs'), tables'), imm' \cup mem')
    <3>1. In(Live(vs), tables) \cup mem \subseteq Reach
      BY <1>1, Numbered DEF Held
    <3> QED BY <1>1, <1>3, <3>1 DEF OrderInv, OrderMem, Before
  <2>2. Before(seqOf', imm', mem') /\ Before(seqOf', imm', ReadLog(logs'[logfile'].recs))
    BY <1>1, <1>6 DEF Before
  <2>3. ASSUME NEW n \in DOMAIN logs', n >= vs'.log, n # logfile'
        PROVE  ReadLog(logs'[n].recs) \cap Grouped' = {}
    <3>1. n \in DOMAIN logs /\ logs'[n] = logs[n] /\ n >= vs.log
      BY <1>1, <1>3, <1>4, <2>3
    <3>2. ReadLog(logs[n].recs) \subseteq Reach
      BY <1>1, <3>1, LogReach
    <3> QED BY <1>2, <3>1, <3>2
  <2> QED BY <2>1, <2>2, <2>3 DEF OrderMem
<1> QED BY <1>1, <1>5, <1>7 DEF OrderInv, OrderReplay

(* A table that no version has changes nothing.                             *)
LEMMA PutOrder ==
  ASSUME Base, TablesInv, OrderDisk, NEW k, NEW x,
         \A v \in Describable : k \notin Live(v),
         tables' = tables \/ tables' = Put(tables, k, x), logs' = logs, seqOf' = seqOf
  PROVE  \A v \in Describable : InOrder(v, logs', tables', seqOf')
<1> SUFFICES ASSUME NEW v \in Describable PROVE InOrder(v, logs', tables', seqOf')
  OBVIOUS
<1>1. InOrder(v, logs, tables, seqOf) /\ v.l0 \subseteq DOMAIN tables
  BY DEF OrderDisk, TablesInv, FilesInv, Live
<1>2. \A f \in v.l0 : tables'[f] = tables[f]
  BY <1>1 DEF Put, Live
<1>3. In(Live(v), tables') \subseteq In(Live(v), tables)
  BY PutIn
<1>4. DOMAIN logs \subseteq Nat /\ v.log \in Nat
  BY BaseFacts DEF Base, TInv, DiskOK, LogsOK
<1> QED BY <1>1, <1>2, <1>3, <1>4, LessOrder

(* The steps of the background thread that neither add a version nor        *)
(* install one.                                                             *)
LEMMA IdleOrder ==
  ASSUME Base, Base', TablesInv, LogNumbers, LogNumbers', SeqInv, OrderInv,
         \A c \in Reach : seqOf'[c] = seqOf[c], Reach \cap Grouped' \subseteq Grouped,
         \/ Pin \/ Unpin \/ Close \/ BackgroundNothing
         \/ FlushStart \/ FlushFails \/ CompactionStart \/ OpenCompactionOutputFile
         \/ CompactionFails
  PROVE  OrderInv'
<1>1. phase = "open" /\ phase' = "open"
  <2>1. Working
    BY DEF Working, BackgroundStep
  <2> QED BY <2>1, WorkingStaysOpen DEF Base, StagesInv
<1>2. UNCHANGED <<logs, tables, man, tail, mem, imm, logfile>>
  BY DEF Pin, Unpin, Close, BackgroundNothing, FlushStart, FlushFails, CompactionStart,
         OpenCompactionOutputFile, CompactionFails, disk, core
<1>3. vs' = vs \/ vs' = [vs EXCEPT !.next = @ + 1]
  BY DEF Pin, Unpin, Close, BackgroundNothing, FlushStart, FlushFails, CompactionStart,
         OpenCompactionOutputFile, CompactionFails, core
<1>4. vs'.log = vs.log /\ Live(vs') = Live(vs)
  BY <1>3, BaseFacts DEF Version, Live
<1> QED BY <1>1, <1>2, <1>4, StillOrder

(* A table that a compaction writes is in no version yet.                   *)
LEMMA OutputOrder ==
  ASSUME Base, Base', TablesInv, LogNumbers, LogNumbers', SeqInv, OrderInv,
         FinishCompactionOutputFile
  PROVE  OrderInv'
<1>1. /\ cp = "out" /\ tables' = Put(tables, cout, In(cin.files, tables))
      /\ UNCHANGED <<man, tail, vs, logs, mem, imm, logfile, group, seqOf, phase>>
  BY DEF FinishCompactionOutputFile, core, calls, flags
<1>2. phase = "open"
  BY <1>1, AtWork
<1>3. /\ cout \notin Live(vs)
      /\ \A v \in Describable : cout \notin Live(v)
  BY <1>1 DEF TablesInv, TableNumbers, LiveFiles
<1>4. In(Live(vs), tables') = In(Live(vs), tables)
  BY <1>1, <1>3, PutIn
<1>5. Describable' = Describable /\ Grouped' = Grouped
  BY <1>1, ManifestFrame DEF Grouped
<1>6. OrderDisk'
  BY <1>1, <1>3, <1>5, PutOrder DEF OrderInv, OrderDisk
<1>7. vs'.log >= vs.log /\ logfile' \in DOMAIN logs'
  BY <1>1, <1>2, BaseFacts DEF LogNumbers
<1>8. OrderMem'
  BY <1>1, <1>2, <1>4, <1>5, <1>7, MemOrderKept DEF OrderInv
<1> QED BY <1>1, <1>2, <1>6, <1>8 DEF OrderInv, OrderReplay

(* The memtable's table is newer than all others, and what is left to       *)
(* replay is newer than it.                                                 *)
LEMMA FlushBuiltOrder ==
  ASSUME Base, Base', TablesInv, LogNumbers, LogNumbers', SeqInv, OrderInv, OneEdit, FlushBuilt
  PROVE  OrderInv'
<1>1. /\ fl = "build" /\ tables' = IF imm = {} THEN tables ELSE Put(tables, fnum, imm)
      /\ UNCHANGED <<man, vs, imm, mem, logs, logfile, phase, group, seqOf>>
  BY DEF FlushBuilt, core, calls
<1>2. /\ phase = "open" /\ Described'.log = logfile
      /\ Describable' = Describable \cup {Described'}
      /\ In(Live(vs'), tables') = In(Live(vs), tables)
      /\ \A v \in Describable : In(Live(v), tables') = In(Live(v), tables)
      /\ In(Live(Described'), tables') = imm \cup In(Live(Described), tables)
  BY FlushEdit
<1>3. /\ cp \notin {"manifest", "move"} /\ tail = <<>> /\ Described = man
      /\ man.l0 = vs.l0 /\ Live(man) = Live(vs) /\ man.log = vs.log
  <2>1. cp \notin {"manifest", "move"}
    BY <1>1 DEF Base, StagesInv, BackgroundInv
  <2> QED BY <1>1, <1>2, <2>1 DEF OneEdit, Described, Live
<1>4. /\ tail \in Edits /\ man \in Version /\ vs \in Version /\ man \in Describable
      /\ fnum \in Nat /\ logfile \in Nat
      /\ \A v \in Describable : v.next \in Nat /\ Live(v) \subseteq Nat
  BY BaseFacts DEF Describable
<1>5. \A v \in Describable : \A g \in Live(v) : g < fnum
  <2> SUFFICES ASSUME NEW v \in Describable, NEW g \in Live(v) PROVE g < fnum
    OBVIOUS
  <2>1. g < v.next /\ v.next <= fnum
    BY <1>1 DEF TablesInv, TableNumbers, Below
  <2>2. g \in Nat /\ v.next \in Nat
    BY <1>4
  <2> QED BY <1>4, <2>1, <2>2
<1>6. PICK A \in SUBSET Nat, B \in SUBSET Nat :
         /\ A # {} => A = {fnum} /\ imm # {}
         /\ LogEdit(Edit(A, B, {}, logfile))
  <2>1. PICK lvl \in {0, 1} :
           LogEdit(Edit(IF lvl = 0 /\ imm # {} THEN {fnum} ELSE {},
                        IF lvl = 1 /\ imm # {} THEN {fnum} ELSE {}, {}, logfile))
    BY DEF FlushBuilt, FlushLogNumber
  <2>2. /\ (IF lvl = 0 /\ imm # {} THEN {fnum} ELSE {}) \in SUBSET Nat
        /\ (IF lvl = 1 /\ imm # {} THEN {fnum} ELSE {}) \in SUBSET Nat
    BY <1>4
  <2>3. \/ (IF lvl = 0 /\ imm # {} THEN {fnum} ELSE {}) = {}
        \/ (IF lvl = 0 /\ imm # {} THEN {fnum} ELSE {}) = {fnum} /\ imm # {}
    OBVIOUS
  <2> QED BY <2>1, <2>2, <2>3
<1>7. Described'.l0 = man.l0 \cup A
  <2>1. /\ Edit(A, B, {}, logfile) \in VersionEdit
        /\ Edit(A, B, {}, logfile).add0 = A /\ Edit(A, B, {}, logfile).del = {}
    <3>1. vs \in Version /\ logfile \in Nat /\ {} \in SUBSET Nat
      BY <1>4
    <3> QED BY <3>1, EditType
  <2>2. Described' = Apply(man, Edit(A, B, {}, logfile))
    BY <1>1, <1>3, <1>4, <1>6, <2>1, LogEditAdds
  <2> QED BY <1>4, <2>1, <2>2, ApplyType
<1>8. \A v \in Describable : InOrder(v, logs', tables', seqOf')
  <2>1. \A v \in Describable : fnum \notin Live(v)
    BY <1>4, <1>5
  <2> QED BY <1>1, <2>1, PutOrder DEF OrderInv
<1>9. InOrder(man, logs', tables', seqOf')
  BY <1>4, <1>8
<1>10. Before(seqOf, imm, ReadLog(logs[logfile].recs)) /\ Before(seqOf, In(Live(vs), tables), imm)
  BY <1>2 DEF OrderInv, OrderMem, Before
<1>11. InOrder(Described', logs', tables', seqOf')
  <2>1. ASSUME NEW f \in Described'.l0, NEW g \in Described'.l0, f < g
        PROVE  Before(seqOf, tables'[f], tables'[g])
    <3>1. CASE f \in man.l0 /\ g \in man.l0
      BY <1>1, <1>9, <2>1, <3>1 DEF InOrder
    <3>2. CASE f \in man.l0 /\ g = fnum /\ imm # {}
      <4>1. f # fnum /\ f \in DOMAIN tables /\ f \in Live(vs)
        BY <1>3, <1>4, <1>5, <3>2 DEF Live, TablesInv, FilesInv
      <4>2. tables'[f] = tables[f] /\ tables'[g] = imm
        BY <1>1, <3>2, <4>1 DEF Put
      <4>3. tables[f] \subseteq In(Live(vs), tables)
        BY <4>1, InIs
      <4> QED BY <1>10, <4>2, <4>3 DEF Before
    <3>3. CASE f = fnum
      <4>1. g \in Live(man) \/ g = fnum
        BY <1>6, <1>7 DEF Live
      <4>2. g \in Live(man) => g < fnum /\ g \in Nat
        BY <1>4, <1>5
      <4> QED BY <1>4, <2>1, <3>3, <4>1, <4>2
    <3> QED BY <1>6, <1>7, <2>1, <3>1, <3>2, <3>3
  <2>2. /\ logfile >= vs.log /\ logfile \in DOMAIN logs /\ DOMAIN logs \subseteq Nat
        /\ \A n \in DOMAIN logs : n <= logfile
    BY <1>2, LogReach
  <2>3. ASSUME NEW n \in DOMAIN logs, n >= Described'.log
        PROVE  Before(seqOf, In(Live(Described'), tables'), ReadLog(logs[n].recs))
    <3>1. n = logfile
      BY <1>2, <1>4, <2>2, <2>3
    <3>2. Before(seqOf, In(Live(man), tables), ReadLog(logs[logfile].recs))
      BY <1>3, <1>4, <2>2 DEF OrderInv, OrderDisk, InOrder
    <3> QED BY <1>2, <1>3, <1>10, <3>1, <3>2 DEF Before
  <2>4. ASSUME NEW n \in DOMAIN logs, NEW m \in DOMAIN logs, n >= Described'.log, n < m
        PROVE  FALSE
    BY <1>2, <1>4, <2>2, <2>4
  <2> QED BY <1>1, <2>1, <2>3, <2>4 DEF InOrder
<1>12. OrderMem'
  BY <1>1, <1>2 DEF OrderInv, OrderMem, Grouped
<1> QED BY <1>1, <1>2, <1>8, <1>11, <1>12 DEF OrderInv, OrderDisk, OrderReplay

(* What a compaction writes was in tables before, and its edit leaves the   *)
(* log number that the version had.                                         *)
LEMMA MoveOrder ==
  ASSUME Base, Base', TablesInv, LogNumbers, LogNumbers', SeqInv, OrderInv, OneEdit,
         phase = "open", phase' = "open", fl # "manifest", cp \notin {"manifest", "move"},
         UNCHANGED <<man, tables, vs, imm, mem, logs, logfile, group, seqOf>>,
         NEW f \in Nat, NEW D \in SUBSET Nat, LogEdit(Edit({}, {f}, D, vs.log)),
         f \in DOMAIN tables, tables[f] \subseteq In(Live(vs), tables),
         In(D, tables) \subseteq tables[f]
  PROVE  OrderInv'
<1>1. /\ Describable' = Describable \cup {Described'}
      /\ In(Live(Described'), tables) \subseteq In(Live(Described), tables) \cup tables[f]
  BY MoveEdit
<1>2. /\ Described = man /\ man.log = vs.log /\ Live(man) = Live(vs)
  BY DEF OneEdit, Described, Live
<1>3. /\ tail \in Edits /\ man \in Version /\ vs \in Version /\ man \in Describable /\ vs.log \in Nat
      /\ Grouped' = Grouped
  BY BaseFacts DEF Describable, Grouped
<1>4. Described'.log = man.log /\ Described'.l0 \subseteq man.l0
  <2>1. /\ Edit({}, {f}, D, vs.log) \in VersionEdit
        /\ Edit({}, {f}, D, vs.log).add0 = {} /\ Edit({}, {f}, D, vs.log).log = vs.log
    BY <1>3, EditType
  <2>2. Described' = Apply(man, Edit({}, {f}, D, vs.log))
    BY <1>2, <1>3, <2>1, LogEditAdds
  <2> QED BY <1>2, <1>3, <2>1, <2>2, ApplyType
<1>5. OrderDisk'
  <2>1. ASSUME NEW v \in Describable'
        PROVE  \E w \in Describable :
                  /\ v.l0 \subseteq w.l0 /\ v.log = w.log
                  /\ In(Live(v), tables) \subseteq In(Live(w), tables)
    <3>1. CASE v \in Describable
      BY <3>1
    <3>2. CASE v = Described'
      <4>1. In(Live(v), tables) \subseteq In(Live(man), tables)
        BY <1>1, <1>2, <3>2
      <4> QED BY <1>3, <1>4, <3>2, <4>1
    <3> QED BY <1>1, <2>1, <3>1, <3>2
  <2> QED BY <2>1, DiskOrderKept DEF OrderInv
<1>6. vs'.log >= vs.log /\ logfile' \in DOMAIN logs'
  BY <1>3 DEF LogNumbers
<1>7. OrderMem'
  BY <1>3, <1>6, MemOrderKept DEF OrderInv
<1> QED BY <1>5, <1>7 DEF OrderInv, OrderReplay

(* A compaction appends its edit: a table goes down, or its output replaces *)
(* its inputs.                                                              *)
LEMMA CompactionOrder ==
  ASSUME Base, Base', TablesInv, LogNumbers, LogNumbers', SeqInv, OrderInv, OneEdit,
         TrivialMove \/ InstallCompactionResults
  PROVE  OrderInv'
<1>1. phase = "open" /\ phase' = "open"
  <2>1. Working
    BY DEF Working, BackgroundStep
  <2> QED BY <2>1, WorkingStaysOpen DEF Base, StagesInv
<1>2. /\ UNCHANGED <<man, tables, vs, imm, mem, logs, logfile, group, seqOf>>
      /\ fl # "manifest" /\ cp \notin {"manifest", "move"}
  BY DEF TrivialMove, CanCompact, Idle, InstallCompactionResults, core, calls
<1>3. CASE TrivialMove
  <2>1. PICK f \in vs.l0 : LogEdit(Edit({}, {f}, {f}, vs.log))
    BY <1>3 DEF TrivialMove
  <2>2. /\ f \in Nat /\ {f} \in SUBSET Nat /\ f \in Live(vs) /\ f \in DOMAIN tables
    BY <1>1, BaseFacts DEF Live, TablesInv, FilesInv, LiveFiles
  <2>3. tables[f] \subseteq In(Live(vs), tables) /\ In({f}, tables) \subseteq tables[f]
    BY <2>2, InIs
  <2> QED BY <1>1, <1>2, <2>1, <2>2, <2>3, MoveOrder
<1>4. CASE InstallCompactionResults
  <2>1. LogEdit(Edit({}, {cout}, cin.files, vs.log)) /\ cp = "merged"
    BY <1>4 DEF InstallCompactionResults
  <2>2. /\ tables[cout] = In(cin.files, tables) /\ cin.files \subseteq Live(vs)
        /\ cout \in DOMAIN tables /\ cout \in Nat /\ cin.files \in SUBSET Nat
    BY <2>1, BaseFacts DEF TablesInv, FilesInv
  <2>3. tables[cout] \subseteq In(Live(vs), tables)
    BY <2>2, InLess
  <2> QED BY <1>1, <1>2, <2>1, <2>2, <2>3, MoveOrder
<1> QED BY <1>3, <1>4

(* An installed version is the one described, and files go.                 *)
LEMMA InstallOrder ==
  ASSUME Base, Base', TablesInv, TablesInv', LogNumbers, LogNumbers', SeqInv, OrderInv,
         \A c \in Reach : seqOf'[c] = seqOf[c], Reach \cap Grouped' \subseteq Grouped,
         FlushInstall \/ CompactionInstall
  PROVE  OrderInv'
<1>1. /\ SyncManifest /\ UNCHANGED <<mem, logfile>>
      /\ \E base, pend : \/ UNCHANGED <<logs, ghosts, tables>>
                         \/ DeleteObsoleteFiles(vs', base, pend, tables)
  BY DEF FlushInstall, CompactionInstall
<1>2. phase = "open" /\ phase' = "open" /\ Described \in Describable
  BY FlushInstalls, CompactionInstalls
<1>3. /\ Describable' = {Described} /\ Described' = Described
      /\ \A n \in DOMAIN tables' : n \in DOMAIN tables /\ tables'[n] = tables[n]
      /\ \A n \in DOMAIN logs' : n \in DOMAIN logs /\ logs'[n] = logs[n]
      /\ logfile' \in DOMAIN logs'
      /\ In(Live(vs'), tables') = In(Live(vs'), tables)
      /\ In(Live(Described), tables') = In(Live(Described), tables)
  BY <1>1, <1>2, InstallLeaves
<1>4. OrderDisk'
  <2>1. Described.l0 \subseteq DOMAIN tables'
    BY <1>3 DEF TablesInv, FilesInv, Live
  <2> QED BY <1>2, <1>3, <2>1, DiskOrderKept DEF OrderInv
<1>5. OrderMem'
  <2>1. CASE FlushInstall
    <3>1. /\ In(Live(vs'), tables) = imm \cup In(Live(vs), tables) /\ vs'.log = logfile
          /\ imm' = {}
      BY <2>1, FlushInstalls DEF FlushInstall
    <3>2. /\ DOMAIN logs \subseteq Nat /\ \A n \in DOMAIN logs : n <= logfile
      BY <1>2, LogReach
    <3>3. In(Live(vs), tables) \cup imm \cup mem \subseteq Reach
      BY <1>2, Numbered DEF Held
    <3>4. Before(seqOf', In(Live(vs'), tables'), imm' \cup mem')
      BY <1>1, <1>2, <1>3, <3>1, <3>3 DEF OrderInv, OrderMem, Before
    <3>5. Before(seqOf', imm', mem') /\ Before(seqOf', imm', ReadLog(logs'[logfile'].recs))
      BY <3>1 DEF Before
    <3>6. ASSUME NEW n \in DOMAIN logs', n >= vs'.log, n # logfile' PROVE FALSE
      <4>1. n \in Nat /\ n <= logfile /\ n >= logfile /\ n # logfile /\ logfile \in Nat
        BY <1>1, <1>3, <3>1, <3>2, <3>6, BaseFacts
      <4> QED BY <4>1
    <3> QED BY <3>4, <3>5, <3>6 DEF OrderMem
  <2>2. CASE CompactionInstall
    <3>1. In(Live(vs'), tables) = In(Live(vs), tables) /\ vs'.log = vs.log /\ imm' = imm
      BY <2>2, CompactionInstalls DEF CompactionInstall
    <3>2. vs'.log >= vs.log
      BY <3>1, BaseFacts
    <3> QED BY <1>1, <1>2, <1>3, <3>1, <3>2, MemOrderKept DEF OrderInv
  <2> QED BY <2>1, <2>2
<1> QED BY <1>2, <1>4, <1>5 DEF OrderInv, OrderReplay

(* A crash, or a failure to open: what stays on disk is in order.           *)
LEMMA GoneOrder ==
  ASSUME Base, Base', TablesInv, LogNumbers, SeqInv, OrderInv, Gone, tables' = tables,
         \A c \in Reach : seqOf'[c] = seqOf[c],
         \/ UNCHANGED <<logs, man, tail>>
         \/ MachineCrash
  PROVE  OrderInv'
<1>1. phase' = "down"
  BY DEF Gone
<1>2. CASE UNCHANGED <<logs, man, tail>>
  <2>1. Describable' = Describable
    BY <1>2, ManifestFrame
  <2>2. OrderDisk'
    BY <1>2, <2>1, DiskOrderKept DEF OrderInv
  <2> QED BY <1>1, <2>2 DEF OrderInv, OrderMem, OrderReplay
<1>3. CASE MachineCrash
  <2>1. Describable' = {man'}
    BY <1>3, CrashLeavesOne DEF MachineCrash
  <2>2. /\ man' \in Describable
        /\ \A n \in DOMAIN logs' : n >= man'.log =>
              /\ n \in DOMAIN logs
              /\ logs'[n].recs \in Seq(SUBSET Batches)
              /\ Len(logs'[n].recs) \in logs[n].synced..Len(logs[n].recs)
              /\ \A i \in 1..Len(logs'[n].recs) : logs'[n].recs[i] = logs[n].recs[i]
    BY <1>3, CrashKeepsPrefix
  <2>3. ASSUME NEW n \in DOMAIN logs', n >= man'.log
        PROVE  n \in DOMAIN logs /\ ReadLog(logs'[n].recs) \subseteq ReadLog(logs[n].recs)
    <3>1. n \in DOMAIN logs /\ logs[n].recs \in Seq(SUBSET Batches) /\ logs[n].synced \in Nat
          /\ logs'[n].recs \in Seq(SUBSET Batches)
      BY <2>2, <2>3 DEF Base, TInv, DiskOK, LogsOK, Log
    <3>2. Len(logs[n].recs) \in Nat /\ Len(logs'[n].recs) \in Nat
      BY <3>1, LenProperties
    <3>3. Len(logs'[n].recs) <= Len(logs[n].recs)
      BY <2>2, <2>3, <3>1, <3>2
    <3>4. \A i \in 1..Len(logs'[n].recs) : logs'[n].recs[i] = logs[n].recs[i]
      BY <2>2, <2>3
    <3> QED BY <3>1, <3>3, <3>4, ReadLogPrefix
  <2>4. OrderDisk'
    BY <2>1, <2>2, <2>3, DiskOrderKept DEF OrderInv
  <2> QED BY <1>1, <2>4 DEF OrderInv, OrderMem, OrderReplay
<1> QED BY <1>2, <1>3

(* Opening reads the version, ...                                           *)
LEMMA RecoverOrder ==
  ASSUME Base, Base', TablesInv, SeqInv, OrderInv, Recover,
         \A c \in Reach : seqOf'[c] = seqOf[c]
  PROVE  OrderInv'
<1>1. /\ phase' = "replay" /\ replay'.add = {}
      /\ UNCHANGED <<logs, tables, man, tail>>
  BY DEF Recover, disk, NoReplay
<1>2. Describable' = Describable
  BY <1>1, ManifestFrame
<1>3. OrderDisk'
  BY <1>1, <1>2, DiskOrderKept DEF OrderInv
<1> QED BY <1>1, <1>3 DEF OrderInv, OrderMem, OrderReplay

(* ... makes a table of each log, from the oldest, ...                      *)
LEMMA ReplayOrder ==
  ASSUME Base, Base', TablesInv, LogNumbers, SeqInv, OrderInv, RecoverLogFile \/ RecoverLogFileFails
  PROVE  OrderInv'
<1>1. /\ phase = "replay" /\ phase' = "replay" /\ replay.todo # {}
      /\ UNCHANGED <<logs, man, tail, seqOf>>
  BY DEF RecoverLogFile, RecoverLogFileFails, ReplayNext, disk, calls
<1>2. /\ replay \in [todo : SUBSET Nat, add : SUBSET Nat, max : Nat, err : BOOLEAN]
      /\ vs.next \in Nat /\ Described \in Describable
      /\ \A v \in Describable : v.next \in Nat /\ Live(v) \subseteq Nat
      /\ DOMAIN logs \subseteq Nat
  BY BaseFacts DEF Base, TInv, StageOK, DiskOK, LogsOK
<1>3. Described' = Described /\ Describable' = Describable
      /\ LogsToRead(Described, logs)' = LogsToRead(Described, logs)
  BY <1>1, ManifestFrame
<1>4. NextLog \in replay.todo /\ \A m \in replay.todo : NextLog <= m
  <2>1. replay.todo \subseteq Nat
    BY <1>2
  <2>2. PICK n \in replay.todo : \A m \in replay.todo : n <= m
    BY <1>1, <2>1, LeastNat
  <2> QED BY <2>2 DEF NextLog
<1>5. NextLog \in LogsToRead(Described, logs) /\ NextLog \in DOMAIN logs /\ NextLog >= Described.log
      /\ NextLog \in Nat
  BY <1>1, <1>2, <1>4 DEF LogNumbers, LogsToRead
<1>6. /\ replay'.todo = replay.todo \ {NextLog}
      /\ \/ tables' = tables /\ replay'.add = replay.add
         \/ tables' = Put(tables, vs.next, Replayed) /\ replay'.add = replay.add \cup {vs.next}
  <2>1. CASE RecoverLogFile /\ Replayed = {}
    <3>1. tables' = tables
          /\ replay' = [replay EXCEPT !.todo = replay.todo \ {NextLog}, !.err = FALSE]
      BY <2>1 DEF RecoverLogFile
    <3> QED BY <1>2, <3>1
  <2>2. CASE RecoverLogFile /\ Replayed # {}
    <3>1. /\ tables' = Put(tables, vs.next, Replayed)
          /\ replay' = [todo |-> replay.todo \ {NextLog}, add |-> replay.add \cup {vs.next},
                        max |-> MaxSeen, err |-> FALSE]
      BY <2>2 DEF RecoverLogFile
    <3> QED BY <3>1
  <2>3. CASE RecoverLogFileFails
    <3>1. tables' = tables
          /\ replay' = [replay EXCEPT !.todo = @ \ {NextLog}, !.max = MaxSeen, !.err = TRUE]
      BY <2>3 DEF RecoverLogFileFails, disk
    <3> QED BY <1>2, <3>1
  <2> QED BY <2>1, <2>2, <2>3
<1>7. /\ \A f \in replay.add : f < vs.next /\ f \in DOMAIN tables
      /\ \A v \in Describable : \A f \in Live(v) : f < vs.next
  <2>1. /\ Below(replay.add, vs.next) /\ replay.add \subseteq DOMAIN tables
        /\ \A v \in Describable : v.next <= vs.next /\ Below(Live(v), v.next)
    BY <1>1 DEF TablesInv, TableNumbers, FilesInv
  <2>2. ASSUME NEW v \in Describable, NEW f \in Live(v) PROVE f < vs.next
    <3>1. f < v.next /\ v.next <= vs.next /\ f \in Nat /\ v.next \in Nat
      BY <1>2, <2>1 DEF Below
    <3> QED BY <1>2, <3>1
  <2> QED BY <2>1, <2>2 DEF Below
<1>8. OrderDisk'
  <2>1. \A v \in Describable : vs.next \notin Live(v)
    BY <1>2, <1>7
  <2> QED BY <1>1, <1>3, <1>6, <2>1, PutOrder DEF OrderInv, OrderDisk
<1>9. CASE tables' = tables /\ replay'.add = replay.add
  BY <1>1, <1>3, <1>6, <1>8, <1>9 DEF OrderInv, OrderMem, OrderReplay
<1>10. CASE tables' = Put(tables, vs.next, Replayed) /\ replay'.add = replay.add \cup {vs.next}
  <2>1. tables'[vs.next] = Replayed /\ \A f \in replay.add : tables'[f] = tables[f] /\ f # vs.next
    BY <1>2, <1>7, <1>10 DEF Put
  <2>2. \A f \in Live(Described), g \in replay'.add : f < g
    BY <1>1, <1>2, <1>7, <1>10 DEF OrderInv, OrderReplay
  <2>3. ASSUME NEW f \in replay'.add, NEW m \in replay'.todo, NEW c \in tables'[f]
        PROVE  \E n \in LogsToRead(Described, logs) : n < m /\ c \in ReadLog(logs[n].recs)
    <3>1. m \in replay.todo /\ m # NextLog
      BY <1>6
    <3>2. CASE f = vs.next
      <4>1. c \in ReadLog(logs[NextLog].recs)
        BY <2>1, <2>3, <3>2 DEF Replayed
      <4>2. NextLog < m
        BY <1>2, <1>4, <1>5, <3>1
      <4> QED BY <1>5, <4>1, <4>2
    <3>3. CASE f \in replay.add
      BY <1>1, <2>1, <2>3, <3>1, <3>3 DEF OrderInv, OrderReplay
    <3> QED BY <1>10, <3>2, <3>3
  <2>4. ASSUME NEW f \in replay'.add, NEW g \in replay'.add, f < g
        PROVE  Before(seqOf, tables'[f], tables'[g])
    <3>1. CASE f \in replay.add /\ g \in replay.add
      BY <1>1, <2>1, <2>4, <3>1 DEF OrderInv, OrderReplay
    <3>2. CASE f \in replay.add /\ g = vs.next
      <4> SUFFICES ASSUME NEW a \in tables[f], NEW b \in Replayed PROVE seqOf[a] < seqOf[b]
        BY <2>1, <3>2 DEF Before
      <4>1. PICK n \in LogsToRead(Described, logs) : n < NextLog /\ a \in ReadLog(logs[n].recs)
        BY <1>1, <1>4, <3>2 DEF OrderInv, OrderReplay
      <4>2. InOrder(Described, logs, tables, seqOf)
        BY <1>2 DEF OrderInv, OrderDisk
      <4>3. b \in ReadLog(logs[NextLog].recs) /\ n \in DOMAIN logs /\ n >= Described.log
        BY DEF Replayed, LogsToRead
      <4> QED BY <1>5, <4>1, <4>2, <4>3 DEF InOrder, Before
    <3>3. CASE f = vs.next
      <4>1. g <= vs.next /\ g \in Nat
        BY <1>2, <1>7, <1>10
      <4> QED BY <1>2, <2>4, <3>3, <4>1
    <3> QED BY <1>10, <3>1, <3>2, <3>3
  <2>5. OrderReplay'
    BY <1>1, <1>3, <2>2, <2>3, <2>4 DEF OrderReplay
  <2> QED BY <1>1, <1>8, <2>5 DEF OrderInv, OrderMem
<1> QED BY <1>6, <1>9, <1>10

(* ... begins a new log, ...                                                *)
LEMMA OpenLogOrder ==
  ASSUME Base, Base', TablesInv, LogNumbers, SeqInv, OrderInv, OpenLog
  PROVE  OrderInv'
<1>1. /\ phase = "replay" /\ phase' = "replay" /\ replay.todo = {} /\ logfile = 0 /\ replay' = replay
      /\ logs' = Put(logs, vs.next, [recs |-> <<>>, synced |-> 0])
      /\ UNCHANGED <<tables, man, tail, seqOf>>
  BY DEF OpenLog, calls
<1>2. Described' = Described /\ Describable' = Describable
  BY <1>1, ManifestFrame
<1>3. \A n \in DOMAIN logs' : \/ n \in DOMAIN logs /\ logs'[n] = logs[n]
                              \/ ReadLog(logs'[n].recs) = {}
  BY <1>1, ReadLogEmpty DEF Put
<1>4. OrderDisk'
  BY <1>1, <1>2, <1>3, DiskOrderKept DEF OrderInv
<1>5. OrderReplay'
  BY <1>1, <1>2 DEF OrderInv, OrderReplay
<1> QED BY <1>1, <1>4, <1>5 DEF OrderInv, OrderMem

(* ... and installs the tables as level 0, above those it had.              *)
LEMMA OpenInstallOrder ==
  ASSUME Base, Base', TablesInv, TablesInv', LogNumbers, SeqInv, OrderInv, OpenInstall
  PROVE  OrderInv'
<1>1. /\ phase = "replay" /\ phase' = "open" /\ logfile # 0
      /\ vs' = [vs EXCEPT !.log = logfile, !.l0 = @ \cup replay.add]
      /\ man' = vs' /\ tail' = <<>>
      /\ DeleteObsoleteFiles(vs', {}, {}, tables)
      /\ UNCHANGED <<mem, imm, group, seqOf, logfile>>
  BY DEF OpenInstall, calls
<1>2. /\ ~bgErr /\ mem = {} /\ imm = {}
  BY <1>1 DEF Base, StagesInv, BackgroundInv, Quiet
<1>3. /\ vs \in Version /\ logfile \in Nat /\ LogsOK(logs) /\ Described \in Describable
      /\ Described \in Version /\ replay.add \subseteq Nat /\ Live(Described) \subseteq Nat
  BY BaseFacts DEF Base, TInv, DiskOK
<1>4. vs'.log = logfile /\ vs'.l0 = Described.l0 \cup replay.add
  <2>1. vs'.log = logfile /\ vs'.l0 = vs.l0 \cup replay.add
    BY <1>1, <1>3 DEF Version
  <2>2. vs.l0 = Described.l0
    BY <1>1 DEF TablesInv, FilesInv
  <2> QED BY <2>1, <2>2
<1>5. Describable' = {vs'}
  BY <1>1, CrashLeavesOne
<1>6. /\ replay.todo = {} /\ logs[logfile].recs = <<>> /\ logfile \in DOMAIN logs
      /\ \A n \in DOMAIN logs : n <= logfile
  BY <1>1 DEF LogNumbers
<1>7. \A n \in DOMAIN logs' : n \in DOMAIN logs /\ logs'[n] = logs[n]
  BY <1>1, DeletedLogs
<1>8. ASSUME NEW n \in DOMAIN logs', n >= logfile
      PROVE  n = logfile /\ ReadLog(logs'[n].recs) = {}
  <2>1. n \in Nat /\ n <= logfile /\ logs'[n] = logs[n]
    BY <1>3, <1>6, <1>7 DEF LogsOK
  <2> QED BY <1>3, <1>6, <1>8, <2>1, ReadLogEmpty
<1>9. /\ In(replay.add, tables) \subseteq ReplayedLogs
      /\ \A f \in Live(Described), g \in replay.add : f < g
      /\ \A f, g \in replay.add : f < g => Before(seqOf, tables[f], tables[g])
  BY <1>1 DEF SeqInv, SeqReplay, ReplayedLogs, OrderInv, OrderReplay
<1>10. \A f \in vs'.l0 : f \in DOMAIN tables /\ tables'[f] = tables[f]
  <2>1. vs'.l0 \subseteq DOMAIN tables'
    BY <1>5 DEF TablesInv, FilesInv, Live
  <2> QED BY <1>1, <2>1, DeletedTables
<1>11. InOrder(Described, logs, tables, seqOf)
  BY <1>3 DEF OrderInv, OrderDisk
<1>12. ASSUME NEW f \in vs'.l0, NEW g \in vs'.l0, f < g
       PROVE  Before(seqOf, tables[f], tables[g])
  <2>1. CASE f \in Described.l0 /\ g \in Described.l0
    BY <1>11, <1>12, <2>1 DEF InOrder
  <2>2. CASE f \in replay.add /\ g \in replay.add
    BY <1>9, <1>12, <2>2
  <2>3. CASE f \in Described.l0 /\ g \in replay.add
    <3> SUFFICES ASSUME NEW a \in tables[f], NEW b \in tables[g] PROVE seqOf[a] < seqOf[b]
      BY DEF Before
    <3>1. a \in In(Live(Described), tables)
      BY <1>10, <2>3, InIs DEF Live
    <3>2. b \in ReplayedLogs
      BY <1>9, <1>10, <2>3, InIs
    <3>3. PICK n \in LogsToRead(Described, logs) : b \in ReadLog(logs[n].recs)
      BY <3>2 DEF ReplayedLogs
    <3> QED BY <1>11, <3>1, <3>3 DEF InOrder, Before, LogsToRead
  <2>4. CASE f \in replay.add /\ g \in Described.l0
    <3>1. g < f /\ f \in Nat /\ g \in Nat
      BY <1>3, <1>9, <2>4 DEF Live
    <3> QED BY <1>12, <3>1
  <2> QED BY <1>4, <2>1, <2>2, <2>3, <2>4
<1>13. InOrder(vs', logs', tables', seqOf')
  <2>1. \A f, g \in vs'.l0 : f < g => Before(seqOf', tables'[f], tables'[g])
    BY <1>1, <1>10, <1>12
  <2>2. \A n \in DOMAIN logs' : n >= vs'.log =>
           Before(seqOf', In(Live(vs'), tables'), ReadLog(logs'[n].recs))
    BY <1>4, <1>8 DEF Before
  <2>3. \A n, m \in DOMAIN logs' : n >= vs'.log /\ n < m =>
           Before(seqOf', ReadLog(logs'[n].recs), ReadLog(logs'[m].recs))
    BY <1>4, <1>8 DEF Before
  <2> QED BY <2>1, <2>2, <2>3 DEF InOrder
<1>14. OrderMem'
  BY <1>1, <1>2, <1>4, <1>8 DEF OrderMem, Before
<1> QED BY <1>1, <1>5, <1>13, <1>14 DEF OrderInv, OrderDisk, OrderReplay

(* A new database has nothing that could be out of order.                   *)
LEMMA OrderInit == Init => OrderInv /\ OneEdit
<1> SUFFICES ASSUME Init PROVE OrderInv /\ OneEdit
  OBVIOUS
<1>1. /\ logs = <<>> /\ tail = <<>> /\ man = NoVersions /\ phase = "down"
  BY DEF Init
<1>2. DOMAIN logs = {} /\ DOMAIN tail = {}
  BY <1>1, EmptyLogs
<1>3. Describable = {NoVersions}
  BY <1>1, <1>2 DEF Describable
<1>4. InOrder(NoVersions, logs, tables, seqOf)
  BY <1>2 DEF InOrder, NoVersions
<1> QED BY <1>1, <1>3, <1>4 DEF OrderInv, OrderDisk, OrderMem, OrderReplay, OneEdit

(* Every step keeps the order.                                              *)
LEMMA OrderStep ==
  ASSUME Files, Files', SeqInv, OneEdit, OrderInv, [Next]_vars
  PROVE  OrderInv'
<1>1. /\ Base /\ Base' /\ TablesInv /\ TablesInv' /\ LogNumbers /\ LogNumbers'
  BY DEF Files
<1>2. /\ \A c \in Reach : seqOf'[c] = seqOf[c]
      /\ Reach \cap Grouped' \subseteq Grouped
  BY <1>1, NumbersKept
<1>3. ASSUME NEW c \in Calls, Enqueue(c) \/ WriterStep(c) PROVE OrderInv'
  BY <1>1, <1>2, <1>3, WriterOrder, SwitchOrder
<1>4. ASSUME Pin \/ Unpin \/ Close \/ BackgroundStep PROVE OrderInv'
  BY <1>1, <1>2, <1>4, IdleOrder, FlushBuiltOrder, OutputOrder, CompactionOrder, InstallOrder
     DEF BackgroundStep
<1>5. CASE OpenStep
  <2>1. CASE OpenFails
    <3>1. Gone /\ UNCHANGED <<logs, tables, man, tail>>
      BY <2>1 DEF OpenFails, disk
    <3> QED BY <1>1, <1>2, <3>1, GoneOrder
  <2> QED BY <1>1, <1>2, <1>5, <2>1, RecoverOrder, ReplayOrder, OpenLogOrder, OpenInstallOrder
          DEF OpenStep
<1>6. CASE Closed \/ ProcessCrash
  <2>1. Gone /\ UNCHANGED <<logs, tables, man, tail>>
    BY <1>6 DEF Closed, ProcessCrash, disk
  <2> QED BY <1>1, <1>2, <2>1, GoneOrder
<1>7. CASE MachineCrash
  <2>1. Gone /\ tables' = tables
    BY <1>7 DEF MachineCrash
  <2> QED BY <1>1, <1>2, <1>7, <2>1, GoneOrder
<1>8. CASE UNCHANGED vars
  <2>1. /\ UNCHANGED <<logs, tables, man, tail, phase, mem, imm, vs, group, seqOf, replay, logfile>>
    BY <1>8 DEF vars, disk, core, calls, flags
  <2>2. Grouped' = Grouped /\ Describable' = Describable /\ Described' = Described
    BY <2>1, ManifestFrame DEF Grouped
  <2> QED BY <2>1, <2>2 DEF OrderInv, OrderDisk, OrderMem, OrderReplay
<1> QED BY <1>3, <1>4, <1>5, <1>6, <1>7, <1>8, NextSteps DEF Working

(* The order, with the invariants it rests on.                              *)
LEMMA OrderHolds ==
  ASSUME "manifest" \notin Faults
  PROVE  Spec => [](Files /\ SeqInv /\ OneEdit /\ OrderInv)
<1>1. Init => OrderInv /\ OneEdit
  BY OrderInit
<1>2. Files /\ Files' /\ SeqInv /\ OneEdit /\ OrderInv /\ [Next]_vars => OrderInv' /\ OneEdit'
  BY OrderStep, OneEditStep DEF Files
<1>3. Spec => [](OrderInv /\ OneEdit)
  BY <1>1, <1>2, SeqHolds, PTL DEF Spec
<1> QED BY <1>3, SeqHolds, PTL

(* A read may stop at the first place that has the key: through groups,     *)
(* memtable switches, flushes, moves, compactions, crashes and the replay   *)
(* of logs, the memtable is newer than the immutable one, that than every   *)
(* table, and level 0 is in the order of its numbers (DBImpl::Get,          *)
(* Version::Get).  An edit of the MANIFEST that fails, and stays to be      *)
(* synced with a later one, would break it.                                 *)
THEOREM NewestFirstHolds ==
  ASSUME "manifest" \notin Faults
  PROVE  Spec => []NewestFirst
<1>1. Files /\ OneEdit /\ OrderInv => NewestFirst
  <2> SUFFICES ASSUME Files, OneEdit, OrderInv, phase = "open" PROVE NewestFirst
    BY DEF NewestFirst
  <2>1. man \in Describable /\ man.l0 = vs.l0
    BY DEF Describable, OneEdit
  <2>2. \A f, g \in vs.l0 : f < g => Before(seqOf, tables[f], tables[g])
    BY <2>1 DEF OrderInv, OrderDisk, InOrder
  <2>3. /\ Before(seqOf, imm, mem) /\ Before(seqOf, In(Live(vs), tables), imm \cup mem)
    BY DEF OrderInv, OrderMem
  <2> QED BY <2>2, <2>3 DEF NewestFirst, Before
<1> QED BY <1>1, OrderHolds, PTL

-----------------------------------------------------------------------------
(***************************************************************************)
(* Waiting: the background thread is there to end it.                      *)
(***************************************************************************)

(* A step that leaves the reasons to wait and to work alone, and that makes *)
(* no call wait which did not.                                              *)
LEMMA WakeFrame ==
  ASSUME WakeInv, phase = "open", UNCHANGED <<hasImm, bgErr, sched>>, vs'.l0 = vs.l0,
         Idle' => Idle,
         \A c \in Calls : /\ pc'[c] = "stall" => pc[c] = "stall"
                          /\ pc'[c] = "flushstall" => pc[c] = "flushstall",
         \/ shutting' = shutting /\ (shutting => pc' = pc)
         \/ shutting' /\ \A c \in Calls : pc'[c] \in {"idle", "done"}
  PROVE  WakeInv'
BY DEF WakeInv, NeedsWork

(* The end of BackgroundCall wakes everyone, and schedules the next one if  *)
(* and only if there is work.                                               *)
LEMMA WakeEnd ==
  ASSUME WakeInv, phase = "open", pc \in [Calls -> Stages], pc' = Woken(pc), shutting' = shutting,
         \/ sched' = NeedsWork(hasImm', vs', bgErr')
         \/ sched' /\ cp' # "no"
  PROVE  WakeInv'
<1>1. \A c \in Calls : pc'[c] \notin {"stall", "flushstall"}
  BY DEF Woken
<1>2. \A c \in Calls : pc[c] \in {"idle", "done"} => pc'[c] = pc[c]
  BY DEF Woken
<1>3. CASE sched' = NeedsWork(hasImm', vs', bgErr')
  <2>1. NeedsWork(hasImm, vs, bgErr)' => sched'
    BY <1>3 DEF NeedsWork
  <2>2. Idle' => NeedsWork(hasImm, vs, bgErr)'
    BY <1>3 DEF NeedsWork, Idle
  <2> QED BY <1>1, <1>2, <2>1, <2>2 DEF WakeInv
<1>4. CASE sched' /\ cp' # "no"
  <2>1. ~Idle'
    BY <1>4 DEF Idle
  <2> QED BY <1>1, <1>2, <1>4, <2>1 DEF WakeInv
<1> QED BY <1>3, <1>4

(* The first writers leave: those that stay wait for what they waited for,  *)
(* unless they were signalled.                                              *)
LEMMA LeaveWakes ==
  ASSUME NEW n, NEW st, NEW p, Leave(n, st, p)
  PROVE  \A c \in Calls : /\ pc'[c] = "stall" => p[c] = "stall"
                          /\ pc'[c] = "flushstall" => p[c] = "flushstall"
BY DEF Leave

(* A writer that goes on is in a database that is not being closed, and     *)
(* waits only after it has looked.                                          *)
LEMMA WriterWake ==
  ASSUME Base, WakeInv, NEW c \in Calls, WriterStep(c)
  PROVE  WakeInv'
<1>1. phase = "open" /\ phase' = "open" /\ shutting' = shutting
  <2>1. phase = "open" /\ phase' = "open"
    BY WorkingStaysOpen DEF Working, Base, StagesInv
  <2> QED BY <2>1 DEF WriterStep, RoomError, RoomDelay, RoomFound, RoomStall, RoomSwitch, RoomSwitchFails,
       AddRecord, AddRecordFails, SyncLog, SyncLogFails, InsertInto, FinishWrite, ForceWaits,
       ForceReturns, flags
<1>2. pc[c] \notin {"idle", "done"} /\ ~shutting
  <2>1. pc[c] \notin {"idle", "done"}
    BY DEF WriterStep, RoomError, RoomDelay, RoomFound, RoomStall, RoomSwitch, RoomSwitchFails,
       CanSwitch, AtFront, AddRecord, AddRecordFails, SyncLog, SyncLogFails, InsertInto,
       FinishWrite, ForceWaits, ForceReturns
  <2> QED BY <1>1, <2>1 DEF WakeInv
<1>3. pc \in [Calls -> Stages]
  BY DEF Base, QInv, QueueType
<1>4. \A st : pc' = [pc EXCEPT ![c] = st] =>
         \A d \in Calls : pc'[d] = IF d = c THEN st ELSE pc[d]
  BY <1>3
<1>5. CASE RoomError(c) \/ RoomSwitchFails(c)
  <2>1. Leave(1, "err", pc) /\ UNCHANGED <<hasImm, bgErr, sched, vs>> /\ (Idle' <=> Idle)
    BY <1>5 DEF RoomError, RoomSwitchFails, core, flags, bg, Idle
  <2> QED BY <1>1, <1>2, <2>1, LeaveWakes, WakeFrame
<1>6. CASE RoomDelay(c)
  <2>1. UNCHANGED <<hasImm, bgErr, sched, vs, pc>> /\ (Idle' <=> Idle)
    BY <1>6 DEF RoomDelay, core, flags, bg, Idle
  <2> QED BY <1>1, <1>2, <2>1, WakeFrame
<1>7. CASE RoomFound(c)
  <2>1. UNCHANGED <<hasImm, bgErr, sched, vs>> /\ (Idle' <=> Idle) /\ pc' = [pc EXCEPT ![c] = "append"]
    BY <1>7 DEF RoomFound, StartLogging, core, flags, bg, Idle
  <2> QED BY <1>1, <1>2, <1>4, <2>1, WakeFrame
<1>8. CASE RoomStall(c)
  <2>1. /\ UNCHANGED <<hasImm, bgErr, sched, vs>> /\ (Idle' <=> Idle) /\ pc' = [pc EXCEPT ![c] = "stall"]
        /\ ~bgErr /\ (hasImm \/ Cardinality(vs.l0) >= L0Stop)
    BY <1>8 DEF RoomStall, core, flags, bg, Idle
  <2> QED BY <1>1, <1>2, <1>4, <2>1 DEF WakeInv, NeedsWork
<1>9. CASE RoomSwitch(c)
  <2>1. /\ ~bgErr /\ bgErr' = bgErr /\ ~hasImm /\ hasImm' /\ vs'.l0 = vs.l0
        /\ UNCHANGED <<fl, cp>> /\ sched' = (sched \/ NeedsWork(TRUE, vs, bgErr))
    BY <1>9 DEF RoomSwitch, CanSwitch, flags, Base, TInv, CoreOK, Version
  <2>2. \A d \in Calls : /\ pc'[d] = "stall" => pc[d] = "stall"
                         /\ pc'[d] = "flushstall" => pc[d] = "flushstall"
    <3>1. CASE c \in Forced
      BY <1>9, <3>1, LeaveWakes DEF RoomSwitch
    <3>2. CASE c \notin Forced
      BY <1>4, <1>9, <3>2 DEF RoomSwitch, StartLogging
    <3> QED BY <3>1, <3>2
  <2>3. sched'
    BY <1>2, <2>1 DEF NeedsWork
  <2> QED BY <1>1, <1>2, <2>1, <2>2, <2>3 DEF WakeInv, NeedsWork
<1>10. CASE AddRecord(c) \/ AddRecordFails(c) \/ SyncLog(c) \/ SyncLogFails(c) \/ InsertInto(c)
  <2>1. PICK st \in Logging : pc' = [pc EXCEPT ![c] = st]
    BY <1>10 DEF AddRecord, AddRecordFails, SyncLog, SyncLogFails, InsertInto, AfterLog, Logging
  <2>2. UNCHANGED <<hasImm, bgErr, sched, vs>> /\ (Idle' <=> Idle)
    BY <1>10 DEF AddRecord, AddRecordFails, SyncLog, SyncLogFails, InsertInto, core, flags, bg, Idle
  <2>3. st \notin {"stall", "flushstall"}
    BY DEF Logging
  <2> QED BY <1>1, <1>2, <1>4, <2>1, <2>2, <2>3, WakeFrame
<1>11. CASE FinishWrite(c)
  <2> DEFINE p == IF bgErr' # bgErr THEN Woken(pc) ELSE pc
  <2>1. /\ UNCHANGED <<hasImm, sched>> /\ vs'.l0 = vs.l0 /\ (Idle' <=> Idle)
        /\ bgErr' = (bgErr \/ pc[c] = "syncfailed")
        /\ Leave(Len(group), IF pc[c] = "finish" THEN "ok" ELSE "err", p)
    BY <1>11 DEF FinishWrite, bg, Idle, Base, TInv, CoreOK, Version
  <2>2. \A d \in Calls : /\ pc'[d] = "stall" => p[d] = "stall"
                         /\ pc'[d] = "flushstall" => p[d] = "flushstall"
    BY <2>1, LeaveWakes
  <2>3. CASE bgErr' = bgErr
    BY <1>1, <1>2, <2>1, <2>2, <2>3, WakeFrame
  <2>4. CASE bgErr' # bgErr
    <3>1. \A d \in Calls : pc'[d] \notin {"stall", "flushstall"}
      BY <2>2, <2>4 DEF Woken
    <3>2. bgErr'
      BY <2>1, <2>4 DEF Base, TInv, StageOK
    <3> QED BY <1>1, <1>2, <3>1, <3>2 DEF WakeInv, NeedsWork
  <2> QED BY <2>3, <2>4
<1>12. CASE ForceWaits(c)
  <2>1. /\ UNCHANGED <<hasImm, bgErr, sched, vs>> /\ (Idle' <=> Idle)
        /\ pc' = [pc EXCEPT ![c] = "flushstall"] /\ ~bgErr /\ hasImm
    BY <1>12 DEF ForceWaits, core, flags, bg, Idle
  <2> QED BY <1>1, <1>2, <1>4, <2>1 DEF WakeInv, NeedsWork
<1>13. CASE ForceReturns(c)
  <2>1. /\ UNCHANGED <<hasImm, bgErr, sched, vs>> /\ (Idle' <=> Idle)
        /\ pc' = [pc EXCEPT ![c] = "done"]
    BY <1>13 DEF ForceReturns, core, flags, bg, Idle
  <2> QED BY <1>1, <1>2, <1>4, <2>1, WakeFrame
<1> QED BY <1>5, <1>6, <1>7, <1>8, <1>9, <1>10, <1>11, <1>12, <1>13 DEF WriterStep

(* A stage of the background thread leaves what is waited for alone, or     *)
(* ends and wakes everyone.                                                 *)
LEMMA BackgroundWake ==
  ASSUME Base, WakeInv, BackgroundStep
  PROVE  WakeInv'
<1>1. phase = "open" /\ phase' = "open"
  BY WorkingStaysOpen DEF Working, Base, StagesInv
<1>2. shutting' = shutting
  BY DEF BackgroundStep, BackgroundNothing, FlushStart, FlushBuilt, FlushInstall, FlushFails,
     CompactionStart, TrivialMove, OpenCompactionOutputFile, FinishCompactionOutputFile,
     InstallCompactionResults, CompactionInstall, CompactionFails, flags
<1>3. pc \in [Calls -> Stages] /\ vs \in Version
  BY DEF Base, QInv, QueueType, TInv, CoreOK
<1>4. CASE BackgroundNothing
  BY <1>1, <1>2, <1>3, <1>4, WakeEnd DEF BackgroundNothing, BackgroundEnd, core, flags
<1>5. CASE FlushStart \/ FlushBuilt \/ CompactionStart \/ TrivialMove \/ OpenCompactionOutputFile
           \/ FinishCompactionOutputFile \/ InstallCompactionResults
  <2>1. /\ UNCHANGED <<hasImm, bgErr, sched, pc>> /\ vs'.l0 = vs.l0
        /\ fl' # "no" \/ cp' # "no"
    BY <1>3, <1>5 DEF FlushStart, FlushBuilt, CompactionStart, TrivialMove, OpenCompactionOutputFile,
       FinishCompactionOutputFile, InstallCompactionResults, core, flags, calls, Version
  <2>2. ~Idle'
    BY <2>1 DEF Idle
  <2> QED BY <1>1, <1>2, <2>1, <2>2, WakeFrame
<1>6. CASE FlushInstall \/ FlushFails
  <2>1. fl # "no" /\ hasImm /\ sched
    BY <1>6 DEF FlushInstall, FlushFails, Base, StagesInv, BackgroundInv
  <2>2. CASE cp # "no"
    BY <1>1, <1>2, <1>3, <1>6, <2>1, <2>2, WakeEnd DEF FlushInstall, FlushFails
  <2>3. CASE cp = "no" /\ FlushInstall
    BY <1>1, <1>2, <1>3, <2>3, WakeEnd DEF FlushInstall, BackgroundEnd, flags
  <2>4. CASE cp = "no" /\ FlushFails
    BY <1>1, <1>2, <1>3, <2>1, <2>4, WakeEnd DEF FlushFails, BackgroundEnd, core
  <2> QED BY <1>6, <2>2, <2>3, <2>4
<1>7. CASE CompactionInstall
  BY <1>1, <1>2, <1>3, <1>7, WakeEnd DEF CompactionInstall, BackgroundEnd
<1>8. CASE CompactionFails
  BY <1>1, <1>2, <1>3, <1>8, WakeEnd DEF CompactionFails, BackgroundEnd, core
<1> QED BY <1>4, <1>5, <1>6, <1>7, <1>8 DEF BackgroundStep

(* Calls come, the database is closed, dies and is opened again.            *)
LEMMA WakeStep ==
  ASSUME Base, WakeInv, [Next]_vars
  PROVE  WakeInv'
<1>1. ASSUME NEW c \in Calls, Enqueue(c) PROVE WakeInv'
  <2>1. /\ phase = "open" /\ ~shutting /\ UNCHANGED <<hasImm, bgErr, sched, vs, shutting>>
        /\ (Idle' <=> Idle)
        /\ pc' = [pc EXCEPT ![c] = IF queue = <<>> THEN "room" ELSE "wait"]
    BY <1>1 DEF Enqueue, core, flags, bg, Idle
  <2>2. \A d \in Calls : pc'[d] \in {pc[d], "room", "wait"}
    BY <2>1 DEF Base, QInv, QueueType
  <2> QED BY <2>1, <2>2, WakeFrame
<1>2. ASSUME NEW c \in Calls, WriterStep(c) PROVE WakeInv'
  BY <1>2, WriterWake
<1>3. CASE Pin \/ Unpin \/ Close
  <2>1. phase = "open"
    BY <1>3, OnlyOpenWorks DEF Working, Base, StagesInv
  <2>2. /\ UNCHANGED <<hasImm, bgErr, sched, vs, pc>> /\ (Idle' <=> Idle)
        /\ \/ shutting' = shutting
           \/ shutting' /\ \A c \in Calls : pc[c] \in {"idle", "done"}
    BY <1>3 DEF Pin, Unpin, Close, core, calls, bg, Idle
  <2> QED BY <2>1, <2>2, WakeFrame
<1>4. CASE BackgroundStep
  BY <1>4, BackgroundWake
<1>5. CASE OpenStep
  <2>1. CASE OpenInstall
    <3>1. Quiet
      BY <2>1 DEF OpenInstall, Base, StagesInv, BackgroundInv
    <3>2. /\ UNCHANGED <<hasImm, bgErr, shutting, pc>> /\ sched' = NeedsWork(FALSE, vs', FALSE)
      BY <2>1 DEF OpenInstall, calls
    <3>3. hasImm' = FALSE /\ bgErr' = FALSE
      BY <3>1, <3>2 DEF Quiet, Base, TInv, CoreOK, StageOK
    <3>4. /\ NeedsWork(hasImm, vs, bgErr)' => sched'
          /\ Idle' => NeedsWork(hasImm, vs, bgErr)'
      BY <3>2, <3>3 DEF NeedsWork, Idle
    <3> QED BY <3>1, <3>2, <3>4 DEF WakeInv, Quiet
  <2>2. CASE ~OpenInstall
    <3>1. phase' # "open"
      BY <1>5, <2>2 DEF OpenStep, Recover, RecoverLogFile, RecoverLogFileFails, ReplayNext, OpenLog,
         OpenFails, Gone
    <3> QED BY <3>1 DEF WakeInv
  <2> QED BY <2>1, <2>2
<1>6. CASE Closed \/ ProcessCrash \/ MachineCrash
  BY <1>6 DEF Closed, ProcessCrash, MachineCrash, Gone, WakeInv
<1>7. CASE UNCHANGED vars
  BY <1>7 DEF vars, core, calls, bg, flags, WakeInv, Idle, NeedsWork
<1> QED BY <1>1, <1>2, <1>3, <1>4, <1>5, <1>6, <1>7, NextSteps DEF Working

(* No wake-up of bg_cv_ is lost, whatever fails: a writer that              *)
(* MakeRoomForWrite has stalled and a TEST_CompactMemTable that waits wait  *)
(* for what is still so, with the background thread scheduled to end it;    *)
(* and BackgroundCall never starts for nothing.                             *)
THEOREM NoLostWakeupHolds == Spec => []NoLostWakeup
<1>1. Init => WakeInv
  BY DEF Init, WakeInv
<1>2. Spec => []WakeInv
  BY <1>1, BaseHolds, WakeStep, PTL DEF Spec
<1>3. Files /\ WakeInv => NoLostWakeup
  <2> SUFFICES ASSUME Files, WakeInv PROVE NoLostWakeup
    OBVIOUS
  <2> USE DEF Files
  <2>1. Cardinality(vs.l0) \in Nat
    <3>1. phase # "down" => vs.l0 \subseteq 0 .. vs.next
      BY BaseFacts DEF TablesInv, TableNumbers, Below, Live
    <3>2. vs.l0 \subseteq 0 .. vs.next
      BY <3>1 DEF Base, StagesInv, BackgroundInv, NoVersions
    <3>3. vs.next \in Nat
      BY BaseFacts
    <3>4. IsFiniteSet(0 .. vs.next)
      BY <3>3, FS_Interval
    <3> QED BY <3>2, <3>4, FS_Subset, FS_CardinalityType
  <2>2. Cardinality(vs.l0) >= L0Stop => Cardinality(vs.l0) >= L0Trigger
    BY <2>1, StoreAssumption
  <2>3. (\E c \in Calls : pc[c] \in {"stall", "flushstall"}) \/ Idle => phase = "open"
    BY DEF Base, StagesInv, BackgroundInv, Quiet, Idle
  <2>4. ASSUME NEW c \in Calls, pc[c] \in {"stall", "flushstall"}
        PROVE  ~shutting /\ phase = "open"
    BY <2>3, <2>4 DEF WakeInv
  <2> QED BY <2>2, <2>3, <2>4 DEF WakeInv, NeedsWork, NoLostWakeup
<1> QED BY <1>2, <1>3, FilesHold, PTL
=============================================================================
