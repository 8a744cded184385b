# Forum and its storage engine in TLA+

A verification project for two systems of this repository: **Forum** (`src/Apps/Forum17/2017/Forum`, a
Swift/Firebase conference app), and **LevelDB** (`src/Apps/Forum17/2017/Pods/leveldb-library`), the storage engine
in C++ that is built into the app with FirebaseDatabase. The app never turns Firebase's persistence on, so the two are
separate models: the first is about callbacks on a phone, the second about threads, files and crashes. The tree also
holds **Kort sagt** (`src/Apps/Kort sagt/KortSagt-master/KortSagt`, a client for a YouTube channel), other vendored
libraries, design files, and READMEs without code (Botler, MyBotler), which are not modelled.

## 1. The system

### Components, state, operations

| part | state it keeps | operations that change it | module |
|---|---|---|---|
| Session: `UserController`, `LoginView`, `AppDelegate`, `Network.checkUserStatus` | Firebase's account (keychain), `User.userContainer`, `loadedFirst`, `newDownload`, the listeners on `users/<uid>/info`, LoginView's blur | launch, `viewDidAppear`, info callback, log-out (main thread, then a global queue), three sign-ins, tabs, restart | `ForumSession` |
| Programme and favourite lectures: `LectureController`, `UserController`, `LectureListView`, `FavoritesListView` | `Lecture.lectureContainer`, `User.favoriteLectures`, FCM topics, the list's container, rows and hearts | load, snapshot of the programme, snapshot of the favourites, day segment, heart, favourites tab and its hearts | `ForumProgramme` |
| Auction: `AuctionController`, `AuctionListView`, `AuctionItemView` | `AuctionItem.AuctionItemContainer`, bids in memory, `User.favoriteAuctionItems`, an open page | snapshot, open, bid, heart, favourites segment | `ForumAuction` |
| Reminders: `AppDelegate.getData`, `MessageController.upcomingLectures` | a 1200 s timer | tick, scan, push | - |
| Edit form, lecture page, map, cells | a form's item, layout, an image | close, add | - |
| Kort sagt | shared arrays of videos, page tokens, an image cache | load page, refresh, search, select | - |
| Write path: `DBImpl::Write`, `MakeRoomForWrite`, `BuildBatchGroup`, `log::Writer` | the queue of writers, the log, the memtable and the one being flushed, `bg_error_` | enqueue, make room, append, sync, insert, leave | `LevelStore` |
| Background thread: `BackgroundCall`, `CompactMemTable`, `VersionSet::LogAndApply`, `DeleteObsoleteFiles` | the versions, the MANIFEST, the table files, `pending_outputs_` | flush, compact, append and sync an edit, install, delete | `LevelStore` |
| Closing and recovery: `~DBImpl`, `DB::Open`, `DBImpl::Recover` | what is in files after a crash | recover, replay a log, install | `LevelStore` |
| The log's format: `log::Writer`, `log::Reader` | blocks of fragments | cut a record up, read it back | `LogFormat` |
| Levels: `VersionSet::PickCompaction`, `SetupOtherInputs`, `DoCompactionWork`, `CompactRange`, `Version::Get`, snapshots | the tables of each level, a running compaction, the snapshots | write, flush to a level, pick, move, merge, manual compaction, snapshot | `LevelCompaction` |
| Iterators: `DBIter`, `MergingIterator`, the memtable's skip list | positions, directions, the saved key | `SeekToFirst`, `SeekToLast`, `Seek`, `Next`, `Prev`; writers insert | `LevelIterator` |
| Tables, blocks, caches, arena, POSIX files | encodings, cached blocks | - | - |

### How they interact

The storage engine has any number of calling threads, one background thread and one mutex. `Write` gives the mutex up
while the front writer appends, syncs and inserts; the background thread gives it up while it builds tables and appends
to the MANIFEST; a reader holds it only to take references. Between any two of these the process or the machine can die,
and a file operation can fail. What is hard: that the queue alone keeps a second writer out; that a group mixes
synchronous and asynchronous writes; that a log may go only when what it holds is safe elsewhere; that a compaction
decides by a snapshot list and a version that have changed when it is done; that an iterator turns on a memtable that
grows under it.

All parts of Forum share static variables (`User.userContainer`, `User.favoriteLectures`,
`Lecture.lectureContainer`, `AuctionItem.AuctionItemContainer`) and a global `loadedFirst`. They are driven by

* **Firebase listeners** (`observe(.value)`), never removed: each runs once with the current value and again at
  every change, on the main queue. `viewDidAppear` registers the info listener; *every* info callback empties the
  programme and registers a programme listener; *every* programme callback registers a favourites listener;
* **UIKit** on the main queue: taps, tab switches, `viewWillAppear`, `viewDidAppear`;
* **one background block** per log-out, on a global queue, which signs out of Firebase and empties
  `User.userContainer` while the main queue goes on;
* **network answers** of sign-ins, which may arrive late, in any order, or never.

What is hard: a callback that reads `currentUser` while the background block signs out; listeners of an earlier
account; sign-ins answered after their view has gone; snapshots that cross optimistic local updates; containers
that are empty between a reload and its answer, under views that unwrap them; a process killed at any point with
the keychain and the defaults in any combination.

### What makes each part correct

* Session: `userContainer` is Firebase's account once the list counts as loaded, and is empty after a log-out; behind
  the list it is the signed-in account's or that account's record is on its way; who is signed out is taken to LoginView;
  a log-out ends.
* Programme: local favourites converge to the server's; favourites are written to the signed-in account; a list under
  its blur has something to wait for; the list shows the selected day; messages reach those who marked the item.
* Auction: a bid is on the item the user opened, in its row, and exceeds the last and the starting bid; the favourite
  items are the ones the lists show.
* Write path and recovery: an acknowledged write is lost to nothing but a machine crash, and a synchronous one not even
  to that; no file that is needed is deleted; sequence numbers are distinct and the order of places is the order of
  writes; every call returns, and closing ends.
* Levels: a read finds what was last written at its sequence number, whatever has been moved, merged or dropped.
* Iterators: a position in one unchanging map.

## 2. Modules

| module | what | composition |
|---|---|---|
| `ForumSession` | the session, one action per handler | - |
| `ForumProgramme` | programme, favourites, both lists | EXTENDS `ForumSession`; its `SessionSteps`, `LoadLectures`, `PRestart` conjoin the session's actions |
| `ForumAuction` | the auction, its list and pages, favourite items | EXTENDS `ForumSession`; its `SessionBelow`, `LoadAuction`, `ARestart`, `OpenTab` conjoin the session's actions |
| `DurableStore` | what the engine promises about writes: in limbo, present, safe, acknowledged | - |
| `LevelStore` | the write path, the background thread, files, crashes, recovery | implements `DurableStore` (`Promise == INSTANCE DurableStore WITH ...`) |
| `LogFormat` | the log's blocks and fragments, as operators | instantiated by `MCLevelStore`; justifies `ReadLog` of `LevelStore` |
| `LevelCompaction` | levels, compactions, snapshots, reads | takes over where `LevelStore` treats a table as a set of writes |
| `Filter` | a sequence cut down to the members of a set, defined by places | used by `ForumProgramme`, `ForumAuction` and `LevelCompaction` |
| `Cursor` | what an iterator promises: a position in a map | - |
| `LevelIterator` | `DBIter` on `MergingIterator`, with writers | implements `Cursor` |
| `MCForumSession`, `MCForumProgramme`, `MCForumAuction`, `MCLevelStore`, `MCLevelCompaction`, `MCLevelIterator` | values for TLC | EXTEND the six |
| `ForumSessionProofs`, `ForumProgrammeProofs`, `ForumAuctionProofs`, `LevelStoreProofs`, `LevelCompactionProofs`, `LevelIteratorProofs` | theorems | EXTEND the six, and TLAPS |
| `DurableStoreProofs` | theorems: no acknowledged write is lost, `LevelStore` implements `DurableStore`, and what that promise comes to | EXTENDS `LevelStoreProofs` |
| `FiniteOrder` | least elements of finite sets; the length, the members and the order of `Only(s, S)` | lemmas that the others share |

`ForumSession` serves twice: it is the detailed model of the session, and the abstract specification that the whole
app has to implement (`Session == Spec`, checked as a PROPERTY of `ForumProgramme` and of `ForumAuction`, and proved).
Programme and auction are composed with the session one at a time: in the code they share the user record, the tab bar
and the main queue, all of which are the session's, and no state of their own.

### ForumSession: code and model

* `auth` is `Auth.auth().currentUser`; `container` is `User.userContainer`, `None` or a record of the uid (`id`) and
  of whose profile it carries (`info`): `checkUsersLoginStatus` takes the first from `currentUser!` and the second
  from the listener's path, and they can differ.
* `infoObs[u]` counts the listeners on `users/<u>/info`, `infoDue[u]` their callbacks still to run. They saturate at
  `MaxDue`; between a listener and its callback anything may happen.
* The main queue runs one handler at a time. The one handler that the background log-out can split is the info
  callback: `InfoArrives` reads `currentUser!.uid`, `InfoStored` stores and sets `loadedFirst`. The log-out itself is
  `FavoritesLogOut` (tab switch and presentation), `LoginDidAppear` (dispatch), `SignOut`, `RemoveUser`.
* `Trap(site)` is a failed force unwrap: the process is dead until `Restart`. `ViewTraps` stands for the traps of the
  views above the session, which `ForumProgramme` places.
* A sign-in is a tap, for Facebook and Google a dialog (`OpenURL`, `DialogSucceeds`, `DialogFails`,
  `FacebookCancelled`), for Facebook a graph request, and Firebase's answer (`SignedIn`, `SignInFails`), which may find
  its LoginView gone (`late`).
* `everIn` and `crossed` are history variables. `crossed` is set by exactly two steps: an info callback that runs
  while LoginView is on the screen, and a sign-in answered after its LoginView was dismissed. Both let the account
  change behind a loaded list. The properties with `~crossed` do not hold afterwards and do not say that the two are
  harmless: they say that nothing else, among all other interleavings, has that effect.
* `Awaited` says that the signed-in account's record has been asked for and not come, or is half stored.

### ForumProgramme: code and model

* Server: `dates` (which lectures the programme has), `liked[u]`, `topics` (FCM subscriptions of the device).
* `loaded`/`programme` are `Lecture.lectureContainer` (not `loaded`: the empty dictionary), `keyed`/`favs` are
  `User.favoriteLectures` (not `keyed`: no day has a key) with the number of copies of each lecture.
* `shown` is `LectureListView.container`, `rows` what the table displays: they differ between a snapshot and the
  reload. `heart` is the set of lectures of the container whose `favorit` flag is set.
* The completion chain `info -> loadLectures -> getFavoriteLectures -> reloadData` is `LoadLectures`, `DatesArrive`,
  `FavouritesArrive`. `DatesArrive` is the callback of `eventDates` with `container = result[0]!` and the registration
  of the favourites listener.
* `ToggleHeart(i)` is the tap on row `i`: container lookup by tag, local update, server write, topic, `reloadRows`.
  `UpdateFavourite(l)` is the heart in the favourites tab.
* `favRows` is the Program segment of `FavoritesListView`; its Auktion segment is in `ForumAuction`.

### ForumAuction: code and model

* An `AuctionItem` is a class instance, shared by reference. An object is modelled as its item and the number of the
  snapshot that made it; `items`, `favItems`, `listed`, `favListed` and `page` hold objects, and what is stored in an
  object is a function of it: `offers[o]` is the offer in its `bidders` (0: `nil`), `flagged` the objects whose
  `favorit` is set. A flag of an object that is not in a row is never read before `cellForRowAt` sets it, so `flagged`
  keeps the listed ones only.
* `items` is `AuctionItem.AuctionItemContainer`, in the order of the snapshot's keys, which `ItemOrder` fixes.
* The chain info -> auction -> favourite items is `LoadAuction`, `ItemsArrive`, `LikesArrive`.
* `listed`/`hearts` are `AuctionListView.container` and `loggedIn`, both set when the view appears and by nothing else:
  unlike the programme, the auction list is not reloaded by a snapshot. `favListed` is `auctionContainer` while its
  segment is selected (it is reassigned whenever the segment is).
* `page` is the `AuctionItemView` on top, with the object and the row it was given; it covers the tabs. A page of an
  object with an offer cannot be opened (`Open` traps), so `currentBid` is 0 on every page and `NewBid` is 50.
* `MakeAnOffer` is `bid` with `makeAnOffer`: the offer goes into the page's object and the object into its row, which
  may be another item's (`replaced`, a history variable) or not exist (a trap).

### LevelStore: code and model

* An action is the code between two places where `mutex_` is taken or given up, or one call on a file made without it.
  `pc[c]` says where each call of `Write` is; `sched`, `fl`, `cp` where the background thread is.
* A batch is its call's identity. A log is a sequence of records (a record is the group that was logged) and how many of
  them are synced; a table is the set of batches in it; the MANIFEST is what its synced edits describe (`man`) and the
  edits after them (`tail`), each with the version the MANIFEST describes from there. A machine crash may leave any of
  these versions (`Describable`).
* `MakeRoomForWrite` has one action for each way a turn of its loop can end: `RoomError`, `RoomDelay`, `RoomFound`,
  `RoomStall`, `RoomSwitch`, `RoomSwitchFails`. `BuildBatchGroup` is `GroupLengths`: the size limit is any prefix that
  ends before a batch, the limits on synchronous writers and NULL batches are the code's.
* `AddRecordFails` has the outcomes the buffered file can have: nothing written, the record left in the buffer for the
  next flush, or a part of it in the file (the fault `"torn"`).
* Files: creating, renaming and deleting count as durable, but a deleted log may be back after a machine crash
  (`ghosts`); tables are synced before an edit names them; a machine crash keeps any part of a log's unsynced records
  and of the MANIFEST's unsynced edits, in order (`MachineCrash`); a process crash keeps everything.
* `Recover`, `RecoverLogFile`, `OpenLog`, `OpenInstall` are `DB::Open`. The tables that one log is replayed to count as
  one. A failure to write the table of the last log (`"lastlog"`) and of an earlier one (`"earlierlog"`) are different
  faults, because the code treats them differently (finding 4).
* `owed` is a history variable: the acknowledged writes that no machine crash has excused.
* Level choices and compaction inputs are any (`LevelCompaction` knows better); two levels stand for seven.

### LevelCompaction: code and model

* A table is the set of its entries `[key, seq, del]`. Where the code compares bytes with a limit
  (`kL0_CompactionTrigger` is a count and is kept), either answer is taken if there are bytes to compare: when an output
  file ends, how far a level is expanded, whether a table is moved, which table `compact_pointer_` names.
* A compaction is two steps, `Begun` (inputs, smallest snapshot, and what lies below are fixed with the mutex held) and
  `InstallCompactionResults`; everything else may happen in between, memtable flushes too (`CompactMemTable`).
* `Get` searches like `Version::Get`: memtables, level 0 from the newest, then one table of each level by `FindFile`.
  `ScansAgree` is about what an iterator merges, which is all tables.
* `KeysSplit` says whether an output file may end between two entries of one key.

### LevelIterator: code and model

* A child is a memtable or a table as the set of its entries; `pos[c]` is `IteratorWrapper`'s position, `cur` is
  `current_`. One operation on a child is atomic (the skip list's readers see an insertion or not).
* Each turn of `DBIter`'s three loops is a step (`FindNextUserEntry`, `LeaveKey`, `FindPrevUserEntry`), and so are the
  two halves of turning round: `SeekOthers`, then `Turned`. `Insert` may fall between any two. The merging iterator
  turns exactly when `DBIter` does, so the test of its own direction is not repeated.
* `View` is the map of the keys to the newest entries that the reader's number reaches; the value of an entry is its
  sequence number. `Cursor` moves from where the call began (`from`) to where it ends.
* Parsing errors, statistics (`RecordReadSample`) and cleanup functions are left out.

## 3. Runs

| run | configuration | checks | result |
|---|---|---|---|
| `session` | 2 accounts, 3 providers, counters to 1, fairness | `TypeOK`, `LoadedIsOwn`, `SignedOutIsEmpty`, `SessionAwaited`, `SessionInv`, `LoginOffered`, `LogOutCompletes` | hold, 67 980 states |
| `session_trap` | 2 accounts | `CurrentUserPresent` | violated |
| `programme` | 1 account with a second device, that logs out and in; a Friday lecture that is withdrawn and restored, a day without one | `PTypeOK`, `Converged`, `BlurAwaited`, `Session` | hold, 1.0 million states |
| `auction` | 1 account, 2 items, one withdrawn and restored, one open for bids, 2 snapshots | `ATypeOK`, `FavouritesAreLive`, `ListBidInPlace`, `Session` | hold, 1.2 million states |
| `store` | an asynchronous write, a synchronous one, a forced flush; two upsets (a failing file operation, crashes, closing) | `TypeOK`, `NothingOwedIsLost`, `NothingNeededIsMissing`, `SequencesDistinct`, `NoLostWakeup`, `FrontWriterOnly` | hold, 2.6 million states |
| `store_promise` | the same calls, one crash, and one failing sync, table, new log or last log; fairness | `NewestFirst`, `KeepsPromise`, `CallsReturn`, `CloseEnds` | hold, 81 083 states |
| `store_reopen` | an earlier log's table fails | `NothingOwedIsLost` | violated |
| `store_manifest` | three asynchronous writes and two forced flushes, memtables of two writes; the MANIFEST fails, then a crash | `NewestFirst` | violated |
| `compaction` | 2 keys, one of them deleted too, 3 levels, 4 writes, a snapshot, manual compactions of one key | `CTypeOK`, `LevelsDisjoint`, `ReadersAboveSmall`, `ScansAgree`, `ReadsAgree` | hold, 957 336 states |
| `compaction_overlap` | 3 keys, manual compaction of all | `LevelsDisjoint` | violated |
| `compaction_boundary` | 1 key, files may end between its entries | `ReadsAgree` | violated |
| `iterator` | 3 keys, a memtable and a table, 4 entries | `TypeOK`, `JustBefore`, `NothingSkipped`, `IsCursor` | hold, 1.7 million states |

The runs of `MCLevelStore` also evaluate its assumption `ReadsBack`: of every log of up to three records (empty, within
a block, over several), cut anywhere and with up to two damaged fragments, `log::Reader` returns exactly the records that
are whole and not behind a damaged fragment of their block, in order.

### Findings

1. `currentUser!` in the info callback (UserController.swift:100): the list registers the listener when it first appears
   after the launch; before the record comes, the user opens the favourites tab and logs out; the record arrives after
   the background sign-out and finds no user (`session_trap`).
2. A memtable that is flushed in the middle of a manual compaction goes to a level through a gap between the
   compaction's inputs, and the output is then installed over it; `FindFile` no longer finds its key
   (`compaction_overlap`; version_set.cc:756-758 "Must not overlap").
3. An output file may end between two entries of one key that a snapshot keeps apart; the next compaction may take the
   newer one down alone, and `Get` finds the older (`compaction_boundary`; version_set.cc:337-339 "entries never hop
   across levels").
4. `Recover`'s loop overwrites a log's failure with the next log's success, and `DB::Open` deletes the log
   (`store_reopen`; db_impl.cc:437-438 "Reflect errors immediately").
5. A memtable flush inside `DoCompactionWork` (db_impl.cc:890) whose MANIFEST sync fails leaves its edit in the MANIFEST;
   the running compaction goes on and appends its own edit, with the old log number. If a machine crash then cuts the old
   log, its replay makes a table with a higher number and older writes than the flushed one, and a read, which goes
   through level 0 "from newest to oldest" by number (version_set.cc:349-350), stops at the older value
   (`store_manifest`).

The passing runs exclude exactly these: `compaction` compacts one key by hand and keeps a key's entries in one file,
`store` and `store_promise` let only the last log's table fail, `NewestFirst` is checked (and proved) for a MANIFEST that
does not fail, and the session traps.

What else the models exhibit, without a run of its own:

* a log-out that Firebase refuses leaves the old container; who signs in next and marks a favourite before the info
  callback has run marks it for the earlier account (UserController.swift:135 and 165). `WritesToOwn` and `LikesGoToOwn`
  say that this ends with that callback, and that after the two steps of `crossed` alone it need not;
* an earlier account's info listener, if the database's rules let it live on, stores that account's name and admin flag
  under the current uid (`InfoArrives(u)` with `u # auth`, UserController.swift:101): `container.info` is then not
  `container.id`, and no property forbids it;
* a request that is never answered leaves the list under its blur for ever: there is no timeout, the cancel blocks of
  `Network` only print, and nothing is kept on disk. `BlurAwaited` says that such a request is then the only cause;
* topic subscriptions survive a log-out, and the next account gets the messages (`SignOut`, `RemoveUser` leave `topics`);
* each snapshot of the programme shows Friday under whatever day is selected (`DatesArrive`);
* a bid made from the favourites tab replaces the first item of the auction by the one that was opened, and an item with
  a bid cannot be opened: its label is used before it is made (`Open`);
* the previous account's favourites listener overwrites the current account's overview, if the database's rules (not in
  the repository) let a listener live on after the sign-out; `Converged` and `FavouritesAreLive` except it by name;
* the favourites tab unwraps days that have not arrived (the trap `favouriteDays`);
* the first bid is 50 DKK whatever the starting bid (`NewBid`), and a bid is forgotten at the next snapshot and at a
  restart;
* a record that was only partly appended (`"torn"`) hides every later record of its log: asynchronous writes that are
  acknowledged after it are gone when the process dies, though options.h:175-178 promises them for that case;
* a forced flush whose NULL batch another writer's group takes along returns without a switch of memtables;
* while the merging iterator turns back, an entry added between a child's `Seek` and its `SeekToLast` puts that child
  past the current entry, against the comment at merger.cc:88-92; the reader cannot see that entry, and `IsCursor` holds.

What the passing auction run shows is what remains true beside these: a bid from the auction list, on a row that no
snapshot has outdated, changes no row (`ListBidInPlace`), and the favourites are the very objects of the container, each
once (`FavouritesAreLive`). A bid on an outdated row may replace another item's: `replaced` records it, as above. A
favourite that is withdrawn is excepted from the last: an item that is restored is in the favourites again only with the
next snapshot of either.

### Bounds, and why they are enough

* Accounts: the session's properties relate at most an earlier and a current account, hence two in `session`. The
  programme and the auction run with one, which logs out and in; all their properties are proved for any number, and
  `WritesToOwn` and `LikesGoToOwn`, which need two to mean anything, are left to the proofs.
* `MaxDue`: a counter only matters as zero, one or more; 1 makes a second callback of one path coincide
  with the first, whose answer it would repeat.
* One log-out at a time, one provider dialog at a time and not while a request is in flight (`TapProvider`): the
  dialogs are modal. One request of each kind.
* One Friday lecture and a day without a lecture: the selected day's list grows, shrinks and is empty, and the lecture may
  be shown under its own day or, after a snapshot, under the other. `MaxCopies = 2`: one copy too many.
* Snapshots of one path that are due together are coalesced into one that reads the latest value, and listeners of
  different paths are not ordered with one another: the second allows more behaviours than the main queue's FIFO
  order, the first loses only snapshots that the next one overwrites.
* Two items: a bid can land in its own row or in the other's. `MaxSnapshots = 2`: one object of an item older than the
  container's. A second account brings nothing to bids, which have no owner.
* Several listeners of one account on one path answer the same change one after the other with the same result; the
  auction's are one flag, the favourites' a set of accounts.
* Swift arrays are not safe to change on two threads. `userContainer`, emptied by the log-out on a global queue, is
  modelled with atomic writes; the overlay keeps the user from reaching it meanwhile.
* The server always has all three days, so `result[0]!` itself does not fail.
* Left out as layout: `loggedIn` (the opacity of cells), animations, `LectureItemView`.
* `LevelStore`: one asynchronous write, one synchronous, one forced flush are the three kinds a group can mix; with
  `MemLimit = 1` each write switches memtables, so that two logs, a flush and a compaction are under way at once. Two
  upsets: each property is about one failure or crash and what a second makes of it. Seven levels are two, the trigger
  of 4 tables is 1 or 2, so that all limits are reached.
* `store_manifest` looks for a counterexample only: `OneClient` keeps to one client, one call after another, no reader,
  and a failure before the crash; `Alike` makes calls of a kind interchangeable. Memtables hold two writes, so that a
  crash can cut a log that a flushed table was made from.
* `LevelCompaction`: 2 keys, 3 levels and 4 writes fill every level and let an entry be hidden, deleted and kept by a
  snapshot; the real values (7 levels, `kMaxMemCompactLevel` 2, trigger 4) only postpone this.
* `LevelIterator`: 3 keys make a key between two others; 4 entries give each a newer and an older, readable or not. Two
  children are what a direction has to be agreed between.

### Fairness, and why the code justifies it

The main queue is FIFO and every handler ends, so a handler that is due runs even if callbacks of listeners keep
coming: strong fairness for `ListDidAppear`, `LoginDidAppear`, weak fairness for the launch and for the second half of a
running callback. A global queue runs its blocks: weak fairness for `SignOut`, `RemoveUser`. Nothing is assumed of
Firebase: a listener's answer may never come (the app keeps nothing on disk, sets no timeout, and does nothing when a
request is cancelled), so that the list loads, or that its blur goes away, is not a property of this code. What can be
said instead is in two invariants, `SessionAwaited` and `BlurAwaited`: whatever is missing has been asked for. Nothing is
assumed either of the user, of the sign-in servers, of the provider dialogs, of other devices, or of the back office.

In the storage engine a thread that can go on does (weak fairness for each call's next step and for the background
thread's), a reader drops its reference, and closing goes on. Nothing is assumed of callers, crashes, failures, or of
`DB::Open`. That is enough for `CallsReturn` because every wait ends by a signal of the background thread, which also
signals when it fails; the order of waiters is the queue's, so no strong fairness is needed. `NoLostWakeup`, an invariant,
is the safety half of it, proved for any constants: who waits has a background thread to wait for, and that thread has
something to do. It needs `L0Trigger <= L0Stop` (dbformat.h has 4 and 12): with a larger trigger a writer could stall on
tables that nobody is going to compact.

## 4. Proofs

`ForumSessionProofs` assumes only the named constants' assumptions (`None` is neither an account nor a user record, the
providers are among the three buttons, the cap is positive) and proves, for any set of accounts:

* `TypeCorrect`: `Spec => []TypeOK`;
* `SessionInvariant`: `Spec => []SessionInv`, and from it `LoadedIsOwnHolds`, `SignedOutIsEmptyHolds`,
  `SessionAwaitedHolds`.

`LoadedIsOwn` alone is not inductive: a log-out could start while a callback is half run, a sign-in could be answered
during a log-out, a callback could store an account that is no longer signed in. `SessionInv` adds what excludes these:
during a log-out the overlay is on, LoginView is up and every request still in flight is late (`LogOutAlone`), a half-run
callback holds the signed-in account and is not under LoginView (`CallbackIsOwn`), LoginView is never up over a loaded
session (`LoginUnloaded`), signed out means empty but between the two halves of the log-out (`EmptyUnlessLoggingOut`),
and everything held comes from accounts this process has seen (`Seen`). `SessionAwaited` covers the time between, when
the session is not loaded: a sign-in, and a log-out that Firebase refuses, bring the list back with its appearance due,
and that asks for the record; leaving the list and coming back is the case where nobody would ask again, and there the
request made before is still open or its answer is in. It needs `CallbackIsOwn`, since the callback that ends the waiting
must store the right account. TLC checks `SessionInv` as well.

`ForumProgrammeProofs` proves that every step of the programme is a step of the session or leaves it alone
(`StepIsSession`), hence `ProgrammeIsSession` (`PSpec => Session`), so that all session theorems hold of the composed
app. `WritesToOwnHolds` is one of their consequences: a heart writes to the container's account
(`HeartWritesContainer`), is tapped behind the list or in another tab (`HeartsOutside`), and there `SessionAwaited`, taken
through the refinement, says whose container it is, whether the list counts as loaded or not. `BlurAwaited` is
inductive given `ProgrammeBase` below (`BlurStep`): only a record that arrives makes the list count as loaded
(`LoadsOnlyByRecord`), and it asks for the programme in the same step; each callback of the chain asks for the next link
or lifts the blur. Hence `BlurAwaitedHolds`. `ProgrammeTypeCorrect` and `ConvergedHolds` are proved in two layers:

* `ProgrammeBase`: the types, what the list shows (rows are objects that were in the container, hearts are of rows), and
  that a callback of dates or favourites waits only where a listener is.
* `SettledInv`: what is left over from an earlier round of the chain programme -> favourites never outlives it.
  `OfTheDay` ties the selected day's rows to the container, `FavouritesSettled` says that with no callback due the local
  favourites are the server's, one copy each, and `HeartsSettled` that a heart then tells what the server holds, so that
  a write that repeats the server's state, which the server does not announce, leaves nothing to announce. Without the
  last part `Converged` is not inductive: a tap could add a copy that no callback would remove.

`ForumAuctionProofs` does the same for the auction: `AuctionStepIsSession` and `AuctionIsSession` (`ASpec => Session`),
`LikedPerUserHolds`, `HeartWritesContainer`, and `LikesGoToOwnHolds`, which takes `SessionInvariant` through the
refinement: the theorem about the session is used, not proved again. `AuctionTypeCorrect`, `FavouritesAreLiveHolds` and
`ListBidInPlaceHolds` rest on `ATypes /\ RowsInv /\ FavouritesInv`: objects carry numbers of
snapshots that have been made; the container holds the latest snapshot's objects in `ItemOrder`, and the list shows the
container or, later, an older one; the favourites are taken from the container in its order. They use that `ItemOrder`
names every item once (`AuctionAssumption`): the server's keys are distinct.

`LevelStoreProofs` has six theorems, for any calls, limits and bounds. The invariant is built up in layers, each
inductive with those before it:

* `QInv`: `FrontWriterOnly` and the types of `queue` and `pc`. There is one lemma for each way the queue changes: a call
  is appended (`EnqueueKeeps`), the front goes on (`FrontStep`, `StartKeeps`), the first n leave and the next is told
  (`LeaveKeeps`), the background signal wakes stalled calls without letting any pass another (`WokenKeeps`), the process
  ends (`GoneKeeps`). Hence `FrontWriterOnlyHolds`.
* `Base`: types, and what each stage of a write, a flush, a compaction and a replay has in hand (`StagesInv`). Hence
  `TypeHolds`.
* `TablesInv`: no table number is reused (`TableNumbers`), the edit being logged describes what will be current
  (`EditInv`), and every table and log that any description on disk needs is there (`FilesInv`). The numbers are what
  makes it inductive: a file may be deleted because no version will ever name its number again. Hence
  `NothingMissingHolds`.
* `LogNumbers` and `SeqInv`: a log's writes come before the next log's, what a replay has read is no later than
  `replay.max`, and what is on disk is no later than the number that a recovery would take. Hence
  `SequencesDistinctHolds`. `NextLog`, oldest log first, is what the replay needs here.
* `OrderInv` and `OneEdit`, for `NewestFirst`. `NewestFirst` speaks of memory only and is not inductive: a crash makes the
  order of memory out of what is on disk. `OrderDisk` says that *every* description a crash may leave is in order: level 0
  by its numbers, each log it asks for after all its tables, and the logs by theirs. `OrderMem` adds the memtables and
  that a group that is being logged is in the current log only; `OrderReplay` that the tables made so far are of older
  logs than those still to be read. A new record is newer than all that can be read (`AddedOrder`, by `SeqInv`); a flush's table
  has a number above all others, and the logs it leaves are newer (`FlushBuiltOrder`); a move or a compaction only takes tables
  out of level 0 (`MoveOrder`); a replay goes by log numbers and gives its tables ascending ones (`ReplayOrder`). All of
  this needs the version in memory to be the one the MANIFEST describes but for one edit, `OneEdit`, which an edit that
  failed and stays in the file's buffer breaks. Hence `NewestFirstHolds`, which assumes `"manifest" \notin Faults`.
* `WakeInv`, for `NoLostWakeup`: the background thread is scheduled whenever there is work, and idles only with work, an
  error or a database being closed; who waits has looked, with the mutex held, at what is still so; a database is closed
  by a caller that has no other call running. Each stage of the background thread leaves what is waited for alone, or it
  ends with `SignalAll` and `MaybeScheduleCompaction` (`WakeEnd`); a memtable switch while a compaction runs counts on
  that. Hence `NoLostWakeupHolds`, whatever fails. TLC checked these invariants before they were proved: `WakeInv` in the
  2.6 million states of `store`; `OrderInv` and `OneEdit` with two asynchronous calls, a forced flush, three upsets and
  every fault but the MANIFEST's (3.0 million states).

`DurableStoreProofs` builds on these layers and has four theorems, about what becomes of a write that was
acknowledged:

* `DurInv` and `WriterInv`: a memtable is inside its log, an owed synchronous write inside the synced part; with any
  description a machine crash may leave, the logs it asks for and the tables it names hold all that the current version
  and the immutable memtable hold; a replay has what it read in its tables or in its log. Hence `NothingOwedIsLostHolds`,
  which assumes `Faults \cap {"torn", "earlierlog"} = {}`: with either of the two the property is false (finding 4, and
  the torn record below it). TLC checked both on the 2.6 million states of `store` before they were proved.
* `KeptInv`, for the refinement: a call has no answer before it leaves the queue, and an answer or none for ever once the
  process is gone (`AnswerInv`); nothing can be recovered that is not held, but the front writer's logged group and, in
  the current log after a failed sync, writes that were answered with an error (`OnlyHeld`); a group is not in the
  memtable before its writer has put it there (`NotYet`). `DurInv` says that nothing is missing on disk, `OnlyHeld` that
  nothing is there that should not be; together they give `Known`: what may survive a crash, and what `DB::Open` finds,
  is seen or in limbo. Each step is then a `Submit`, `Commit`, `Harden` or `Crash` of `DurableStore`, or a stutter
  (`Kept`). Flushes, compactions and the deletion of files are `Harden` at most. Hence `LevelStoreIsDurable`: under
  `Reliable`, `Spec => KeepsPromise`.

`Reliable` is `Faults \cap {"torn", "append", "earlierlog"} = {}`: syncs, tables, the MANIFEST, new logs and the last log
may fail. The other three break the promise. A failed append is the one that `NothingOwedIsLost` does not mind: its
record may stay in the file's buffer, the next writer's sync then makes it safe although its caller was told of an error,
and when the memtable, which never had it, is flushed, its log is deleted. With `Faults = {"append"}` TLC finds that
behaviour: a write that no crash could take away is lost without one. Nobody was promised that write, so this is no
finding, but the abstract store cannot be kept then.

`SyncedStaysHolds` is about the promise alone, `Promise!Spec => []SyncedStays`: an acknowledged synchronous write stays
present and safe. `SyncedSurviveHolds` takes it through the refinement: under `Reliable`, an acknowledged synchronous
write is seen, or will be found by `DB::Open`, and is in what a crash of the machine at this moment cannot take away. It
differs from `NothingOwedIsLostHolds` in that no history variable says what is owed.

`LevelCompactionProofs` proves everything the run `compaction` checks, for any keys, levels, ranges and bounds.
`DropRule` is the rule by which `DoCompactionWork` drops entries, for any set of entries `S` that is compacted and `R`
that is elsewhere: if the sequence numbers are distinct, the reader is at or above the smallest snapshot, and what `R` has
of the key of a dropped deletion is newer (`NewerIn`), then every key reads the same before and after.
`ReadersAboveSmallHolds` shows that the second hypothesis holds of every reader while a compaction runs; it needs
that snapshots are taken at the last sequence number, which only grows, and that the smallest was the smallest when the
compaction began. `CompactionTypeCorrect` needs no hypothesis; its invariant `TypeInv` adds that sequence numbers are
given out once and that there is a level below the one compacted. The other three rest on `LevelsInv`:

* `Order`: of one key, newer entries are in the memtable, then the immutable one, then level 0 from the newest table, then
  the lower levels from the top;
* `AllApart`: below level 0 the key ranges of a level's tables do not touch;
* `CompInv`: the tables that stay in the level below a compaction lie on one side of all its inputs (`Outside`); the inputs
  have no gap (`Solid`), which is what keeps a memtable's table, placed while the compaction runs, from falling between
  them; level-0 inputs are older than what stays in level 0; and no key of `base` is deeper down;
* `CallInv`: a manual compaction begins at one of the keys of its range.

`SetupSpans` and `SolidGrown` show that `SetupOtherInputs` makes inputs without a gap, as long as they begin without one:
`PickCompaction` starts from one table or from overlapping ones of level 0, a manual compaction from all tables that its
range meets. `LevelsDisjointHolds`, `ScansAgreeHolds` (by `DropRule`) and `ReadsAgreeHolds` (`Get` tells what a scan tells,
because its places are searched newest first, `SearchedOlder`) have two hypotheses on the constants, and these are
findings 2 and 3 turned round:

* `Uninterrupted`: there are no manual compactions, or memtables always go to level 0, or the ranges end with the first
  key. Without it `LevelsDisjoint` is false (`compaction_overlap`).
* `WholeKeys`: an output file does not end between two entries of a key, or there are no snapshots, so that a key has one
  entry per output. Without it `ReadsAgree` is false (`compaction_boundary`), and so is `ScansAgree`: with a fourth write
  and a key that may be deleted (`Deletable = {1}`), TLC has the newer entry, a deletion, compacted alone and dropped,
  since only the levels below are looked at; the older entry that stayed behind is then read again.

The run `compaction` satisfies both, with a manual compaction and snapshots. A database that never calls `CompactRange`
and never takes a snapshot satisfies both as well, whatever its files' sizes. Whether `ScansAgree` needs
`Uninterrupted` is open: in 6.7 million states of `compaction_overlap` with a deletion TLC found no counterexample, but
the search was not complete, and the proof uses `AllApart`. Beyond `LevelsDisjoint` the model is not asked: there the
binary search of `SomeFileOverlapsRange` and `FindFile` need not find the table that `OverlapInLevel` looks for.

`LevelIteratorProofs` proves everything the run `iterator` checks, for any keys, tables and bound: `TypeHolds`,
`JustBeforeHolds`, `NothingSkippedHolds`, `ViewStays`, and that `DBIter` on `MergingIterator` implements `Cursor`
(`IteratorIsCursor`). The invariant `IInv`:

* `StoreInv`, `PlaceInv`, `MarkInv`: numbers are given out behind the reader's, a child is at one of its entries, and
  which variables a stage of a call uses;
* `WayInv`: the current child is the first in the direction of `heading`, and no child has passed a readable entry that
  lies beyond the current one. An entry added meanwhile breaks the second half for unreadable entries only;
* `IdleInv`, `ForwardInv`, `BackwardInv`, `TurnInv`: what has been passed and what is still ahead, during each loop and
  in both halves of turning round. Forwards, everything behind is either skipped or unwanted; in reverse, `saved` is the
  newest entry met of its key and nothing else that is to be shown has been passed.

Each call is then two kinds of steps for `Cursor`: the one that begins it is a stutter or `Ask`, the one that ends it is
`Answer` with the position that `View` defines, and all between stutter.

`FiniteOrder` holds what the others share: a finite set of numbers or an ordered finite set has a least element, and
`Only(s, S)` (`Filter`) lists exactly the members of `s` that are in `S`, in order.

Only model-checked: the recursive operators of `LogFormat`, and every liveness property (fairness and ENABLED are beyond
the proof system). Every invariant that a passing run checks is a theorem. The hypothesis of `NewestFirstHolds`, that the
MANIFEST does not fail, cannot be dropped: without it the property is false (finding 5, `store_manifest`). TLC checks
`NewestFirst` under the theorem's hypothesis, in `store_promise`.

## 5. Not modelled

* **Kort sagt**: one screen that loads, searches and plays; nothing in the repository says what its arrays should hold
  while two chains of page requests overlap.
* **Reminders**: a timer that compares the clock with the favourites' starts and sends a request; it changes no state.
  The lecture page, the map and the cells are layout.
* **The administrator's edit**: `EditView` is presented for administrators by the lists (LectureListView.swift:294 and
  346, AuctionListView.swift:158 and 208), although the app's project file does not list EditView.swift. On closing it
  would call `LectureController.update` or `AuctionController.update`, which put the edited object into the local
  container, but only if `formChanged` is set, and every row that sets it is commented out (EditView.swift:86-178 and
  227-285). What is left of the form sends messages; opening and dismissing it is to the list what another tab is.
* **LevelDB's encodings**: tables, blocks, bloom filters, coding, checksums; the LRU caches, the arena and the memory
  order of the skip list (one insertion or search is one step); `Env` and its POSIX files beyond what may fail or get
  lost; `RepairDB`, `DestroyDB`, the C interface, statistics; a MANIFEST whose last edit is torn; the sync of the
  directory (creating and renaming count as durable); `NewDB`, which is the initial state.
* **Other vendored libraries** (Protobuf, nanopb, GTMSessionFetcher, pop, Eureka, the SDKs whose headers are in the
  tree): Forum is modelled against how it uses them.
