--------------------------- MODULE ForumProgramme ---------------------------
(***************************************************************************)
(* The programme and the favourite lectures of the Forum app, on top of a  *)
(* ForumSession: LectureController, the favourites half of UserController, *)
(* LectureListView (the programme, one row per lecture, a heart in each)   *)
(* and FavoritesListView ("Din oversigt").                                 *)
(*                                                                         *)
(* Every info callback loads the programme again (the container is emptied *)
(* at once, refilled when Firebase answers), every answer registers one    *)
(* more listener on the favourites.  Listeners are never removed; several  *)
(* of one path do the same thing, so the model keeps which paths have one. *)
(***************************************************************************)
EXTENDS ForumSession, SequencesExt, Filter

CONSTANTS
  Lectures,   \* ids
  Order,      \* the same, a sequence in the order of startTime
  Days,       \* the segments of the list, 0 .. 2 in the app
  DayOf,      \* the day each takes place
  Removable,  \* those the back office takes out of and puts into the programme
  Elsewhere,  \* accounts also used on another device
  MaxCopies   \* cap of the copies of a lecture among the favourites

ASSUME OrderAssumption == Order \in Seq(Lectures)
ASSUME DaysAssumption == 0 \in Days /\ Days \subseteq 0 .. 2
ASSUME DayOfAssumption == DayOf \in [Lectures -> Days]
ASSUME RemovableAssumption == Removable \subseteq Lectures
ASSUME ElsewhereAssumption == Elsewhere \subseteq Users
ASSUME MaxCopiesAssumption == MaxCopies \in Nat \ {0, 1}

VARIABLES
  dates,       \* server: the lectures of eventDates
  liked,       \* server: users/<u>/lectures
  topics,      \* FCM: the lecture-likes topics this device is subscribed to
  loaded,      \* Lecture.lectureContainer has its days (else it is [:])
  programme,   \* its lectures
  datesOn,     \* a listener on eventDates exists
  datesDue,    \* and has a callback to run
  favOn,       \* accounts with a listener on users/<u>/lectures
  favDue,      \* those whose callback is to be run
  keyed,       \* User.favoriteLectures has its days (else it is [:])
  favs,        \* how many copies of a lecture it holds
  day,         \* LectureListView: the selected segment
  shown,       \* its container
  rows,        \* the rows its table displays
  heart,       \* the lectures in its container whose favorit flag is set
  dataLoaded,  \* the property of the same name; FALSE: the blur is on
  willAppear,  \* its viewWillAppear is due
  favRows,     \* FavoritesListView.lectureContainer, as a set
  misfiled     \* history: the list has shown Friday's lectures under another day

server == <<dates, liked, topics>>
listens == <<datesOn, datesDue, favOn>>
listView == <<day, shown, rows, heart, dataLoaded, misfiled>>
pvars == <<server, loaded, programme, listens, favDue, keyed, favs, listView,
           willAppear, favRows>>
allVars == <<vars, pvars>>

Copies == [Lectures -> 0 .. MaxCopies]
NoCopy == [l \in Lectures |-> 0]
Copied(f) == {l \in Lectures : f[l] > 0}

PTypeOK ==
  /\ dates \in SUBSET Lectures /\ programme \in SUBSET Lectures
  /\ liked \in [Users -> SUBSET Lectures]
  /\ topics \in SUBSET Lectures
  /\ {loaded, datesOn, datesDue, keyed, dataLoaded, willAppear, misfiled} \subseteq BOOLEAN
  /\ favOn \in SUBSET Users /\ favDue \in SUBSET favOn
  /\ favs \in Copies /\ favRows \in SUBSET Lectures
  /\ day \in Days
  /\ shown \in Seq(Lectures) /\ rows \in Seq(Lectures)
  /\ heart \in SUBSET ToSet(shown)

-----------------------------------------------------------------------------
PInit ==
  /\ Init
  /\ dates = Lectures /\ liked = [u \in Users |-> {}] /\ topics = {}
  /\ loaded = FALSE /\ programme = {}
  /\ datesOn = FALSE /\ datesDue = FALSE /\ favOn = {} /\ favDue = {}
  /\ keyed = FALSE /\ favs = NoCopy /\ favRows = {}
  /\ day = 0 /\ shown = <<>> /\ rows = <<>> /\ heart = {}
  /\ dataLoaded = FALSE /\ willAppear = FALSE /\ misfiled = FALSE

(* The servers and the topic subscriptions outlive the process.             *)
PRestart ==
  /\ Restart
  /\ UNCHANGED server
  /\ loaded' = FALSE /\ programme' = {}
  /\ datesOn' = FALSE /\ datesDue' = FALSE /\ favOn' = {} /\ favDue' = {}
  /\ keyed' = FALSE /\ favs' = NoCopy /\ favRows' = {}
  /\ day' = 0 /\ shown' = <<>> /\ rows' = <<>> /\ heart' = {}
  /\ dataLoaded' = FALSE /\ willAppear' = FALSE /\ misfiled' = FALSE

DayList(d, present) == Only(Order, {l \in present : DayOf[l] = d})

(* cellForRowAt reads favoriteLectures[day] of the selected day, whatever   *)
(* day the row's lecture is of; without days it dies on the first row.      *)
IsFavourite(l) == DayOf[l] = day' /\ favs'[l] > 0
ReloadRows ==
  /\ rows' = shown'
  /\ heart' = {l \in ToSet(shown') : IsFavourite(l)}

(* A snapshot makes new lecture objects, none with its favorit flag set.    *)
FreshObjects_Kept == heart' = heart   \* mutant: the flags are carried over
FreshObjects == heart' = {}

(* The favourites made of a snapshot of u's and of today's container.       *)
Snapshot_NotReset(u) ==               \* mutant: appended to the old ones
  [l \in Lectures |-> IF l \in programme \cap liked[u] /\ favs[l] < MaxCopies
                      THEN favs[l] + 1 ELSE favs[l]]
Snapshot(u) ==
  [l \in Lectures |-> IF l \in programme \cap liked[u] THEN 1 ELSE 0]

(* The completion of getFavoriteLectures, whatever its result is.           *)
Unblur_WithFavourites ==              \* mutant: only if there are any
  dataLoaded' = (dataLoaded \/ \E l \in Lectures : favs'[l] > 0)
Unblur == dataLoaded' = TRUE

-----------------------------------------------------------------------------
LoadLectures_Forgets ==               \* mutant: loadedFirst is left as it is
  /\ trap = "none" /\ callback # None
  /\ container' = callback /\ callback' = None
  /\ UNCHANGED <<auth, loadedFirst, newDownload, serverVars, screen, appear, logout,
                 loginVars, trap, everIn, crossed>>
  /\ loaded' = FALSE /\ programme' = {}
  /\ datesOn' = TRUE /\ datesDue' = TRUE
  /\ UNCHANGED <<server, favOn, favDue, keyed, favs, listView, willAppear, favRows>>

(* LectureController.loadLectures, called from the info callback.           *)
LoadLectures ==
  /\ InfoStored
  /\ loaded' = FALSE /\ programme' = {}
  /\ datesOn' = TRUE /\ datesDue' = TRUE
  /\ UNCHANGED <<server, favOn, favDue, keyed, favs, listView, willAppear, favRows>>

(* Its callback, viewDidAppear's completion (container = result[0]!) and    *)
(* getFavoriteLectures, which without a user completes at once.             *)
DatesArrive ==
  /\ MainFree /\ datesDue
  /\ loaded' = TRUE /\ programme' = dates
  /\ shown' = DayList(0, dates)
  /\ misfiled' = (misfiled \/ day # 0)
  /\ datesDue' = FALSE
  /\ UNCHANGED <<server, datesOn, keyed, favs, day, willAppear, favRows>>
  /\ \/ /\ container # None
        /\ FreshObjects
        /\ favOn' = favOn \cup {container.id} /\ favDue' = favDue \cup {container.id}
        /\ UNCHANGED <<rows, dataLoaded, vars>>
     \/ /\ container = None
        /\ Unblur
        /\ UNCHANGED <<favOn, favDue>>
        /\ IF screen = "list" /\ keyed
           THEN ReloadRows
           ELSE rows' = rows /\ FreshObjects
        /\ IF screen = "list" /\ ~keyed /\ shown' # <<>>
           THEN Trap("listCell")
           ELSE UNCHANGED vars

(* getFavoriteLectures' callback rebuilds the favourites from the snapshot, *)
(* with a key for each day that lectureContainer has right now; its         *)
(* completion reloads the table.                                            *)
FavouritesArrive(u) ==
  /\ MainFree /\ u \in favDue
  /\ favDue' = favDue \ {u}
  /\ keyed' = loaded
  /\ favs' = Snapshot(u)
  /\ Unblur
  /\ UNCHANGED <<server, loaded, programme, listens, day, shown, misfiled,
                 willAppear, favRows>>
  /\ IF screen = "list" /\ loaded THEN ReloadRows ELSE UNCHANGED <<rows, heart>>
  /\ IF screen = "list" /\ ~loaded /\ shown # <<>>
     THEN Trap("listCell")
     ELSE UNCHANGED vars

-----------------------------------------------------------------------------
(* lecturesFromLocalMemory(day:) and the reload of the table.               *)
ShowDay(d) ==
  /\ day' = d
  /\ UNCHANGED <<server, loaded, programme, listens, favDue, keyed, favs,
                 dataLoaded, misfiled, favRows>>
  /\ \/ /\ ~loaded /\ Trap("programmeDay")
        /\ UNCHANGED <<shown, rows, heart>>
     \/ /\ loaded
        /\ shown' = DayList(d, programme)
        /\ IF ~keyed /\ shown' # <<>>
           THEN Trap("listCell") /\ UNCHANGED <<rows, heart>>
           ELSE UNCHANGED vars /\ ReloadRows

(* The segmented control; the blur swallows touches until dataLoaded.       *)
ChangeColor(d) ==
  /\ MainFree /\ screen = "list" /\ dataLoaded /\ ~willAppear
  /\ ShowDay(d) /\ UNCHANGED willAppear

ListWillAppear ==
  /\ MainFree /\ willAppear /\ willAppear' = FALSE
  /\ \/ ~dataLoaded
        /\ UNCHANGED <<vars, server, loaded, programme, listens, favDue, keyed, favs,
                       listView, favRows>>
     \/ dataLoaded /\ screen = "list" /\ ShowDay(day)
     \/ /\ dataLoaded /\ screen # "list"   \* LoginView came on top meanwhile
        /\ UNCHANGED <<vars, server, loaded, programme, listens, favDue, keyed, favs,
                       listView, favRows>>

-----------------------------------------------------------------------------
(* addToFavoritList and removeFromFavoritList with Network.addFavorite and  *)
(* removeFavorite, for the user me; Firebase tells the listeners of a path  *)
(* only when its value changes.                                             *)
Tell(me) ==
  favDue' = IF liked'[me] # liked[me] /\ me \in favOn THEN favDue \cup {me} ELSE favDue

AddFavourite(me, l) ==
  /\ liked' = [liked EXCEPT ![me] = @ \cup {l}]
  /\ topics' = topics \cup {l}
  /\ favs' = IF keyed /\ l \in programme /\ favs[l] < MaxCopies
             THEN [favs EXCEPT ![l] = @ + 1] ELSE favs
  /\ Tell(me)

RemoveFavourite(me, l) ==
  /\ liked' = [liked EXCEPT ![me] = @ \ {l}]
  /\ topics' = topics \ {l}
  /\ favs' = [favs EXCEPT ![l] = 0]
  /\ Tell(me)

(* LectureListView.addFavorite: the heart of the displayed row i acts on    *)
(* the i-th lecture of the container, then reloads that row, which UIKit    *)
(* refuses when the number of rows has changed.                             *)
ToggleHeart(i) ==
  /\ MainFree /\ screen = "list" /\ dataLoaded /\ ~willAppear /\ i \in DOMAIN rows
  /\ UNCHANGED <<dates, loaded, programme, listens, keyed, day, shown, dataLoaded,
                 misfiled, willAppear, favRows>>
  /\ IF i \notin DOMAIN shown
     THEN Trap("staleRow") /\ UNCHANGED <<liked, topics, favs, favDue, rows, heart>>
     ELSE /\ \/ container = None /\ UNCHANGED <<liked, topics, favs, favDue>>
             \/ container # None /\ shown[i] \notin heart /\ AddFavourite(container.id, shown[i])
             \/ container # None /\ shown[i] \in heart /\ RemoveFavourite(container.id, shown[i])
          /\ heart' = IF IsFavourite(shown[i]) THEN heart \cup {shown[i]}
                                              ELSE heart \ {shown[i]}
          /\ rows' = [rows EXCEPT ![i] = shown[i]]
          /\ CASE Len(rows) # Len(shown) -> Trap("staleRow")
               [] Len(rows) = Len(shown) /\ ~keyed -> Trap("listCell")
               [] OTHER -> UNCHANGED vars

-----------------------------------------------------------------------------
(* FavoritesListView: reloadLectureFavorite unwraps each of the three days. *)
ReloadFavourites ==
  \/ keyed /\ favRows' = Copied(favs') /\ UNCHANGED vars
  \/ ~keyed /\ Trap("favouriteDays") /\ UNCHANGED favRows

RestOfFavourites == UNCHANGED <<loaded, programme, listens, keyed, listView, willAppear>>

(* viewWillAppear, when the user taps the tab.                              *)
OpenFavourites ==
  /\ MainFree /\ screen = "list" /\ ~appear /\ ~willAppear
  /\ UNCHANGED <<server, favDue, favs>> /\ RestOfFavourites
  /\ \/ container = None /\ LeaveList /\ UNCHANGED favRows
     \/ container # None /\ keyed /\ LeaveList /\ favRows' = Copied(favs)
     \/ container # None /\ ~keyed /\ ReloadFavourites

(* changeColor, back on the "Program" segment: no test for a user.          *)
FavouritesSegment ==
  /\ MainFree /\ screen = "other"
  /\ UNCHANGED <<server, favDue, favs>> /\ RestOfFavourites
  /\ ReloadFavourites

(* updateFavorite: the heart of a row.                                      *)
UpdateFavourite(l) ==
  /\ MainFree /\ screen = "other" /\ l \in favRows
  /\ \/ container = None /\ UNCHANGED <<liked, topics, favs, favDue>>
     \/ container # None /\ RemoveFavourite(container.id, l)
  /\ UNCHANGED dates /\ RestOfFavourites
  /\ ReloadFavourites

-----------------------------------------------------------------------------
(* The other device of u, and the back office.                              *)
LikedElsewhere(u, l) ==
  /\ trap = "none"
  /\ liked' = [liked EXCEPT ![u] = IF l \in @ THEN @ \ {l} ELSE @ \cup {l}]
  /\ Tell(u)
  /\ UNCHANGED <<vars, dates, topics, loaded, programme, listens, keyed, favs,
                 listView, willAppear, favRows>>

DatesChange(l) ==
  /\ trap = "none"
  /\ dates' = IF l \in dates THEN dates \ {l} ELSE dates \cup {l}
  /\ datesDue' = datesOn
  /\ UNCHANGED <<vars, liked, topics, loaded, programme, datesOn, favOn, favDue, keyed,
                 favs, listView, willAppear, favRows>>

-----------------------------------------------------------------------------
(* The session's other steps; the list is about to appear after the tab and *)
(* after a dismissed LoginView.                                             *)
SessionSteps ==
  /\ \/ ViewDidLoad \/ (ListDidAppear /\ ~willAppear) \/ BackToList
     \/ \E u \in Users : InfoChanges(u) \/ InfoArrives(u)
     \/ LogOutSteps \/ LoginScreen
  /\ willAppear' = (willAppear \/ (screen = "other" /\ screen' # "other")
                              \/ (screen = "login" /\ screen' = "list"))
  /\ UNCHANGED <<server, loaded, programme, listens, favDue, keyed, favs, listView,
                 favRows>>

UserSteps == \/ \E d \in Days : ChangeColor(d)
             \/ \E i \in 1 .. Len(Order) : ToggleHeart(i)
             \/ OpenFavourites \/ FavouritesSegment
             \/ \E l \in Lectures : UpdateFavourite(l)

PNext == \/ SessionSteps \/ LoadLectures \/ PRestart
         \/ DatesArrive \/ ListWillAppear
         \/ \E u \in Users : FavouritesArrive(u)
         \/ UserSteps
         \/ \E u \in Elsewhere, l \in Lectures : LikedElsewhere(u, l)
         \/ \E l \in Removable : DatesChange(l)

PSpec == PInit /\ [][PNext]_allVars

-----------------------------------------------------------------------------
(* Nothing is on its way: the programme and the favourites have arrived.    *)
Quiet == loaded /\ ~datesDue /\ favDue = {} /\ callback = None

(* Optimistic updates, snapshots and reloads that cross end in agreement:   *)
(* once quiet, the favourites are the user's on the server, one copy each,  *)
(* as far as they are in the programme - as long as no other account's      *)
(* listener is left and the list never showed Friday under another day.     *)
Converged ==
  (Quiet /\ container # None /\ favOn = {container.id} /\ ~misfiled) =>
    \A l \in Lectures :
      favs[l] = IF l \in programme \cap liked[container.id] THEN 1 ELSE 0

(* A heart writes to the favourites of the account that is signed in, or,   *)
(* to an earlier one's, only while the signed-in account's own record is on *)
(* its way: viewDidAppear is due, or has asked for it.  (After a log-out    *)
(* that Firebase refuses, the old container stays for the next account      *)
(* until its info callback has run.)                                        *)
WritesToOwn ==
  [][(\E i \in 1 .. Len(Order) : ToggleHeart(i)) \/ (\E l \in Lectures : UpdateFavourite(l))
       => \A u \in Users : liked'[u] # liked[u] => (u = auth \/ crossed \/ appear \/ Awaited)]_allVars

(* A list under its blur waits for something: of the chain of requests that *)
(* lifts it (user record, programme, favourites) the last link asked for    *)
(* has not been answered yet.  (One that is never answered leaves the blur  *)
(* on for ever: there is no timeout.)                                       *)
BlurAwaited == (loadedFirst /\ ~dataLoaded) => (datesDue \/ favDue # {})

(* The session below is the one ForumSession specifies.                     *)
Session == Spec
=============================================================================
