------------------------ MODULE ForumProgrammeProofs ------------------------
(* The programme never does to the session what ForumSession does not       *)
(* allow, so the session's theorems hold of the whole app, and with them    *)
(* whom a heart writes for.  Then the types, the blur, and that favourites, *)
(* server and hearts agree once nothing is on its way.                      *)
EXTENDS ForumProgramme, ForumSessionProofs, FiniteOrder, SequenceTheorems

(* Every step of the programme is a step of the session below, or leaves    *)
(* the session alone.                                                       *)
LEMMA StepIsSession == PNext => [Next]_vars
<1> SUFFICES ASSUME PNext PROVE [Next]_vars
  OBVIOUS
<1>1. CASE SessionSteps BY <1>1 DEF SessionSteps, Next
<1>2. CASE LoadLectures BY <1>2 DEF LoadLectures, Next
<1>3. CASE PRestart BY <1>3 DEF PRestart, Next
<1>4. ASSUME NEW s \in AppTraps, MainFree, screen \in {"list", "other"}, Trap(s)
      PROVE  Next
  BY <1>4 DEF Next, ViewTraps
<1>5. CASE DatesArrive BY <1>4, <1>5 DEF DatesArrive, AppTraps
<1>6. ASSUME NEW d \in Days, ShowDay(d), MainFree, screen = "list"
      PROVE  [Next]_vars
  BY <1>4, <1>6 DEF ShowDay, AppTraps
<1>7. CASE ListWillAppear
  <2>1. UNCHANGED vars \/ (screen = "list" /\ ShowDay(day) /\ MainFree)
    BY <1>7 DEF ListWillAppear
  <2> QED BY <2>1, <1>4 DEF ShowDay, AppTraps
<1>8. ASSUME NEW u \in Users, FavouritesArrive(u) PROVE [Next]_vars
  BY <1>4, <1>8 DEF FavouritesArrive, AppTraps
<1>9. ASSUME NEW d \in Days, ChangeColor(d) PROVE [Next]_vars
  BY <1>6, <1>9 DEF ChangeColor
<1>10. ASSUME NEW i \in 1 .. Len(Order), ToggleHeart(i) PROVE [Next]_vars
  BY <1>4, <1>10 DEF ToggleHeart, AppTraps
<1>11. CASE OpenFavourites
  BY <1>4, <1>11 DEF OpenFavourites, ReloadFavourites, AppTraps, Next
<1>12. CASE FavouritesSegment
  BY <1>4, <1>12 DEF FavouritesSegment, ReloadFavourites, AppTraps
<1>13. ASSUME NEW l \in Lectures, UpdateFavourite(l) PROVE [Next]_vars
  BY <1>4, <1>13 DEF UpdateFavourite, ReloadFavourites, AppTraps
<1>14. ASSUME NEW u \in Elsewhere, NEW l \in Lectures, LikedElsewhere(u, l)
       PROVE  [Next]_vars
  BY <1>14 DEF LikedElsewhere
<1>15. ASSUME NEW l \in Removable, DatesChange(l) PROVE [Next]_vars
  BY <1>15 DEF DatesChange
<1> QED
  BY <1>1, <1>2, <1>3, <1>5, <1>7, <1>8, <1>9, <1>10, <1>11, <1>12, <1>13, <1>14, <1>15
     DEF PNext, UserSteps

(* The app with its programme and favourites implements ForumSession.       *)
THEOREM ProgrammeIsSession == PSpec => Session
<1>1. PInit => Init BY DEF PInit
<1>2. [PNext]_allVars => [Next]_vars
  BY StepIsSession DEF allVars, vars
<1> QED BY <1>1, <1>2, PTL DEF PSpec, Spec, Session

-----------------------------------------------------------------------------
(* The favourites on the server stay one entry per account.                 *)
LikedPerUser == liked = [u \in Users |-> liked[u]]

LEMMA LikedPerUserHolds == PSpec => []LikedPerUser
<1>1. PInit => LikedPerUser BY DEF PInit, LikedPerUser
<1>2. ASSUME LikedPerUser, [PNext]_allVars PROVE LikedPerUser'
  <2>1. ASSUME NEW me, NEW s, liked' = [liked EXCEPT ![me] = s] PROVE LikedPerUser'
    BY <1>2, <2>1 DEF LikedPerUser
  <2>2. CASE UNCHANGED liked BY <1>2, <2>2 DEF LikedPerUser
  <2>3. ASSUME NEW i \in 1 .. Len(Order), ToggleHeart(i) PROVE LikedPerUser'
    BY <2>1, <2>2, <2>3 DEF ToggleHeart, AddFavourite, RemoveFavourite
  <2>4. ASSUME NEW l \in Lectures, UpdateFavourite(l) PROVE LikedPerUser'
    BY <2>1, <2>2, <2>4 DEF UpdateFavourite, RemoveFavourite
  <2>5. ASSUME NEW u \in Elsewhere, NEW l \in Lectures, LikedElsewhere(u, l)
        PROVE  LikedPerUser'
    BY <2>1, <2>5 DEF LikedElsewhere
  <2>6. CASE SessionSteps \/ LoadLectures \/ PRestart \/ DatesArrive
    BY <2>2, <2>6 DEF SessionSteps, LoadLectures, PRestart, DatesArrive, server
  <2>7. CASE ListWillAppear
    BY <2>2, <2>7 DEF ListWillAppear, ShowDay, server
  <2>8. ASSUME NEW u \in Users, FavouritesArrive(u) PROVE LikedPerUser'
    BY <2>2, <2>8 DEF FavouritesArrive, server
  <2>9. ASSUME NEW d \in Days, ChangeColor(d) PROVE LikedPerUser'
    BY <2>2, <2>9 DEF ChangeColor, ShowDay, server
  <2>10. CASE OpenFavourites \/ FavouritesSegment
    BY <2>2, <2>10 DEF OpenFavourites, FavouritesSegment, server
  <2>11. ASSUME NEW l \in Removable, DatesChange(l) PROVE LikedPerUser'
    BY <2>2, <2>11 DEF DatesChange
  <2>12. CASE UNCHANGED allVars BY <2>2, <2>12 DEF allVars, pvars, server
  <2> QED
    BY <1>2, <2>3, <2>4, <2>5, <2>6, <2>7, <2>8, <2>9, <2>10, <2>11, <2>12
       DEF PNext, UserSteps
<1> QED BY <1>1, <1>2, PTL DEF PSpec

(* A heart tapped in either list reaches no other account's favourites than *)
(* those of the user the app believes in.                                   *)
LEMMA HeartWritesContainer ==
  ASSUME LikedPerUser,
         \/ \E i \in 1 .. Len(Order) : ToggleHeart(i)
         \/ \E l \in Lectures : UpdateFavourite(l),
         NEW u \in Users, liked'[u] # liked[u]
  PROVE  container # None /\ u = container.id
<1>1. ASSUME NEW s, liked' = [liked EXCEPT ![container.id] = s]
      PROVE  u = container.id
  BY <1>1 DEF LikedPerUser
<1>2. ASSUME NEW i \in 1 .. Len(Order), ToggleHeart(i)
      PROVE  container # None /\ u = container.id
  BY <1>1, <1>2 DEF ToggleHeart, AddFavourite, RemoveFavourite
<1>3. ASSUME NEW l \in Lectures, UpdateFavourite(l)
      PROVE  container # None /\ u = container.id
  BY <1>1, <1>3 DEF UpdateFavourite, RemoveFavourite
<1> QED BY <1>2, <1>3

(* A heart is tapped behind no LoginView.                                   *)
LEMMA HeartsOutside ==
  (\E i \in 1 .. Len(Order) : ToggleHeart(i)) \/ (\E l \in Lectures : UpdateFavourite(l))
    => screen \in {"list", "other"}
BY DEF ToggleHeart, UpdateFavourite

(* Favourites go to the signed-in account, or, unless an info callback ran  *)
(* under LoginView or a sign-in came late, that account's record is on its  *)
(* way: a container that holds somebody else never stays.                   *)
THEOREM WritesToOwnHolds == PSpec => WritesToOwn
<1>1. SessionInv /\ LikedPerUser =>
        ((\E i \in 1 .. Len(Order) : ToggleHeart(i)) \/ (\E l \in Lectures : UpdateFavourite(l))
          => \A u \in Users : liked'[u] # liked[u] => (u = auth \/ crossed \/ appear \/ Awaited))
  <2> SUFFICES ASSUME SessionInv, LikedPerUser, NEW u \in Users, liked'[u] # liked[u],
                      (\E i \in 1 .. Len(Order) : ToggleHeart(i))
                        \/ (\E l \in Lectures : UpdateFavourite(l))
               PROVE  u = auth \/ crossed \/ appear \/ Awaited
    OBVIOUS
  <2>1. container # None /\ u = container.id BY HeartWritesContainer
  <2>2. screen \in {"list", "other"} BY HeartsOutside
  <2>3. CASE auth = None
    <3>1. logout # "idle" \/ crossed
      BY <2>1, <2>3 DEF SessionInv, EmptyUnlessLoggingOut
    <3> QED BY <2>2, <3>1 DEF SessionInv, LogOutAlone
  <2>4. CASE auth # None BY <2>1, <2>2, <2>4 DEF SessionInv, SessionAwaited
  <2> QED BY <2>3, <2>4
<1>2. PSpec => []SessionInv
  BY ProgrammeIsSession, SessionInvariant, PTL DEF Session
<1> QED BY <1>1, <1>2, LikedPerUserHolds, PTL DEF WritesToOwn

-----------------------------------------------------------------------------
(* Types, with what the two containers hold before they are loaded.         *)
DataOK ==
  /\ dates \in SUBSET Lectures /\ programme \in SUBSET Lectures
  /\ liked \in [Users -> SUBSET Lectures] /\ topics \in SUBSET Lectures
  /\ loaded \in BOOLEAN /\ keyed \in BOOLEAN
  /\ datesOn \in BOOLEAN /\ datesDue \in BOOLEAN
  /\ favOn \in SUBSET Users /\ favDue \in SUBSET favOn
  /\ favs \in Copies
ListOK ==
  /\ dataLoaded \in BOOLEAN /\ willAppear \in BOOLEAN /\ misfiled \in BOOLEAN
  /\ favRows \in SUBSET Lectures /\ day \in Days
  /\ shown \in Seq(Lectures) /\ rows \in Seq(Lectures)
  /\ heart \in SUBSET ToSet(shown)

LEMMA ProgrammeTypes == PTypeOK <=> DataOK /\ ListOK
BY DEF PTypeOK, DataOK, ListOK

(* The listener on the dates precedes its callback and the programme;       *)
(* containers that are not loaded are empty, and so are the hearts made     *)
(* from them.                                                               *)
LoadingInv ==
  /\ loaded \/ datesDue => datesOn
  /\ ~loaded => programme = {}
  /\ ~keyed => \A l \in Lectures : favs[l] = 0
  /\ loaded /\ ~keyed => heart = {}

ProgrammeBase == DataOK /\ ListOK /\ LoadingInv

(* The list of a day holds lectures of that day.                            *)
LEMMA DayListIs ==
  ASSUME NEW d, NEW present
  PROVE  /\ DayList(d, present) \in Seq(Lectures)
         /\ \A l \in ToSet(DayList(d, present)) : DayOf[l] = d
<1> DEFINE S == {l \in present : DayOf[l] = d}
<1>1. DayList(d, present) = Only(Order, S)
  BY DEF DayList
<1>2. \A l \in S : DayOf[l] = d
  OBVIOUS
<1> HIDE DEF S
<1>3. Order \in Seq(Lectures)
  BY OrderAssumption
<1>4. /\ Only(Order, S) \in Seq(Lectures \cap S)
      /\ {Only(Order, S)[k] : k \in DOMAIN Only(Order, S)} = {Order[k] : k \in DOMAIN Order} \cap S
  BY <1>3, OnlyIs
<1> DEFINE t == Only(Order, S)
<1>5. ToSet(t) \subseteq S
  BY <1>4 DEF ToSet
<1>6. t \in Seq(Lectures \cap S)
  BY <1>4
<1> HIDE DEF t
<1>7. t \in Seq(Lectures)
  BY <1>6
<1>8. DayList(d, present) = t
  BY <1>1 DEF t
<1> QED BY <1>2, <1>5, <1>7, <1>8

(* A reload shows the container, with the hearts of the favourites.         *)
LEMMA ReloadType ==
  ASSUME ReloadRows, shown' \in Seq(Lectures)
  PROVE  rows' \in Seq(Lectures) /\ heart' \in SUBSET ToSet(shown')
BY DEF ReloadRows

LEMMA SnapshotType ==
  ASSUME NEW u
  PROVE  Snapshot(u) \in Copies
BY MaxCopiesAssumption DEF Snapshot, Copies

LEMMA SomeCopies ==
  ASSUME favs \in Copies, NEW l \in Lectures
  PROVE  favs[l] \in 0 .. MaxCopies /\ favs[l] \in Nat /\ 0 \in 0 .. MaxCopies
BY MaxCopiesAssumption DEF Copies

(* The two writes of a heart.                                               *)
LEMMA AddType ==
  ASSUME DataOK, NEW me \in Users, NEW l \in Lectures, AddFavourite(me, l)
  PROVE  /\ liked' \in [Users -> SUBSET Lectures] /\ topics' \in SUBSET Lectures
         /\ favs' \in Copies /\ favDue' \in SUBSET favOn
         /\ ~keyed => favs' = favs
<1>1. favs' \in Copies
  <2>1. CASE favs[l] < MaxCopies
    <3>1. favs[l] + 1 \in 0 .. MaxCopies
      BY <2>1, SomeCopies, MaxCopiesAssumption DEF DataOK
    <3> QED BY <3>1 DEF AddFavourite, DataOK, Copies
  <2>2. CASE ~(favs[l] < MaxCopies)
    BY <2>2 DEF AddFavourite, DataOK
  <2> QED BY <2>1, <2>2
<1>2. favDue' \in SUBSET favOn
  BY DEF AddFavourite, Tell, DataOK
<1>3. liked' \in [Users -> SUBSET Lectures] /\ topics' \in SUBSET Lectures
  BY DEF AddFavourite, DataOK
<1> QED BY <1>1, <1>2, <1>3 DEF AddFavourite

LEMMA RemoveType ==
  ASSUME DataOK, NEW me \in Users, NEW l \in Lectures, RemoveFavourite(me, l)
  PROVE  /\ liked' \in [Users -> SUBSET Lectures] /\ topics' \in SUBSET Lectures
         /\ favs' \in Copies /\ favDue' \in SUBSET favOn
         /\ (\A k \in Lectures : favs[k] = 0) => favs' = favs
<1>1. favs' \in Copies
  BY SomeCopies DEF RemoveFavourite, DataOK, Copies
<1>2. favDue' \in SUBSET favOn
  BY DEF RemoveFavourite, Tell, DataOK
<1>3. liked' \in [Users -> SUBSET Lectures] /\ topics' \in SUBSET Lectures
  BY DEF RemoveFavourite, DataOK
<1>4. ASSUME \A k \in Lectures : favs[k] = 0 PROVE favs' = favs
  BY <1>4 DEF RemoveFavourite, DataOK, Copies
<1> QED BY <1>1, <1>2, <1>3, <1>4

(* Steps that leave all this alone.                                         *)
LEMMA BaseFrame ==
  ASSUME ProgrammeBase, UNCHANGED pvars
  PROVE  ProgrammeBase'
BY DEF ProgrammeBase, DataOK, ListOK, LoadingInv, pvars, server, listens, listView

LEMMA BaseShowDay ==
  ASSUME ProgrammeBase, NEW d \in Days, ShowDay(d), willAppear' \in BOOLEAN
  PROVE  ProgrammeBase'
<1>1. /\ UNCHANGED <<dates, liked, topics, loaded, programme, datesOn, datesDue, favOn,
                     favDue, keyed, favs, dataLoaded, misfiled, favRows>>
      /\ day' = d
  BY DEF ShowDay, server, listens
<1>2. DataOK'
  BY <1>1 DEF ProgrammeBase, DataOK
<1>3. CASE ~loaded
  <2>1. UNCHANGED <<shown, rows, heart>>
    BY <1>3 DEF ShowDay
  <2> QED BY <1>1, <1>2, <1>3, <2>1 DEF ProgrammeBase, ListOK, LoadingInv
<1>4. CASE loaded
  <2>1. shown' = DayList(d, programme)
    BY <1>4 DEF ShowDay
  <2>2. shown' \in Seq(Lectures)
    BY <2>1, DayListIs
  <2>3. CASE UNCHANGED <<rows, heart>> /\ ~keyed
    <3>1. heart' = {}
      BY <1>4, <2>3 DEF ProgrammeBase, LoadingInv
    <3> QED BY <1>1, <1>2, <2>2, <2>3, <3>1 DEF ProgrammeBase, ListOK, LoadingInv
  <2>4. CASE ReloadRows /\ (keyed \/ shown' = <<>>)
    <3>1. rows' \in Seq(Lectures) /\ heart' \in SUBSET ToSet(shown')
      BY <2>2, <2>4, ReloadType
    <3>2. shown' = <<>> => heart' = {}
      BY <3>1 DEF ToSet
    <3> QED BY <1>1, <1>2, <2>2, <2>4, <3>1, <3>2 DEF ProgrammeBase, ListOK, LoadingInv
  <2> QED BY <1>4, <2>3, <2>4 DEF ShowDay
<1> QED BY <1>3, <1>4 DEF ProgrammeBase, DataOK

LEMMA BaseDatesArrive == ProgrammeBase /\ TypeOK /\ DatesArrive => ProgrammeBase'
<1> SUFFICES ASSUME ProgrammeBase, TypeOK, DatesArrive PROVE ProgrammeBase'
  OBVIOUS
<1>1. /\ loaded' = TRUE /\ programme' = dates /\ datesDue' = FALSE
      /\ shown' = DayList(0, dates) /\ misfiled' = (misfiled \/ day # 0)
      /\ UNCHANGED <<dates, liked, topics, datesOn, keyed, favs, day, willAppear, favRows>>
      /\ datesDue
  BY DEF DatesArrive, server
<1>2. shown' \in Seq(Lectures)
  BY <1>1, DayListIs
<1>3. CASE container # None
  <2>1. /\ heart' = {} /\ UNCHANGED <<rows, dataLoaded>>
        /\ favOn' = favOn \cup {container.id} /\ favDue' = favDue \cup {container.id}
    BY <1>3 DEF DatesArrive, FreshObjects
  <2>2. container.id \in Users
    BY <1>3 DEF TypeOK, Account
  <2> QED BY <1>1, <1>2, <2>1, <2>2 DEF ProgrammeBase, DataOK, ListOK, LoadingInv
<1>4. CASE container = None
  <2>1. dataLoaded' = TRUE /\ UNCHANGED <<favOn, favDue>>
    BY <1>4 DEF DatesArrive, Unblur
  <2>2. CASE ReloadRows /\ keyed
    <3>1. rows' \in Seq(Lectures) /\ heart' \in SUBSET ToSet(shown')
      BY <1>2, <2>2, ReloadType
    <3> QED BY <1>1, <1>2, <2>1, <2>2, <3>1 DEF ProgrammeBase, DataOK, ListOK, LoadingInv
  <2>3. CASE rows' = rows /\ heart' = {}
    BY <1>1, <1>2, <2>1, <2>3 DEF ProgrammeBase, DataOK, ListOK, LoadingInv
  <2> QED BY <1>4, <2>2, <2>3 DEF DatesArrive, FreshObjects
<1> QED BY <1>3, <1>4

LEMMA BaseFavouritesArrive ==
  ASSUME ProgrammeBase, NEW u \in Users, FavouritesArrive(u)
  PROVE  ProgrammeBase'
<1>1. /\ favDue' = favDue \ {u} /\ keyed' = loaded /\ favs' = Snapshot(u) /\ dataLoaded' = TRUE
      /\ UNCHANGED <<dates, liked, topics, loaded, programme, datesOn, datesDue, favOn, day,
                     shown, misfiled, willAppear, favRows>>
  BY DEF FavouritesArrive, server, listens, Unblur
<1>2. favs' \in Copies
  BY <1>1, SnapshotType
<1>3. DataOK'
  BY <1>1, <1>2 DEF ProgrammeBase, DataOK
<1>4. ~keyed' => \A l \in Lectures : favs'[l] = 0
  BY <1>1 DEF Snapshot, ProgrammeBase, LoadingInv
<1>5. rows' \in Seq(Lectures) /\ heart' \in SUBSET ToSet(shown')
  <2>1. CASE ReloadRows
    BY <1>1, <2>1, ReloadType DEF ProgrammeBase, ListOK
  <2>2. CASE UNCHANGED <<rows, heart>>
    BY <1>1, <2>2 DEF ProgrammeBase, ListOK
  <2> QED BY <2>1, <2>2 DEF FavouritesArrive
<1>6. ListOK'
  BY <1>1, <1>5 DEF ProgrammeBase, ListOK
<1>7. LoadingInv'
  BY <1>1, <1>4 DEF ProgrammeBase, LoadingInv
<1> QED BY <1>3, <1>6, <1>7 DEF ProgrammeBase

LEMMA BaseToggleHeart ==
  ASSUME ProgrammeBase, TypeOK, NEW i, ToggleHeart(i)
  PROVE  ProgrammeBase'
<1>1. /\ UNCHANGED <<dates, loaded, programme, datesOn, datesDue, favOn, keyed, day, shown,
                     dataLoaded, misfiled, willAppear, favRows>>
      /\ i \in DOMAIN rows
  BY DEF ToggleHeart, listens
<1>2. CASE i \notin DOMAIN shown
  <2>1. UNCHANGED <<liked, topics, favs, favDue, rows, heart>>
    BY <1>2 DEF ToggleHeart
  <2> QED BY <1>1, <2>1 DEF ProgrammeBase, DataOK, ListOK, LoadingInv
<1>3. CASE i \in DOMAIN shown
  <2>1. shown[i] \in Lectures /\ shown[i] \in ToSet(shown)
    BY <1>3 DEF ProgrammeBase, ListOK, ToSet
  <2>2. container # None => container.id \in Users
    BY DEF TypeOK, Account
  <2>3. /\ liked' \in [Users -> SUBSET Lectures] /\ topics' \in SUBSET Lectures
        /\ favs' \in Copies /\ favDue' \in SUBSET favOn
        /\ ~keyed => favs' = favs
    <3>1. CASE UNCHANGED <<liked, topics, favs, favDue>>
      BY <3>1 DEF ProgrammeBase, DataOK
    <3>2. CASE container # None /\ AddFavourite(container.id, shown[i])
      BY <2>1, <2>2, <3>2, AddType DEF ProgrammeBase
    <3>3. CASE container # None /\ RemoveFavourite(container.id, shown[i])
      BY <2>1, <2>2, <3>3, RemoveType DEF ProgrammeBase, LoadingInv
    <3> QED BY <1>3, <3>1, <3>2, <3>3 DEF ToggleHeart
  <2>4. DataOK'
    BY <1>1, <2>3 DEF ProgrammeBase, DataOK
  <2>5. /\ heart' = IF IsFavourite(shown[i]) THEN heart \cup {shown[i]} ELSE heart \ {shown[i]}
        /\ rows' = [rows EXCEPT ![i] = shown[i]]
    BY <1>3 DEF ToggleHeart
  <2>6. rows' \in Seq(Lectures)
    BY <1>1, <2>1, <2>5 DEF ProgrammeBase, ListOK
  <2>7. heart' \in SUBSET ToSet(shown')
    BY <1>1, <2>1, <2>5 DEF ProgrammeBase, ListOK
  <2>8. ListOK'
    BY <1>1, <2>6, <2>7 DEF ProgrammeBase, ListOK
  <2>9. ASSUME ~keyed PROVE heart' \subseteq heart
    BY <2>1, <2>3, <2>5, <2>9 DEF ProgrammeBase, LoadingInv, IsFavourite
  <2>10. LoadingInv'
    BY <1>1, <2>3, <2>9 DEF ProgrammeBase, LoadingInv
  <2> QED BY <2>4, <2>8, <2>10 DEF ProgrammeBase
<1> QED BY <1>2, <1>3

LEMMA BaseFavouriteRows ==
  ASSUME ProgrammeBase, TypeOK,
         \/ OpenFavourites \/ FavouritesSegment
         \/ \E l \in Lectures : UpdateFavourite(l)
  PROVE  ProgrammeBase'
<1>1. /\ UNCHANGED <<dates, loaded, programme, datesOn, datesDue, favOn, keyed, day, shown,
                     rows, heart, dataLoaded, misfiled, willAppear>>
      /\ favRows' = favRows \/ favRows' = Copied(favs')
  BY DEF OpenFavourites, FavouritesSegment, UpdateFavourite, RestOfFavourites, ReloadFavourites,
         server, listens, listView
<1>2. favRows' \in SUBSET Lectures
  BY <1>1 DEF Copied, ProgrammeBase, ListOK
<1>3. /\ liked' \in [Users -> SUBSET Lectures] /\ topics' \in SUBSET Lectures
      /\ favs' \in Copies /\ favDue' \in SUBSET favOn
      /\ ~keyed => favs' = favs
  <2>1. CASE UNCHANGED <<liked, topics, favs, favDue>>
    BY <2>1 DEF ProgrammeBase, DataOK
  <2>2. ASSUME NEW l \in Lectures, container # None, RemoveFavourite(container.id, l)
        PROVE  <1>3
    <3>1. container.id \in Users
      BY <2>2 DEF TypeOK, Account
    <3> QED BY <2>2, <3>1, RemoveType DEF ProgrammeBase, LoadingInv
  <2> QED BY <2>1, <2>2 DEF OpenFavourites, FavouritesSegment, UpdateFavourite, server
<1> QED BY <1>1, <1>2, <1>3 DEF ProgrammeBase, DataOK, ListOK, LoadingInv

LEMMA BaseLikedElsewhere ==
  ASSUME ProgrammeBase, NEW u \in Users, NEW l \in Lectures, LikedElsewhere(u, l)
  PROVE  ProgrammeBase'
<1>1. liked' \in [Users -> SUBSET Lectures] /\ favDue' \in SUBSET favOn
  BY DEF LikedElsewhere, Tell, ProgrammeBase, DataOK
<1> QED BY <1>1 DEF LikedElsewhere, ProgrammeBase, DataOK, ListOK, LoadingInv, listens, listView

LEMMA BaseStep == ProgrammeBase /\ TypeOK /\ [PNext]_allVars => ProgrammeBase'
<1> SUFFICES ASSUME ProgrammeBase, TypeOK, [PNext]_allVars PROVE ProgrammeBase'
  OBVIOUS
<1>1. CASE SessionSteps
  <2>1. willAppear' \in BOOLEAN
    BY <1>1 DEF SessionSteps, ProgrammeBase, ListOK
  <2> QED BY <1>1, <2>1 DEF SessionSteps, ProgrammeBase, DataOK, ListOK, LoadingInv, server,
                listens, listView
<1>2. CASE LoadLectures
  BY <1>2 DEF LoadLectures, ProgrammeBase, DataOK, ListOK, LoadingInv, server, listView
<1>3. CASE PRestart
  <2>1. NoCopy \in Copies /\ 0 \in Days
    BY DaysAssumption, MaxCopiesAssumption DEF NoCopy, Copies
  <2>2. <<>> \in Seq(Lectures)
    OBVIOUS
  <2>3. DataOK'
    BY <1>3, <2>1 DEF PRestart, ProgrammeBase, DataOK, server
  <2>4. ListOK'
    BY <1>3, <2>1, <2>2 DEF PRestart, ListOK
  <2>5. LoadingInv'
    BY <1>3 DEF PRestart, LoadingInv, NoCopy
  <2> QED BY <2>3, <2>4, <2>5 DEF ProgrammeBase
<1>4. CASE DatesArrive BY <1>4, BaseDatesArrive
<1>5. CASE ListWillAppear
  <2>1. CASE UNCHANGED <<server, loaded, programme, listens, favDue, keyed, favs, listView, favRows>>
    BY <1>5, <2>1 DEF ListWillAppear, ProgrammeBase, DataOK, ListOK, LoadingInv, server, listens,
                      listView
  <2>2. CASE ShowDay(day)
    BY <1>5, <2>2, BaseShowDay DEF ListWillAppear, ProgrammeBase, ListOK
  <2> QED BY <1>5, <2>1, <2>2 DEF ListWillAppear
<1>6. ASSUME NEW u \in Users, FavouritesArrive(u) PROVE ProgrammeBase'
  BY <1>6, BaseFavouritesArrive
<1>7. ASSUME NEW d \in Days, ChangeColor(d) PROVE ProgrammeBase'
  BY <1>7, BaseShowDay DEF ChangeColor, ProgrammeBase, ListOK
<1>8. ASSUME NEW i \in 1 .. Len(Order), ToggleHeart(i) PROVE ProgrammeBase'
  BY <1>8, BaseToggleHeart
<1>9. CASE OpenFavourites \/ FavouritesSegment \/ \E l \in Lectures : UpdateFavourite(l)
  BY <1>9, BaseFavouriteRows
<1>10. ASSUME NEW u \in Elsewhere, NEW l \in Lectures, LikedElsewhere(u, l) PROVE ProgrammeBase'
  BY <1>10, BaseLikedElsewhere, ElsewhereAssumption
<1>11. ASSUME NEW l \in Removable, DatesChange(l) PROVE ProgrammeBase'
  BY <1>11, RemovableAssumption
     DEF DatesChange, ProgrammeBase, DataOK, ListOK, LoadingInv, listView
<1>12. CASE UNCHANGED allVars BY <1>12, BaseFrame DEF allVars
<1> QED
  BY <1>1, <1>2, <1>3, <1>4, <1>5, <1>6, <1>7, <1>8, <1>9, <1>10, <1>11, <1>12
     DEF PNext, UserSteps

LEMMA BaseHolds == PSpec => []ProgrammeBase
<1>1. PInit => ProgrammeBase
  <2> SUFFICES ASSUME PInit PROVE ProgrammeBase
    OBVIOUS
  <2>1. NoCopy \in Copies /\ 0 \in Days
    BY DaysAssumption, MaxCopiesAssumption DEF NoCopy, Copies
  <2>2. <<>> \in Seq(Lectures)
    OBVIOUS
  <2>3. DataOK
    BY <2>1 DEF PInit, DataOK
  <2>4. ListOK
    BY <2>1, <2>2 DEF PInit, ListOK
  <2>5. LoadingInv
    BY DEF PInit, LoadingInv, NoCopy
  <2> QED BY <2>3, <2>4, <2>5 DEF ProgrammeBase
<1>2. PSpec => []TypeOK
  BY ProgrammeIsSession, TypeCorrect, PTL DEF Session
<1> QED BY <1>1, <1>2, BaseStep, PTL DEF PSpec

(* The types: the hearts are of lectures the list holds, a callback waits   *)
(* only where a listener is registered, and no favourite has more copies    *)
(* than the bound.                                                          *)
THEOREM ProgrammeTypeCorrect == PSpec => []PTypeOK
<1>1. ProgrammeBase => PTypeOK
  BY ProgrammeTypes DEF ProgrammeBase
<1> QED BY <1>1, BaseHolds, PTL

-----------------------------------------------------------------------------
(* Only an info callback makes the session a loaded one.                    *)
LEMMA LoadsOnlyByRecord == SessionSteps => (loadedFirst' => loadedFirst)
<1>1. ASSUME NEW r \in Requests, Finished(r) PROVE UNCHANGED loadedFirst
  BY <1>1 DEF Finished
<1>2. ASSUME NEW s, Trap(s) PROVE UNCHANGED loadedFirst
  BY <1>2 DEF Trap
<1>3. LogOutSteps => (loadedFirst' => loadedFirst)
  BY DEF LogOutSteps, FavoritesLogOut, LoginDidAppear, SignOut, RemoveUser
<1>4. LoginScreen => UNCHANGED loadedFirst
  BY <1>1, <1>2
     DEF LoginScreen, TapSkip, TapProvider, OpenURL, DialogFails, FacebookCancelled,
         DialogSucceeds, GraphAnswers, SignInFails, SignedIn
<1>5. ASSUME NEW u \in Users, InfoChanges(u) \/ InfoArrives(u) PROVE UNCHANGED loadedFirst
  BY <1>2, <1>5 DEF InfoChanges, InfoArrives
<1>6. ViewDidLoad \/ ListDidAppear \/ BackToList => UNCHANGED loadedFirst
  BY DEF ViewDidLoad, ListDidAppear, BackToList
<1> QED BY <1>3, <1>4, <1>5, <1>6 DEF SessionSteps

(* Every link of the chain that ends with the blur asks for the next one:   *)
(* the record for the programme, the programme for the favourites (or, with *)
(* no user, it lifts the blur itself), the favourites lift it.              *)
LEMMA BlurStep ==
  ASSUME BlurAwaited, ProgrammeBase, [PNext]_allVars
  PROVE  BlurAwaited'
<1>1. ASSUME loadedFirst' => loadedFirst, UNCHANGED <<dataLoaded, datesDue>>,
             favDue \subseteq favDue'
      PROVE  BlurAwaited'
  BY <1>1 DEF BlurAwaited
<1>2. ASSUME (\E s : Trap(s)) \/ LeaveList \/ UNCHANGED vars PROVE UNCHANGED loadedFirst
  BY <1>2 DEF Trap, LeaveList, vars
<1>3. CASE SessionSteps
  BY <1>1, <1>3, LoadsOnlyByRecord DEF SessionSteps, listView, listens
<1>4. CASE LoadLectures BY <1>4 DEF LoadLectures, BlurAwaited
<1>5. CASE PRestart BY <1>5 DEF PRestart, Restart, BlurAwaited
<1>6. CASE DatesArrive BY <1>6 DEF DatesArrive, Unblur, BlurAwaited
<1>7. ASSUME NEW u \in Users, FavouritesArrive(u) PROVE BlurAwaited'
  BY <1>7 DEF FavouritesArrive, Unblur, BlurAwaited
<1>8. ASSUME NEW d, ShowDay(d) PROVE BlurAwaited'
  <2>1. UNCHANGED <<dataLoaded, datesDue, favDue>> BY <1>8 DEF ShowDay, listens
  <2>2. UNCHANGED loadedFirst BY <1>2, <1>8 DEF ShowDay
  <2> QED BY <1>1, <2>1, <2>2
<1>9. CASE ListWillAppear
  BY <1>1, <1>2, <1>8, <1>9 DEF ListWillAppear, listView, listens
<1>10. ASSUME NEW d \in Days, ChangeColor(d) PROVE BlurAwaited'
  BY <1>8, <1>10 DEF ChangeColor
<1>11. ASSUME NEW me PROVE Tell(me) => favDue \subseteq favDue'
  BY DEF Tell
<1>12. ASSUME NEW i \in 1 .. Len(Order), ToggleHeart(i) PROVE BlurAwaited'
  <2>1. UNCHANGED <<dataLoaded, datesDue>> BY <1>12 DEF ToggleHeart, listens
  <2>2. favDue \subseteq favDue'
    BY <1>11, <1>12 DEF ToggleHeart, AddFavourite, RemoveFavourite
  <2>3. UNCHANGED loadedFirst BY <1>2, <1>12 DEF ToggleHeart
  <2> QED BY <1>1, <2>1, <2>2, <2>3
<1>13. ReloadFavourites => UNCHANGED loadedFirst
  BY <1>2 DEF ReloadFavourites
<1>14. CASE OpenFavourites \/ FavouritesSegment
  <2>1. UNCHANGED <<dataLoaded, datesDue, favDue>>
    BY <1>14 DEF OpenFavourites, FavouritesSegment, RestOfFavourites, listView, listens
  <2>2. UNCHANGED loadedFirst
    BY <1>2, <1>13, <1>14 DEF OpenFavourites, FavouritesSegment
  <2> QED BY <1>1, <2>1, <2>2
<1>15. ASSUME NEW l \in Lectures, UpdateFavourite(l) PROVE BlurAwaited'
  <2>1. UNCHANGED <<dataLoaded, datesDue>>
    BY <1>15 DEF UpdateFavourite, RestOfFavourites, listView, listens
  <2>2. favDue \subseteq favDue' BY <1>11, <1>15 DEF UpdateFavourite, RemoveFavourite
  <2>3. UNCHANGED loadedFirst BY <1>13, <1>15 DEF UpdateFavourite
  <2> QED BY <1>1, <2>1, <2>2, <2>3
<1>16. ASSUME NEW u \in Elsewhere, NEW l \in Lectures, LikedElsewhere(u, l)
       PROVE  BlurAwaited'
  BY <1>1, <1>2, <1>11, <1>16 DEF LikedElsewhere, listView, listens
<1>17. ASSUME NEW l \in Removable, DatesChange(l) PROVE BlurAwaited'
  <2>1. datesDue => datesDue'
    BY <1>17 DEF DatesChange, ProgrammeBase, LoadingInv
  <2>2. UNCHANGED <<dataLoaded, favDue>> BY <1>17 DEF DatesChange, listView
  <2>3. UNCHANGED loadedFirst BY <1>2, <1>17 DEF DatesChange
  <2> QED BY <2>1, <2>2, <2>3 DEF BlurAwaited
<1>18. CASE UNCHANGED allVars
  BY <1>1, <1>2, <1>18 DEF allVars, pvars, listView, listens
<1> QED
  BY <1>3, <1>4, <1>5, <1>6, <1>7, <1>9, <1>10, <1>12, <1>14, <1>15, <1>16, <1>17, <1>18
     DEF PNext, UserSteps

(* So the list is never under its blur with nothing on the way.             *)
THEOREM BlurAwaitedHolds == PSpec => []BlurAwaited
<1>1. PInit => BlurAwaited BY DEF PInit, Init, BlurAwaited
<1>2. BlurAwaited /\ ProgrammeBase /\ [PNext]_allVars => BlurAwaited'
  BY BlurStep
<1> QED BY <1>1, <1>2, BaseHolds, PTL DEF PSpec

-----------------------------------------------------------------------------
(* The container is filled by LoadLectures only.                            *)
LEMMA ContainerKept ==
  ASSUME SessionSteps \/ ListWillAppear \/ DatesArrive \/ UserSteps
         \/ \E u \in Users : FavouritesArrive(u)
  PROVE  container' \in {container, None}
<1>1. CASE UNCHANGED vars BY <1>1 DEF vars
<1>2. ASSUME NEW s, Trap(s) PROVE container' = container
  BY <1>2 DEF Trap
<1>3. LeaveList => container' = container
  BY DEF LeaveList
<1>4. ASSUME NEW d, ShowDay(d) PROVE container' = container
  BY <1>2, <1>4 DEF ShowDay, vars
<1>5. CASE SessionSteps
  <2>1. ViewDidLoad \/ ListDidAppear \/ BackToList => container' \in {container, None}
    BY DEF ViewDidLoad, ListDidAppear, BackToList
  <2>2. ASSUME NEW u \in Users, InfoChanges(u) \/ InfoArrives(u) PROVE container' = container
    BY <1>2, <2>2 DEF InfoChanges, InfoArrives
  <2>3. LogOutSteps => container' \in {container, None}
    BY DEF LogOutSteps, FavoritesLogOut, LoginDidAppear, SignOut, RemoveUser
  <2>4. LoginScreen => container' \in {container, None}
    BY <1>2 DEF LoginScreen, TapSkip, TapProvider, OpenURL, DialogFails, FacebookCancelled,
                DialogSucceeds, GraphAnswers, SignInFails, SignedIn
  <2> QED BY <1>5, <2>1, <2>2, <2>3, <2>4 DEF SessionSteps
<1>6. CASE ListWillAppear
  BY <1>1, <1>4, <1>6 DEF ListWillAppear
<1>7. CASE DatesArrive
  BY <1>1, <1>2, <1>7 DEF DatesArrive
<1>8. ASSUME NEW u \in Users, FavouritesArrive(u) PROVE container' = container
  BY <1>2, <1>8 DEF FavouritesArrive, vars
<1>9. ASSUME NEW d \in Days, ChangeColor(d) PROVE container' = container
  BY <1>4, <1>9 DEF ChangeColor
<1>10. ASSUME NEW i, ToggleHeart(i) PROVE container' = container
  BY <1>2, <1>10 DEF ToggleHeart, vars
<1>11. ReloadFavourites => container' = container
  BY <1>2 DEF ReloadFavourites, vars
<1>12. CASE OpenFavourites \/ FavouritesSegment \/ \E l \in Lectures : UpdateFavourite(l)
  BY <1>3, <1>11, <1>12 DEF OpenFavourites, FavouritesSegment, UpdateFavourite
<1> QED BY <1>5, <1>6, <1>7, <1>8, <1>9, <1>10, <1>12 DEF UserSteps

-----------------------------------------------------------------------------
(* As long as Friday's lectures never stood under another day, the rows are *)
(* those of the selected day.                                               *)
OfTheDay == (trap = "none" /\ ~misfiled) => \A l \in ToSet(shown) : DayOf[l] = day

(* Nothing is on its way to the programme and the favourites, and the only  *)
(* listener is that of the container's account.                             *)
Settled == /\ loaded /\ ~datesDue /\ favDue = {} /\ ~misfiled
           /\ container # None /\ favOn = {container.id}

(* Then the favourites are the account's, one copy each ...                 *)
FavouritesSettled == Settled => favs = Snapshot(container.id)

(* ... and a list the user can touch shows the hearts of just these.        *)
TouchList == trap = "none" /\ screen = "list" /\ ~willAppear /\ dataLoaded
HeartsSettled ==
  (Settled /\ TouchList) => \A l \in ToSet(shown) : l \in heart <=> favs[l] > 0

SettledInv == OfTheDay /\ FavouritesSettled /\ HeartsSettled

LEMMA SettledFrame ==
  ASSUME SettledInv, UNCHANGED <<pvars, container, trap, screen>>
  PROVE  SettledInv'
BY DEF SettledInv, OfTheDay, FavouritesSettled, HeartsSettled, Settled, TouchList, Snapshot, pvars,
       server, listens, listView

(* A reload of a list that holds the day's lectures only.                   *)
LEMMA ReloadHearts ==
  ASSUME ReloadRows, \A l \in ToSet(shown') : DayOf[l] = day'
  PROVE  \A l \in ToSet(shown') : l \in heart' <=> favs'[l] > 0
BY DEF ReloadRows, IsFavourite

LEMMA TrapIs == \A s \in AppTraps : Trap(s) => trap' # "none" /\ UNCHANGED <<container, screen>>
BY DEF Trap, AppTraps

(* The session's steps: none after a trap, and whatever brings the list     *)
(* back makes its viewWillAppear due.                                       *)
LEMMA SessionRuns == SessionSteps => trap = "none"
BY DEF SessionSteps, ViewDidLoad, ListDidAppear, BackToList, InfoChanges, InfoArrives, LogOutSteps,
       FavoritesLogOut, LoginDidAppear, SignOut, RemoveUser, LoginScreen, TapSkip, TapProvider,
       Touchable, OpenURL, DialogFails, FacebookCancelled, DialogSucceeds, GraphAnswers, SignInFails,
       SignedIn, MainFree

LEMMA SettledSession ==
  ASSUME SettledInv, TypeOK, LaunchClean, ProgrammeBase, SessionSteps
  PROVE  SettledInv'
<1>1. /\ UNCHANGED <<dates, liked, topics, loaded, programme, datesOn, datesDue, favOn, favDue,
                     keyed, favs, day, shown, rows, heart, dataLoaded, misfiled, favRows>>
      /\ willAppear' = (willAppear \/ (screen = "other" /\ screen' # "other")
                                  \/ (screen = "login" /\ screen' = "list"))
  BY DEF SessionSteps, server, listens, listView
<1>2. trap = "none" /\ container' \in {container, None}
  BY SessionRuns, ContainerKept
<1>3. OfTheDay'
  BY <1>1, <1>2 DEF SettledInv, OfTheDay
<1>4. Settled' => Settled /\ container' = container /\ container # None
  BY <1>1, <1>2 DEF Settled
<1>5. FavouritesSettled'
  BY <1>1, <1>4 DEF SettledInv, FavouritesSettled, Snapshot
<1>6. Settled' /\ TouchList' => Settled /\ TouchList
  <2> SUFFICES ASSUME Settled', TouchList' PROVE Settled /\ TouchList
    OBVIOUS
  <2>1. screen # "launch"
    BY <1>4 DEF LaunchClean
  <2>2. screen = "list"
    BY <1>1, <2>1 DEF TypeOK, Screens, TouchList
  <2>3. ~willAppear
    BY <1>1 DEF TouchList, ProgrammeBase, ListOK
  <2> QED BY <1>1, <1>2, <1>4, <2>2, <2>3 DEF TouchList
<1>7. HeartsSettled'
  BY <1>1, <1>6 DEF SettledInv, HeartsSettled
<1> QED BY <1>3, <1>5, <1>7 DEF SettledInv

LEMMA SettledShowDay ==
  ASSUME SettledInv, ProgrammeBase, NEW d \in Days, ShowDay(d)
  PROVE  SettledInv'
<1>1. /\ UNCHANGED <<liked, loaded, programme, datesDue, favOn, favDue, keyed, favs, misfiled>>
      /\ day' = d
  BY DEF ShowDay, server, listens
<1>2. container' = container
  BY DEF ShowDay, Trap, vars
<1>3. FavouritesSettled'
  BY <1>1, <1>2 DEF SettledInv, FavouritesSettled, Settled, Snapshot
<1>4. CASE trap' # "none"
  BY <1>3, <1>4 DEF SettledInv, OfTheDay, HeartsSettled, TouchList
<1>5. CASE trap' = "none"
  <2>1. shown' = DayList(d, programme) /\ ReloadRows
    BY <1>5, TrapIs DEF ShowDay, AppTraps
  <2>2. \A l \in ToSet(shown') : DayOf[l] = day'
    BY <1>1, <2>1, DayListIs
  <2>3. \A l \in ToSet(shown') : l \in heart' <=> favs'[l] > 0
    BY <2>1, <2>2, ReloadHearts
  <2> QED BY <1>3, <2>2, <2>3 DEF SettledInv, OfTheDay, HeartsSettled
<1> QED BY <1>4, <1>5

LEMMA SettledDatesArrive ==
  ASSUME SettledInv, ProgrammeBase, DatesArrive
  PROVE  SettledInv'
<1>1. /\ shown' = DayList(0, dates) /\ misfiled' = (misfiled \/ day # 0) /\ day' = day
  BY DEF DatesArrive
<1>2. OfTheDay'
  <2>1. \A l \in ToSet(shown') : DayOf[l] = 0
    BY <1>1, DayListIs
  <2> QED BY <1>1, <2>1 DEF OfTheDay
<1>3. ~Settled'
  <2>1. CASE container # None
    <3>1. favDue' # {}
      BY <2>1 DEF DatesArrive
    <3> QED BY <3>1 DEF Settled
  <2>2. CASE container = None
    <3>1. container' = None
      BY <2>2 DEF DatesArrive, Trap, vars
    <3> QED BY <3>1 DEF Settled
  <2> QED BY <2>1, <2>2
<1> QED BY <1>2, <1>3 DEF SettledInv, FavouritesSettled, HeartsSettled

LEMMA SettledFavouritesArrive ==
  ASSUME SettledInv, ProgrammeBase, NEW u \in Users, FavouritesArrive(u)
  PROVE  SettledInv'
<1>1. /\ favs' = Snapshot(u) /\ u \in favDue /\ trap = "none"
      /\ UNCHANGED <<liked, loaded, programme, datesDue, favOn, day, shown, misfiled>>
  BY DEF FavouritesArrive, MainFree, server, listens
<1>2. container' = container /\ screen' = screen
  BY DEF FavouritesArrive, Trap, vars
<1>3. OfTheDay'
  BY <1>1 DEF SettledInv, OfTheDay
<1>4. Settled' => u = container.id
  BY <1>1, <1>2 DEF Settled, ProgrammeBase, DataOK
<1>5. FavouritesSettled'
  BY <1>1, <1>2, <1>4 DEF FavouritesSettled, Settled, Snapshot
<1>6. ASSUME Settled', TouchList' PROVE \A l \in ToSet(shown') : l \in heart' <=> favs'[l] > 0
  <2>1. ReloadRows
    BY <1>1, <1>2, <1>6 DEF FavouritesArrive, Settled, TouchList
  <2>2. \A l \in ToSet(shown') : DayOf[l] = day'
    BY <1>3, <1>6 DEF OfTheDay, Settled, TouchList
  <2> QED BY <2>1, <2>2, ReloadHearts
<1> QED BY <1>3, <1>5, <1>6 DEF SettledInv, HeartsSettled

(* Firebase tells a listener of a change, so a favourite that is settled    *)
(* after the write was settled before and did not change on the server.     *)
LEMMA TellSettled ==
  ASSUME ProgrammeBase, container # None, container.id \in Users,
         Tell(container.id), NEW s, liked' = [liked EXCEPT ![container.id] = s],
         UNCHANGED <<loaded, datesDue, favOn, misfiled, container>>, Settled'
  PROVE  Settled /\ liked' = liked /\ liked[container.id] = s
<1>1. favOn = {container.id} /\ favDue' = {}
  BY DEF Settled
<1>2. liked'[container.id] = liked[container.id] /\ favDue = {}
  BY <1>1 DEF Tell
<1>3. liked' = liked
  BY <1>2 DEF ProgrammeBase, DataOK
<1>4. liked[container.id] = s
  BY <1>2 DEF ProgrammeBase, DataOK
<1> QED BY <1>1, <1>2, <1>3, <1>4 DEF Settled

(* The heart of a settled list adds what is no favourite and removes what   *)
(* is one; what the server already has changes nothing here either.         *)
LEMMA AddSettled ==
  ASSUME SettledInv, ProgrammeBase, TouchList, container # None, container.id \in Users,
         NEW l \in ToSet(shown), l \in Lectures, l \notin heart, AddFavourite(container.id, l),
         UNCHANGED <<loaded, datesDue, favOn, misfiled, container>>, Settled'
  PROVE  Settled /\ liked' = liked /\ favs' = favs
<1>1. Settled /\ liked' = liked /\ liked[container.id] = liked[container.id] \cup {l}
  BY TellSettled DEF AddFavourite
<1>2. ~(favs[l] > 0) /\ favs = Snapshot(container.id)
  BY <1>1 DEF SettledInv, FavouritesSettled, HeartsSettled
<1>3. l \notin programme
  BY <1>1, <1>2 DEF Snapshot
<1>4. favs' = favs
  BY <1>3 DEF AddFavourite
<1> QED BY <1>1, <1>4

LEMMA RemoveSettled ==
  ASSUME SettledInv, ProgrammeBase, container # None, container.id \in Users,
         NEW l \in Lectures, RemoveFavourite(container.id, l),
         UNCHANGED <<loaded, datesDue, favOn, misfiled, container>>, Settled'
  PROVE  Settled /\ liked' = liked /\ favs' = favs
<1>1. Settled /\ liked' = liked /\ liked[container.id] = liked[container.id] \ {l}
  BY TellSettled DEF RemoveFavourite
<1>2. favs = Snapshot(container.id) /\ l \notin liked[container.id]
  BY <1>1 DEF SettledInv, FavouritesSettled
<1>3. favs[l] = 0
  BY <1>2 DEF Snapshot
<1>4. favs' = favs
  BY <1>3 DEF RemoveFavourite, ProgrammeBase, DataOK, Copies
<1> QED BY <1>1, <1>4

LEMMA SettledToggleHeart ==
  ASSUME SettledInv, ProgrammeBase, TypeOK, NEW i, ToggleHeart(i)
  PROVE  SettledInv'
<1>1. /\ UNCHANGED <<loaded, programme, datesDue, favOn, keyed, day, shown, dataLoaded, misfiled,
                     willAppear>>
      /\ TouchList
  BY DEF ToggleHeart, listens, TouchList, MainFree
<1>2. container' = container /\ screen' = screen
  BY DEF ToggleHeart, Trap, vars
<1>3. OfTheDay'
  BY <1>1 DEF SettledInv, OfTheDay, TouchList
<1>4. Settled' => Settled /\ liked' = liked /\ favs' = favs
  <2> SUFFICES ASSUME Settled' PROVE Settled /\ liked' = liked /\ favs' = favs
    OBVIOUS
  <2>1. CASE UNCHANGED <<liked, favs, favDue>>
    BY <1>1, <1>2, <2>1 DEF Settled
  <2>2. CASE i \in DOMAIN shown /\ container # None
    <3>1. shown[i] \in Lectures /\ shown[i] \in ToSet(shown) /\ container.id \in Users
      BY <2>2 DEF ProgrammeBase, ListOK, ToSet, TypeOK, Account
    <3>2. CASE shown[i] \notin heart /\ AddFavourite(container.id, shown[i])
      BY <1>1, <1>2, <2>2, <3>1, <3>2, AddSettled
    <3>3. CASE RemoveFavourite(container.id, shown[i])
      BY <1>1, <1>2, <2>2, <3>1, <3>3, RemoveSettled
    <3> QED BY <2>1, <2>2, <3>2, <3>3 DEF ToggleHeart
  <2> QED BY <2>1, <2>2 DEF ToggleHeart
<1>5. FavouritesSettled'
  BY <1>1, <1>2, <1>4 DEF SettledInv, FavouritesSettled, Snapshot
<1>6. ASSUME Settled', TouchList', NEW l \in ToSet(shown') PROVE l \in heart' <=> favs'[l] > 0
  <2>1. i \in DOMAIN shown
    BY <1>6, TrapIs DEF ToggleHeart, AppTraps, TouchList
  <2>2. heart' = IF IsFavourite(shown[i]) THEN heart \cup {shown[i]} ELSE heart \ {shown[i]}
    BY <2>1 DEF ToggleHeart
  <2>3. l \in heart <=> favs[l] > 0
    BY <1>1, <1>4, <1>6 DEF SettledInv, HeartsSettled
  <2>4. DayOf[l] = day'
    BY <1>3, <1>6 DEF OfTheDay, Settled, TouchList
  <2>5. CASE l = shown[i]
    BY <2>2, <2>4, <2>5 DEF IsFavourite
  <2>6. CASE l # shown[i]
    BY <1>4, <1>6, <2>2, <2>3, <2>6
  <2> QED BY <2>5, <2>6
<1> QED BY <1>3, <1>5, <1>6 DEF SettledInv, HeartsSettled

LEMMA SettledFavouriteRows ==
  ASSUME SettledInv, ProgrammeBase, TypeOK,
         \/ OpenFavourites \/ FavouritesSegment
         \/ \E l \in Lectures : UpdateFavourite(l)
  PROVE  SettledInv'
<1>1. /\ UNCHANGED <<loaded, programme, datesDue, favOn, keyed, day, shown, heart, dataLoaded,
                     misfiled, willAppear>>
      /\ trap = "none"
  BY DEF OpenFavourites, FavouritesSegment, UpdateFavourite, RestOfFavourites, listens, listView,
         MainFree
<1>2. container' = container
  BY DEF OpenFavourites, FavouritesSegment, UpdateFavourite, ReloadFavourites, LeaveList, Trap, vars
<1>3. ~TouchList'
  <2>1. LeaveList => screen' = "other"
    BY DEF LeaveList
  <2>2. ReloadFavourites => trap' # "none" \/ screen' = screen
    BY TrapIs DEF ReloadFavourites, AppTraps, vars
  <2>3. CASE OpenFavourites
    <3>1. LeaveList \/ (~keyed /\ ReloadFavourites)
      BY <2>3 DEF OpenFavourites
    <3>2. ~keyed /\ ReloadFavourites => trap' # "none"
      BY TrapIs DEF ReloadFavourites, AppTraps
    <3> QED BY <2>1, <3>1, <3>2 DEF TouchList
  <2>4. CASE FavouritesSegment \/ \E l \in Lectures : UpdateFavourite(l)
    BY <2>2, <2>4 DEF FavouritesSegment, UpdateFavourite, TouchList
  <2> QED BY <2>3, <2>4
<1>4. Settled' => Settled /\ liked' = liked /\ favs' = favs
  <2> SUFFICES ASSUME Settled' PROVE Settled /\ liked' = liked /\ favs' = favs
    OBVIOUS
  <2>1. CASE UNCHANGED <<liked, favs, favDue>>
    BY <1>1, <1>2, <2>1 DEF Settled
  <2>2. ASSUME NEW l \in Lectures, container # None, RemoveFavourite(container.id, l)
        PROVE  <1>4!2
    <3>1. container.id \in Users
      BY <2>2 DEF TypeOK, Account
    <3> QED BY <1>1, <1>2, <2>2, <3>1, RemoveSettled
  <2> QED BY <2>1, <2>2 DEF OpenFavourites, FavouritesSegment, UpdateFavourite, server
<1>5. FavouritesSettled'
  BY <1>1, <1>2, <1>4 DEF SettledInv, FavouritesSettled, Snapshot
<1>6. OfTheDay'
  BY <1>1 DEF SettledInv, OfTheDay
<1> QED BY <1>3, <1>5, <1>6 DEF SettledInv, HeartsSettled

LEMMA SettledLikedElsewhere ==
  ASSUME SettledInv, ProgrammeBase, TypeOK, NEW u \in Users, NEW l \in Lectures, LikedElsewhere(u, l)
  PROVE  SettledInv'
<1>1. UNCHANGED <<vars, loaded, programme, datesDue, favOn, keyed, favs, listView, willAppear>>
  BY DEF LikedElsewhere, listens
<1>2. Settled' => Settled /\ liked'[container.id] = liked[container.id]
  <2> SUFFICES ASSUME Settled' PROVE Settled /\ liked'[container.id] = liked[container.id]
    OBVIOUS
  <2>1. container' = container /\ container # None /\ favOn = {container.id} /\ favDue' = {}
    BY <1>1 DEF Settled, vars
  <2>2. liked' = [liked EXCEPT ![u] = liked'[u]] /\ Tell(u)
    BY DEF LikedElsewhere, ProgrammeBase, DataOK
  <2>3. favDue = {} /\ (u = container.id => liked'[u] = liked[u])
    BY <2>1, <2>2 DEF Tell
  <2>4. liked'[container.id] = liked[container.id]
    BY <2>1, <2>2, <2>3 DEF ProgrammeBase, DataOK
  <2> QED BY <1>1, <2>1, <2>3, <2>4 DEF Settled, listView
<1>3. container' = container /\ trap' = trap /\ screen' = screen
  BY <1>1 DEF vars
<1>4. OfTheDay' /\ HeartsSettled'
  BY <1>1, <1>2, <1>3 DEF SettledInv, OfTheDay, HeartsSettled, TouchList, listView
<1>5. FavouritesSettled'
  BY <1>1, <1>2, <1>3 DEF SettledInv, FavouritesSettled, Snapshot
<1> QED BY <1>4, <1>5 DEF SettledInv

LEMMA SettledDatesChange ==
  ASSUME SettledInv, ProgrammeBase, NEW l, DatesChange(l)
  PROVE  SettledInv'
<1>1. UNCHANGED <<vars, loaded, favOn, favDue, listView, willAppear>> /\ datesDue' = datesOn
  BY DEF DatesChange
<1>2. ~Settled'
  BY <1>1 DEF Settled, ProgrammeBase, LoadingInv
<1>3. OfTheDay'
  BY <1>1 DEF SettledInv, OfTheDay, listView, vars
<1> QED BY <1>2, <1>3 DEF SettledInv, FavouritesSettled, HeartsSettled

LEMMA SettledStep ==
  SettledInv /\ ProgrammeBase /\ TypeOK /\ LaunchClean /\ [PNext]_allVars => SettledInv'
<1> SUFFICES ASSUME SettledInv, ProgrammeBase, TypeOK, LaunchClean, [PNext]_allVars
             PROVE  SettledInv'
  OBVIOUS
<1>1. CASE SessionSteps BY <1>1, SettledSession
<1>2. CASE LoadLectures
  <2>1. datesDue' = TRUE /\ trap = "none" /\ UNCHANGED listView
    BY <1>2 DEF LoadLectures, InfoStored
  <2> QED BY <2>1 DEF SettledInv, OfTheDay, FavouritesSettled, HeartsSettled, Settled, listView
<1>3. CASE PRestart
  <2>1. loaded' = FALSE /\ shown' = <<>>
    BY <1>3 DEF PRestart
  <2> QED BY <2>1 DEF SettledInv, OfTheDay, FavouritesSettled, HeartsSettled, Settled, ToSet
<1>4. CASE DatesArrive BY <1>4, SettledDatesArrive
<1>5. CASE ListWillAppear
  <2>1. CASE ShowDay(day)
    BY <2>1, SettledShowDay DEF ProgrammeBase, ListOK
  <2>2. CASE /\ UNCHANGED <<vars, server, loaded, programme, listens, favDue, keyed, favs,
                            listView, favRows>>
             /\ ~dataLoaded \/ screen # "list"
    <3>1. OfTheDay' /\ FavouritesSettled'
      BY <2>2 DEF SettledInv, OfTheDay, FavouritesSettled, Settled, Snapshot, vars, server, listens,
                  listView
    <3>2. ~TouchList'
      BY <2>2 DEF TouchList, vars, listView
    <3> QED BY <3>1, <3>2 DEF SettledInv, HeartsSettled
  <2> QED BY <1>5, <2>1, <2>2 DEF ListWillAppear
<1>6. ASSUME NEW u \in Users, FavouritesArrive(u) PROVE SettledInv'
  BY <1>6, SettledFavouritesArrive
<1>7. ASSUME NEW d \in Days, ChangeColor(d) PROVE SettledInv'
  BY <1>7, SettledShowDay DEF ChangeColor
<1>8. ASSUME NEW i \in 1 .. Len(Order), ToggleHeart(i) PROVE SettledInv'
  BY <1>8, SettledToggleHeart
<1>9. CASE OpenFavourites \/ FavouritesSegment \/ \E l \in Lectures : UpdateFavourite(l)
  BY <1>9, SettledFavouriteRows
<1>10. ASSUME NEW u \in Elsewhere, NEW l \in Lectures, LikedElsewhere(u, l) PROVE SettledInv'
  BY <1>10, SettledLikedElsewhere, ElsewhereAssumption
<1>11. ASSUME NEW l \in Removable, DatesChange(l) PROVE SettledInv'
  BY <1>11, SettledDatesChange
<1>12. CASE UNCHANGED allVars
  BY <1>12, SettledFrame DEF allVars, vars
<1> QED
  BY <1>1, <1>2, <1>3, <1>4, <1>5, <1>6, <1>7, <1>8, <1>9, <1>10, <1>11, <1>12
     DEF PNext, UserSteps

LEMMA SettledHolds == PSpec => []SettledInv
<1>1. PInit => SettledInv
  BY DEF PInit, SettledInv, OfTheDay, FavouritesSettled, HeartsSettled, Settled, ToSet
<1>2. PSpec => []TypeOK
  BY ProgrammeIsSession, TypeCorrect, PTL DEF Session
<1>3. PSpec => []SessionInv
  BY ProgrammeIsSession, SessionInvariant, PTL DEF Session
<1>4. SessionInv => LaunchClean
  BY DEF SessionInv
<1> QED BY <1>1, <1>2, <1>3, <1>4, BaseHolds, SettledStep, PTL DEF PSpec

(* Optimistic hearts, snapshots of both paths and reloads of the list, in   *)
(* any order: once nothing is on its way, the favourites are exactly the    *)
(* user's on the server as far as they are in the programme, one copy each. *)
THEOREM ConvergedHolds == PSpec => []Converged
<1>1. ProgrammeBase /\ SettledInv => Converged
  BY DEF ProgrammeBase, SettledInv, FavouritesSettled, Settled, Converged, Quiet, Snapshot
<1> QED BY <1>1, BaseHolds, SettledHolds, PTL
=============================================================================
