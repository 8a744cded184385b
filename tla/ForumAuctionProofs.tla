------------------------- MODULE ForumAuctionProofs -------------------------
(* The auction leaves the session to ForumSession: whatever is proved of    *)
(* the session holds with the auction on top, and with it whom a heart      *)
(* writes for.  Then the types, and what ties the objects in the lists, on  *)
(* the page and among the favourites to the container: each favourite is    *)
(* live, a bid from the list is in place.                                   *)
EXTENDS ForumAuction, ForumSessionProofs, FiniteOrder, SequenceTheorems

(* Every step of the auction is a step of the session below, or leaves the  *)
(* session alone.                                                           *)
LEMMA AuctionStepIsSession == ANext => [Next]_vars
<1> SUFFICES ASSUME ANext PROVE [Next]_vars
  OBVIOUS
<1>1. CASE SessionBelow BY <1>1 DEF SessionBelow, Next, LogOutSteps
<1>2. CASE LoadAuction BY <1>2 DEF LoadAuction, Next
<1>3. CASE ARestart BY <1>3 DEF ARestart, Next
<1>4. CASE ItemsArrive \/ AuctionChanges BY <1>4 DEF ItemsArrive, AuctionChanges
<1>5. ASSUME NEW u \in Users, LikesArrive(u) PROVE [Next]_vars
  BY <1>5 DEF LikesArrive
<1>6. ASSUME NEW u \in Elsewhere, NEW i \in Items, LikedElsewhere(u, i)
      PROVE  [Next]_vars
  BY <1>6 DEF LikedElsewhere
<1>7. ASSUME NEW s \in AppTraps, MainFree, screen = "other", Trap(s)
      PROVE  Next
  BY <1>7 DEF Next, ViewTraps
<1>8. ASSUME NEW t \in {"auction", "favourites"}, OpenTab(t) PROVE [Next]_vars
  BY <1>8 DEF OpenTab, Next
<1>9. ASSUME NEW s \in {"program", "auction"}, Segment(s) PROVE [Next]_vars
  BY <1>9 DEF Segment
<1>10. ASSUME NEW k \in 1 .. Len(ItemOrder), ToggleItem(k) \/ UnlikeItem(k)
       PROVE  [Next]_vars
  BY <1>10 DEF ToggleItem, UnlikeItem
<1>11. ASSUME NEW o, NEW row, InTab(tab), Open(o, row) PROVE [Next]_vars
  BY <1>7, <1>11 DEF InTab, Open, AppTraps
<1>12. ASSUME NEW k \in 1 .. Len(ItemOrder), OpenItem(k) PROVE [Next]_vars
  BY <1>11, <1>12 DEF OpenItem, InTab
<1>13. CASE OpenFavourite BY <1>11, <1>13 DEF OpenFavourite, InTab
<1>14. CASE ClosePage BY <1>14 DEF ClosePage
<1>15. CASE MakeAnOffer
  <2>1. CASE page.row \in DOMAIN items BY <1>15, <2>1 DEF MakeAnOffer
  <2>2. CASE page.row \notin DOMAIN items
    BY <1>15, <2>2, <1>7 DEF MakeAnOffer, OnPage, AppTraps
  <2> QED BY <2>1, <2>2
<1> QED
  BY <1>1, <1>2, <1>3, <1>4, <1>5, <1>6, <1>8, <1>9, <1>10, <1>12, <1>13, <1>14, <1>15
     DEF ANext, Taps

(* The app with its auction implements ForumSession.                        *)
THEOREM AuctionIsSession == ASpec => Session
<1>1. AInit => Init BY DEF AInit
<1>2. [ANext]_allVars => [Next]_vars
  BY AuctionStepIsSession DEF allVars, vars
<1> QED BY <1>1, <1>2, PTL DEF ASpec, Spec, Session

-----------------------------------------------------------------------------
(* The favourite items on the server stay one entry per account.            *)
LikedPerUser == liked = [u \in Users |-> liked[u]]

(* Every write of liked is an EXCEPT of one account's entry.                 *)
LEMMA LikedPerUserHolds == ASpec => []LikedPerUser
<1>1. AInit => LikedPerUser BY DEF AInit, LikedPerUser
<1>2. ASSUME LikedPerUser, [ANext]_allVars PROVE LikedPerUser'
  <2>1. ASSUME NEW me, NEW s, liked' = [liked EXCEPT ![me] = s] PROVE LikedPerUser'
    BY <1>2, <2>1 DEF LikedPerUser
  <2>2. CASE UNCHANGED liked BY <1>2, <2>2 DEF LikedPerUser
  <2>3. ASSUME NEW me, NEW o, AddItem(me, o) PROVE LikedPerUser'
    BY <2>1, <2>2, <2>3 DEF AddItem
  <2>4. ASSUME NEW me, NEW o, RemoveItem(me, o) PROVE LikedPerUser'
    BY <2>1, <2>4 DEF RemoveItem
  <2>5. ASSUME NEW k \in 1 .. Len(ItemOrder), ToggleItem(k) PROVE LikedPerUser'
    BY <2>2, <2>3, <2>4, <2>5 DEF ToggleItem
  <2>6. ASSUME NEW k \in 1 .. Len(ItemOrder), UnlikeItem(k) PROVE LikedPerUser'
    BY <2>2, <2>4, <2>6 DEF UnlikeItem
  <2>7. ASSUME NEW u \in Elsewhere, NEW i \in Items, LikedElsewhere(u, i)
        PROVE  LikedPerUser'
    BY <2>1, <2>7 DEF LikedElsewhere
  <2>8. CASE SessionBelow \/ LoadAuction \/ ARestart \/ AuctionChanges
    BY <2>2, <2>8 DEF SessionBelow, LoadAuction, ARestart, AuctionChanges, itemServer, avars
  <2>9. CASE ItemsArrive BY <2>2, <2>9 DEF ItemsArrive, itemServer
  <2>10. ASSUME NEW u \in Users, LikesArrive(u) PROVE LikedPerUser'
    BY <2>2, <2>10 DEF LikesArrive, itemServer
  <2>11. ASSUME NEW t \in {"auction", "favourites"}, OpenTab(t) PROVE LikedPerUser'
    BY <2>2, <2>11 DEF OpenTab, itemServer
  <2>12. ASSUME NEW s \in {"program", "auction"}, Segment(s) PROVE LikedPerUser'
    BY <2>2, <2>12 DEF Segment, itemServer
  <2>13. ASSUME NEW k \in 1 .. Len(ItemOrder), OpenItem(k) PROVE LikedPerUser'
    BY <2>2, <2>13 DEF OpenItem, Open, itemServer
  <2>14. CASE OpenFavourite \/ ClosePage \/ MakeAnOffer
    BY <2>2, <2>14 DEF OpenFavourite, Open, ClosePage, MakeAnOffer, itemServer
  <2>15. CASE UNCHANGED allVars BY <2>2, <2>15 DEF allVars, avars, itemServer
  <2> QED
    BY <1>2, <2>5, <2>6, <2>7, <2>8, <2>9, <2>10, <2>11, <2>12, <2>13, <2>14, <2>15
       DEF ANext, Taps
<1> QED BY <1>1, <1>2, PTL DEF ASpec

(* A heart reaches no other account's favourite items than those of the     *)
(* user the app believes in.                                                *)
LEMMA HeartWritesContainer ==
  ASSUME LikedPerUser, NEW k \in 1 .. Len(ItemOrder), ToggleItem(k) \/ UnlikeItem(k),
         NEW u \in Users, liked'[u] # liked[u]
  PROVE  container # None /\ u = container.id
<1>1. ASSUME NEW s, liked' = [liked EXCEPT ![container.id] = s]
      PROVE  u = container.id
  BY <1>1 DEF LikedPerUser
<1>2. ASSUME NEW o, AddItem(container.id, o) \/ RemoveItem(container.id, o)
      PROVE  u = container.id
  BY <1>1, <1>2 DEF AddItem, RemoveItem
<1>3. CASE ToggleItem(k) BY <1>2, <1>3 DEF ToggleItem
<1>4. CASE UnlikeItem(k) BY <1>2, <1>4 DEF UnlikeItem
<1> QED BY <1>3, <1>4

(* Favourite items go to the signed-in account, or, unless an info callback *)
(* ran under LoginView or a sign-in came late, that account's record is on  *)
(* its way: a container that holds somebody else never stays.               *)
THEOREM LikesGoToOwnHolds == ASpec => LikesGoToOwn
<1>1. SessionInv /\ LikedPerUser =>
        ((\E k \in 1 .. Len(ItemOrder) : ToggleItem(k) \/ UnlikeItem(k))
          => \A u \in Users : liked'[u] # liked[u] => (u = auth \/ crossed \/ appear \/ Awaited))
  <2> SUFFICES ASSUME SessionInv, LikedPerUser, NEW u \in Users, liked'[u] # liked[u],
                      NEW k \in 1 .. Len(ItemOrder), ToggleItem(k) \/ UnlikeItem(k)
               PROVE  u = auth \/ crossed \/ appear \/ Awaited
    OBVIOUS
  <2>1. container # None /\ u = container.id BY HeartWritesContainer
  <2>2. screen = "other" BY DEF ToggleItem, UnlikeItem, InTab
  <2>3. CASE auth = None
    <3>1. logout # "idle" \/ crossed
      BY <2>1, <2>3 DEF SessionInv, EmptyUnlessLoggingOut
    <3> QED BY <2>2, <3>1 DEF SessionInv, LogOutAlone
  <2>4. CASE auth # None BY <2>1, <2>2, <2>4 DEF SessionInv, SessionAwaited
  <2> QED BY <2>3, <2>4
<1>2. ASpec => []SessionInv
  BY AuctionIsSession, SessionInvariant, PTL DEF Session
<1> QED BY <1>1, <1>2, LikedPerUserHolds, PTL DEF LikesGoToOwn

-----------------------------------------------------------------------------
(* Types: what is in the container, in the lists and on the page are        *)
(* objects, and the flags are those of listed ones.                         *)
ListsOK ==
  /\ items \in Seq(Object) /\ favItems \in Seq(Object)
  /\ listed \in Seq(Object) /\ favListed \in Seq(Object)
ListenersOK ==
  /\ auction \in SUBSET Items /\ liked \in [Users -> SUBSET Items]
  /\ itemsOn \in BOOLEAN /\ itemsDue \in BOOLEAN
  /\ likesOn \in SUBSET Users /\ likesDue \in SUBSET likesOn
ViewsOK ==
  /\ hearts \in BOOLEAN /\ replaced \in BOOLEAN
  /\ snapshots \in 0 .. MaxSnapshots
  /\ offers \in [Object -> {0, Step}] /\ flagged \in SUBSET ToSet(listed)
  /\ tab \in {"auction", "favourites"} /\ segment \in {"program", "auction"}
  /\ page \in [object : Object, row : Nat \ {0}] \cup {None}

LEMMA AuctionTypes == ATypeOK <=> ListsOK /\ ListenersOK /\ ViewsOK
BY DEF ATypeOK, ListsOK, ListenersOK, ViewsOK

(* The objects without those of an item.                                    *)
LEMMA WithoutIs ==
  ASSUME NEW s \in Seq(Object), NEW i
  PROVE  /\ Without(s, i) \in Seq(Object)
         /\ ToSet(Without(s, i)) = {o \in ToSet(s) : o.item # i}
         /\ (\A j, k \in DOMAIN s : s[j].item = s[k].item => j = k) =>
               \A j, k \in DOMAIN Without(s, i) :
                  Without(s, i)[j].item = Without(s, i)[k].item => j = k
<1> DEFINE S == {o \in ToSet(s) : o.item # i}
<1>1. Without(s, i) = Only(s, S)
  BY DEF Without
<1> HIDE DEF S
<1>2. Only(s, S) \in Seq(Object \cap S)
  BY OnlyIs
<1>3. Only(s, S) \in Seq(Object)
  <2> DEFINE t == Only(s, S)
  <2>1. t \in Seq(Object \cap S)
    BY <1>2
  <2> HIDE DEF t
  <2>2. t \in Seq(Object)
    BY <2>1
  <2> QED BY <2>2 DEF t
<1>4. PICK f \in [DOMAIN Only(s, S) -> DOMAIN s] :
        /\ \A k \in DOMAIN Only(s, S) : Only(s, S)[k] = s[f[k]] /\ s[f[k]] \in S
        /\ \A j, k \in DOMAIN Only(s, S) : f[j] = f[k] => j = k
        /\ \A k \in DOMAIN s : s[k] \in S => \E j \in DOMAIN Only(s, S) : f[j] = k
  BY OnlyTakes
<1>5. ToSet(s) \cap S = S
  BY DEF S
<1>6. ToSet(Only(s, S)) = ToSet(s) \cap S
  BY <1>4 DEF ToSet
<1>7. ASSUME \A j, k \in DOMAIN s : s[j].item = s[k].item => j = k,
             NEW j \in DOMAIN Only(s, S), NEW k \in DOMAIN Only(s, S),
             Only(s, S)[j].item = Only(s, S)[k].item
      PROVE  j = k
  <2>1. f[j] \in DOMAIN s /\ f[k] \in DOMAIN s /\ s[f[j]].item = s[f[k]].item
    BY <1>4, <1>7
  <2> QED BY <1>4, <1>7, <2>1
<1>8. ToSet(Only(s, S)) = {o \in ToSet(s) : o.item # i}
  BY <1>5, <1>6 DEF S
<1> HIDE DEF S
<1> QED BY <1>1, <1>3, <1>7, <1>8

(* The object an item has in a list.                                        *)
LEMMA FirstIs ==
  ASSUME NEW s \in Seq(Object), NEW i, Holds(s, i)
  PROVE  /\ SelectInSeq(s, LAMBDA o : o.item = i) \in DOMAIN s
         /\ s[SelectInSeq(s, LAMBDA o : o.item = i)].item = i
<1> DEFINE I == {k \in 1 .. Len(s) : s[k].item = i}
<1>1. I # {} /\ I \subseteq Nat
  BY DEF Holds
<1>2. \E m \in I : \A n \in I : m <= n
  BY <1>1, LeastNat
<1>3. SelectInSeq(s, LAMBDA o : o.item = i) = Min(I)
  BY <1>1 DEF SelectInSeq
<1>4. Min(I) \in I
  BY <1>2 DEF Min
<1> QED BY <1>3, <1>4

LEMMA ItemKeys ==
  ASSUME NEW S
  PROVE  /\ Only(ItemOrder, S) \in Seq(Items)
         /\ \A k \in DOMAIN Only(ItemOrder, S) : Only(ItemOrder, S)[k] \in S
         /\ \A j, k \in DOMAIN Only(ItemOrder, S) :
               Only(ItemOrder, S)[j] = Only(ItemOrder, S)[k] => j = k
         /\ \A i \in Items \cap S : \E k \in DOMAIN Only(ItemOrder, S) : Only(ItemOrder, S)[k] = i
<1>1. /\ ItemOrder \in Seq(Items)
      /\ {ItemOrder[k] : k \in DOMAIN ItemOrder} = Items
      /\ \A j, k \in DOMAIN ItemOrder : ItemOrder[j] = ItemOrder[k] => j = k
  BY ItemOrderAssumption DEF ToSet, IsInjective
<1>2. PICK f \in [DOMAIN Only(ItemOrder, S) -> DOMAIN ItemOrder] :
        /\ \A k \in DOMAIN Only(ItemOrder, S) :
              Only(ItemOrder, S)[k] = ItemOrder[f[k]] /\ ItemOrder[f[k]] \in S
        /\ \A j, k \in DOMAIN Only(ItemOrder, S) : f[j] = f[k] => j = k
        /\ \A k \in DOMAIN ItemOrder :
              ItemOrder[k] \in S => \E j \in DOMAIN Only(ItemOrder, S) : f[j] = k
  BY <1>1, OnlyTakes
<1>3. Only(ItemOrder, S) \in Seq(Items \cap S)
  BY <1>1, OnlyIs
<1> DEFINE t == Only(ItemOrder, S)
<1>4. t \in Seq(Items)
  <2>1. t \in Seq(Items \cap S)
    BY <1>3
  <2> HIDE DEF t
  <2> QED BY <2>1
<1>5. \A i \in Items \cap S : \E k \in DOMAIN t : t[k] = i
  <2> SUFFICES ASSUME NEW i \in Items, i \in S PROVE \E k \in DOMAIN t : t[k] = i
    OBVIOUS
  <2>1. PICK j \in DOMAIN ItemOrder : ItemOrder[j] = i
    BY <1>1
  <2>2. PICK k \in DOMAIN t : f[k] = j
    BY <1>2, <2>1
  <2> QED BY <1>2, <2>1, <2>2
<1>6. \A j, k \in DOMAIN t : t[j] = t[k] => j = k
  BY <1>1, <1>2
<1> QED BY <1>2, <1>4, <1>5, <1>6

(* A list made of a sequence of keys.                                       *)
LEMMA MadeOf ==
  ASSUME NEW A, NEW keys \in Seq(A), NEW s, s = [k \in DOMAIN keys |-> s[k]],
         \A k \in DOMAIN keys : s[k] \in Object
  PROVE  s \in Seq(Object)
<1>1. Len(keys) \in Nat /\ DOMAIN keys = 1 .. Len(keys)
  OBVIOUS
<1> QED BY <1>1


LEMMA ItemsFresh ==
  ASSUME ListsOK, ViewsOK, ItemsArrive
  PROVE  /\ items' \in Seq(Object) /\ snapshots' \in 1 .. MaxSnapshots
         /\ snapshots' = snapshots + 1
         /\ \A k \in DOMAIN items' : items'[k].of = snapshots'
         /\ \A j, k \in DOMAIN items' : items'[j].item = items'[k].item => j = k
<1> DEFINE keys == Only(ItemOrder, auction)
<1>1. snapshots' = snapshots + 1 /\ snapshots < MaxSnapshots
      /\ items' = [k \in DOMAIN keys |-> [item |-> keys[k], of |-> snapshots']]
  BY DEF ItemsArrive
<1>2. snapshots' \in 1 .. MaxSnapshots
  BY <1>1, MaxSnapshotsAssumption DEF ViewsOK
<1>3. keys \in Seq(Items) /\ \A j, k \in DOMAIN keys : keys[j] = keys[k] => j = k
  BY ItemKeys
<1> HIDE DEF keys
<1>4. \A k \in DOMAIN keys : keys[k] \in Items
  BY <1>3
<1>5. items' \in Seq(Object)
  BY <1>1, <1>2, <1>3, <1>4, MadeOf DEF Object
<1>6. DOMAIN items' = DOMAIN keys
      /\ \A k \in DOMAIN keys : items'[k].item = keys[k] /\ items'[k].of = snapshots'
  BY <1>1
<1> QED BY <1>1, <1>2, <1>3, <1>5, <1>6

LEMMA FavouritesMade ==
  ASSUME ListsOK, NEW u \in Users, LikesArrive(u)
  PROVE  /\ favItems' \in Seq(Object)
         /\ \A j, k \in DOMAIN favItems' : favItems'[j].item = favItems'[k].item => j = k
         /\ ToSet(favItems') \subseteq {o \in ToSet(items) : o.item \in liked[u]}
         /\ \A i \in Items : i \in liked[u] /\ Holds(items, i) =>
               \E k \in DOMAIN favItems' : favItems'[k].item = i
<1> DEFINE S == {i \in liked[u] : Holds(items, i)}
           keys == Only(ItemOrder, S)
           at(i) == SelectInSeq(items, LAMBDA o : o.item = i)
<1>1. favItems' = [k \in DOMAIN keys |-> items[at(keys[k])]]
  BY DEF LikesArrive
<1>2. keys \in Seq(Items)
      /\ (\A k \in DOMAIN keys : keys[k] \in S)
      /\ (\A j, k \in DOMAIN keys : keys[j] = keys[k] => j = k)
      /\ (\A i \in Items \cap S : \E k \in DOMAIN keys : keys[k] = i)
  BY ItemKeys
<1>3. \A i : Holds(items, i) => at(i) \in DOMAIN items /\ items[at(i)].item = i
  BY FirstIs DEF ListsOK
<1>4. \A k \in DOMAIN items : items[k] \in Object
  BY DEF ListsOK
<1> HIDE DEF keys, at
<1>5. \A k \in DOMAIN keys : /\ favItems'[k] = items[at(keys[k])]
                             /\ at(keys[k]) \in DOMAIN items
                             /\ favItems'[k].item = keys[k]
                             /\ keys[k] \in liked[u]
  BY <1>1, <1>2, <1>3
<1>6. DOMAIN favItems' = DOMAIN keys
  BY <1>1
<1>7. favItems' \in Seq(Object)
  <2>1. \A k \in DOMAIN keys : favItems'[k] \in Object
    BY <1>4, <1>5
  <2>2. favItems' = [k \in DOMAIN keys |-> favItems'[k]]
    BY <1>1
  <2> QED BY <1>2, <2>1, <2>2, MadeOf
<1>8. ToSet(favItems') \subseteq {o \in ToSet(items) : o.item \in liked[u]}
  BY <1>5, <1>6 DEF ToSet
<1>9. \A j, k \in DOMAIN favItems' : favItems'[j].item = favItems'[k].item => j = k
  BY <1>2, <1>5, <1>6
<1>10. \A i \in Items : i \in liked[u] /\ Holds(items, i) =>
               \E k \in DOMAIN favItems' : favItems'[k].item = i
  BY <1>2, <1>5, <1>6
<1> QED BY <1>7, <1>8, <1>9, <1>10

\* The user record's account, which TypeCorrect gives.
Known == container # None => container.id \in Users

(* What a heart does: the lists, and who is told.                           *)
LEMMA HeartTypes ==
  ASSUME ListsOK, ListenersOK, NEW me \in Users, NEW o \in Object,
         AddItem(me, o) \/ RemoveItem(me, o)
  PROVE  /\ favItems' \in Seq(Object)
         /\ liked' \in [Users -> SUBSET Items]
         /\ likesDue' \in SUBSET likesOn
<1>1. o.item \in Items
  BY DEF Object
<1>2. ASSUME NEW s, s \in SUBSET Items, liked' = [liked EXCEPT ![me] = s]
      PROVE  liked' \in [Users -> SUBSET Items]
  BY <1>2 DEF ListenersOK
<1>3. liked[me] \cup {o.item} \in SUBSET Items /\ liked[me] \ {o.item} \in SUBSET Items
  BY <1>1 DEF ListenersOK
<1>4. Tell(me) => likesDue' \in SUBSET likesOn
  BY DEF Tell, ListenersOK
<1>5. CASE RemoveItem(me, o)
  BY <1>2, <1>3, <1>4, <1>5, WithoutIs DEF RemoveItem, ListsOK
<1>6. CASE AddItem(me, o) /\ Holds(favItems, o.item)
  BY <1>6 DEF AddItem, ListsOK, ListenersOK
<1>7. CASE AddItem(me, o) /\ ~Holds(favItems, o.item)
  <2>0. favItems' = Append(favItems, o) /\ favItems \in Seq(Object)
    BY <1>7 DEF AddItem, ListsOK
  <2>1. favItems' \in Seq(Object)
    BY <2>0, AppendProperties
  <2>2. liked' = [liked EXCEPT ![me] = liked[me] \cup {o.item}] /\ Tell(me)
    BY <1>7 DEF AddItem
  <2> QED BY <2>1, <2>2, <1>2, <1>3, <1>4
<1> QED BY <1>5, <1>6, <1>7

LEMMA ListenersType ==
  ASSUME Known, ListsOK, ListenersOK, ViewsOK, [ANext]_allVars
  PROVE  ListenersOK'
<1> DEFINE Same == UNCHANGED <<auction, liked, itemsOn, itemsDue, likesOn, likesDue>>
<1>1. Same => ListenersOK'
  BY DEF ListenersOK
<1>2. CASE SessionBelow \/ UNCHANGED allVars
  BY <1>1, <1>2 DEF SessionBelow, allVars, avars, itemServer, itemListens
<1>3. CASE LoadAuction
  BY <1>3 DEF LoadAuction, itemServer, ListenersOK
<1>4. CASE ARestart
  BY <1>4 DEF ARestart, itemServer, ListenersOK
<1>5. CASE ItemsArrive
  BY <1>5 DEF ItemsArrive, itemServer, ListenersOK, Known
<1>6. ASSUME NEW u \in Users, LikesArrive(u) PROVE ListenersOK'
  BY <1>6 DEF LikesArrive, itemServer, itemListens, ListenersOK
<1>7. CASE AuctionChanges
  <2>1. auction' \in SUBSET Items
    BY <1>7, WithdrawableAssumption DEF AuctionChanges, ListenersOK
  <2> QED BY <1>7, <2>1 DEF AuctionChanges, itemListens, ListenersOK
<1>8. ASSUME NEW u \in Elsewhere, NEW i \in Items, LikedElsewhere(u, i)
      PROVE  ListenersOK'
  <2>1. u \in Users
    BY AuctionElsewhereAssumption
  <2>2. liked' \in [Users -> SUBSET Items]
    BY <1>8, <2>1 DEF LikedElsewhere, ListenersOK
  <2>3. likesDue' \in SUBSET likesOn
    BY <1>8 DEF LikedElsewhere, Tell, ListenersOK
  <2> QED BY <1>8, <2>2, <2>3 DEF LikedElsewhere, itemListens, ListenersOK
<1>9. ASSUME NEW k \in 1 .. Len(ItemOrder), ToggleItem(k) \/ UnlikeItem(k)
      PROVE  ListenersOK'
  <2>1. UNCHANGED <<auction, itemListens, itemsDue>>
    BY <1>9 DEF ToggleItem, UnlikeItem
  <2>2. CASE UNCHANGED <<liked, likesDue>>
    BY <2>1, <2>2 DEF itemListens, ListenersOK
  <2>3. ASSUME container # None, NEW o \in Object,
               AddItem(container.id, o) \/ RemoveItem(container.id, o)
        PROVE  ListenersOK'
    BY <2>1, <2>3, HeartTypes DEF itemListens, ListenersOK, Known
  <2>4. \A j \in DOMAIN listed : listed[j] \in Object
    BY DEF ListsOK
  <2>5. \A j \in DOMAIN favListed : favListed[j] \in Object
    BY DEF ListsOK
  <2>6. CASE ToggleItem(k)
    BY <2>2, <2>3, <2>4, <2>6 DEF ToggleItem
  <2>7. CASE UnlikeItem(k)
    BY <2>2, <2>3, <2>5, <2>7 DEF UnlikeItem
  <2> QED BY <1>9, <2>6, <2>7
<1>10. ASSUME NEW t \in {"auction", "favourites"}, OpenTab(t) PROVE ListenersOK'
  BY <1>1, <1>10 DEF OpenTab, itemServer, itemListens
<1>11. ASSUME NEW s \in {"program", "auction"}, Segment(s) PROVE ListenersOK'
  BY <1>1, <1>11 DEF Segment, itemServer, itemListens
<1>12. ASSUME NEW k \in 1 .. Len(ItemOrder), OpenItem(k) PROVE ListenersOK'
  BY <1>1, <1>12 DEF OpenItem, Open, itemServer, itemListens
<1>13. CASE OpenFavourite \/ ClosePage \/ MakeAnOffer
  BY <1>1, <1>13 DEF OpenFavourite, Open, ClosePage, MakeAnOffer, itemServer, itemListens
<1> QED
  BY <1>2, <1>3, <1>4, <1>5, <1>6, <1>7, <1>8, <1>9, <1>10, <1>11, <1>12, <1>13
     DEF ANext, Taps

(* A tab that appears shows what is there.                                  *)
LEMMA AppearsTypes ==
  ASSUME ListsOK, ViewsOK, NEW t \in {"auction", "favourites"}, Appears(t)
  PROVE  /\ listed' \in Seq(Object) /\ favListed' \in Seq(Object)
         /\ hearts' \in BOOLEAN /\ flagged' \in SUBSET ToSet(listed')
<1>1. CASE t = "auction"
  BY <1>1 DEF Appears, ShowAuction, ListsOK
<1>2. CASE t = "favourites"
  BY <1>2 DEF Appears, ShowFavourites, auctionTab, ListsOK, ViewsOK
<1> QED BY <1>1, <1>2

LEMMA ListsType ==
  ASSUME Known, ListsOK, ListenersOK, ViewsOK, [ANext]_allVars
  PROVE  ListsOK'
<1>1. UNCHANGED <<items, favItems, listed, favListed>> => ListsOK'
  BY DEF ListsOK
<1>2. CASE SessionBelow \/ UNCHANGED allVars
  BY <1>1, <1>2 DEF SessionBelow, allVars, avars, auctionTab, favouritesTab
<1>3. CASE LoadAuction \/ AuctionChanges
  BY <1>1, <1>3 DEF LoadAuction, AuctionChanges, auctionTab, favouritesTab
<1>4. CASE ARestart
  BY <1>4 DEF ARestart, ListsOK
<1>5. CASE ItemsArrive
  BY <1>5, ItemsFresh DEF ItemsArrive, auctionTab, favouritesTab, ListsOK
<1>6. ASSUME NEW u \in Users, LikesArrive(u) PROVE ListsOK'
  BY <1>6, FavouritesMade DEF LikesArrive, auctionTab, favouritesTab, ListsOK
<1>7. ASSUME NEW u \in Elsewhere, NEW i \in Items, LikedElsewhere(u, i)
      PROVE  ListsOK'
  BY <1>1, <1>7 DEF LikedElsewhere, auctionTab, favouritesTab
<1>8. ASSUME NEW k \in 1 .. Len(ItemOrder), ToggleItem(k) \/ UnlikeItem(k)
      PROVE  ListsOK'
  <2>1. /\ UNCHANGED <<items, listed>>
        /\ favListed' = favListed \/ favListed' = favItems'
    BY <1>8 DEF ToggleItem, UnlikeItem, auctionTab, favouritesTab
  <2>2. ASSUME container # None, NEW o \in Object,
               AddItem(container.id, o) \/ RemoveItem(container.id, o)
        PROVE  favItems' \in Seq(Object)
    BY <2>2, HeartTypes DEF Known
  <2>3. \A j \in DOMAIN listed : listed[j] \in Object
    BY DEF ListsOK
  <2>4. \A j \in DOMAIN favListed : favListed[j] \in Object
    BY DEF ListsOK
  <2>5. favItems' \in Seq(Object)
    <3>1. CASE UNCHANGED favItems
      BY <3>1 DEF ListsOK
    <3>2. CASE ToggleItem(k)
      BY <2>2, <2>3, <3>1, <3>2 DEF ToggleItem
    <3>3. CASE UnlikeItem(k)
      BY <2>2, <2>4, <3>1, <3>3 DEF UnlikeItem
    <3> QED BY <1>8, <3>2, <3>3
  <2> QED BY <2>1, <2>5 DEF ListsOK
<1>9. ASSUME NEW t \in {"auction", "favourites"}, OpenTab(t) PROVE ListsOK'
  <2>1. Appears(t) /\ UNCHANGED <<items, favItems>>
    BY <1>9 DEF OpenTab
  <2> QED BY <2>1, AppearsTypes DEF ListsOK
<1>10. ASSUME NEW s \in {"program", "auction"}, Segment(s) PROVE ListsOK'
  BY <1>10 DEF Segment, auctionTab, ListsOK
<1>11. ASSUME NEW k \in 1 .. Len(ItemOrder), OpenItem(k) PROVE ListsOK'
  BY <1>1, <1>11 DEF OpenItem, Open, auctionTab, favouritesTab
<1>12. CASE OpenFavourite
  BY <1>1, <1>12 DEF OpenFavourite, Open, auctionTab, favouritesTab
<1>13. CASE ClosePage
  <2>1. Appears(tab) /\ UNCHANGED <<items, favItems>>
    BY <1>13 DEF ClosePage
  <2> QED BY <2>1, AppearsTypes DEF ListsOK, ViewsOK
<1>14. CASE MakeAnOffer
  <2>1. UNCHANGED <<favItems, listed, favListed>> /\ page.object \in Object
    BY <1>14 DEF MakeAnOffer, OnPage, auctionTab, favouritesTab, ViewsOK
  <2>2. items' = items \/ (page.row \in DOMAIN items /\ items' = [items EXCEPT ![page.row] = page.object])
    BY <1>14 DEF MakeAnOffer
  <2>3. items \in Seq(Object) /\ DOMAIN items = 1 .. Len(items)
    BY DEF ListsOK
  <2>4. items' \in Seq(Object)
    <3>1. CASE items' = items
      BY <2>3, <3>1
    <3>2. CASE page.row \in DOMAIN items /\ items' = [items EXCEPT ![page.row] = page.object]
      <4>1. page.row \in 1 .. Len(items)
        BY <2>3, <3>2
      <4> QED BY <2>1, <2>3, <3>2, <4>1, ExceptSeq
    <3> QED BY <2>2, <3>1, <3>2
  <2> QED BY <2>1, <2>4 DEF ListsOK
<1> QED
  BY <1>2, <1>3, <1>4, <1>5, <1>6, <1>7, <1>8, <1>9, <1>10, <1>11, <1>12, <1>13, <1>14
     DEF ANext, Taps

LEMMA ViewsType ==
  ASSUME ListsOK, ListenersOK, ViewsOK, [ANext]_allVars
  PROVE  ViewsOK'
<1> DEFINE Flags == flagged \in SUBSET ToSet(listed)
           Rest == UNCHANGED <<snapshots, offers, tab, segment, page, replaced>>
<1>1. Rest /\ hearts' \in BOOLEAN /\ Flags' => ViewsOK'
  BY DEF ViewsOK
<1>2. UNCHANGED <<snapshots, offers, tab, segment, page, replaced, hearts, flagged, listed>> => ViewsOK'
  BY DEF ViewsOK
<1>3. CASE SessionBelow \/ UNCHANGED allVars
  BY <1>2, <1>3 DEF SessionBelow, allVars, avars, auctionTab, favouritesTab
<1>4. CASE LoadAuction \/ AuctionChanges
  BY <1>2, <1>4 DEF LoadAuction, AuctionChanges, auctionTab, favouritesTab
<1>5. CASE ARestart
  <2>1. 0 \in 0 .. MaxSnapshots
    BY MaxSnapshotsAssumption
  <2> QED BY <1>5, <2>1 DEF ARestart, ViewsOK
<1>6. CASE ItemsArrive
  <2>1. snapshots' \in 0 .. MaxSnapshots
    BY <1>6, ItemsFresh, MaxSnapshotsAssumption
  <2> QED BY <1>6, <2>1 DEF ItemsArrive, auctionTab, favouritesTab, ViewsOK
<1>7. ASSUME NEW u \in Users, LikesArrive(u) PROVE ViewsOK'
  BY <1>2, <1>7 DEF LikesArrive, auctionTab, favouritesTab
<1>8. ASSUME NEW u \in Elsewhere, NEW i \in Items, LikedElsewhere(u, i)
      PROVE  ViewsOK'
  BY <1>2, <1>8 DEF LikedElsewhere, auctionTab, favouritesTab
<1>9. ASSUME NEW k \in 1 .. Len(ItemOrder), ToggleItem(k) PROVE ViewsOK'
  <2>1. listed' = listed /\ hearts' = hearts /\ k \in DOMAIN listed
    BY <1>9 DEF ToggleItem, auctionTab
  <2>2. flagged' = flagged \cup {listed[k]} \/ flagged' = flagged \ {listed[k]}
    BY <1>9 DEF ToggleItem
  <2>3. Flags'
    BY <2>1, <2>2 DEF ViewsOK, ToSet
  <2>4. Rest
    BY <1>9 DEF ToggleItem, favouritesTab
  <2> QED BY <1>1, <2>1, <2>3, <2>4 DEF ViewsOK
<1>10. ASSUME NEW k \in 1 .. Len(ItemOrder), UnlikeItem(k) PROVE ViewsOK'
  BY <1>2, <1>10 DEF UnlikeItem, auctionTab
<1>11. ASSUME NEW t \in {"auction", "favourites"}, OpenTab(t) PROVE ViewsOK'
  <2>1. hearts' \in BOOLEAN /\ Flags'
    BY <1>11, AppearsTypes DEF OpenTab
  <2>2. tab' \in {"auction", "favourites"} /\ UNCHANGED <<snapshots, offers, segment, page, replaced>>
    BY <1>11 DEF OpenTab
  <2> QED BY <2>1, <2>2 DEF ViewsOK
<1>12. CASE ClosePage
  <2>1. hearts' \in BOOLEAN /\ Flags'
    BY <1>12, AppearsTypes DEF ClosePage, ViewsOK
  <2>2. page' = None /\ UNCHANGED <<snapshots, offers, tab, segment, replaced>>
    BY <1>12 DEF ClosePage
  <2> QED BY <2>1, <2>2 DEF ViewsOK
<1>13. ASSUME NEW s \in {"program", "auction"}, Segment(s) PROVE ViewsOK'
  BY <1>13 DEF Segment, auctionTab, ViewsOK
<1>14. ASSUME NEW o \in Object, NEW r \in Nat \ {0}, Open(o, r) PROVE ViewsOK'
  <2>1. page' \in [object : Object, row : Nat \ {0}] \cup {None}
    BY <1>14 DEF Open, ViewsOK
  <2> QED BY <1>14, <2>1 DEF Open, auctionTab, favouritesTab, ViewsOK
<1>15. ASSUME NEW k \in 1 .. Len(ItemOrder), OpenItem(k) PROVE ViewsOK'
  <2>1. listed[k] \in Object /\ k \in Nat \ {0} /\ Open(listed[k], k)
    BY <1>15 DEF OpenItem, ListsOK
  <2> QED BY <1>14, <2>1
<1>16. CASE OpenFavourite
  <2>1. favListed[1] \in Object /\ Open(favListed[1], 1)
    BY <1>16 DEF OpenFavourite, ListsOK
  <2>2. 1 \in Nat \ {0}
    OBVIOUS
  <2> QED BY <1>14, <2>1, <2>2
<1>17. CASE MakeAnOffer
  <2>1. page.object \in Object
    BY <1>17 DEF MakeAnOffer, OnPage, ViewsOK
  <2>2. offers' \in [Object -> {0, Step}]
    BY <1>17, <2>1 DEF MakeAnOffer, NewBid, ViewsOK
  <2>3. replaced' \in BOOLEAN
    BY <1>17 DEF MakeAnOffer, ViewsOK
  <2> QED BY <1>17, <2>2, <2>3 DEF MakeAnOffer, auctionTab, favouritesTab, ViewsOK
<1> QED
  BY <1>3, <1>4, <1>5, <1>6, <1>7, <1>8, <1>9, <1>10, <1>11, <1>12, <1>13, <1>15, <1>16, <1>17
     DEF ANext, Taps

LEMMA AuctionTypesInit == AInit => ListsOK /\ ListenersOK /\ ViewsOK
<1> SUFFICES ASSUME AInit PROVE ListsOK /\ ListenersOK /\ ViewsOK
  OBVIOUS
<1>1. 0 \in 0 .. MaxSnapshots
  BY MaxSnapshotsAssumption
<1>2. ListsOK
  BY DEF AInit, ListsOK
<1>3. ListenersOK
  BY DEF AInit, ListenersOK
<1>4. ViewsOK
  BY <1>1 DEF AInit, ViewsOK
<1> QED BY <1>2, <1>3, <1>4

LEMMA AuctionTypesHold == ASpec => [](Known /\ ListsOK /\ ListenersOK /\ ViewsOK)
<1>1. TypeOK => Known
  BY DEF TypeOK, Known, Account
<1>2. ASpec => []TypeOK
  BY AuctionIsSession, TypeCorrect, PTL DEF Session
<1>3. AInit => ListsOK /\ ListenersOK /\ ViewsOK
  BY AuctionTypesInit
<1>4. Known /\ ListsOK /\ ListenersOK /\ ViewsOK /\ [ANext]_allVars
        => (ListsOK /\ ListenersOK /\ ViewsOK)'
  BY ListsType, ListenersType, ViewsType
<1> QED BY <1>1, <1>2, <1>3, <1>4, PTL DEF ASpec

(* Type correctness: AuctionItemContainer, the favourites and both lists    *)
(* hold objects of snapshots this process has seen, an offer is 0 or one    *)
(* step, and only the rows of the list carry a favorit flag.                *)
THEOREM AuctionTypeCorrect == ASpec => []ATypeOK
BY AuctionTypesHold, AuctionTypes, PTL

-----------------------------------------------------------------------------
(* The favourites and the container.  FavouritesAreLive is about the        *)
(* objects that a snapshot made, so the invariant says where objects of the *)
(* current snapshot can be: an item has one of them, at the row where the   *)
(* list shows it, and a page that the list opened has that row.             *)
AllSeen ==
  /\ ~replaced => \A o \in ToSet(items) \cup ToSet(listed) : o.of <= snapshots
  /\ snapshots = 0 => items = <<>>
ItemsOnce ==
  ~replaced => \A j, k \in DOMAIN items : items[j].item = items[k].item => j = k
ListedInPlace ==
  ~replaced => \A j \in DOMAIN listed, k \in DOMAIN items : listed[j] = items[k] => j = k
PageFromList ==
  page # None /\ tab = "auction" =>
    page.row \in DOMAIN listed /\ listed[page.row] = page.object

\* The snapshots have been answered, whether or not a callback is running.
Settled ==
  /\ itemsOn /\ ~itemsDue /\ likesDue = {} /\ ~replaced
  /\ container # None /\ likesOn = {container.id}
AsLiked(u) ==
  \A o \in Object : Holds(items, o.item) =>
    (o \in ToSet(favItems) <=> o \in ToSet(items) /\ o.item \in liked[u])
FavouritesOnce == \A j, k \in DOMAIN favItems : favItems[j].item = favItems[k].item => j = k
FavouritesInv == Settled => AsLiked(container.id) /\ FavouritesOnce

RowsInv == AllSeen /\ ItemsOnce /\ ListedInPlace /\ PageFromList
ATypes == Known /\ ListsOK /\ ListenersOK /\ ViewsOK

LEMMA RowsStep ==
  ASSUME ATypes, RowsInv, [ANext]_allVars
  PROVE  RowsInv'
<1> USE DEF ATypes
<1>1. UNCHANGED <<items, listed, snapshots, replaced, page, tab>> => RowsInv'
  BY DEF RowsInv, AllSeen, ItemsOnce, ListedInPlace, PageFromList
<1>2. CASE SessionBelow \/ UNCHANGED allVars
  BY <1>1, <1>2 DEF SessionBelow, allVars, avars, auctionTab
<1>3. CASE LoadAuction \/ AuctionChanges
  BY <1>1, <1>3 DEF LoadAuction, AuctionChanges, auctionTab
<1>4. CASE ARestart
  BY <1>4 DEF ARestart, RowsInv, AllSeen, ItemsOnce, ListedInPlace, PageFromList, ToSet
<1>5. CASE ItemsArrive
  <2>1. /\ snapshots' = snapshots + 1 /\ items' \in Seq(Object)
        /\ \A k \in DOMAIN items' : items'[k].of = snapshots'
        /\ \A j, k \in DOMAIN items' : items'[j].item = items'[k].item => j = k
    BY <1>5, ItemsFresh
  <2>2. UNCHANGED <<listed, replaced, page, tab>>
    BY <1>5 DEF ItemsArrive, auctionTab
  <2>3. snapshots \in Nat /\ \A j \in DOMAIN listed : listed[j].of \in Nat
    <3>1. \A j \in DOMAIN listed : listed[j] \in Object
      BY DEF ListsOK
    <3>2. \A o \in Object : o.of \in Nat
      BY DEF Object
    <3> QED BY <3>1, <3>2 DEF ViewsOK
  <2>4. ~replaced => \A j \in DOMAIN listed : listed[j].of <= snapshots' /\ listed[j].of # snapshots'
    <3>1. ~replaced => \A j \in DOMAIN listed : listed[j].of <= snapshots
      BY DEF RowsInv, AllSeen, ToSet
    <3> QED BY <2>1, <2>3, <3>1
  <2>5. AllSeen'
    <3>1. \A k \in DOMAIN items' : items'[k].of <= snapshots'
      BY <2>1, <2>3
    <3>2. snapshots' # 0
      BY <2>1, <2>3
    <3> QED BY <2>2, <2>4, <3>1, <3>2 DEF AllSeen, ToSet
  <2>6. ListedInPlace'
    BY <2>1, <2>2, <2>4 DEF ListedInPlace
  <2>7. ItemsOnce'
    BY <2>1 DEF ItemsOnce
  <2>8. PageFromList'
    BY <2>2 DEF RowsInv, PageFromList
  <2> QED BY <2>5, <2>6, <2>7, <2>8 DEF RowsInv
<1>6. ASSUME NEW u \in Users, LikesArrive(u) PROVE RowsInv'
  BY <1>1, <1>6 DEF LikesArrive, auctionTab
<1>7. ASSUME NEW u \in Elsewhere, NEW i \in Items, LikedElsewhere(u, i)
      PROVE  RowsInv'
  BY <1>1, <1>7 DEF LikedElsewhere, auctionTab
<1>8. ASSUME NEW k \in 1 .. Len(ItemOrder), ToggleItem(k) \/ UnlikeItem(k)
      PROVE  RowsInv'
  BY <1>1, <1>8 DEF ToggleItem, UnlikeItem, auctionTab
<1>9. ASSUME NEW t \in {"auction", "favourites"}, Appears(t), page' = None,
             UNCHANGED <<items, snapshots, replaced>>
      PROVE  RowsInv'
  <2>1. listed' = listed \/ listed' = items
    BY <1>9 DEF Appears, ShowAuction, auctionTab
  <2>2. AllSeen'
    BY <1>9, <2>1 DEF RowsInv, AllSeen
  <2>3. ItemsOnce'
    BY <1>9 DEF RowsInv, ItemsOnce
  <2>4. ListedInPlace'
    <3>1. CASE listed' = listed
      BY <1>9, <3>1 DEF RowsInv, ListedInPlace
    <3>2. CASE listed' = items
      BY <1>9, <3>2 DEF RowsInv, ItemsOnce, ListedInPlace
    <3> QED BY <2>1, <3>1, <3>2
  <2>5. PageFromList'
    BY <1>9 DEF PageFromList
  <2> QED BY <2>2, <2>3, <2>4, <2>5 DEF RowsInv
<1>10. ASSUME NEW t \in {"auction", "favourites"}, OpenTab(t) PROVE RowsInv'
  BY <1>9, <1>10 DEF OpenTab
<1>11. CASE ClosePage
  <2>1. Appears(tab) /\ page' = None /\ tab \in {"auction", "favourites"}
        /\ UNCHANGED <<items, snapshots, replaced>>
    BY <1>11 DEF ClosePage, ViewsOK
  <2> QED BY <1>9, <2>1
<1>12. ASSUME NEW s \in {"program", "auction"}, Segment(s) PROVE RowsInv'
  BY <1>1, <1>12 DEF Segment, auctionTab
<1>13. ASSUME NEW k \in 1 .. Len(ItemOrder), OpenItem(k) PROVE RowsInv'
  <2>1. UNCHANGED <<items, listed, snapshots, replaced, tab>> /\ k \in DOMAIN listed
    BY <1>13 DEF OpenItem, Open, auctionTab
  <2>2. page' = page \/ (page'.object = listed[k] /\ page'.row = k)
    BY <1>13 DEF OpenItem, Open
  <2>3. PageFromList'
    BY <2>1, <2>2 DEF RowsInv, PageFromList
  <2> QED BY <2>1, <2>3 DEF RowsInv, AllSeen, ItemsOnce, ListedInPlace
<1>14. CASE OpenFavourite
  <2>1. UNCHANGED <<items, listed, snapshots, replaced, tab>> /\ tab = "favourites"
    BY <1>14 DEF OpenFavourite, InTab, Open, auctionTab
  <2>2. PageFromList'
    BY <2>1 DEF PageFromList
  <2> QED BY <2>1, <2>2 DEF RowsInv, AllSeen, ItemsOnce, ListedInPlace
<1>15. CASE MakeAnOffer
  <2>1. UNCHANGED <<listed, snapshots, page, tab>>
    BY <1>15 DEF MakeAnOffer, auctionTab
  <2>2. CASE items' = items /\ replaced' = replaced
    BY <1>1, <2>1, <2>2
  <2>3. CASE /\ page.row \in DOMAIN items
             /\ items' = [items EXCEPT ![page.row] = page.object]
             /\ replaced' = (replaced \/ items[page.row] # page.object)
    <3>1. CASE items[page.row] = page.object
      <4>1. items' = items
        BY <2>3, <3>1 DEF ListsOK
      <4>2. replaced' <=> replaced
        BY <2>3, <3>1
      <4> QED BY <2>1, <4>1, <4>2 DEF RowsInv, AllSeen, ItemsOnce, ListedInPlace, PageFromList
    <3>2. CASE items[page.row] # page.object
      <4>1. replaced'
        BY <2>3, <3>2
      <4>2. snapshots # 0
        BY <2>3 DEF RowsInv, AllSeen
      <4> QED BY <2>1, <4>1, <4>2 DEF RowsInv, AllSeen, ItemsOnce, ListedInPlace, PageFromList
    <3> QED BY <2>3, <3>1, <3>2
  <2> QED BY <1>15, <2>2, <2>3 DEF MakeAnOffer
<1> QED
  BY <1>2, <1>3, <1>4, <1>5, <1>6, <1>7, <1>8, <1>10, <1>11, <1>12, <1>13, <1>14, <1>15
     DEF ANext, Taps

(* The session empties the user record, and fills it only when it has read  *)
(* the account (InfoStored, which LoadAuction conjoins).                    *)
LEMMA SessionEmpties == SessionBelow => container' \in {container, None}
<1> SUFFICES ASSUME SessionBelow PROVE container' \in {container, None}
  OBVIOUS
<1>1. CASE ViewDidLoad \/ ListDidAppear \/ BackToList
  BY <1>1 DEF ViewDidLoad, ListDidAppear, BackToList
<1>2. ASSUME NEW u \in Users, InfoChanges(u) \/ InfoArrives(u)
      PROVE  container' \in {container, None}
  BY <1>2 DEF InfoChanges, InfoArrives, Trap
<1>3. CASE FavoritesLogOut \/ LoginDidAppear \/ SignOut \/ RemoveUser
  BY <1>3 DEF FavoritesLogOut, LoginDidAppear, SignOut, RemoveUser
<1>4. CASE TapSkip \/ \E p \in Providers : TapProvider(p)
  BY <1>4 DEF TapSkip, TapProvider
<1>5. CASE OpenURL \/ DialogFails \/ FacebookCancelled \/ DialogSucceeds \/ GraphAnswers
  BY <1>5 DEF OpenURL, DialogFails, FacebookCancelled, DialogSucceeds, GraphAnswers, Trap
<1>6. ASSUME NEW r \in Requests, SignInFails(r) PROVE container' \in {container, None}
  BY <1>6 DEF SignInFails, Trap
<1>7. ASSUME NEW r \in Requests, NEW u \in Users, SignedIn(r, u)
      PROVE  container' \in {container, None}
  BY <1>7 DEF SignedIn
<1> QED BY <1>1, <1>2, <1>3, <1>4, <1>5, <1>6, <1>7 DEF SessionBelow, LoginScreen

(* A heart that tells nobody has changed nothing that counts: the item was  *)
(* liked already and is not in the auction, or was not liked.               *)
LEMMA HeartKeeps ==
  ASSUME ATypes, NEW o \in Object, container' = container, items' = items, likesOn' = likesOn,
         itemsOn' = itemsOn, itemsDue' = itemsDue, replaced' = replaced,
         AddItem(container.id, o) \/ RemoveItem(container.id, o),
         FavouritesInv, Settled'
  PROVE  AsLiked(container.id)' /\ FavouritesOnce'
<1> USE DEF ATypes
<1> DEFINE me == container.id
<1>1. me \in Users /\ me \in likesOn /\ Settled' /\ favItems \in Seq(Object)
      /\ DOMAIN liked = Users
  BY DEF Settled, Known, ListsOK, ListenersOK
<1>2. CASE UNCHANGED <<favItems, liked, likesDue>>
  BY <1>2 DEF Settled, FavouritesInv, AsLiked, FavouritesOnce
<1>3. ASSUME Tell(me) PROVE Settled /\ liked'[me] = liked[me]
  BY <1>1, <1>3 DEF Tell, Settled
<1>4. CASE AddItem(me, o) /\ ~Holds(favItems, o.item)
  <2>1. favItems' = Append(favItems, o) /\ Tell(me) /\ liked'[me] = liked[me] \cup {o.item}
    BY <1>1, <1>4 DEF AddItem
  <2>2. Settled /\ liked'[me] = liked[me] /\ o.item \in liked[me]
    BY <1>3, <2>1
  <2>3. AsLiked(me) /\ FavouritesOnce
    BY <2>2 DEF FavouritesInv
  <2>4. ~Holds(items, o.item)
    <3> SUFFICES ASSUME Holds(items, o.item) PROVE FALSE
      OBVIOUS
    <3>1. PICK k \in DOMAIN items : items[k].item = o.item
      BY DEF Holds
    <3>2. items[k] \in Object /\ items[k] \in ToSet(items) /\ Holds(items, items[k].item)
      BY <3>1 DEF ListsOK, ToSet, Holds
    <3>3. items[k] \in ToSet(favItems)
      BY <2>2, <2>3, <3>1, <3>2 DEF AsLiked
    <3> QED BY <1>4, <3>1, <3>3 DEF ToSet, Holds
  <2>5. /\ DOMAIN favItems' = 1 .. Len(favItems) + 1 /\ Len(favItems) \in Nat
        /\ DOMAIN favItems = 1 .. Len(favItems)
        /\ \A k \in 1 .. Len(favItems) : favItems'[k] = favItems[k]
        /\ favItems'[Len(favItems) + 1] = o
    BY <1>1, <2>1
  <2>6. \A k \in DOMAIN favItems' : k \in DOMAIN favItems \/ k = Len(favItems) + 1
    BY <2>5
  <2>7. ToSet(favItems') = ToSet(favItems) \cup {o}
    BY <2>5, <2>6 DEF ToSet
  <2>8. AsLiked(me)'
    BY <2>2, <2>3, <2>4, <2>7 DEF AsLiked
  <2>9. \A k \in DOMAIN favItems : favItems[k].item # o.item
    BY <1>4 DEF Holds
  <2>10. FavouritesOnce'
    BY <2>3, <2>5, <2>6, <2>9 DEF FavouritesOnce
  <2> QED BY <2>8, <2>10
<1>5. CASE RemoveItem(me, o)
  <2>1. favItems' = Without(favItems, o.item) /\ Tell(me) /\ liked'[me] = liked[me] \ {o.item}
    BY <1>1, <1>5 DEF RemoveItem
  <2>2. Settled /\ liked'[me] = liked[me] /\ o.item \notin liked[me]
    BY <1>3, <2>1
  <2>3. AsLiked(me) /\ FavouritesOnce
    BY <2>2 DEF FavouritesInv
  <2>4. ToSet(favItems') = {p \in ToSet(favItems) : p.item # o.item} /\ FavouritesOnce'
    BY <1>1, <2>1, <2>3, WithoutIs DEF FavouritesOnce
  <2>5. AsLiked(me)'
    BY <2>2, <2>3, <2>4 DEF AsLiked
  <2> QED BY <2>4, <2>5
<1> QED BY <1>2, <1>4, <1>5 DEF AddItem

LEMMA FavouritesStep ==
  ASSUME ATypes, RowsInv, FavouritesInv, [ANext]_allVars
  PROVE  FavouritesInv'
<1> DEFINE Goal == AsLiked(container.id)' /\ FavouritesOnce'
<1> SUFFICES ASSUME Settled' PROVE Goal
  BY DEF FavouritesInv
<1>1. Settled /\ UNCHANGED <<items, favItems, liked, container>> => Goal
  BY DEF FavouritesInv, AsLiked, FavouritesOnce
<1>2. CASE SessionBelow
  <2>1. UNCHANGED <<items, favItems, liked, itemsOn, itemsDue, likesOn, likesDue, replaced>>
    BY <1>2 DEF SessionBelow, avars, itemServer, itemListens
  <2>2. container' = container
    BY <1>2, SessionEmpties DEF Settled
  <2> QED BY <1>1, <2>1, <2>2 DEF Settled
<1>3. CASE LoadAuction \/ ARestart
  BY <1>3 DEF LoadAuction, ARestart, Settled
<1>4. CASE ItemsArrive
  BY <1>4 DEF ItemsArrive, vars, Settled
<1>5. ASSUME NEW u \in Users, LikesArrive(u) PROVE Goal
  <2>1. UNCHANGED <<container, items, liked, likesOn, replaced>> /\ u \in likesDue
    BY <1>5 DEF LikesArrive, vars, itemServer, itemListens
  <2>2. u = container.id
    BY <2>1 DEF Settled, ATypes, ListenersOK
  <2>3. /\ FavouritesOnce'
        /\ ToSet(favItems') \subseteq {o \in ToSet(items) : o.item \in liked[u]}
        /\ \A i \in Items : i \in liked[u] /\ Holds(items, i) =>
               \E k \in DOMAIN favItems' : favItems'[k].item = i
    BY <1>5, FavouritesMade DEF ATypes, FavouritesOnce
  <2>4. \A j, k \in DOMAIN items : items[j].item = items[k].item => j = k
    BY <2>1 DEF Settled, RowsInv, ItemsOnce
  <2>5. ASSUME NEW o \in Object, o \in ToSet(items), o.item \in liked[u]
        PROVE  o \in ToSet(favItems')
    <3>1. o.item \in Items /\ Holds(items, o.item)
      BY <2>5 DEF Object, ToSet, Holds
    <3>2. PICK k \in DOMAIN favItems' : favItems'[k].item = o.item
      BY <2>3, <2>5, <3>1
    <3>3. favItems'[k] \in ToSet(items) /\ favItems'[k] \in ToSet(favItems')
      BY <2>3 DEF ToSet
    <3>4. favItems'[k] = o
      BY <2>4, <2>5, <3>2, <3>3 DEF ToSet
    <3> QED BY <3>3, <3>4
  <2> QED BY <2>1, <2>2, <2>3, <2>5 DEF AsLiked
<1>6. CASE AuctionChanges
  BY <1>6 DEF AuctionChanges, itemListens, Settled
<1>7. ASSUME NEW u \in Elsewhere, NEW i \in Items, LikedElsewhere(u, i) PROVE Goal
  <2>1. UNCHANGED <<container, items, favItems, itemsOn, itemsDue, likesOn, replaced>>
        /\ liked' = [liked EXCEPT ![u] = IF i \in @ THEN @ \ {i} ELSE @ \cup {i}]
        /\ Tell(u)
    BY <1>7 DEF LikedElsewhere, vars, itemListens
  <2>2. u \in Users /\ DOMAIN liked = Users
    BY AuctionElsewhereAssumption DEF ATypes, ListenersOK
  <2>3. liked'[u] # liked[u]
    BY <2>1, <2>2
  <2>4. u \notin likesOn /\ likesDue' = likesDue
    BY <2>1, <2>3 DEF Tell, Settled
  <2>5. Settled /\ u # container.id
    BY <2>1, <2>4 DEF Settled
  <2>6. liked'[container.id] = liked[container.id]
    BY <2>1, <2>2, <2>5
  <2> QED BY <2>1, <2>5, <2>6 DEF FavouritesInv, AsLiked, FavouritesOnce
<1>8. ASSUME NEW k \in 1 .. Len(ItemOrder), ToggleItem(k) \/ UnlikeItem(k) PROVE Goal
  <2>1. UNCHANGED <<container, items, itemsOn, itemsDue, likesOn, replaced>>
    BY <1>8 DEF ToggleItem, UnlikeItem, vars, itemListens
  <2>2. CASE UNCHANGED <<favItems, liked, likesDue>>
    BY <1>1, <2>1, <2>2 DEF Settled
  <2>3. ASSUME NEW o \in Object, AddItem(container.id, o) \/ RemoveItem(container.id, o)
        PROVE  Goal
    <3>1. AsLiked(container.id)' /\ FavouritesOnce'
      BY <2>1, <2>3, HeartKeeps
    <3> QED BY <3>1
  <2>4. \A j \in DOMAIN listed : listed[j] \in Object
    BY DEF ATypes, ListsOK
  <2>5. \A j \in DOMAIN favListed : favListed[j] \in Object
    BY DEF ATypes, ListsOK
  <2>6. CASE ToggleItem(k)
    BY <2>2, <2>3, <2>4, <2>6 DEF ToggleItem
  <2>7. CASE UnlikeItem(k)
    BY <2>2, <2>3, <2>5, <2>7 DEF UnlikeItem
  <2> QED BY <1>8, <2>6, <2>7
<1>9. ASSUME UNCHANGED <<container, itemServer, itemListens, itemsDue, likesDue, items,
                         favItems, replaced>>
      PROVE  Goal
  BY <1>1, <1>9 DEF Settled, itemServer, itemListens
<1>10. ASSUME NEW t \in {"auction", "favourites"}, OpenTab(t) PROVE Goal
  BY <1>9, <1>10 DEF OpenTab, LeaveList, vars
<1>11. CASE ClosePage
  BY <1>9, <1>11 DEF ClosePage, vars
<1>12. ASSUME NEW s \in {"program", "auction"}, Segment(s) PROVE Goal
  BY <1>9, <1>12 DEF Segment, vars
<1>13. ASSUME NEW o, NEW r, Open(o, r) PROVE Goal
  BY <1>9, <1>13 DEF Open, Trap, vars
<1>14. CASE MakeAnOffer
  <2>1. UNCHANGED <<container, itemServer, itemListens, itemsDue, likesDue, favItems>>
    BY <1>14 DEF MakeAnOffer, Trap, vars
  <2>2. replaced = FALSE /\ items' = items
    <3>1. CASE page.row \in DOMAIN items
      <4>1. replaced = FALSE /\ items[page.row] = page.object
        BY <1>14, <3>1 DEF MakeAnOffer, Settled, ATypes, ViewsOK
      <4> QED BY <1>14, <3>1, <4>1 DEF MakeAnOffer, ATypes, ListsOK
    <3>2. CASE page.row \notin DOMAIN items
      BY <1>14, <3>2 DEF MakeAnOffer, Settled, ATypes, ViewsOK
    <3> QED BY <3>1, <3>2
  <2> QED BY <1>1, <2>1, <2>2 DEF Settled, itemServer, itemListens
<1>15. CASE UNCHANGED allVars
  BY <1>9, <1>15 DEF allVars, vars, avars
<1>16. CASE OpenFavourite \/ \E k \in 1 .. Len(ItemOrder) : OpenItem(k)
  BY <1>13, <1>16 DEF OpenFavourite, OpenItem
<1> QED
  BY <1>2, <1>3, <1>4, <1>5, <1>6, <1>7, <1>8, <1>10, <1>11, <1>12, <1>14, <1>15, <1>16
     DEF ANext, Taps

LEMMA AuctionInvariant == ASpec => [](ATypes /\ RowsInv /\ FavouritesInv)
<1>1. AInit => RowsInv /\ FavouritesInv
  BY DEF AInit, RowsInv, AllSeen, ItemsOnce, ListedInPlace, PageFromList, FavouritesInv,
         Settled, ToSet
<1>2. ATypes /\ RowsInv /\ FavouritesInv /\ [ANext]_allVars => (RowsInv /\ FavouritesInv)'
  BY RowsStep, FavouritesStep
<1>3. ASpec => []ATypes
  BY AuctionTypesHold DEF ATypes
<1> QED BY <1>1, <1>2, <1>3, PTL DEF ASpec

(* Once every snapshot has been answered, the favourite items that the      *)
(* auction has are the container's own objects, once each, and those that   *)
(* users/<uid>/auctionItems names: getFavoriteAuctionItems, which runs for  *)
(* every new snapshot, and the hearts of both lists keep it so, unless the  *)
(* listener of an earlier account is left or a bid replaced an object.      *)
THEOREM FavouritesAreLiveHolds == ASpec => []FavouritesAreLive
<1>1. ATypes /\ RowsInv /\ FavouritesInv => FavouritesAreLive
  <2> SUFFICES ASSUME ATypes, FavouritesInv, Quiet, container # None,
                      likesOn = {container.id}, ~replaced
               PROVE  /\ {o \in ToSet(favItems) : Holds(items, o.item)}
                           = {o \in ToSet(items) : o.item \in liked[container.id]}
                      /\ FavouritesOnce
    BY DEF FavouritesAreLive, FavouritesOnce
  <2>1. AsLiked(container.id) /\ FavouritesOnce
    BY DEF Quiet, Settled, FavouritesInv
  <2>2. ToSet(favItems) \subseteq Object /\ ToSet(items) \subseteq Object
    BY DEF ATypes, ListsOK, ToSet
  <2>3. \A o \in ToSet(items) : Holds(items, o.item)
    BY DEF ToSet, Holds
  <2> QED BY <2>1, <2>2, <2>3 DEF AsLiked
<1> QED BY <1>1, AuctionInvariant, PTL

(* A bid from the auction list, on an object that is still the container's, *)
(* writes it back where it was: AuctionItemView hands makeAnOffer the row   *)
(* that the list was built with, and a snapshot that moves rows makes other *)
(* objects.                                                                 *)
THEOREM ListBidInPlaceHolds == ASpec => ListBidInPlace
<1>1. ATypes /\ RowsInv =>
        (MakeAnOffer /\ tab = "auction" /\ page.object \in ToSet(items) /\ ~replaced => items' = items)
  <2> SUFFICES ASSUME ATypes, RowsInv, MakeAnOffer, tab = "auction",
                      page.object \in ToSet(items), ~replaced
               PROVE  items' = items
    OBVIOUS
  <2>1. PICK k \in DOMAIN items : items[k] = page.object
    BY DEF ToSet
  <2>2. page.row \in DOMAIN listed /\ listed[page.row] = page.object
    BY DEF MakeAnOffer, OnPage, RowsInv, PageFromList
  <2>3. k = page.row
    BY <2>1, <2>2 DEF RowsInv, ListedInPlace
  <2> QED BY <2>1, <2>3 DEF MakeAnOffer, ATypes, ListsOK
<1> QED BY <1>1, AuctionInvariant, PTL DEF ListBidInPlace
=============================================================================
