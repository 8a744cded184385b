---------------------------- MODULE ForumAuction ----------------------------
(***************************************************************************)
(* The auction of the Forum app, on top of a ForumSession:                 *)
(* AuctionController, the auction half of UserController, AuctionListView, *)
(* AuctionItemView and the "Auktion" segment of FavoritesListView.         *)
(*                                                                         *)
(* An AuctionItem is an object that the container, the list, the           *)
(* favourites and an open page share by reference.  A snapshot of the      *)
(* auction makes new objects; a bid is stored in an object, nowhere else.  *)
(* An object is modelled by its item and the snapshot it was made of.      *)
(***************************************************************************)
EXTENDS ForumSession, SequencesExt, Filter

CONSTANTS
  Items,        \* ids
  ItemOrder,    \* the same, a sequence in the order of a snapshot's keys
  Online,       \* those with status 0, open for bids in the app
  Withdrawable, \* those the back office takes out of and puts into the auction
  Elsewhere,    \* accounts also used on another device
  MaxSnapshots  \* bound: snapshots of the auction in a process

ASSUME ItemOrderAssumption ==
  ItemOrder \in Seq(Items) /\ ToSet(ItemOrder) = Items /\ IsInjective(ItemOrder)
ASSUME OnlineAssumption == Online \subseteq Items
ASSUME WithdrawableAssumption == Withdrawable \subseteq Items
ASSUME AuctionElsewhereAssumption == Elsewhere \subseteq Users
ASSUME MaxSnapshotsAssumption == MaxSnapshots \in Nat

VARIABLES
  auction,    \* server: the items of the auction node
  liked,      \* server: users/<u>/auctionItems
  snapshots,  \* how many the process has seen
  itemsOn,    \* a listener on the auction node exists
  itemsDue,   \* and has a callback to run
  likesOn,    \* accounts with a listener on users/<u>/auctionItems
  likesDue,   \* those whose callback is to be run
  items,      \* AuctionItem.AuctionItemContainer
  offers,     \* the offer in an object's bidders; 0: bidders is nil
  flagged,    \* the listed objects whose favorit flag is set
  favItems,   \* User.favoriteAuctionItems
  tab,        \* which of the two tabs beside the programme is up
  listed,     \* AuctionListView.container, and its rows
  hearts,     \* AuctionListView.loggedIn: its hearts can be seen and pressed
  segment,    \* the segment of FavoritesListView
  favListed,  \* FavoritesListView.auctionContainer, while that segment is selected
  page,       \* the AuctionItemView that is up, or None
  replaced    \* history: a bid has put another object into its row

itemServer == <<auction, liked>>
itemListens == <<itemsOn, likesOn>>
auctionTab == <<listed, hearts>>
favouritesTab == <<segment, favListed>>
avars == <<itemServer, snapshots, itemListens, itemsDue, likesDue, items, offers,
           flagged, favItems, tab, auctionTab, favouritesTab, page, replaced>>
allVars == <<vars, avars>>

Object == [item : Items, of : 1 .. MaxSnapshots]
Step == 50  \* a bid is the current one and 50 kroner

ATypeOK ==
  /\ auction \in SUBSET Items /\ liked \in [Users -> SUBSET Items]
  /\ snapshots \in 0 .. MaxSnapshots
  /\ {itemsOn, itemsDue, hearts, replaced} \subseteq BOOLEAN
  /\ likesOn \in SUBSET Users /\ likesDue \in SUBSET likesOn
  /\ items \in Seq(Object) /\ favItems \in Seq(Object)
  /\ listed \in Seq(Object) /\ favListed \in Seq(Object)
  /\ offers \in [Object -> {0, Step}] /\ flagged \in SUBSET ToSet(listed)
  /\ tab \in {"auction", "favourites"} /\ segment \in {"program", "auction"}
  /\ page \in [object : Object, row : Nat \ {0}] \cup {None}

-----------------------------------------------------------------------------
AInit ==
  /\ Init
  /\ auction = Items /\ liked = [u \in Users |-> {}]
  /\ snapshots = 0
  /\ itemsOn = FALSE /\ itemsDue = FALSE /\ likesOn = {} /\ likesDue = {}
  /\ items = <<>> /\ offers = [o \in Object |-> 0] /\ flagged = {} /\ favItems = <<>>
  /\ tab = "auction" /\ listed = <<>> /\ hearts = FALSE
  /\ segment = "program" /\ favListed = <<>>
  /\ page = None /\ replaced = FALSE

(* Offers die with the process: there is no write of them anywhere.         *)
ARestart ==
  /\ Restart
  /\ UNCHANGED itemServer
  /\ snapshots' = 0
  /\ itemsOn' = FALSE /\ itemsDue' = FALSE /\ likesOn' = {} /\ likesDue' = {}
  /\ items' = <<>> /\ offers' = [o \in Object |-> 0] /\ flagged' = {} /\ favItems' = <<>>
  /\ tab' = "auction" /\ listed' = <<>> /\ hearts' = FALSE
  /\ segment' = "program" /\ favListed' = <<>>
  /\ page' = None /\ replaced' = FALSE

Holds(objects, i) == \E k \in DOMAIN objects : objects[k].item = i
Without(objects, i) == Only(objects, {o \in ToSet(objects) : o.item # i})

-----------------------------------------------------------------------------
LoadAuction_NotStored ==   \* mutant: the user record is not stored
  /\ trap = "none" /\ callback # None
  /\ loadedFirst' = TRUE /\ callback' = None
  /\ UNCHANGED <<auth, container, newDownload, serverVars, screen, appear, logout,
                 loginVars, trap, everIn, crossed>>
  /\ itemsOn' = TRUE /\ itemsDue' = TRUE
  /\ UNCHANGED <<itemServer, snapshots, likesOn, likesDue, items, offers, flagged,
                 favItems, tab, auctionTab, favouritesTab, page, replaced>>

(* AuctionController.loadAuctionItems, called from the info callback.       *)
LoadAuction ==
  /\ InfoStored
  /\ itemsOn' = TRUE /\ itemsDue' = TRUE
  /\ UNCHANGED <<itemServer, snapshots, likesOn, likesDue, items, offers, flagged,
                 favItems, tab, auctionTab, favouritesTab, page, replaced>>

(* Its callback: new objects for every item, and viewDidAppear's completion *)
(* registers one more listener on the user's favourite items.               *)
ItemsArrive ==
  /\ MainFree /\ itemsDue /\ snapshots < MaxSnapshots
  /\ snapshots' = snapshots + 1
  /\ LET keys == Only(ItemOrder, auction)
     IN items' = [k \in DOMAIN keys |-> [item |-> keys[k], of |-> snapshots']]
  /\ itemsDue' = FALSE
  /\ LET me == IF container = None THEN {} ELSE {container.id}
     IN likesOn' = likesOn \cup me /\ likesDue' = likesDue \cup me
  /\ UNCHANGED <<vars, itemServer, itemsOn, offers, flagged, favItems, tab,
                 auctionTab, favouritesTab, page, replaced>>

(* UserController.getFavoriteAuctionItems' callback: the first object of    *)
(* the container with the id of each favourite.                             *)
LikesArrive(u) ==
  /\ MainFree /\ u \in likesDue
  /\ likesDue' = likesDue \ {u}
  /\ LET keys == Only(ItemOrder, {i \in liked[u] : Holds(items, i)})
     IN favItems' = [k \in DOMAIN keys |->
                       items[SelectInSeq(items, LAMBDA o : o.item = keys[k])]]
  /\ UNCHANGED <<vars, itemServer, snapshots, itemListens, itemsDue, items, offers,
                 flagged, tab, auctionTab, favouritesTab, page, replaced>>

-----------------------------------------------------------------------------
(* addToFavoritList and removeFromFavoritList for the user me.              *)
Tell(me) ==
  likesDue' = IF liked'[me] # liked[me] /\ me \in likesOn
              THEN likesDue \cup {me} ELSE likesDue

AddItem_Unchecked(me, o) ==   \* mutant: it may be there already
  /\ favItems' = Append(favItems, o)
  /\ liked' = [liked EXCEPT ![me] = @ \cup {o.item}]
  /\ Tell(me)

AddItem(me, o) ==
  IF Holds(favItems, o.item)
  THEN UNCHANGED <<favItems, liked, likesDue>>
  ELSE /\ favItems' = Append(favItems, o)
       /\ liked' = [liked EXCEPT ![me] = @ \cup {o.item}]
       /\ Tell(me)

RemoveItem(me, o) ==
  /\ favItems' = Without(favItems, o.item)
  /\ liked' = [liked EXCEPT ![me] = @ \ {o.item}]
  /\ Tell(me)

ShowAuction_OldFlags ==   \* mutant: only set, never cleared
  /\ listed' = items /\ hearts' = (container # None)
  /\ flagged' = flagged \cup {o \in ToSet(items) : Holds(favItems, o.item)}

(* AuctionListView.viewWillAppear: cellForRowAt sets the flag of every row. *)
ShowAuction ==
  /\ listed' = items /\ hearts' = (container # None)
  /\ flagged' = {o \in ToSet(items) : Holds(favItems, o.item)}

(* FavoritesListView.viewWillAppear.                                        *)
ShowFavourites ==
  favListed' = IF segment = "auction" /\ container # None THEN favItems ELSE favListed

Appears(t) ==
  \/ t = "auction" /\ ShowAuction /\ UNCHANGED favListed
  \/ t = "favourites" /\ ShowFavourites /\ UNCHANGED <<auctionTab, flagged>>

InTab(t) == MainFree /\ screen = "other" /\ page = None /\ tab = t
OnPage == MainFree /\ screen = "other" /\ page # None

(* The tabs, and the return from an open page.                              *)
OpenTab(t) ==
  /\ page = None /\ tab' = t
  /\ \/ LeaveList
     \/ MainFree /\ screen = "other" /\ tab # t /\ UNCHANGED vars
  /\ Appears(t)
  /\ UNCHANGED <<itemServer, snapshots, itemListens, itemsDue, likesDue, items,
                 offers, favItems, segment, page, replaced>>

ClosePage ==
  /\ OnPage /\ page' = None
  /\ Appears(tab)
  /\ UNCHANGED <<vars, itemServer, snapshots, itemListens, itemsDue, likesDue, items,
                 offers, favItems, tab, segment, replaced>>

(* AuctionListView.addFavorite: the heart of row k.                         *)
ToggleItem(k) ==
  /\ InTab("auction") /\ hearts /\ k \in DOMAIN listed
  /\ \/ container = None /\ UNCHANGED <<favItems, liked, likesDue>>
     \/ container # None /\ listed[k] \notin flagged /\ AddItem(container.id, listed[k])
     \/ container # None /\ listed[k] \in flagged /\ RemoveItem(container.id, listed[k])
  /\ flagged' = IF Holds(favItems', listed[k].item) THEN flagged \cup {listed[k]}
                                                    ELSE flagged \ {listed[k]}
  /\ UNCHANGED <<vars, auction, snapshots, itemListens, itemsDue, items, offers, tab,
                 auctionTab, favouritesTab, page, replaced>>

(* FavoritesListView.changeColor and updateFavorite.                        *)
Segment(s) ==
  /\ InTab("favourites") /\ segment' = s
  /\ favListed' = IF s = "auction" THEN favItems ELSE <<>>
  /\ UNCHANGED <<vars, itemServer, snapshots, itemListens, itemsDue, likesDue, items,
                 offers, flagged, favItems, tab, auctionTab, page, replaced>>

UnlikeItem(k) ==
  /\ InTab("favourites") /\ segment = "auction" /\ k \in DOMAIN favListed
  /\ \/ container = None /\ UNCHANGED <<favItems, liked, likesDue>>
     \/ container # None /\ RemoveItem(container.id, favListed[k])
  /\ favListed' = favItems'
  /\ UNCHANGED <<vars, auction, snapshots, itemListens, itemsDue, items, offers,
                 flagged, tab, auctionTab, segment, page, replaced>>

-----------------------------------------------------------------------------
(* AuctionItemView.viewDidLoad: with a bid it sets the text of a label it   *)
(* has not made yet.                                                        *)
Open(o, row) ==
  /\ \/ offers[o] # 0 /\ Trap("auctionLabel") /\ UNCHANGED page
     \/ offers[o] = 0 /\ page' = [object |-> o, row |-> row] /\ UNCHANGED vars
  /\ UNCHANGED <<itemServer, snapshots, itemListens, itemsDue, likesDue, items, offers,
                 flagged, favItems, tab, auctionTab, favouritesTab, replaced>>

OpenItem_NoRow(k) ==   \* mutant: the row is not handed to the page
  InTab("auction") /\ k \in DOMAIN listed /\ Open(listed[k], 1)

OpenItem(k) == InTab("auction") /\ k \in DOMAIN listed /\ Open(listed[k], k)

(* FavoritesListView takes the item of its section, which is always the     *)
(* first, and leaves the page's row at its default, the first as well.      *)
OpenFavourite ==
  /\ InTab("favourites") /\ segment = "auction" /\ favListed # <<>>
  /\ Open(favListed[1], 1)

NewBid == Step  \* currentBid is still 0: see Open

(* AuctionItemView.bid and AuctionController.makeAnOffer.                   *)
MakeAnOffer ==
  /\ OnPage /\ page.object.item \in Online
  /\ offers' = [offers EXCEPT ![page.object] = NewBid]
  /\ IF page.row \in DOMAIN items
     THEN /\ items' = [items EXCEPT ![page.row] = page.object]
          /\ replaced' = (replaced \/ items[page.row] # page.object)
          /\ UNCHANGED vars
     ELSE Trap("auctionRow") /\ UNCHANGED <<items, replaced>>
  /\ UNCHANGED <<itemServer, snapshots, itemListens, itemsDue, likesDue, flagged,
                 favItems, tab, auctionTab, favouritesTab, page>>

-----------------------------------------------------------------------------
(* The back office withdraws, restores or edits; the account's other device.*)
AuctionChanges ==
  /\ trap = "none"
  /\ \/ UNCHANGED auction
     \/ \E i \in Withdrawable : auction' = IF i \in auction THEN auction \ {i}
                                                           ELSE auction \cup {i}
  /\ itemsDue' = itemsOn
  /\ UNCHANGED <<vars, liked, snapshots, itemListens, likesDue, items, offers, flagged,
                 favItems, tab, auctionTab, favouritesTab, page, replaced>>

LikedElsewhere(u, i) ==
  /\ trap = "none"
  /\ liked' = [liked EXCEPT ![u] = IF i \in @ THEN @ \ {i} ELSE @ \cup {i}]
  /\ Tell(u)
  /\ UNCHANGED <<vars, auction, snapshots, itemListens, itemsDue, items, offers,
                 flagged, favItems, tab, auctionTab, favouritesTab, page, replaced>>

(* The session's other steps: a page covers the tabs, and the log-out       *)
(* button is in the favourites tab.                                         *)
SessionBelow ==
  /\ \/ ViewDidLoad \/ ListDidAppear
     \/ page = None /\ BackToList
     \/ \E u \in Users : InfoChanges(u) \/ InfoArrives(u)
     \/ page = None /\ tab = "favourites" /\ FavoritesLogOut
     \/ LoginDidAppear \/ SignOut \/ RemoveUser
     \/ LoginScreen
  /\ UNCHANGED avars

Taps == \/ \E t \in {"auction", "favourites"} : OpenTab(t)
        \/ \E s \in {"program", "auction"} : Segment(s)
        \/ \E k \in 1 .. Len(ItemOrder) : ToggleItem(k) \/ UnlikeItem(k) \/ OpenItem(k)
        \/ OpenFavourite \/ MakeAnOffer \/ ClosePage

ANext == \/ SessionBelow \/ LoadAuction \/ ARestart
         \/ ItemsArrive \/ \E u \in Users : LikesArrive(u)
         \/ Taps
         \/ AuctionChanges
         \/ \E u \in Elsewhere, i \in Items : LikedElsewhere(u, i)

ASpec == AInit /\ [][ANext]_allVars

-----------------------------------------------------------------------------
Quiet == itemsOn /\ ~itemsDue /\ likesDue = {} /\ callback = None

(* Once quiet, the favourite items that the auction still has are the       *)
(* user's on the server, once each, and they are the container's own        *)
(* objects, so that a bid made through one is seen through the other - as   *)
(* long as no other account's listener is left and no bid has replaced an   *)
(* object.  (A withdrawn one may stay: liking it again is no news.)         *)
FavouritesAreLive ==
  (Quiet /\ container # None /\ likesOn = {container.id} /\ ~replaced) =>
    /\ {o \in ToSet(favItems) : Holds(items, o.item)}
         = {o \in ToSet(items) : o.item \in liked[container.id]}
    /\ \A j, k \in DOMAIN favItems : favItems[j].item = favItems[k].item => j = k

(* A bid from the auction list, with no snapshot since the row was shown,   *)
(* changes no row of the container.                                         *)
ListBidInPlace ==
  [][MakeAnOffer /\ tab = "auction" /\ page.object \in ToSet(items) /\ ~replaced
       => items' = items]_allVars

(* A heart of the auction writes to the favourite items of the signed-in    *)
(* account, or, to an earlier one's, only while the signed-in account's own *)
(* record is on its way: see ForumProgramme.                                *)
LikesGoToOwn ==
  [][(\E k \in 1 .. Len(ItemOrder) : ToggleItem(k) \/ UnlikeItem(k))
       => \A u \in Users : liked'[u] # liked[u] => (u = auth \/ crossed \/ appear \/ Awaited)]_allVars

(* The session below is the one ForumSession specifies.                     *)
Session == Spec
=============================================================================
