---------------------------- MODULE ForumSession ----------------------------
(***************************************************************************)
(* Who is signed in to the Forum app, and who the app thinks is signed in. *)
(*                                                                         *)
(* Firebase keeps the signed-in account (auth, persisted in the keychain). *)
(* The app keeps its own copy, User.userContainer, which is filled only by *)
(* the callback of a listener on users/<uid>/info that                     *)
(* LectureListView.viewDidAppear registers and nobody ever removes, and    *)
(* emptied by a log-out that runs on a background queue.  One action per   *)
(* handler; a callback of the main queue that the background log-out can   *)
(* overtake (read of currentUser, store of the container) is two actions.  *)
(***************************************************************************)
EXTENDS Naturals

CONSTANTS
  Users,     \* Firebase accounts, anonymous ones included
  None,      \* no account
  Providers, \* the buttons of LoginView the user presses
  MaxDue     \* cap of the two listener counters: MaxDue means "MaxDue or more"

ASSUME UsersAssumption == None \notin Users
ASSUME ProvidersAssumption == Providers \subseteq {"anonymous", "facebook", "google"}
ASSUME MaxDueAssumption == MaxDue \in Nat \ {0}

VARIABLES
  auth,        \* Auth.auth().currentUser
  container,   \* User.userContainer: None when empty, else its only element
  loadedFirst, \* the global of the same name
  newDownload, \* the UserDefaults key of the same name
  infoObs,     \* listeners on users/<u>/info
  infoDue,     \* their callbacks that the main queue still has to run
  callback,    \* the user an info callback has read and not yet stored, or None
  screen,      \* what the user sees
  appear,      \* LectureListView.viewDidAppear is due
  logout,      \* LoginView(logOut = true): how far its background block is
  overlay,     \* LoginView's blur is on and swallows every touch
  dialog,      \* the provider whose sign-in dialog is open, or "none"
  pending,     \* sign-in requests sent and not answered
  late,        \* those of them whose LoginView has been dismissed since
  trap,        \* the force unwrap the process died at, or "none"
  everIn,      \* history: accounts signed in since the process started
  crossed      \* history: the identity changed behind the list's back (below)

serverVars == <<infoObs, infoDue>>
loginVars  == <<overlay, dialog, pending, late>>
vars == <<auth, container, loadedFirst, newDownload, infoObs, infoDue, callback,
          screen, appear, logout, overlay, dialog, pending, late, trap, everIn,
          crossed>>

Account  == [id : Users, info : Users]   \* whose uid, whose profile
ASSUME AccountAssumption == None \notin Account

Screens  == {"launch", "list", "other", "login"}
Requests == {"anonymous", "graph", "facebook", "google"}
AppTraps == {"favouriteDays", "programmeDay", "listCell", "staleRow", "auctionLabel", "auctionRow"}
Traps    == {"none", "currentUser", "facebookToken", "anonymousUser"} \cup AppTraps

TypeOK ==
  /\ auth \in Users \cup {None}
  /\ container \in Account \cup {None}
  /\ callback \in Account \cup {None}
  /\ loadedFirst \in BOOLEAN /\ newDownload \in BOOLEAN
  /\ infoObs \in [Users -> 0 .. MaxDue] /\ infoDue \in [Users -> 0 .. MaxDue]
  /\ screen \in Screens
  /\ appear \in BOOLEAN
  /\ logout \in {"idle", "asked", "posted", "signedOut"}
  /\ overlay \in BOOLEAN
  /\ dialog \in {"none", "facebook", "google"}
  /\ pending \in SUBSET Requests /\ late \in SUBSET Requests
  /\ trap \in Traps
  /\ everIn \in SUBSET Users
  /\ crossed \in BOOLEAN

-----------------------------------------------------------------------------
(* The keychain and the defaults are what the last process left; every      *)
(* static variable has its initial value, also after a crash or a kill.     *)
Init ==
  /\ auth \in Users \cup {None}
  /\ newDownload \in BOOLEAN
  /\ container = None /\ callback = None
  /\ loadedFirst = FALSE
  /\ infoObs = [u \in Users |-> 0] /\ infoDue = [u \in Users |-> 0]
  /\ screen = "launch" /\ appear = FALSE
  /\ logout = "idle"
  /\ overlay = FALSE /\ dialog = "none"
  /\ pending = {} /\ late = {}
  /\ trap = "none"
  /\ everIn = {auth} \ {None}
  /\ crossed = FALSE

Restart ==
  /\ container' = None /\ callback' = None
  /\ loadedFirst' = FALSE
  /\ infoObs' = [u \in Users |-> 0] /\ infoDue' = [u \in Users |-> 0]
  /\ screen' = "launch" /\ appear' = FALSE
  /\ logout' = "idle"
  /\ overlay' = FALSE /\ dialog' = "none"
  /\ pending' = {} /\ late' = {}
  /\ trap' = "none"
  /\ everIn' = {auth} \ {None}
  /\ crossed' = FALSE
  /\ UNCHANGED <<auth, newDownload>>

(* The main queue runs one handler at a time, and none after a trap.        *)
MainFree == trap = "none" /\ callback = None

Trap(site) ==
  /\ trap' = site
  /\ UNCHANGED <<auth, container, loadedFirst, newDownload, serverVars, callback,
                 screen, appear, logout, loginVars, everIn, crossed>>

Capped(n) == IF n < MaxDue THEN n ELSE MaxDue

(* Firebase runs a new listener once with the current value, and all of a   *)
(* path's listeners at every change, its own client's writes included.      *)
Observe(u) ==
  /\ infoObs' = [infoObs EXCEPT ![u] = Capped(@ + 1)]
  /\ infoDue' = [infoDue EXCEPT ![u] = Capped(@ + 1)]

Written(u) ==
  /\ infoDue' = [infoDue EXCEPT ![u] = Capped(@ + infoObs[u])]
  /\ UNCHANGED infoObs

-----------------------------------------------------------------------------
(* LectureListView.viewDidLoad: the first launch after an installation      *)
(* signs the keychain's account out; signOut may fail.                      *)
ViewDidLoad ==
  /\ MainFree /\ screen = "launch"
  /\ screen' = "list" /\ appear' = TRUE
  /\ IF newDownload
     THEN UNCHANGED auth
     ELSE auth' \in {auth, None}
  /\ newDownload' = TRUE
  /\ container' = IF auth' = None THEN None ELSE container
  /\ UNCHANGED <<loadedFirst, serverVars, callback, logout, loginVars, trap,
                 everIn, crossed>>

(* LectureListView.viewDidAppear with UserController.checkUsersLoginStatus  *)
(* and Network.checkUserStatus.                                             *)
ListDidAppear ==
  /\ MainFree /\ appear
  /\ appear' = FALSE
  /\ \/ loadedFirst /\ UNCHANGED <<serverVars, screen, overlay>>
     \/ /\ ~loadedFirst /\ auth # None
        /\ Observe(auth)
        /\ UNCHANGED <<screen, overlay>>
     \/ /\ ~loadedFirst /\ auth = None
        /\ screen' = "login"
        /\ overlay' = IF screen = "login" THEN overlay ELSE FALSE
        /\ UNCHANGED serverVars
  /\ UNCHANGED <<auth, container, loadedFirst, newDownload, callback, logout,
                 dialog, pending, late, trap, everIn, crossed>>

(* The tab bar.                                                             *)
LeaveList ==
  /\ MainFree /\ screen = "list" /\ ~appear
  /\ screen' = "other"
  /\ UNCHANGED <<auth, container, loadedFirst, newDownload, serverVars, callback,
                 appear, logout, loginVars, trap, everIn, crossed>>

BackToList ==
  /\ MainFree /\ screen = "other"
  /\ screen' = "list" /\ appear' = TRUE
  /\ UNCHANGED <<auth, container, loadedFirst, newDownload, serverVars, callback,
                 logout, loginVars, trap, everIn, crossed>>

-----------------------------------------------------------------------------
(* Another client, or the back office, writes users/<u>/info.               *)
InfoChanges(u) ==
  /\ trap = "none" /\ infoObs[u] > 0
  /\ Written(u)
  /\ UNCHANGED <<auth, container, loadedFirst, newDownload, callback, screen,
                 appear, logout, loginVars, trap, everIn, crossed>>

(* (mutant: a callback runs that is not due)                                *)
InfoArrives_Twice(u) ==
  /\ MainFree /\ auth # None /\ infoObs[u] > 0
  /\ infoDue' = [infoDue EXCEPT ![u] = @ - 1]
  /\ callback' = [id |-> auth, info |-> u]
  /\ crossed' = (crossed \/ screen = "login")
  /\ UNCHANGED <<auth, container, loadedFirst, newDownload, infoObs,
                 screen, appear, logout, loginVars, trap, everIn>>

(* checkUsersLoginStatus's callback up to its read of currentUser!.uid: the *)
(* uid is the current account's, the profile the listener's.                *)
InfoArrives(u) ==
  /\ MainFree /\ infoDue[u] > 0
  /\ IF auth = None
     THEN Trap("currentUser")
     ELSE /\ infoDue' = [infoDue EXCEPT ![u] = @ - 1]
          /\ callback' = [id |-> auth, info |-> u]
          /\ crossed' = (crossed \/ screen = "login")
          /\ UNCHANGED <<auth, container, loadedFirst, newDownload, infoObs,
                         screen, appear, logout, loginVars, trap, everIn>>

(* Its rest: the store, and viewDidAppear's completion.                     *)
InfoStored ==
  /\ trap = "none" /\ callback # None
  /\ container' = callback
  /\ loadedFirst' = TRUE
  /\ callback' = None
  /\ UNCHANGED <<auth, newDownload, serverVars, screen, appear, logout,
                 loginVars, trap, everIn, crossed>>

-----------------------------------------------------------------------------
(* (mutant: loadedFirst is not reset)                                       *)
FavoritesLogOut_KeepsLoaded ==
  /\ MainFree /\ screen = "other" /\ logout = "idle"
  /\ screen' = "login" /\ appear' \in BOOLEAN
  /\ logout' = "asked" /\ overlay' = TRUE
  /\ UNCHANGED <<auth, container, loadedFirst, newDownload, serverVars, callback,
                 dialog, pending, late, trap, everIn, crossed>>

(* FavoritesListView.logOut: the tab switch may or may not get as far as    *)
(* LectureListView.viewDidAppear before LoginView covers it (bound: one     *)
(* log-out at a time).                                                      *)
FavoritesLogOut ==
  /\ MainFree /\ screen = "other" /\ logout = "idle"
  /\ loadedFirst' = FALSE
  /\ screen' = "login" /\ appear' \in BOOLEAN
  /\ logout' = "asked" /\ overlay' = TRUE
  /\ UNCHANGED <<auth, container, newDownload, serverVars, callback, dialog,
                 pending, late, trap, everIn, crossed>>

(* LoginView.viewDidAppear dispatches the log-out to a global queue.        *)
LoginDidAppear ==
  /\ MainFree /\ logout = "asked" /\ ~appear
  /\ logout' = "posted"
  /\ UNCHANGED <<auth, container, loadedFirst, newDownload, serverVars, callback,
                 screen, appear, loginVars, trap, everIn, crossed>>

(* UserController.logOut on that queue: signOut and the test of currentUser, *)
(* then removeAll and the completion, which lifts the blur.                 *)
SignOut ==
  /\ trap = "none" /\ logout = "posted"
  /\ \/ auth' = None /\ logout' = "signedOut" /\ UNCHANGED overlay
     \/ /\ auth # None
        /\ logout' = "idle" /\ overlay' = FALSE
        /\ UNCHANGED auth
  /\ UNCHANGED <<container, loadedFirst, newDownload, serverVars, callback,
                 screen, appear, dialog, pending, late, trap, everIn, crossed>>

RemoveUser_KeepsUser ==   \* mutant: removeAll is forgotten
  /\ trap = "none" /\ logout = "signedOut"
  /\ logout' = "idle" /\ overlay' = FALSE
  /\ UNCHANGED <<auth, container, loadedFirst, newDownload, serverVars, callback,
                 screen, appear, dialog, pending, late, trap, everIn, crossed>>

RemoveUser ==
  /\ trap = "none" /\ logout = "signedOut"
  /\ container' = None
  /\ logout' = "idle" /\ overlay' = FALSE
  /\ UNCHANGED <<auth, loadedFirst, newDownload, serverVars, callback, screen,
                 appear, dialog, pending, late, trap, everIn, crossed>>

-----------------------------------------------------------------------------
Touchable == MainFree /\ screen = "login" /\ ~overlay /\ dialog = "none"

(* LoginView.dismiss(sender:), the "Spring over" button.                    *)
TapSkip ==
  /\ Touchable /\ "anonymous" \in Providers \ pending
  /\ overlay' = TRUE
  /\ pending' = pending \cup {"anonymous"}
  /\ UNCHANGED <<auth, container, loadedFirst, newDownload, serverVars, callback,
                 screen, appear, logout, dialog, late, trap, everIn, crossed>>

(* The Facebook and Google buttons open the provider's own dialog (bound:   *)
(* not while an earlier request is in flight).                              *)
TapProvider(p) ==
  /\ Touchable /\ p \in Providers \cap {"facebook", "google"} /\ pending = {}
  /\ dialog' = p
  /\ UNCHANGED <<auth, container, loadedFirst, newDownload, serverVars, callback,
                 screen, appear, logout, overlay, pending, late, trap, everIn,
                 crossed>>

(* AppDelegate open url: the dialog hands back through a URL (it need not). *)
OpenURL ==
  /\ MainFree /\ dialog # "none" /\ screen = "login"
  /\ overlay' = TRUE
  /\ UNCHANGED <<auth, container, loadedFirst, newDownload, serverVars, callback,
                 screen, appear, logout, dialog, pending, late, trap, everIn,
                 crossed>>

(* The dialog fails: LoginView turns the blur on and returns, AppDelegate   *)
(* just returns.  Nothing turns the blur off again.                         *)
DialogFails ==
  /\ MainFree /\ dialog # "none"
  /\ dialog' = "none"
  /\ overlay' = (overlay \/ dialog = "facebook")
  /\ UNCHANGED <<auth, container, loadedFirst, newDownload, serverVars, callback,
                 screen, appear, logout, pending, late, trap, everIn, crossed>>

(* A cancelled Facebook dialog has no token for returnUserData to unwrap.   *)
FacebookCancelled ==
  /\ MainFree /\ dialog = "facebook"
  /\ Trap("facebookToken")

DialogSucceeds ==
  /\ MainFree /\ dialog # "none"
  /\ dialog' = "none"
  /\ pending' = pending \cup {IF dialog = "facebook" THEN "graph" ELSE "google"}
  /\ UNCHANGED <<auth, container, loadedFirst, newDownload, serverVars, callback,
                 screen, appear, logout, overlay, late, trap, everIn, crossed>>

(* LoginView.returnUserData's graph request: an error is only printed.      *)
GraphAnswers ==
  /\ MainFree /\ "graph" \in pending
  /\ \/ pending' = pending \ {"graph"}
     \/ pending' = (pending \ {"graph"}) \cup {"facebook"}
  /\ late' = IF "graph" \in late /\ "facebook" \in pending'
             THEN (late \ {"graph"}) \cup {"facebook"}
             ELSE late \ {"graph"}
  /\ UNCHANGED <<auth, container, loadedFirst, newDownload, serverVars, callback,
                 screen, appear, logout, overlay, dialog, trap, everIn, crossed>>

(* The end of the request r.  self.dismiss of Skip and Facebook acts on the *)
(* LoginView that asked; Google's notification on the one that is up.       *)
Finished(r) ==
  /\ pending' = pending \ {r}
  /\ crossed' = (crossed \/ r \in late)
  /\ IF screen = "login" /\ (r \notin late \/ r = "google")
     THEN /\ screen' = "list" /\ appear' = TRUE
          /\ late' = pending \ {r}
          /\ overlay' = FALSE
     ELSE /\ late' = late \ {r}
          /\ UNCHANGED <<screen, appear, overlay>>
  /\ UNCHANGED <<loadedFirst, newDownload, callback, logout, dialog, trap>>

(* loginWithNoUser, loginWithFacebook, loginWithGoogle: Firebase answers    *)
(* with an account, the profile is written and the view dismissed ...       *)
SignedIn(r, u) ==
  /\ MainFree /\ r \in pending \ {"graph"}
  /\ auth' = u
  /\ everIn' = everIn \cup {u}
  /\ Written(u)
  /\ UNCHANGED container
  /\ Finished(r)

(* ... or with an error: the provider log-ins empty userContainer and       *)
(* dismiss as well, the anonymous one unwraps the missing user.             *)
SignInFails(r) ==
  /\ MainFree /\ r \in pending \ {"graph"}
  /\ IF r = "anonymous"
     THEN Trap("anonymousUser")
     ELSE /\ container' = None
          /\ UNCHANGED <<auth, everIn, serverVars>>
          /\ Finished(r)

(* A force unwrap of the views above the session fails: see ForumProgramme. *)
ViewTraps == MainFree /\ screen \in {"list", "other"} /\ \E s \in AppTraps : Trap(s)

-----------------------------------------------------------------------------
LoginScreen == \/ TapSkip
               \/ \E p \in Providers : TapProvider(p)
               \/ OpenURL \/ DialogFails \/ FacebookCancelled \/ DialogSucceeds
               \/ GraphAnswers
               \/ \E r \in Requests : SignInFails(r)
               \/ \E r \in Requests, u \in Users : SignedIn(r, u)

LogOutSteps == FavoritesLogOut \/ LoginDidAppear \/ SignOut \/ RemoveUser

Next == \/ ViewDidLoad \/ ListDidAppear \/ LeaveList \/ BackToList
        \/ \E u \in Users : InfoChanges(u) \/ InfoArrives(u)
        \/ InfoStored
        \/ LogOutSteps
        \/ LoginScreen
        \/ ViewTraps
        \/ Restart

(* UIKit puts what is due on the main queue, which is FIFO, so no stream of *)
(* info callbacks keeps a handler out for ever (hence strong fairness); a   *)
(* running callback ends; a global queue runs its blocks.  The user and     *)
(* whatever the network answers are the environment: no fairness.           *)
Fairness == /\ WF_vars(ViewDidLoad) /\ WF_vars(InfoStored)
            /\ SF_vars(ListDidAppear) /\ SF_vars(LoginDidAppear)
            /\ WF_vars(SignOut) /\ WF_vars(RemoveUser)

Spec == Init /\ [][Next]_vars
FairSpec == Spec /\ Fairness

-----------------------------------------------------------------------------
(* The properties.  crossed is set by the two ways the identity can change  *)
(* behind the list's back: an info callback that runs under LoginView, and  *)
(* a sign-in answered after its LoginView has gone.  What is stated for     *)
(* ~crossed says that there is no third way.                                *)

(* Once viewDidAppear has set loadedFirst, and so will not load again, the  *)
(* session it loaded is the signed-in account's: favourites and reminders   *)
(* written for userContainer[0].id go to the right user.                    *)
LoadedIsOwn ==
  (loadedFirst /\ ~crossed) => (container # None /\ container.id = auth)

(* Signed out in Firebase, the app has no user: a background log-out never  *)
(* leaves the old account in userContainer.                                 *)
SignedOutIsEmpty ==
  (auth = None /\ logout = "idle" /\ ~crossed) => (container = None /\ ~loadedFirst)

(* The record of the signed-in account is on its way: its callback is due, *)
(* or half run.                                                             *)
Awaited == auth # None /\ (callback # None \/ infoDue[auth] > 0)

(* Behind the list and the other tabs the session is the signed-in          *)
(* account's, or that account's record has been asked for and not come: no  *)
(* interleaving of log-outs (those that Firebase refuses included),         *)
(* sign-ins and tab switches leaves an earlier account's record, or none,   *)
(* in place for good because nobody asks for the right one.                 *)
SessionAwaited ==
  (screen \in {"list", "other"} /\ auth # None /\ ~appear /\ ~crossed) =>
    (container # None /\ container.id = auth) \/ Awaited

(* The inductive strengthening of the three.                                *)
LaunchClean ==
  screen = "launch" =>
    /\ ~loadedFirst /\ container = None /\ callback = None /\ pending = {}
    /\ logout = "idle" /\ ~appear
    /\ \A u \in Users : infoObs[u] = 0 /\ infoDue[u] = 0

DialogAlone  == dialog # "none" => (pending = {} /\ screen = "login")
LiveRequests == pending \subseteq late \/ screen = "login"

LogOutAlone ==
  (logout # "idle" /\ ~crossed) =>
    (screen = "login" /\ overlay /\ pending \subseteq late /\ dialog = "none")

CallbackIsOwn ==
  (callback # None /\ ~crossed) =>
    (auth # None /\ callback.id = auth /\ screen # "login")

LoginUnloaded == (screen = "login" /\ ~crossed) => ~loadedFirst

EmptyUnlessLoggingOut ==
  (auth = None /\ logout # "signedOut" /\ ~crossed) => (container = None /\ ~loadedFirst)

Seen ==
  /\ auth # None => auth \in everIn
  /\ \A u \in Users : infoObs[u] > 0 => u \in everIn
  /\ \A u \in Users : infoDue[u] > 0 => u \in everIn
  /\ callback # None => {callback.id, callback.info} \subseteq everIn
  /\ container # None => {container.id, container.info} \subseteq everIn

(* The session is the signed-in account's or a log-out is taking it away;   *)
(* everything the app holds comes from an account this process has seen.    *)
SessionInv ==
  /\ LaunchClean /\ DialogAlone /\ LiveRequests /\ LogOutAlone /\ CallbackIsOwn
  /\ LoginUnloaded /\ LoadedIsOwn /\ EmptyUnlessLoggingOut /\ SessionAwaited /\ Seen

(* Nobody signed in on the list is taken to LoginView.                      *)
LoginOffered ==
  (screen = "list" /\ auth = None) ~> (screen # "list" \/ trap # "none" \/ crossed)

(* A log-out ends with a usable LoginView, and the session emptied unless   *)
(* Firebase kept the account.                                               *)
LogOutCompletes ==
  (logout = "asked") ~> \/ (~overlay /\ (container = None \/ auth # None))
                         \/ trap # "none"

(* The force unwrap of UserController.swift:100 as an assertion: when an    *)
(* info callback runs, somebody is signed in.                               *)
CurrentUserPresent == trap # "currentUser"
=============================================================================
