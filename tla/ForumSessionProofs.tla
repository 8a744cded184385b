------------------------- MODULE ForumSessionProofs -------------------------
(* Theorems about ForumSession, for any set of accounts and any cap.        *)
EXTENDS ForumSession, TLAPS

(* The saturating counters of listeners and of due callbacks stay in range. *)
LEMMA CappedType == \A n \in Nat : Capped(n) \in 0 .. MaxDue
BY MaxDueAssumption DEF Capped

(* A counter with something to count does not fall to zero.                 *)
LEMMA CappedPositive == \A n \in Nat : n > 0 => Capped(n) > 0
BY MaxDueAssumption DEF Capped

(* Registering a listener keeps both counters in range ...                  *)
LEMMA ObserveType ==
  ASSUME TypeOK, NEW u \in Users, Observe(u)
  PROVE  /\ infoObs' \in [Users -> 0 .. MaxDue]
         /\ infoDue' \in [Users -> 0 .. MaxDue]
<1>1. infoObs[u] + 1 \in Nat /\ infoDue[u] + 1 \in Nat
  BY MaxDueAssumption DEF TypeOK
<1>2. Capped(infoObs[u] + 1) \in 0 .. MaxDue /\ Capped(infoDue[u] + 1) \in 0 .. MaxDue
  BY <1>1, CappedType
<1> QED BY <1>2 DEF TypeOK, Observe

(* ... and so does a write, which makes every listener's callback due.      *)
LEMMA WrittenType ==
  ASSUME TypeOK, NEW u \in Users, Written(u)
  PROVE  /\ infoObs' \in [Users -> 0 .. MaxDue]
         /\ infoDue' \in [Users -> 0 .. MaxDue]
<1>1. infoDue[u] + infoObs[u] \in Nat
  BY MaxDueAssumption DEF TypeOK
<1>2. Capped(infoDue[u] + infoObs[u]) \in 0 .. MaxDue
  BY <1>1, CappedType
<1> QED BY <1>2 DEF TypeOK, Written

(* A new listener's first callback is due ...                               *)
LEMMA ObserveAsks ==
  ASSUME TypeOK, NEW u \in Users, Observe(u)
  PROVE  infoDue'[u] > 0
<1>1. infoDue[u] + 1 \in Nat /\ infoDue[u] + 1 > 0
  BY MaxDueAssumption DEF TypeOK
<1> QED BY <1>1, CappedPositive DEF TypeOK, Observe

(* ... and what is due stays due.                                           *)
LEMMA WrittenKeeps ==
  ASSUME TypeOK, NEW u \in Users, Written(u), NEW v \in Users, infoDue[v] > 0
  PROVE  infoDue'[v] > 0
<1>1. infoDue[u] + infoObs[u] \in Nat /\ (u = v => infoDue[u] + infoObs[u] > 0)
  BY MaxDueAssumption DEF TypeOK
<1> QED BY <1>1, CappedPositive DEF TypeOK, Written

-----------------------------------------------------------------------------
(* Every variable keeps its type: the app's session state stays within the  *)
(* values that viewDidAppear, logOut and the sign-ins can produce.          *)
THEOREM TypeCorrect == Spec => []TypeOK
<1>0. 0 \in 0 .. MaxDue
  BY MaxDueAssumption
<1>1. Init => TypeOK
  BY <1>0 DEF Init, TypeOK, Screens, Traps
<1>2. ASSUME TypeOK, [Next]_vars
      PROVE  TypeOK'
  <2> USE <1>2
  <2>1. ASSUME NEW site \in Traps, Trap(site) PROVE TypeOK'
    BY <2>1 DEF TypeOK, Trap, serverVars, loginVars
  <2>2. CASE ViewDidLoad
    BY <2>2 DEF TypeOK, ViewDidLoad, serverVars, loginVars, Screens
  <2>3. CASE ListDidAppear
    <3>1. CASE ~loadedFirst /\ auth # None
      <4>1. auth \in Users /\ Observe(auth) BY <2>3, <3>1 DEF ListDidAppear, TypeOK
      <4> QED BY <2>3, <3>1, <4>1, ObserveType DEF TypeOK, ListDidAppear, Screens
    <3>2. CASE ~(~loadedFirst /\ auth # None)
      <4>1. /\ UNCHANGED <<infoObs, infoDue>>
            /\ screen' = screen \/ screen' = "login"
            /\ overlay' = overlay \/ overlay' = FALSE
        BY <2>3, <3>2 DEF ListDidAppear, serverVars
      <4>2. appear' = FALSE /\ UNCHANGED <<auth, container, loadedFirst, newDownload,
              callback, logout, dialog, pending, late, trap, everIn, crossed>>
        BY <2>3 DEF ListDidAppear
      <4>3. screen' \in Screens BY <4>1 DEF TypeOK, Screens
      <4>4. overlay' \in BOOLEAN BY <4>1 DEF TypeOK
      <4>5. /\ infoObs' \in [Users -> 0 .. MaxDue] /\ infoDue' \in [Users -> 0 .. MaxDue]
            /\ appear' \in BOOLEAN
        BY <4>1, <4>2 DEF TypeOK
      <4> QED BY <4>2, <4>3, <4>4, <4>5 DEF TypeOK
    <3> QED BY <3>1, <3>2
  <2>4. CASE LeaveList \/ BackToList
    BY <2>4 DEF TypeOK, LeaveList, BackToList, serverVars, loginVars, Screens
  <2>5. ASSUME NEW u \in Users, InfoChanges(u) PROVE TypeOK'
    <3>1. Written(u) BY <2>5 DEF InfoChanges
    <3> QED BY <2>5, <3>1, WrittenType DEF TypeOK, InfoChanges, loginVars
  <2>6. ASSUME NEW u \in Users, InfoArrives(u) PROVE TypeOK'
    <3>1. CASE auth = None BY <2>6, <3>1, <2>1 DEF InfoArrives, Traps
    <3>2. CASE auth # None
      <4>1. infoDue' \in [Users -> 0 .. MaxDue]
        BY <2>6, <3>2, MaxDueAssumption DEF TypeOK, InfoArrives
      <4> QED BY <2>6, <3>2, <4>1 DEF TypeOK, InfoArrives, loginVars, Account
    <3> QED BY <3>1, <3>2
  <2>7. CASE InfoStored
    BY <2>7 DEF TypeOK, InfoStored, serverVars, loginVars
  <2>8. CASE LogOutSteps
    <3>1. CASE FavoritesLogOut
      BY <3>1 DEF TypeOK, FavoritesLogOut, serverVars, Screens
    <3>2. CASE LoginDidAppear
      BY <3>2 DEF TypeOK, LoginDidAppear, serverVars, loginVars
    <3>3. CASE SignOut BY <3>3 DEF TypeOK, SignOut, serverVars
    <3>4. CASE RemoveUser BY <3>4 DEF TypeOK, RemoveUser, serverVars
    <3> QED BY <2>8, <3>1, <3>2, <3>3, <3>4 DEF LogOutSteps
  <2>9. CASE LoginScreen
    <3>1. CASE TapSkip BY <3>1 DEF TypeOK, TapSkip, serverVars, Requests
    <3>2. ASSUME NEW p \in Providers, TapProvider(p) PROVE TypeOK'
      BY <3>2 DEF TypeOK, TapProvider, serverVars
    <3>3. CASE OpenURL BY <3>3 DEF TypeOK, OpenURL, serverVars
    <3>4. CASE DialogFails BY <3>4 DEF TypeOK, DialogFails, serverVars
    <3>5. CASE DialogSucceeds
      BY <3>5 DEF TypeOK, DialogSucceeds, serverVars, Requests
    <3>6. CASE FacebookCancelled BY <3>6, <2>1 DEF FacebookCancelled, Traps
    <3>7. CASE GraphAnswers
      <4>1. pending' \in SUBSET Requests /\ late' \in SUBSET Requests
        BY <3>7 DEF TypeOK, GraphAnswers, Requests
      <4> QED BY <3>7, <4>1 DEF TypeOK, GraphAnswers, serverVars
    <3>8. ASSUME NEW r \in Requests, Finished(r)
          PROVE  /\ pending' \in SUBSET Requests /\ late' \in SUBSET Requests
                 /\ screen' \in Screens /\ appear' \in BOOLEAN
                 /\ overlay' \in BOOLEAN /\ crossed' \in BOOLEAN
      BY <3>8 DEF TypeOK, Finished, Screens
    <3>9. ASSUME NEW r \in Requests, SignInFails(r) PROVE TypeOK'
      <4>1. CASE r = "anonymous" BY <3>9, <4>1, <2>1 DEF SignInFails, Traps
      <4>2. CASE r # "anonymous"
        <5>1. Finished(r) BY <3>9, <4>2 DEF SignInFails
        <5>2. /\ container' = None
              /\ UNCHANGED <<auth, everIn, infoObs, infoDue>>
          BY <3>9, <4>2 DEF SignInFails, serverVars
        <5>3. UNCHANGED <<loadedFirst, newDownload, callback, logout, dialog, trap>>
          BY <5>1 DEF Finished
        <5> QED BY <3>8, <5>1, <5>2, <5>3 DEF TypeOK
      <4> QED BY <4>1, <4>2
    <3>10. ASSUME NEW r \in Requests, NEW u \in Users, SignedIn(r, u) PROVE TypeOK'
      <4>1. Written(u) /\ Finished(r) BY <3>10 DEF SignedIn
      <4>2. /\ auth' = u /\ everIn' = everIn \cup {u}
            /\ UNCHANGED container
        BY <3>10 DEF SignedIn
      <4>3. UNCHANGED <<loadedFirst, newDownload, callback, logout, dialog, trap>>
        BY <4>1 DEF Finished
      <4> QED BY <3>8, <4>1, <4>2, <4>3, WrittenType DEF TypeOK
    <3> QED BY <2>9, <3>1, <3>2, <3>3, <3>4, <3>5, <3>6, <3>7, <3>9, <3>10
            DEF LoginScreen
  <2>10. CASE Restart
    BY <2>10, <1>0 DEF TypeOK, Restart, Screens, Traps
  <2>11. CASE ViewTraps BY <2>1, <2>11 DEF ViewTraps, Traps
  <2>12. CASE UNCHANGED vars BY <2>12 DEF TypeOK, vars
  <2> QED
    BY <1>2, <2>2, <2>3, <2>4, <2>5, <2>6, <2>7, <2>8, <2>9, <2>10, <2>11, <2>12 DEF Next
<1> QED BY <1>1, <1>2, PTL DEF Spec

-----------------------------------------------------------------------------
(* A process starts with nothing loaded, so SessionInv holds at first.      *)
LEMMA SessionInit == Init => SessionInv
BY UsersAssumption
   DEF Init, SessionInv, LaunchClean, DialogAlone, LiveRequests, LogOutAlone,
       CallbackIsOwn, LoginUnloaded, LoadedIsOwn, EmptyUnlessLoggingOut,
       SessionAwaited, Awaited, Seen

(* SessionInv is inductive: the two ways to set crossed are the only ways   *)
(* in which the listeners, the background log-out and the sign-ins can      *)
(* leave userContainer with another account than Firebase's.                *)
LEMMA SessionStep == TypeOK /\ SessionInv /\ [Next]_vars => SessionInv'
<1> SUFFICES ASSUME TypeOK, SessionInv, [Next]_vars PROVE SessionInv'
  OBVIOUS
<1> USE UsersAssumption
<1> USE DEF SessionInv, LaunchClean, DialogAlone, LiveRequests, LogOutAlone,
            CallbackIsOwn, LoginUnloaded, LoadedIsOwn, EmptyUnlessLoggingOut,
            SessionAwaited, Awaited, Seen, MainFree, serverVars, loginVars, TypeOK
<1>1. CASE ViewDidLoad BY <1>1 DEF ViewDidLoad
<1>2. CASE ListDidAppear
  <2>1. CASE ~loadedFirst /\ auth # None
    <3>1. infoDue'[auth] > 0
      <4>1. TypeOK /\ auth \in Users /\ Observe(auth) BY <1>2, <2>1 DEF ListDidAppear
      <4> HIDE DEF TypeOK
      <4> QED BY <4>1, ObserveAsks
    <3>2. SessionAwaited' BY <1>2, <2>1, <3>1 DEF ListDidAppear
    <3>3. (LaunchClean /\ Seen)' BY <1>2, <2>1 DEF ListDidAppear, Observe
    <3>4. UNCHANGED <<auth, container, loadedFirst, callback, screen, logout, overlay,
                      dialog, pending, late, crossed>>
      BY <1>2, <2>1 DEF ListDidAppear
    <3> QED BY <3>2, <3>3, <3>4
  <2>2. CASE ~(~loadedFirst /\ auth # None)
    BY <1>2, <2>2 DEF ListDidAppear
  <2> QED BY <2>1, <2>2
<1>3. CASE LeaveList BY <1>3 DEF LeaveList
<1>4. CASE BackToList BY <1>4 DEF BackToList
<1>5. ASSUME NEW u \in Users, InfoChanges(u) PROVE SessionInv'
  <2>1. ASSUME NEW v \in Users, infoDue[v] > 0 PROVE infoDue'[v] > 0
    BY <1>5, <2>1, WrittenKeeps DEF InfoChanges
  <2>2. SessionAwaited' BY <1>5, <2>1 DEF InfoChanges
  <2>3. (LaunchClean /\ Seen)' BY <1>5 DEF InfoChanges, Written
  <2> QED BY <1>5, <2>2, <2>3 DEF InfoChanges
<1>6. ASSUME NEW u \in Users, InfoArrives(u) PROVE SessionInv'
  <2>1. CASE auth = None BY <1>6, <2>1 DEF InfoArrives, Trap
  <2>2. CASE auth # None
    <3>1. callback'.id = auth /\ callback'.info = u /\ callback = None
      BY <1>6, <2>2 DEF InfoArrives
    <3>2. /\ UNCHANGED <<auth, container, loadedFirst, infoObs, screen, appear,
                         logout, overlay, dialog, pending, late, everIn>>
          /\ infoDue[u] > 0 /\ infoDue' = [infoDue EXCEPT ![u] = @ - 1]
          /\ crossed' = (crossed \/ screen = "login")
      BY <1>6, <2>2 DEF InfoArrives
    <3>3. screen # "launch" BY <3>2
    <3>4. Seen'
      <4>1. u \in everIn BY <3>2
      <4>2. \A v \in Users : infoDue'[v] > 0 => v \in everIn BY <3>2, <4>1
      <4> QED BY <3>1, <3>2, <4>1, <4>2, <2>2
    <3>5. (LaunchClean /\ DialogAlone /\ LiveRequests /\ LogOutAlone)'
      BY <3>2, <3>3
    <3>6. (CallbackIsOwn /\ LoginUnloaded /\ LoadedIsOwn /\ EmptyUnlessLoggingOut)'
      BY <3>1, <3>2, <2>2
    <3>7. SessionAwaited'
      <4>1. callback' \in Account BY <1>6, <2>2 DEF InfoArrives, Account
      <4> QED BY <3>2, <4>1, <2>2, AccountAssumption
    <3> QED BY <3>4, <3>5, <3>6, <3>7
  <2> QED BY <2>1, <2>2
<1>7. CASE InfoStored BY <1>7 DEF InfoStored
<1>8. CASE FavoritesLogOut BY <1>8 DEF FavoritesLogOut
<1>9. CASE LoginDidAppear BY <1>9 DEF LoginDidAppear
<1>10. CASE SignOut BY <1>10 DEF SignOut
<1>11. CASE RemoveUser BY <1>11 DEF RemoveUser
<1>12. CASE TapSkip BY <1>12 DEF TapSkip, Touchable
<1>13. ASSUME NEW p \in Providers, TapProvider(p) PROVE SessionInv'
  BY <1>13 DEF TapProvider, Touchable
<1>14. CASE OpenURL BY <1>14 DEF OpenURL
<1>15. CASE DialogFails BY <1>15 DEF DialogFails
<1>16. CASE FacebookCancelled BY <1>16 DEF FacebookCancelled, Trap
<1>17. CASE DialogSucceeds BY <1>17 DEF DialogSucceeds
<1>18. CASE GraphAnswers BY <1>18 DEF GraphAnswers
<1>19. ASSUME NEW r \in Requests, SignInFails(r) PROVE SessionInv'
  <2>1. CASE r = "anonymous"
    <3>1. Trap("anonymousUser") BY <1>19, <2>1 DEF SignInFails
    <3> QED BY <3>1 DEF Trap
  <2>2. CASE r # "anonymous"
    <3>1. Finished(r) /\ container' = None /\ UNCHANGED <<auth, everIn, infoObs, infoDue>>
      BY <1>19, <2>2 DEF SignInFails
    <3>2. SessionAwaited'
      <4>1. screen' = "login" \/ screen' = "launch" \/ appear' \/ crossed'
        BY <1>19, <3>1 DEF SignInFails, Finished
      <4> QED BY <4>1
    <3>3. Seen' BY <3>1 DEF Finished
    <3> QED BY <1>19, <2>2, <3>2, <3>3 DEF SignInFails, Finished
  <2> QED BY <2>1, <2>2
<1>20. ASSUME NEW r \in Requests, NEW u \in Users, SignedIn(r, u) PROVE SessionInv'
  <2>1. SessionAwaited'
    <3>1. screen' = "login" \/ screen' = "launch" \/ appear' \/ crossed'
      BY <1>20 DEF SignedIn, Finished
    <3> QED BY <3>1
  <2>2. (LaunchClean /\ Seen)' BY <1>20 DEF SignedIn, Finished, Written
  <2> QED BY <1>20, <2>1, <2>2 DEF SignedIn, Finished
<1>21. CASE Restart BY <1>21 DEF Restart
<1>22. CASE ViewTraps BY <1>22 DEF ViewTraps, Trap, AppTraps
<1>23. CASE UNCHANGED vars BY <1>23 DEF vars
<1> QED
  BY <1>1, <1>2, <1>3, <1>4, <1>5, <1>6, <1>7, <1>8, <1>9, <1>10, <1>11, <1>12,
     <1>13, <1>14, <1>15, <1>16, <1>17, <1>18, <1>19, <1>20, <1>21, <1>22, <1>23
     DEF Next, LogOutSteps, LoginScreen

(* So it holds in every state of the session, restarts included.            *)
THEOREM SessionInvariant == Spec => []SessionInv
<1>1. TypeOK /\ SessionInv /\ [Next]_vars => SessionInv'
  BY SessionStep
<1> QED BY <1>1, SessionInit, TypeCorrect, PTL DEF Spec

(* Once the list counts as loaded, userContainer[0] is Firebase's account,  *)
(* unless an info callback ran under LoginView or a sign-in came late.      *)
THEOREM LoadedIsOwnHolds == Spec => []LoadedIsOwn
<1>1. SessionInv => LoadedIsOwn BY DEF SessionInv
<1> QED BY <1>1, SessionInvariant, PTL

(* The background log-out leaves no user behind, with the same proviso.     *)
THEOREM SignedOutIsEmptyHolds == Spec => []SignedOutIsEmpty
<1>1. SessionInv => SignedOutIsEmpty
  BY DEF SessionInv, EmptyUnlessLoggingOut, SignedOutIsEmpty
<1> QED BY <1>1, SessionInvariant, PTL

(* Behind the list and the tabs the session is the signed-in account's, or  *)
(* that account's record is on its way; the same proviso.                   *)
THEOREM SessionAwaitedHolds == Spec => []SessionAwaited
<1>1. SessionInv => SessionAwaited BY DEF SessionInv
<1> QED BY <1>1, SessionInvariant, PTL
=============================================================================
