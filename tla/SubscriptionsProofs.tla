------------------------- MODULE SubscriptionsProofs -------------------------
(***************************************************************************)
(* What holds of Subscriptions for any number of clients, signals and      *)
(* threads.  The types, the locks and the walks need no assumption; the    *)
(* rest assumes that a session has one request processed at a time, and    *)
(* rests on IInv: one lemma for each action says that it keeps the types,  *)
(* one that it keeps IInv.                                                 *)
(***************************************************************************)
EXTENDS SubscriptionsInv, TLAPS

USE NoneAssumption
    DEF Pc, RequestPc, SubscribePc, UnsubscribePc, ClosePc, NotifyPc, shared, local

\* Erasing the first occurrence (delObserver, subtractSignals) never goes below zero.
LEMMA DecrementValue ==
  /\ Decrement(0) = 0 /\ Decrement(1) = 0
  /\ \A n \in Nat : Decrement(n) \in Nat /\ Decrement(n) <= n
BY DEF Decrement

-----------------------------------------------------------------------------
(* Every action keeps the types. *)

\* Attach keeps the types:
\* addObserver appends the client to the list of the signal (observer-pattern.hpp:79).
LEMMA AttachTypes ==
  ASSUME TypeInv, NEW t \in Thread, Attach(t), UNCHANGED crashed
  PROVE  TypeInv'
<1> USE DEF TypeInv, TypeOK, Attach, Goto
<1>1. sig[t] \in Signal /\ cli[t] \in Client
  BY DEF WorksOn, Busy
<1>2. observerList' \in [Signal -> [Client -> Nat]]
  BY <1>1
<1>3. observerListMutex' \in [Signal -> Thread \cup {None}]
  BY <1>1
<1>4. pc' \in [Thread -> Pc]
  BY <1>1
<1>5. WorksOn'
  BY <1>1 DEF WorksOn, Busy
<1> QED
  BY <1>1, <1>2, <1>3, <1>4, <1>5

\* Link keeps the types:
\* addObservable enters the signal in the list of the client (observer-pattern.hpp:51).
LEMMA LinkTypes ==
  ASSUME TypeInv, NEW t \in Thread, Link(t), UNCHANGED crashed
  PROVE  TypeInv'
<1> USE DEF TypeInv, TypeOK, Link, Goto
<1>1. sig[t] \in Signal /\ cli[t] \in Client
  BY DEF WorksOn, Busy
<1>2. observableList' \in [Client -> SUBSET Signal]
  BY <1>1
<1>3. observerListMutex' \in [Signal -> Thread \cup {None}]
  BY <1>1
<1>4. pc' \in [Thread -> Pc]
  BY <1>1
<1>5. WorksOn'
  BY <1>1 DEF WorksOn, Busy
<1> QED
  BY <1>1, <1>2, <1>3, <1>4, <1>5

\* Record keeps the types:
\* appendSignals records the signal (clientApp.cpp:46).
LEMMA RecordTypes ==
  ASSUME TypeInv, NEW t \in Thread, Record(t), UNCHANGED crashed
  PROVE  TypeInv'
<1> USE DEF TypeInv, TypeOK, Record, Goto
<1>1. sig[t] \in Signal /\ cli[t] \in Client
  BY DEF WorksOn, Busy
<1>2. subscribedSignals' \in [Client -> [Signal -> Nat]]
  BY <1>1
<1>3. pc' \in [Thread -> Pc]
  BY <1>1
<1>4. WorksOn'
  BY <1>1 DEF WorksOn, Busy
<1> QED
  BY <1>1, <1>2, <1>3, <1>4

\* MakeEvent keeps the types:
\* makeSubscription creates the event (clientApp.cpp:71).
LEMMA MakeEventTypes ==
  ASSUME TypeInv, NEW t \in Thread, MakeEvent(t), UNCHANGED crashed
  PROVE  TypeInv'
<1> USE DEF TypeInv, TypeOK, MakeEvent, Goto
<1>1. sig[t] \in Signal /\ cli[t] \in Client
  BY DEF WorksOn, Busy
<1>2. event' \in [Client -> BOOLEAN]
  BY <1>1
<1>3. pc' \in [Thread -> Pc]
  BY <1>1
<1>4. WorksOn'
  BY <1>1 DEF WorksOn, Busy
<1> QED
  BY <1>1, <1>2, <1>3, <1>4

\* Watch keeps the types:
\* afb_req_subscribe, taken or refused (clientApp.cpp:73).
LEMMA WatchTypes ==
  ASSUME TypeInv, NEW t \in Thread, Watch(t), UNCHANGED crashed
  PROVE  TypeInv'
<1> USE DEF TypeInv, TypeOK, Watch, Finish, Goto
<1>1. sig[t] \in Signal /\ cli[t] \in Client
  BY DEF WorksOn, Busy
<1>2. watching' \in [Client -> BOOLEAN]
  BY <1>1
<1>3. pc' \in [Thread -> Pc]
  BY <1>1
<1>4. sig' \in [Thread -> Signal \cup {None}]
  BY <1>1
<1>5. cli' \in [Thread -> Client \cup {None}]
  BY <1>1
<1>6. WorksOn'
  BY <1>1 DEF WorksOn, Busy
<1> QED
  BY <1>1, <1>2, <1>3, <1>4, <1>5, <1>6

\* DelObserver keeps the types:
\* delObserver erases one occurrence under the lock (observer-pattern.hpp:83).
LEMMA DelObserverTypes ==
  ASSUME TypeInv, NEW t \in Thread, DelObserver(t), UNCHANGED crashed
  PROVE  TypeInv'
<1> USE DEF TypeInv, TypeOK, DelObserver, Goto
<1>1. sig[t] \in Signal /\ cli[t] \in Client
  BY DEF WorksOn, Busy
<1>2. observerList' \in [Signal -> [Client -> Nat]]
  BY <1>1, DecrementValue
<1>3. pc' \in [Thread -> Pc]
  BY <1>1
<1>4. WorksOn'
  BY <1>1 DEF WorksOn, Busy
<1> QED
  BY <1>1, <1>2, <1>3, <1>4

\* Unwatch keeps the types:
\* makeUnsubscription gives the event back with the last signal (clientApp.cpp:76).
LEMMA UnwatchTypes ==
  ASSUME TypeInv, NEW t \in Thread, Unwatch(t), UNCHANGED crashed
  PROVE  TypeInv'
<1> USE DEF TypeInv, TypeOK, Unwatch, Finish, Goto
<1>1. sig[t] \in Signal /\ cli[t] \in Client
  BY DEF WorksOn, Busy
<1>2. watching' \in [Client -> BOOLEAN]
  BY <1>1
<1>3. pc' \in [Thread -> Pc]
  BY <1>1
<1>4. sig' \in [Thread -> Signal \cup {None}]
  BY <1>1
<1>5. cli' \in [Thread -> Client \cup {None}]
  BY <1>1
<1>6. WorksOn'
  BY <1>1 DEF WorksOn, Busy
<1> QED
  BY <1>1, <1>2, <1>3, <1>4, <1>5, <1>6

\* NotifyLock keeps the types:
\* notify takes the lock and begins its walk (observer-pattern.hpp:110).
LEMMA NotifyLockTypes ==
  ASSUME TypeInv, NEW t \in Thread, NotifyLock(t), UNCHANGED crashed
  PROVE  TypeInv'
<1> USE DEF TypeInv, TypeOK, NotifyLock, Goto
<1>1. sig[t] \in Signal
  BY DEF WorksOn, Busy
<1>2. observerListMutex' \in [Signal -> Thread \cup {None}]
  BY <1>1
<1>3. pending' \in [Thread -> [Client -> Nat]]
  BY <1>1
<1>4. pc' \in [Thread -> Pc]
  BY <1>1
<1>5. WorksOn'
  BY <1>1 DEF WorksOn, Busy
<1> QED
  BY <1>1, <1>2, <1>3, <1>4, <1>5

\* Update keeps the types:
\* clientAppCtx::update of one observer of the walk (clientApp.cpp:25).
LEMMA UpdateTypes ==
  ASSUME TypeInv, NEW t \in Thread, NEW c \in Client, Update(t, c), UNCHANGED crashed
  PROVE  TypeInv'
<1> USE DEF TypeInv, TypeOK, Update
<1>1. sig[t] \in Signal
  BY DEF WorksOn, Busy
<1>2. pending' \in [Thread -> [Client -> Nat]]
  BY <1>1
<1>3. pc' \in [Thread -> Pc]
  BY <1>1
<1>4. cli' \in [Thread -> Client \cup {None}]
  BY <1>1
<1>5. WorksOn'
  BY <1>1 DEF WorksOn, Busy
<1> QED
  BY <1>1, <1>2, <1>3, <1>4, <1>5

\* NotifyEnd keeps the types:
\* notify ends its walk and releases the lock (observer-pattern.hpp:115).
LEMMA NotifyEndTypes ==
  ASSUME TypeInv, NEW t \in Thread, NotifyEnd(t), UNCHANGED crashed
  PROVE  TypeInv'
<1> USE DEF TypeInv, TypeOK, NotifyEnd, Finish, Goto
<1>1. sig[t] \in Signal
  BY DEF WorksOn, Busy
<1>2. observerListMutex' \in [Signal -> Thread \cup {None}]
  BY <1>1
<1>3. pc' \in [Thread -> Pc]
  BY <1>1
<1>4. sig' \in [Thread -> Signal \cup {None}]
  BY <1>1
<1>5. cli' \in [Thread -> Client \cup {None}]
  BY <1>1
<1>6. WorksOn'
  BY <1>1 DEF WorksOn, Busy
<1> QED
  BY <1>1, <1>2, <1>3, <1>4, <1>5, <1>6

\* CloseLock keeps the types:
\* ~Observer takes the lock of the client (observer-pattern.hpp:37).
LEMMA CloseLockTypes ==
  ASSUME TypeInv, NEW t \in Thread, CloseLock(t), UNCHANGED crashed
  PROVE  TypeInv'
<1> USE DEF TypeInv, TypeOK, CloseLock, Goto
<1>1. cli[t] \in Client
  BY DEF WorksOn, Busy
<1>2. observableListMutex' \in [Client -> Thread \cup {None}]
  BY <1>1
<1>3. remaining' \in [Thread -> SUBSET Signal]
  BY <1>1
<1>4. pc' \in [Thread -> Pc]
  BY <1>1
<1>5. WorksOn'
  BY <1>1 DEF WorksOn, Busy
<1> QED
  BY <1>1, <1>2, <1>3, <1>4, <1>5

\* Leave keeps the types:
\* ~Observer goes to the next observable of its list (observer-pattern.hpp:38).
LEMMA LeaveTypes ==
  ASSUME TypeInv, NEW t \in Thread, NEW s \in Signal, Leave(t, s), UNCHANGED crashed
  PROVE  TypeInv'
<1> USE DEF TypeInv, TypeOK, Leave, Goto
<1>1. cli[t] \in Client
  BY DEF WorksOn, Busy
<1>2. remaining' \in [Thread -> SUBSET Signal]
  BY <1>1
<1>3. pc' \in [Thread -> Pc]
  BY <1>1
<1>4. sig' \in [Thread -> Signal \cup {None}]
  BY <1>1
<1>5. WorksOn'
  BY <1>1 DEF WorksOn, Busy
<1> QED
  BY <1>1, <1>2, <1>3, <1>4, <1>5

\* CloseEnd keeps the types:
\* ~Observer has left every list, the context is freed (observer-pattern.hpp:42).
LEMMA CloseEndTypes ==
  ASSUME TypeInv, NEW t \in Thread, CloseEnd(t), UNCHANGED crashed
  PROVE  TypeInv'
<1> USE DEF TypeInv, TypeOK, CloseEnd, Finish, Goto
<1>1. cli[t] \in Client
  BY DEF WorksOn, Busy
<1>2. observableListMutex' \in [Client -> Thread \cup {None}]
  BY <1>1
<1>3. session' \in [Client -> {"live", "dying", "freed"}]
  BY <1>1
<1>4. pc' \in [Thread -> Pc]
  BY <1>1
<1>5. sig' \in [Thread -> Signal \cup {None}]
  BY <1>1
<1>6. cli' \in [Thread -> Client \cup {None}]
  BY <1>1
<1>7. WorksOn'
  BY <1>1 DEF WorksOn, Busy
<1> QED
  BY <1>1, <1>2, <1>3, <1>4, <1>5, <1>6, <1>7

\* Subscribe keeps the types:
\* appendSignals looks the signal up (clientApp.cpp:40).
LEMMA SubscribeTypes ==
  ASSUME TypeInv, NEW t \in Thread, NEW c \in Client, NEW s \in Signal,
         Subscribe(t, c, s), UNCHANGED crashed
  PROVE  TypeInv'
<1> USE DEF TypeInv, TypeOK, Subscribe, Begin, Goto
<1>1. pc' \in [Thread -> Pc]
  OBVIOUS
<1>2. sig' \in [Thread -> Signal \cup {None}]
  OBVIOUS
<1>3. cli' \in [Thread -> Client \cup {None}]
  OBVIOUS
<1>4. WorksOn'
  BY DEF WorksOn, Busy
<1> QED
  BY <1>1, <1>2, <1>3, <1>4

\* Unsubscribe keeps the types:
\* subtractSignals forgets the signal (clientApp.cpp:54).
LEMMA UnsubscribeTypes ==
  ASSUME TypeInv, NEW t \in Thread, NEW c \in Client, NEW s \in Signal,
         Unsubscribe(t, c, s), UNCHANGED crashed
  PROVE  TypeInv'
<1> USE DEF TypeInv, TypeOK, Unsubscribe, Begin, Goto
<1>1. subscribedSignals' \in [Client -> [Signal -> Nat]]
  BY DecrementValue
<1>2. pc' \in [Thread -> Pc]
  OBVIOUS
<1>3. sig' \in [Thread -> Signal \cup {None}]
  OBVIOUS
<1>4. cli' \in [Thread -> Client \cup {None}]
  OBVIOUS
<1>5. WorksOn'
  BY DEF WorksOn, Busy
<1> QED
  BY <1>1, <1>2, <1>3, <1>4, <1>5

\* Close keeps the types:
\* destroyContext deletes the context (signal-composer.cpp:408).
LEMMA CloseTypes ==
  ASSUME TypeInv, NEW t \in Thread, NEW c \in Client, Close(t, c), UNCHANGED crashed
  PROVE  TypeInv'
<1> USE DEF TypeInv, TypeOK, Close, Begin, Goto
<1>1. session' \in [Client -> {"live", "dying", "freed"}]
  OBVIOUS
<1>2. subscribedSignals' \in [Client -> [Signal -> Nat]]
  BY DEF Nothing
<1>3. pc' \in [Thread -> Pc]
  OBVIOUS
<1>4. sig' \in [Thread -> Signal \cup {None}]
  OBVIOUS
<1>5. cli' \in [Thread -> Client \cup {None}]
  OBVIOUS
<1>6. WorksOn'
  BY DEF WorksOn, Busy
<1> QED
  BY <1>1, <1>2, <1>3, <1>4, <1>5, <1>6

\* Set keeps the types:
\* Signal::set is about to notify (signal.cpp:346).
LEMMA SetTypes ==
  ASSUME TypeInv, NEW t \in Thread, NEW s \in Signal, Set(t, s), UNCHANGED crashed
  PROVE  TypeInv'
<1> USE DEF TypeInv, TypeOK, Set, Begin, Goto
<1>1. pc' \in [Thread -> Pc]
  OBVIOUS
<1>2. sig' \in [Thread -> Signal \cup {None}]
  OBVIOUS
<1>3. cli' \in [Thread -> Client \cup {None}]
  OBVIOUS
<1>4. WorksOn'
  BY DEF WorksOn, Busy
<1> QED
  BY <1>1, <1>2, <1>3, <1>4

-----------------------------------------------------------------------------
(* Every action keeps the inductive invariant. *)

\* A live client with no request in flight is the business of no thread, and its
\* lists agree: what the framework guarantees when a request or the end of a
\* session begins (MayRequest, Close).
LEMMA Free ==
  ASSUME IInv, NEW c \in Client, session[c] = "live", ~InFlight(c)
  PROVE  /\ \A u \in Thread : Busy(u) => cli[u] # c
         /\ \A y \in Signal : /\ observerList[y][c] = subscribedSignals[c][y]
                              /\ BackLink(c, y) /\ observerList[y][c] \in {0, 1}
<1>1. \A u \in Thread : Busy(u) => cli[u] # c
  BY DEF IInv, Sessions, InFlight, Busy
<1>2. \A y \in Signal : Settled(c, y)
  BY <1>1 DEF Settled
<1>3. ASSUME NEW y \in Signal
      PROVE  /\ observerList[y][c] = subscribedSignals[c][y]
             /\ BackLink(c, y) /\ observerList[y][c] \in {0, 1}
  <2>1. observerList[y][c] \in Nat
    BY DEF IInv, TypeInv, TypeOK
  <2> QED
    BY <1>2, <2>1 DEF IInv, Joined
<1> QED
  BY <1>1, <1>3

\* Steps that touch no list and begin no request keep the lists joined (those of
\* notify, signal.cpp:346, and of the event of a client, clientApp.cpp:69).
LEMMA JoinedFrame ==
  ASSUME Joined,
         UNCHANGED <<observerList, observableList, subscribedSignals, session>>,
         \A x \in Client, y \in Signal : session[x] = "live" /\ Settled(x, y)' => Settled(x, y)
  PROVE  Joined'
BY DEF Joined, BackLink

\* Attach keeps IInv:
\* addObserver appends the client to the list of the signal (observer-pattern.hpp:79).
LEMMA AttachStep ==
  ASSUME IInv, ~Pipelined, NEW t \in Thread, Attach(t), UNCHANGED crashed
  PROVE  IInv'
<1> USE DEF IInv, TypeInv, TypeOK, WorksOn, Busy, Attach, Goto
<1>1. TypeInv'
  BY AttachTypes
<1>2. OneAtATime'
  BY DEF OneAtATime
<1>3. Sessions'
  BY DEF Sessions
<1>4. Locks'
  BY DEF Locks
<1>5. Joined'
  BY DEF Joined, Settled, BackLink, Sessions, InProgress, OneAtATime, Leaving, ToLeave, Locks
<1>6. InProgress'
  BY DEF InProgress, BackLink, OneAtATime
<1>7. Leaving'
  BY DEF Leaving, ToLeave, OneAtATime
<1>8. Walking'
  BY DEF Walking
<1> QED
  BY <1>1, <1>2, <1>3, <1>4, <1>5, <1>6, <1>7, <1>8

\* Link keeps IInv:
\* addObservable enters the signal in the list of the client (observer-pattern.hpp:51).
LEMMA LinkStep ==
  ASSUME IInv, ~Pipelined, NEW t \in Thread, Link(t), UNCHANGED crashed
  PROVE  IInv'
<1> USE DEF IInv, TypeInv, TypeOK, WorksOn, Busy, Link, Goto
<1>1. TypeInv'
  BY LinkTypes
<1>2. OneAtATime'
  BY DEF OneAtATime
<1>3. Sessions'
  BY DEF Sessions
<1>4. Locks'
  BY DEF Locks
<1>5. Joined'
  BY DEF Joined, Settled, BackLink
<1>6. InProgress'
  BY DEF InProgress, BackLink
<1>7. Leaving'
  BY DEF Leaving, ToLeave
<1>8. Walking'
  BY DEF Walking
<1> QED
  BY <1>1, <1>2, <1>3, <1>4, <1>5, <1>6, <1>7, <1>8

\* Record keeps IInv:
\* appendSignals records the signal (clientApp.cpp:46).
LEMMA RecordStep ==
  ASSUME IInv, ~Pipelined, NEW t \in Thread, Record(t), UNCHANGED crashed
  PROVE  IInv'
<1> USE DEF IInv, TypeInv, TypeOK, WorksOn, Busy, Record, Goto
<1>1. TypeInv'
  BY RecordTypes
<1>2. OneAtATime'
  BY DEF OneAtATime
<1>3. Sessions'
  BY DEF Sessions
<1>4. Locks'
  BY DEF Locks
<1>5. Joined'
  BY DEF Joined, Settled, BackLink, InProgress, OneAtATime
<1>6. InProgress'
  BY DEF InProgress, BackLink, OneAtATime
<1>7. Leaving'
  BY DEF Leaving, ToLeave
<1>8. Walking'
  BY DEF Walking
<1> QED
  BY <1>1, <1>2, <1>3, <1>4, <1>5, <1>6, <1>7, <1>8

\* MakeEvent keeps IInv:
\* makeSubscription creates the event (clientApp.cpp:71).
LEMMA MakeEventStep ==
  ASSUME IInv, ~Pipelined, NEW t \in Thread, MakeEvent(t), UNCHANGED crashed
  PROVE  IInv'
<1> USE DEF IInv, TypeInv, TypeOK, WorksOn, Busy, MakeEvent, Goto
<1>1. TypeInv'
  BY MakeEventTypes
<1>2. OneAtATime'
  BY DEF OneAtATime
<1>3. Sessions'
  BY DEF Sessions
<1>4. Locks'
  BY DEF Locks
<1>5. Joined'
  <2>1. \A x \in Client, y \in Signal : session[x] = "live" /\ Settled(x, y)' => Settled(x, y)
    BY DEF Settled
  <2> QED
    BY <2>1, JoinedFrame
<1>6. InProgress'
  BY DEF InProgress, BackLink
<1>7. Leaving'
  BY DEF Leaving, ToLeave
<1>8. Walking'
  BY DEF Walking
<1> QED
  BY <1>1, <1>2, <1>3, <1>4, <1>5, <1>6, <1>7, <1>8

\* Watch keeps IInv:
\* afb_req_subscribe, taken or refused (clientApp.cpp:73).
LEMMA WatchStep ==
  ASSUME IInv, ~Pipelined, NEW t \in Thread, Watch(t), UNCHANGED crashed
  PROVE  IInv'
<1> USE DEF IInv, TypeInv, TypeOK, WorksOn, Busy, Watch, Finish, Goto
<1>1. TypeInv'
  BY WatchTypes
<1>2. OneAtATime'
  BY DEF OneAtATime
<1>3. Sessions'
  BY DEF Sessions
<1>4. Locks'
  BY DEF Locks
<1>5. Joined'
  <2>1. \A x \in Client, y \in Signal : session[x] = "live" /\ Settled(x, y)' => Settled(x, y)
    BY DEF Settled
  <2> QED
    BY <2>1, JoinedFrame
<1>6. InProgress'
  BY DEF InProgress, BackLink
<1>7. Leaving'
  BY DEF Leaving, ToLeave
<1>8. Walking'
  BY DEF Walking
<1> QED
  BY <1>1, <1>2, <1>3, <1>4, <1>5, <1>6, <1>7, <1>8

\* DelObserver keeps IInv:
\* delObserver erases one occurrence under the lock (observer-pattern.hpp:83).
LEMMA DelObserverStep ==
  ASSUME IInv, ~Pipelined, NEW t \in Thread, DelObserver(t), UNCHANGED crashed
  PROVE  IInv'
<1> USE DEF IInv, TypeInv, TypeOK, WorksOn, Busy, DelObserver, Goto
<1>1. TypeInv'
  BY DelObserverTypes
<1>2. OneAtATime'
  BY DEF OneAtATime
<1>3. Sessions'
  BY DEF Sessions
<1>4. Locks'
  BY DEF Locks
<1>5. Joined'
  BY DecrementValue DEF Joined, Settled, BackLink, Locks, InProgress, OneAtATime
<1>6. InProgress'
  BY DecrementValue DEF InProgress, BackLink, OneAtATime, Joined, Locks, Sessions, Settled
<1>7. Leaving'
  BY DecrementValue DEF Leaving, ToLeave, OneAtATime, Locks, Joined
<1>8. Walking'
  BY DecrementValue DEF Walking, Locks
<1> QED
  BY <1>1, <1>2, <1>3, <1>4, <1>5, <1>6, <1>7, <1>8

\* Unwatch keeps IInv:
\* makeUnsubscription gives the event back with the last signal (clientApp.cpp:76).
LEMMA UnwatchStep ==
  ASSUME IInv, ~Pipelined, NEW t \in Thread, Unwatch(t), UNCHANGED crashed
  PROVE  IInv'
<1> USE DEF IInv, TypeInv, TypeOK, WorksOn, Busy, Unwatch, Finish, Goto
<1>1. TypeInv'
  BY UnwatchTypes
<1>2. OneAtATime'
  BY DEF OneAtATime
<1>3. Sessions'
  BY DEF Sessions
<1>4. Locks'
  BY DEF Locks
<1>5. /\ \A u \in Thread \ {t} : UNCHANGED <<pc[u], sig[u], cli[u]>>
      /\ pc[t] = "unwatch" /\ pc'[t] = "idle"
      /\ UNCHANGED <<observerList, observableList, subscribedSignals, session>>
      /\ Joined /\ InProgress
  OBVIOUS
<1>6. Joined'
  <2>1. observerList[sig[t]][cli[t]] = 0 /\ subscribedSignals[cli[t]][sig[t]] = 0
    BY <1>5 DEF InProgress
  <2> HIDE DEF IInv, TypeInv, TypeOK, WorksOn, Unwatch, Finish, Goto
  <2>2. ASSUME NEW c \in Client, NEW s \in Signal, Settled(c, s)'
        PROVE  Settled(c, s) \/ (c = cli[t] /\ s = sig[t])
    BY <1>5, <2>2 DEF Settled, Busy
  <2> QED
    BY <1>5, <2>1, <2>2 DEF Joined, BackLink
<1>7. InProgress'
  <2> HIDE DEF IInv, TypeInv, TypeOK, WorksOn, Busy, Unwatch, Finish, Goto
  <2> QED
    BY <1>5 DEF InProgress, BackLink
<1>8. Leaving'
  BY DEF Leaving, ToLeave
<1>9. Walking'
  BY DEF Walking
<1> QED
  BY <1>1, <1>2, <1>3, <1>4, <1>6, <1>7, <1>8, <1>9

\* NotifyLock keeps IInv:
\* notify takes the lock and begins its walk (observer-pattern.hpp:110).
LEMMA NotifyLockStep ==
  ASSUME IInv, ~Pipelined, NEW t \in Thread, NotifyLock(t), UNCHANGED crashed
  PROVE  IInv'
<1> USE DEF IInv, TypeInv, TypeOK, WorksOn, Busy, NotifyLock, Goto
<1>1. TypeInv'
  BY NotifyLockTypes
<1>2. OneAtATime'
  BY DEF OneAtATime
<1>3. Sessions'
  BY DEF Sessions
<1>4. Locks'
  BY DEF Locks
<1>5. Joined'
  <2>1. \A x \in Client, y \in Signal : session[x] = "live" /\ Settled(x, y)' => Settled(x, y)
    BY DEF Settled
  <2> QED
    BY <2>1, JoinedFrame
<1>6. InProgress'
  BY DEF InProgress, BackLink
<1>7. Leaving'
  BY DEF Leaving, ToLeave
<1>8. Walking'
  BY DEF Walking
<1> QED
  BY <1>1, <1>2, <1>3, <1>4, <1>5, <1>6, <1>7, <1>8

\* Update keeps IInv:
\* clientAppCtx::update of one observer of the walk (clientApp.cpp:25).
LEMMA UpdateStep ==
  ASSUME IInv, ~Pipelined, NEW t \in Thread, NEW c \in Client, Update(t,
         c), UNCHANGED crashed
  PROVE  IInv'
<1> USE DEF IInv, TypeInv, TypeOK, WorksOn, Busy, Update
<1>1. TypeInv'
  BY UpdateTypes
<1>2. OneAtATime'
  BY DEF OneAtATime
<1>3. Sessions'
  BY DEF Sessions
<1>4. Locks'
  BY DEF Locks
<1>5. Joined'
  BY DEF Joined, Settled, BackLink
<1>6. InProgress'
  BY DEF InProgress, BackLink
<1>7. Leaving'
  BY DEF Leaving, ToLeave
<1>8. Walking'
  BY DEF Walking
<1> QED
  BY <1>1, <1>2, <1>3, <1>4, <1>5, <1>6, <1>7, <1>8

\* NotifyEnd keeps IInv:
\* notify ends its walk and releases the lock (observer-pattern.hpp:115).
LEMMA NotifyEndStep ==
  ASSUME IInv, ~Pipelined, NEW t \in Thread, NotifyEnd(t), UNCHANGED crashed
  PROVE  IInv'
<1> USE DEF IInv, TypeInv, TypeOK, WorksOn, Busy, NotifyEnd, Finish, Goto
<1>1. TypeInv'
  BY NotifyEndTypes
<1>2. OneAtATime'
  BY DEF OneAtATime
<1>3. Sessions'
  BY DEF Sessions
<1>4. Locks'
  BY DEF Locks
<1>5. Joined'
  <2>1. \A x \in Client, y \in Signal : session[x] = "live" /\ Settled(x, y)' => Settled(x, y)
    BY DEF Settled
  <2> QED
    BY <2>1, JoinedFrame
<1>6. InProgress'
  BY DEF InProgress, BackLink
<1>7. Leaving'
  BY DEF Leaving, ToLeave
<1>8. Walking'
  BY DEF Walking, Nobody
<1> QED
  BY <1>1, <1>2, <1>3, <1>4, <1>5, <1>6, <1>7, <1>8

\* CloseLock keeps IInv:
\* ~Observer takes the lock of the client (observer-pattern.hpp:37).
LEMMA CloseLockStep ==
  ASSUME IInv, ~Pipelined, NEW t \in Thread, CloseLock(t), UNCHANGED crashed
  PROVE  IInv'
<1> USE DEF IInv, TypeInv, TypeOK, WorksOn, Busy, CloseLock, Goto
<1>1. TypeInv'
  BY CloseLockTypes
<1>2. OneAtATime'
  BY DEF OneAtATime
<1>3. Sessions'
  BY DEF Sessions
<1>4. Locks'
  BY DEF Locks
<1>5. Joined'
  BY DEF Joined, Settled, BackLink
<1>6. InProgress'
  BY DEF InProgress, BackLink
<1>7. Leaving'
  BY DEF Leaving, ToLeave
<1>8. Walking'
  BY DEF Walking
<1> QED
  BY <1>1, <1>2, <1>3, <1>4, <1>5, <1>6, <1>7, <1>8

\* Leave keeps IInv:
\* ~Observer goes to the next observable of its list (observer-pattern.hpp:38).
LEMMA LeaveStep ==
  ASSUME IInv, ~Pipelined, NEW t \in Thread, NEW s \in Signal, Leave(t,
         s), UNCHANGED crashed
  PROVE  IInv'
<1> USE DEF IInv, TypeInv, TypeOK, WorksOn, Busy, Leave, Goto
<1>1. TypeInv'
  BY LeaveTypes
<1>2. OneAtATime'
  BY DEF OneAtATime
<1>3. Sessions'
  BY DEF Sessions
<1>4. Locks'
  BY DEF Locks
<1>5. Joined'
  BY DEF Joined, Settled, BackLink, Sessions, InProgress, OneAtATime, Leaving, ToLeave, Locks
<1>6. InProgress'
  BY DEF InProgress, BackLink
<1>7. Leaving'
  BY DEF Leaving, ToLeave
<1>8. Walking'
  BY DEF Walking
<1> QED
  BY <1>1, <1>2, <1>3, <1>4, <1>5, <1>6, <1>7, <1>8

\* CloseEnd keeps IInv:
\* ~Observer has left every list, the context is freed (observer-pattern.hpp:42).
LEMMA CloseEndStep ==
  ASSUME IInv, ~Pipelined, NEW t \in Thread, CloseEnd(t), UNCHANGED crashed
  PROVE  IInv'
<1> USE DEF IInv, TypeInv, TypeOK, WorksOn, Busy, CloseEnd, Finish, Goto
<1>1. TypeInv'
  BY CloseEndTypes
<1>2. OneAtATime'
  BY DEF OneAtATime
<1>3. Sessions'
  BY DEF Sessions, OneAtATime
<1>4. Locks'
  BY DEF Locks
<1>5. Joined'
  BY DEF Joined, Settled, BackLink, Sessions, InProgress, OneAtATime, Leaving, ToLeave, Locks
<1>6. InProgress'
  BY DEF InProgress, BackLink
<1>7. Leaving'
  BY DEF Leaving, ToLeave
<1>8. Walking'
  BY DEF Walking
<1> QED
  BY <1>1, <1>2, <1>3, <1>4, <1>5, <1>6, <1>7, <1>8

\* Subscribe keeps IInv:
\* appendSignals looks the signal up (clientApp.cpp:40).
LEMMA SubscribeStep ==
  ASSUME IInv, ~Pipelined, NEW t \in Thread, NEW c \in Client, NEW s \in Signal,
         Subscribe(t, c, s), UNCHANGED crashed
  PROVE  IInv'
<1> USE DEF IInv, TypeInv, TypeOK, WorksOn, Busy, Subscribe, Begin, Goto
<1>0. /\ \A u \in Thread : Busy(u) => cli[u] # c
     /\ \A y \in Signal : /\ observerList[y][c] = subscribedSignals[c][y]
                         /\ BackLink(c, y) /\ observerList[y][c] \in {0, 1}
  BY Free DEF MayRequest
<1>1. TypeInv'
  BY SubscribeTypes
<1>2. OneAtATime'
  BY <1>0 DEF OneAtATime
<1>3. Sessions'
  BY <1>0 DEF Sessions, MayRequest
<1>4. Locks'
  BY DEF Locks
<1>5. Joined'
  <2>1. \A x \in Client, y \in Signal : session[x] = "live" /\ Settled(x, y)' => Settled(x, y)
    BY <1>0 DEF Settled
  <2> QED
    BY <2>1, JoinedFrame
<1>6. InProgress'
  BY <1>0, DecrementValue DEF InProgress, BackLink, Nothing
<1>7. Leaving'
  BY DEF Leaving, ToLeave
<1>8. Walking'
  BY DEF Walking
<1> QED
  BY <1>1, <1>2, <1>3, <1>4, <1>5, <1>6, <1>7, <1>8

\* Unsubscribe keeps IInv:
\* subtractSignals forgets the signal (clientApp.cpp:54).
LEMMA UnsubscribeStep ==
  ASSUME IInv, ~Pipelined, NEW t \in Thread, NEW c \in Client, NEW s \in Signal,
         Unsubscribe(t, c, s), UNCHANGED crashed
  PROVE  IInv'
<1> USE DEF IInv, TypeInv, TypeOK, WorksOn, Busy, Unsubscribe, Begin, Goto
<1>0. /\ \A u \in Thread : Busy(u) => cli[u] # c
     /\ \A y \in Signal : /\ observerList[y][c] = subscribedSignals[c][y]
                         /\ BackLink(c, y) /\ observerList[y][c] \in {0, 1}
  BY Free DEF MayRequest
<1>1. TypeInv'
  BY UnsubscribeTypes
<1>2. OneAtATime'
  BY <1>0 DEF OneAtATime
<1>3. Sessions'
  BY <1>0 DEF Sessions, MayRequest
<1>4. Locks'
  BY DEF Locks
<1>5. Joined'
  <2> SUFFICES ASSUME NEW x \in Client, NEW y \in Signal
               PROVE  /\ observerList'[y][x] <= 1
                      /\ session'[x] = "live" /\ Settled(x, y)' =>
                           observerList'[y][x] = subscribedSignals'[x][y] /\ BackLink(x, y)'
                      /\ session'[x] = "freed" => observerList'[y][x] = 0
    BY DEF Joined
  <2>1. CASE x = c /\ y = s
    BY <1>0, <2>1 DEF Joined, Settled
  <2>2. CASE ~(x = c /\ y = s)
    <3>1. subscribedSignals'[x][y] = subscribedSignals[x][y]
      BY <2>2
    <3>2. Settled(x, y)' => Settled(x, y)
      BY <1>0 DEF Settled
    <3> QED
      BY <2>2, <3>1, <3>2 DEF Joined, BackLink
  <2> QED
    BY <2>1, <2>2
<1>6. InProgress'
  BY <1>0, DecrementValue DEF InProgress, BackLink, Nothing
<1>7. Leaving'
  BY DecrementValue DEF Leaving, ToLeave
<1>8. Walking'
  BY DecrementValue DEF Walking
<1> QED
  BY <1>1, <1>2, <1>3, <1>4, <1>5, <1>6, <1>7, <1>8

\* Close keeps IInv:
\* destroyContext deletes the context (signal-composer.cpp:408).
LEMMA CloseStep ==
  ASSUME IInv, ~Pipelined, NEW t \in Thread, NEW c \in Client, Close(t,
         c), UNCHANGED crashed
  PROVE  IInv'
<1> USE DEF IInv, TypeInv, TypeOK, WorksOn, Busy, Close, Begin, Goto
<1>0. /\ \A u \in Thread : Busy(u) => cli[u] # c
     /\ \A y \in Signal : /\ observerList[y][c] = subscribedSignals[c][y]
                         /\ BackLink(c, y) /\ observerList[y][c] \in {0, 1}
  BY Free DEF MayRequest
<1>1. TypeInv'
  BY CloseTypes
<1>2. OneAtATime'
  BY <1>0 DEF OneAtATime
<1>3. Sessions'
  BY <1>0 DEF Sessions
<1>4. Locks'
  BY DEF Locks
<1>5. Joined'
  <2> SUFFICES ASSUME NEW x \in Client, NEW y \in Signal
               PROVE  /\ observerList'[y][x] <= 1
                      /\ session'[x] = "live" /\ Settled(x, y)' =>
                           observerList'[y][x] = subscribedSignals'[x][y] /\ BackLink(x, y)'
                      /\ session'[x] = "freed" => observerList'[y][x] = 0
    BY DEF Joined
  <2>1. CASE x = c
    BY <1>0, <2>1 DEF Joined, Settled
  <2>2. CASE ~(x = c)
    <3>1. subscribedSignals'[x][y] = subscribedSignals[x][y]
      BY <2>2
    <3>2. Settled(x, y)' => Settled(x, y)
      BY <1>0 DEF Settled
    <3> QED
      BY <2>2, <3>1, <3>2 DEF Joined, BackLink
  <2> QED
    BY <2>1, <2>2
<1>6. InProgress'
  BY <1>0, DecrementValue DEF InProgress, BackLink, Nothing
<1>7. Leaving'
  BY <1>0, DecrementValue DEF Leaving, ToLeave, BackLink
<1>8. Walking'
  BY DEF Walking
<1> QED
  BY <1>1, <1>2, <1>3, <1>4, <1>5, <1>6, <1>7, <1>8

\* Set keeps IInv:
\* Signal::set is about to notify (signal.cpp:346).
LEMMA SetStep ==
  ASSUME IInv, ~Pipelined, NEW t \in Thread, NEW s \in Signal, Set(t, s), UNCHANGED crashed
  PROVE  IInv'
<1> USE DEF IInv, TypeInv, TypeOK, WorksOn, Busy, Set, Begin, Goto
<1>1. TypeInv'
  BY SetTypes
<1>2. OneAtATime'
  BY DEF OneAtATime
<1>3. Sessions'
  BY DEF Sessions
<1>4. Locks'
  BY DEF Locks
<1>5. Joined'
  <2>1. \A x \in Client, y \in Signal : session[x] = "live" /\ Settled(x, y)' => Settled(x, y)
    BY DEF Settled
  <2> QED
    BY <2>1, JoinedFrame
<1>6. InProgress'
  BY DEF InProgress, BackLink
<1>7. Leaving'
  BY DEF Leaving, ToLeave
<1>8. Walking'
  BY DEF Walking
<1> QED
  BY <1>1, <1>2, <1>3, <1>4, <1>5, <1>6, <1>7, <1>8
-----------------------------------------------------------------------------
(* From the steps to the next-state relation. *)

\* The freshly built objects are of their types.
LEMMA TypeInit == Init => TypeInv
<1> SUFFICES ASSUME Init PROVE TypeInv
  OBVIOUS
<1>1. observerList \in [Signal -> [Client -> Nat]] /\ pending \in [Thread -> [Client -> Nat]]
  BY DEF Init, Nobody
<1>2. subscribedSignals \in [Client -> [Signal -> Nat]]
  BY DEF Init, Nothing
<1>3. /\ observerListMutex \in [Signal -> Thread \cup {None}]
      /\ observableList \in [Client -> SUBSET Signal]
      /\ observableListMutex \in [Client -> Thread \cup {None}]
  BY DEF Init
<1>4. event \in [Client -> BOOLEAN] /\ watching \in [Client -> BOOLEAN]
  BY DEF Init
<1>5. /\ session \in [Client -> {"live", "dying", "freed"}]
      /\ pc \in [Thread -> Pc]
  BY DEF Init
<1>6. /\ sig \in [Thread -> Signal \cup {None}]
      /\ cli \in [Thread -> Client \cup {None}]
      /\ remaining \in [Thread -> SUBSET Signal]
  BY DEF Init
<1>7. crashed \in BOOLEAN /\ WorksOn
  BY DEF Init, WorksOn, Busy
<1> QED
  BY <1>1, <1>2, <1>3, <1>4, <1>5, <1>6, <1>7 DEF TypeInv, TypeOK

\* Before the first request nothing is joined, held or under way.
LEMMA InvInit == Init => IInv
<1> SUFFICES ASSUME Init PROVE IInv
  OBVIOUS
<1>1. OneAtATime /\ Sessions /\ InProgress /\ Leaving
  BY DEF Init, OneAtATime, Sessions, InProgress, Leaving, Busy
<1>2. Locks
  BY DEF Init, Locks
<1>3. Joined /\ Walking
  BY DEF Init, Joined, BackLink, Walking, Nobody, Nothing
<1> QED
  BY <1>1, <1>2, <1>3, TypeInit DEF IInv

\* No step of a thread or of the framework breaks the types.
LEMMA TypeNext == TypeInv /\ [Next]_vars => TypeInv'
<1> SUFFICES ASSUME TypeInv, [Next]_vars PROVE TypeInv'
  OBVIOUS
<1>1. ASSUME NEW t \in Thread, Continue(t), UNCHANGED crashed PROVE TypeInv'
  BY <1>1, AttachTypes, LinkTypes, RecordTypes, MakeEventTypes, WatchTypes, DelObserverTypes,
     UnwatchTypes, NotifyLockTypes, UpdateTypes, NotifyEndTypes, CloseLockTypes, LeaveTypes,
     CloseEndTypes DEF Continue
<1>2. ASSUME NEW t \in Thread, Start(t), UNCHANGED crashed PROVE TypeInv'
  BY <1>2, SubscribeTypes, UnsubscribeTypes, CloseTypes, SetTypes DEF Start
<1>3. ASSUME NEW c \in Client, Disconnect(c), UNCHANGED crashed PROVE TypeInv'
  BY <1>3 DEF Disconnect, TypeInv, TypeOK, WorksOn, Busy
<1>4. ASSUME NEW t \in Thread, Crash(t) PROVE TypeInv'
  BY <1>4 DEF Crash, TypeInv, TypeOK, WorksOn, Busy
<1>5. CASE UNCHANGED vars
  BY <1>5 DEF vars, TypeInv, TypeOK, WorksOn, Busy
<1> QED
  BY <1>1, <1>2, <1>3, <1>4, <1>5 DEF Next, Run

\* What happens to a connection, and a process that is aborted, leave the lists,
\* the locks and the threads alone (clientApp.cpp:25, observer-pattern.hpp:35).
LEMMA InvFrame ==
  ASSUME IInv, TypeInv', UNCHANGED <<observerList, observerListMutex, observableList,
           observableListMutex, subscribedSignals, session, local>>
  PROVE  IInv'
<1>1. OneAtATime' /\ Sessions' /\ Locks'
  BY DEF IInv, OneAtATime, Sessions, Locks, Busy
<1>2. Joined'
  <2>1. \A x \in Client, y \in Signal : session[x] = "live" /\ Settled(x, y)' => Settled(x, y)
    BY DEF Settled, Busy
  <2> QED
    BY <2>1, JoinedFrame DEF IInv
<1>3. InProgress' /\ Leaving' /\ Walking'
  BY DEF IInv, InProgress, BackLink, Leaving, ToLeave, Walking
<1> QED
  BY <1>1, <1>2, <1>3 DEF IInv

\* Every step keeps the inductive invariant, when a session has one request at a
\* time: the proof of each action is a lemma above.
LEMMA InvNext == ~Pipelined /\ IInv /\ [Next]_vars => IInv'
<1> SUFFICES ASSUME ~Pipelined, IInv, [Next]_vars PROVE IInv'
  OBVIOUS
<1>0. TypeInv'
  BY TypeNext DEF IInv
<1>1. ASSUME NEW t \in Thread, Continue(t), UNCHANGED crashed PROVE IInv'
  BY <1>1, AttachStep, LinkStep, RecordStep, MakeEventStep, WatchStep, DelObserverStep,
     UnwatchStep, NotifyLockStep, UpdateStep, NotifyEndStep, CloseLockStep, LeaveStep,
     CloseEndStep DEF Continue
<1>2. ASSUME NEW t \in Thread, Start(t), UNCHANGED crashed PROVE IInv'
  BY <1>2, SubscribeStep, UnsubscribeStep, CloseStep, SetStep DEF Start
<1>3. ASSUME NEW c \in Client, Disconnect(c) PROVE IInv'
  BY <1>0, <1>3, InvFrame DEF Disconnect
<1>4. ASSUME NEW t \in Thread, Crash(t) PROVE IInv'
  BY <1>0, <1>4, InvFrame DEF Crash
<1>5. CASE UNCHANGED vars
  BY <1>0, <1>5, InvFrame DEF vars
<1> QED
  BY <1>1, <1>2, <1>3, <1>4, <1>5 DEF Next, Run

\* A step of a thread that has begun takes a lock that is free or one it holds, and
\* releases what it took (observer-pattern.hpp:37, :78, :85, :110).
LEMMA LockContinue ==
  ASSUME LockInv, NEW t \in Thread, Continue(t)
  PROVE  Sessions' /\ OneCloser' /\ Locks'
<1> USE DEF LockInv, TypeInv, TypeOK, WorksOn, Busy, Goto, Finish
<1>1. CASE Attach(t)
  <2>1. Sessions'
    BY <1>1 DEF Sessions, Attach
  <2>2. OneCloser'
    BY <1>1 DEF OneCloser, Attach
  <2>3. Locks'
    BY <1>1 DEF Locks, Attach
  <2> QED
    BY <2>1, <2>2, <2>3
<1>2. CASE Link(t)
  <2>1. Sessions'
    BY <1>2 DEF Sessions, Link
  <2>2. OneCloser'
    BY <1>2 DEF OneCloser, Link
  <2>3. Locks'
    BY <1>2 DEF Locks, Link
  <2> QED
    BY <2>1, <2>2, <2>3
<1>3. CASE Record(t)
  <2>1. Sessions'
    BY <1>3 DEF Sessions, Record
  <2>2. OneCloser'
    BY <1>3 DEF OneCloser, Record
  <2>3. Locks'
    BY <1>3 DEF Locks, Record
  <2> QED
    BY <2>1, <2>2, <2>3
<1>4. CASE MakeEvent(t)
  <2>1. Sessions'
    BY <1>4 DEF Sessions, MakeEvent
  <2>2. OneCloser'
    BY <1>4 DEF OneCloser, MakeEvent
  <2>3. Locks'
    BY <1>4 DEF Locks, MakeEvent
  <2> QED
    BY <2>1, <2>2, <2>3
<1>5. CASE Watch(t)
  <2>1. Sessions'
    BY <1>5 DEF Sessions, Watch
  <2>2. OneCloser'
    BY <1>5 DEF OneCloser, Watch
  <2>3. Locks'
    BY <1>5 DEF Locks, Watch
  <2> QED
    BY <2>1, <2>2, <2>3
<1>6. CASE Unwatch(t)
  <2>1. Sessions'
    BY <1>6 DEF Sessions, Unwatch
  <2>2. OneCloser'
    BY <1>6 DEF OneCloser, Unwatch
  <2>3. Locks'
    BY <1>6 DEF Locks, Unwatch
  <2> QED
    BY <2>1, <2>2, <2>3
<1>7. CASE DelObserver(t)
  <2>1. Sessions'
    BY <1>7 DEF Sessions, DelObserver
  <2>2. OneCloser'
    BY <1>7 DEF OneCloser, DelObserver
  <2>3. Locks'
    BY <1>7 DEF Locks, DelObserver
  <2> QED
    BY <2>1, <2>2, <2>3
<1>8. CASE NotifyLock(t)
  <2>1. Sessions'
    BY <1>8 DEF Sessions, NotifyLock
  <2>2. OneCloser'
    BY <1>8 DEF OneCloser, NotifyLock
  <2>3. Locks'
    BY <1>8 DEF Locks, NotifyLock
  <2> QED
    BY <2>1, <2>2, <2>3
<1>9. CASE \E c \in Client : Update(t, c)
  <2>1. Sessions'
    BY <1>9 DEF Sessions, Update
  <2>2. OneCloser'
    BY <1>9 DEF OneCloser, Update
  <2>3. Locks'
    BY <1>9 DEF Locks, Update
  <2> QED
    BY <2>1, <2>2, <2>3
<1>10. CASE NotifyEnd(t)
  <2>1. Sessions'
    BY <1>10 DEF Sessions, NotifyEnd
  <2>2. OneCloser'
    BY <1>10 DEF OneCloser, NotifyEnd
  <2>3. Locks'
    BY <1>10 DEF Locks, NotifyEnd
  <2> QED
    BY <2>1, <2>2, <2>3
<1>11. CASE CloseLock(t)
  <2>1. Sessions'
    BY <1>11 DEF Sessions, CloseLock
  <2>2. OneCloser'
    BY <1>11 DEF OneCloser, CloseLock
  <2>3. Locks'
    BY <1>11 DEF Locks, CloseLock
  <2> QED
    BY <2>1, <2>2, <2>3
<1>12. CASE \E s \in Signal : Leave(t, s)
  <2>1. Sessions'
    BY <1>12 DEF Sessions, Leave
  <2>2. OneCloser'
    BY <1>12 DEF OneCloser, Leave
  <2>3. Locks'
    BY <1>12 DEF Locks, Leave
  <2> QED
    BY <2>1, <2>2, <2>3
<1>13. CASE CloseEnd(t)
  <2>1. Sessions'
    BY <1>13 DEF Sessions, OneCloser, CloseEnd
  <2>2. OneCloser'
    BY <1>13 DEF OneCloser, CloseEnd
  <2>3. Locks'
    BY <1>13 DEF Locks, CloseEnd
  <2> QED
    BY <2>1, <2>2, <2>3
<1> QED
  BY <1>1, <1>2, <1>3, <1>4, <1>5, <1>6, <1>7, <1>8, <1>9, <1>10, <1>11, <1>12,
     <1>13 DEF Continue

\* Work begins without a lock: a request of a session that lives, the end of one
\* that has no request under way (signal.cpp:52, signal-composer.cpp:408).
LEMMA LockStart ==
  ASSUME LockInv, NEW t \in Thread, Start(t)
  PROVE  Sessions' /\ OneCloser' /\ Locks'
<1> USE DEF LockInv, TypeInv, TypeOK, WorksOn, Busy, Goto, Begin
<1>1. CASE \E c \in Client, s \in Signal : Subscribe(t, c, s)
  <2>1. Sessions'
    BY <1>1 DEF Sessions, Subscribe, MayRequest
  <2>2. OneCloser'
    BY <1>1 DEF OneCloser, Subscribe, MayRequest
  <2>3. Locks'
    BY <1>1 DEF Locks, Subscribe, MayRequest
  <2> QED
    BY <2>1, <2>2, <2>3
<1>2. CASE \E c \in Client, s \in Signal : Unsubscribe(t, c, s)
  <2>1. Sessions'
    BY <1>2 DEF Sessions, Unsubscribe, MayRequest
  <2>2. OneCloser'
    BY <1>2 DEF OneCloser, Unsubscribe, MayRequest
  <2>3. Locks'
    BY <1>2 DEF Locks, Unsubscribe, MayRequest
  <2> QED
    BY <2>1, <2>2, <2>3
<1>3. CASE \E c \in Client : Close(t, c)
  <2>1. Sessions'
    BY <1>3 DEF Sessions, Close, InFlight
  <2>2. OneCloser'
    BY <1>3 DEF OneCloser, Sessions, Close, InFlight
  <2>3. Locks'
    BY <1>3 DEF Locks, Close, InFlight
  <2> QED
    BY <2>1, <2>2, <2>3
<1>4. CASE \E s \in Signal : Set(t, s)
  <2>1. Sessions'
    BY <1>4 DEF Sessions, Set
  <2>2. OneCloser'
    BY <1>4 DEF OneCloser, Set
  <2>3. Locks'
    BY <1>4 DEF Locks, Set
  <2> QED
    BY <2>1, <2>2, <2>3
<1> QED
  BY <1>1, <1>2, <1>3, <1>4 DEF Start

\* No step breaks what is said of the locks, however the requests come.
LEMMA LockNext == LockInv /\ [Next]_vars => LockInv'
<1> SUFFICES ASSUME LockInv, [Next]_vars PROVE LockInv'
  OBVIOUS
<1>1. TypeInv'
  BY TypeNext DEF LockInv
<1>2. Sessions' /\ OneCloser' /\ Locks'
  <2>1. ASSUME NEW t \in Thread, Continue(t) \/ Start(t)
        PROVE  Sessions' /\ OneCloser' /\ Locks'
    BY <2>1, LockContinue, LockStart
  <2>2. CASE UNCHANGED <<observerListMutex, observableListMutex, session, pc, sig, cli>>
    BY <2>2 DEF LockInv, Sessions, OneCloser, Locks
  <2>3. \/ \E t \in Thread : Continue(t) \/ Start(t)
        \/ UNCHANGED <<observerListMutex, observableListMutex, session, pc, sig, cli>>
    BY DEF Next, Run, Crash, Disconnect, vars
  <2> QED
    BY <2>1, <2>2, <2>3
<1> QED
  BY <1>1, <1>2 DEF LockInv

\* Before the first request nobody holds a lock.
LEMMA LockInit == Init => LockInv
BY TypeInit DEF Init, LockInv, Sessions, OneCloser, Locks

-----------------------------------------------------------------------------
(* The theorems. *)

\* The variables keep their types, and a thread works on a signal and a client
\* that exist, however the requests of a session come.
THEOREM TypeCorrect == Spec => []TypeOK
<1>1. TypeInv => TypeOK
  BY DEF TypeInv
<1> QED
  BY TypeInit, TypeNext, <1>1, PTL DEF Spec

\* A lock is held by the thread that is between taking and releasing it, and by no
\* other, however many requests of a session are processed at once.
THEOREM LockInductive == Spec => []LockInv
BY LockInit, LockNext, PTL DEF Spec

\* With one request of a session at a time, what IInv says of the lists, the
\* locks and the places of the threads always holds.
THEOREM Inductive == ASSUME ~Pipelined PROVE Spec => []IInv
BY InvInit, InvNext, PTL DEF Spec

\* A context that is freed is in no observer list, and no thread that walks one
\* will update it: ~Observer finds every list (observer-pattern.hpp:35).
THEOREM Detached == ASSUME ~Pipelined PROVE Spec => []NoDanglingObserver
<1>1. IInv => NoDanglingObserver
  <2> SUFFICES ASSUME IInv, NEW c \in Client, session[c] = "freed"
               PROVE  /\ \A s \in Signal : observerList[s][c] = 0
                      /\ \A t \in Thread : pending[t][c] = 0
    BY DEF NoDanglingObserver
  <2>1. \A s \in Signal : observerList[s][c] = 0
    BY DEF IInv, Joined
  <2>2. ASSUME NEW t \in Thread PROVE pending[t][c] = 0
    <3>1. pending[t][c] \in Nat
      BY DEF IInv, TypeInv, TypeOK
    <3>2. pending[t][c] > 0 => sig[t] \in Signal /\ observerList[sig[t]][c] > 0
      BY DEF IInv, TypeInv, WorksOn, Walking
    <3> QED
      BY <2>1, <3>1, <3>2
  <2> QED
    BY <2>1, <2>2
<1> QED
  BY Inductive, <1>1, PTL

\* Between requests a client observes exactly the signals it holds, each once
\* (appendSignals, clientApp.cpp:37, and subtractSignals, clientApp.cpp:54).
THEOREM Agreement == ASSUME ~Pipelined PROVE Spec => []ListsAgree
<1>1. IInv => ListsAgree
  <2> SUFFICES ASSUME IInv, NEW c \in Client, NEW s \in Signal, session[c] = "live", Quiet(c)
               PROVE  /\ observerList[s][c] = subscribedSignals[c][s]
                      /\ subscribedSignals[c][s] <= 1
    BY DEF ListsAgree
  <2>1. Settled(c, s)
    BY DEF Settled, Quiet, Busy
  <2> QED
    BY <2>1 DEF IInv, Joined
<1> QED
  BY Inductive, <1>1, PTL

\* Once an unsubscription is answered, no walk that is under way will still push
\* the signal to the client (delObserver, observer-pattern.hpp:83, waits for it).
THEOREM Silence == ASSUME ~Pipelined PROVE Spec => []NoPushAfterUnsubscribe
<1>1. IInv => NoPushAfterUnsubscribe
  <2> SUFFICES ASSUME IInv, NEW t \in Thread, NEW c \in Client,
                      session[c] = "live", Quiet(c), pc[t] = "visit",
                      subscribedSignals[c][sig[t]] = 0
               PROVE  pending[t][c] = 0
    BY DEF NoPushAfterUnsubscribe
  <2>1. sig[t] \in Signal /\ pending[t][c] \in Nat
    BY DEF IInv, TypeInv, TypeOK, WorksOn
  <2>2. Settled(c, sig[t])
    BY DEF Settled, Quiet, Busy
  <2>3. observerList[sig[t]][c] = 0
    BY <2>1, <2>2 DEF IInv, Joined
  <2> QED
    BY <2>1, <2>3 DEF IInv, Walking
<1> QED
  BY Inductive, <1>1, PTL

\* addObserver never waits for the lock of the client while it holds the lock of
\* the signal, so that ~Observer, which takes them the other way round, cannot
\* close a cycle with it (observer-pattern.hpp:37, :78).
THEOREM LocksOrdered == Spec => []NoLockCycle
<1>1. LockInv => NoLockCycle
  <2> SUFFICES ASSUME LockInv, NEW t \in Thread, pc[t] = "link",
                      observableListMutex[cli[t]] # None
               PROVE  FALSE
    BY DEF NoLockCycle
  <2>1. cli[t] \in Client /\ session[cli[t]] = "live"
    BY DEF LockInv, TypeInv, WorksOn, Busy, Sessions
  <2>2. PICK u \in Thread : observableListMutex[cli[t]] = u
    BY <2>1 DEF LockInv, TypeInv, TypeOK
  <2>3. pc[u] \in {"leave", "detach"} /\ cli[u] = cli[t]
    BY <2>1, <2>2 DEF LockInv, Locks
  <2>4. session[cli[t]] = "dying"
    BY <2>3 DEF LockInv, Sessions
  <2> QED
    BY <2>1, <2>4
<1> QED
  BY LockInductive, <1>1, PTL

\* No step, of whatever thread, changes a list while notify or ~Observer walks it,
\* the step by which a client leaves a list in the middle of a walk included: every
\* change waits for the lock of the list (observer-pattern.hpp:53, :78, :85).
THEOREM WalkStable == Spec => WalkedListStable
<1> DEFINE Stable == \A t \in Thread :
             /\ {pc[t], pc'[t]} \subseteq {"visit", "drop"}
                => observerList'[sig[t]] = observerList[sig[t]]
             /\ {pc[t], pc'[t]} \subseteq {"leave", "detach"}
                => observableList'[cli[t]] = observableList[cli[t]]
<1>1. LockInv /\ [Next]_vars => [Stable]_vars
  <2> SUFFICES ASSUME LockInv, Next, NEW t \in Thread
               PROVE  /\ pc[t] \in {"visit", "drop"}
                         => observerList'[sig[t]] = observerList[sig[t]]
                      /\ pc[t] \in {"leave", "detach"}
                         => observableList'[cli[t]] = observableList[cli[t]]
    OBVIOUS
  <2>1. pc[t] \in {"visit", "drop"} => sig[t] \in Signal /\ observerListMutex[sig[t]] # None
    BY DEF LockInv, TypeInv, WorksOn, Locks
  <2>2. pc[t] \in {"leave", "detach"} => cli[t] \in Client /\ observableListMutex[cli[t]] # None
    BY DEF LockInv, TypeInv, WorksOn, Locks, Busy
  <2>3. \/ UNCHANGED <<observerList, observableList>>
        \/ \E u \in Thread : Attach(u) \/ Link(u) \/ DelObserver(u)
    BY DEF Next, Run, Continue, Start, Crash, Record, MakeEvent, Watch, Unwatch, NotifyLock,
           Update, NotifyEnd, CloseLock, Leave, CloseEnd, Subscribe, Unsubscribe, Close, Set,
           Disconnect
  <2>4. ASSUME NEW u \in Thread, Attach(u) \/ DelObserver(u)
        PROVE  /\ pc[t] \in {"visit", "drop"}
                  => observerList'[sig[t]] = observerList[sig[t]]
               /\ observableList' = observableList
    BY <2>1, <2>4 DEF Attach, DelObserver, LockInv, TypeInv, TypeOK
  <2>5. ASSUME NEW u \in Thread, Link(u)
        PROVE  /\ pc[t] \in {"leave", "detach"}
                  => observableList'[cli[t]] = observableList[cli[t]]
               /\ observerList' = observerList
    BY <2>2, <2>5 DEF Link, LockInv, TypeInv, TypeOK
  <2> QED
    BY <2>3, <2>4, <2>5
<1> QED
  BY LockInductive, <1>1, PTL DEF Spec, WalkedListStable

-----------------------------------------------------------------------------
(* The event of a client is given back with its last signal. *)

\* The steps that neither record nor forget a signal, watch nor give back
\* (observer-pattern.hpp, and clientApp.cpp:69).
LEMMA EventsFrame ==
  ASSUME Events, UNCHANGED <<subscribedSignals, watching>>,
         \A c \in Client : session'[c] = "live" => session[c] = "live",
         \A t \in Thread :
           /\ pc'[t] \in {"makeEvent", "watch"} =>
                pc[t] \in {"makeEvent", "watch"} /\ cli'[t] = cli[t] /\ sig'[t] = sig[t]
           /\ pc[t] \in UnsubscribePc => pc'[t] \in UnsubscribePc /\ cli'[t] = cli[t]
  PROVE  Events'
<1>1. ASSUME NEW c \in Client, session'[c] = "live", watching'[c]
      PROVE  \/ \E s \in Signal : subscribedSignals'[c][s] > 0
             \/ \E t \in Thread : pc'[t] \in UnsubscribePc /\ cli'[t] = c
  <2>1. \/ \E s \in Signal : subscribedSignals[c][s] > 0
        \/ \E t \in Thread : pc[t] \in UnsubscribePc /\ cli[t] = c
    BY <1>1 DEF Events
  <2> QED
    BY <2>1
<1>2. \A t \in Thread : pc'[t] \in {"makeEvent", "watch"} =>
                          subscribedSignals'[cli'[t]][sig'[t]] > 0
  BY DEF Events
<1> QED
  BY <1>1, <1>2 DEF Events

\* The steps of a thread that walks, links or leaves lists.
LEMMA EventsContinue ==
  ASSUME IInv, Events, NEW t \in Thread,
         \/ Attach(t) \/ Link(t) \/ MakeEvent(t) \/ DelObserver(t)
         \/ NotifyLock(t) \/ (\E c \in Client : Update(t, c)) \/ NotifyEnd(t)
         \/ CloseLock(t) \/ (\E s \in Signal : Leave(t, s)) \/ CloseEnd(t)
  PROVE  Events'
<1> USE DEF IInv, TypeInv, TypeOK
<1>1. UNCHANGED <<subscribedSignals, watching>>
  BY DEF Attach, Link, MakeEvent, DelObserver, NotifyLock, Update, NotifyEnd, CloseLock,
         Leave, CloseEnd
<1>2. \A c \in Client : session'[c] = "live" => session[c] = "live"
  BY DEF Attach, Link, MakeEvent, DelObserver, NotifyLock, Update, NotifyEnd, CloseLock,
         Leave, CloseEnd
<1>3. \A u \in Thread :
           /\ pc'[u] \in {"makeEvent", "watch"} =>
                pc[u] \in {"makeEvent", "watch"} /\ cli'[u] = cli[u] /\ sig'[u] = sig[u]
           /\ pc[u] \in UnsubscribePc => pc'[u] \in UnsubscribePc /\ cli'[u] = cli[u]
  <2>1. CASE DelObserver(t)
    BY <2>1 DEF DelObserver
  <2>2. CASE NotifyLock(t) \/ NotifyEnd(t) \/ \E c \in Client : Update(t, c)
    BY <2>2 DEF NotifyLock, Update, NotifyEnd, Goto, Finish
  <2>3. CASE Attach(t) \/ Link(t) \/ MakeEvent(t)
    BY <2>3 DEF Attach, Link, MakeEvent, Goto
  <2>4. CASE CloseLock(t) \/ CloseEnd(t) \/ \E s \in Signal : Leave(t, s)
    BY <2>4 DEF CloseLock, Leave, CloseEnd, Goto, Finish
  <2> QED
    BY <2>1, <2>2, <2>3, <2>4
<1> QED
  BY <1>1, <1>2, <1>3, EventsFrame

\* appendSignals records the signal before makeSubscription (signal-composer-binding.cpp:48).
LEMMA EventsRecord ==
  ASSUME IInv, Events, NEW t \in Thread, Record(t)
  PROVE  Events'
<1> USE DEF IInv, TypeInv, TypeOK, Record, Goto
<1>1. sig[t] \in Signal /\ cli[t] \in Client
  BY DEF WorksOn, Busy
<1>2. \A c \in Client, s \in Signal : subscribedSignals[c][s] > 0 => subscribedSignals'[c][s] > 0
  BY <1>1
<1>3. subscribedSignals'[cli[t]][sig[t]] > 0
  BY <1>1
<1>4. \A u \in Thread : u # t /\ pc[u] \in {"makeEvent", "watch"} =>
                          cli[u] \in Client /\ sig[u] \in Signal
  BY DEF WorksOn, Busy
<1>5. ASSUME NEW c \in Client, session'[c] = "live", watching'[c]
      PROVE  \/ \E s \in Signal : subscribedSignals'[c][s] > 0
             \/ \E u \in Thread : pc'[u] \in UnsubscribePc /\ cli'[u] = c
  <2>1. \/ \E s \in Signal : subscribedSignals[c][s] > 0
        \/ \E u \in Thread : pc[u] \in UnsubscribePc /\ cli[u] = c
    BY <1>5 DEF Events
  <2> QED
    BY <1>2, <2>1
<1>6. \A u \in Thread : pc'[u] \in {"makeEvent", "watch"} =>
                          subscribedSignals'[cli'[u]][sig'[u]] > 0
  BY <1>2, <1>3, <1>4 DEF Events
<1> QED
  BY <1>5, <1>6 DEF Events

\* The signal of a subscription that is watched is held (clientApp.cpp:73).
LEMMA EventsWatch ==
  ASSUME IInv, Events, NEW t \in Thread, Watch(t)
  PROVE  Events'
<1> USE DEF IInv, TypeInv, TypeOK, Watch, Finish, Goto
<1>1. sig[t] \in Signal /\ cli[t] \in Client
  BY DEF WorksOn, Busy
<1>2. subscribedSignals[cli[t]][sig[t]] > 0
  BY DEF Events
<1>3. \A c \in Client : c # cli[t] => watching'[c] = watching[c]
  BY <1>1
<1>4. ASSUME NEW c \in Client, session'[c] = "live", watching'[c]
      PROVE  \/ \E s \in Signal : subscribedSignals'[c][s] > 0
             \/ \E u \in Thread : pc'[u] \in UnsubscribePc /\ cli'[u] = c
  <2>1. CASE c = cli[t]
    BY <1>1, <1>2, <2>1
  <2>2. CASE c # cli[t]
    <3>1. \/ \E s \in Signal : subscribedSignals[c][s] > 0
          \/ \E u \in Thread : pc[u] \in UnsubscribePc /\ cli[u] = c
      BY <1>3, <1>4, <2>2 DEF Events
    <3> QED
      BY <2>2, <3>1
  <2> QED
    BY <2>1, <2>2
<1>5. \A u \in Thread : pc'[u] \in {"makeEvent", "watch"} =>
                          subscribedSignals'[cli'[u]][sig'[u]] > 0
  BY DEF Events
<1> QED
  BY <1>4, <1>5 DEF Events

\* makeUnsubscription looks at what is left and gives back (clientApp.cpp:76).
LEMMA EventsUnwatch ==
  ASSUME IInv, Events, NEW t \in Thread, Unwatch(t)
  PROVE  Events'
<1> USE DEF IInv, TypeInv, TypeOK, Unwatch, Finish, Goto
<1>1. sig[t] \in Signal /\ cli[t] \in Client
  BY DEF WorksOn, Busy
<1>2. \A c \in Client : c # cli[t] => watching'[c] = watching[c]
  BY <1>1
<1>3. watching'[cli[t]] => subscribedSignals[cli[t]] # Nothing
  BY <1>1
<1>4. ASSUME NEW c \in Client, session'[c] = "live", watching'[c]
      PROVE  \/ \E s \in Signal : subscribedSignals'[c][s] > 0
             \/ \E u \in Thread : pc'[u] \in UnsubscribePc /\ cli'[u] = c
  <2>1. CASE c = cli[t]
    <3>1. subscribedSignals[c] # Nothing /\ subscribedSignals[c] \in [Signal -> Nat]
      BY <1>3, <1>4, <2>1
    <3>2. \E s \in Signal : subscribedSignals[c][s] # 0
      BY <3>1 DEF Nothing
    <3> QED
      BY <3>1, <3>2
  <2>2. CASE c # cli[t]
    <3>1. \/ \E s \in Signal : subscribedSignals[c][s] > 0
          \/ \E u \in Thread : pc[u] \in UnsubscribePc /\ cli[u] = c
      BY <1>2, <1>4, <2>2 DEF Events
    <3> QED
      BY <2>2, <3>1
  <2> QED
    BY <2>1, <2>2
<1>5. \A u \in Thread : pc'[u] \in {"makeEvent", "watch"} =>
                          subscribedSignals'[cli'[u]][sig'[u]] > 0
  BY DEF Events
<1> QED
  BY <1>4, <1>5 DEF Events

\* A request that begins: appendSignals goes straight to the event when the
\* signal is recorded already (clientApp.cpp:40), and the thread that makes a
\* client hold nothing any more is the one that will give back (clientApp.cpp:54).
LEMMA EventsStart ==
  ASSUME ~Pipelined, IInv, Events, NEW t \in Thread, Start(t)
  PROVE  Events'
<1> USE DEF IInv, TypeInv, TypeOK, Begin, Goto
<1>1. CASE \E s \in Signal : Set(t, s)
  BY <1>1, EventsFrame DEF Set
<1>2. ASSUME NEW c \in Client, NEW s \in Signal, Subscribe(t, c, s) PROVE Events'
  <2> USE <1>2 DEF Subscribe
  <2>1. ASSUME NEW d \in Client, session'[d] = "live", watching'[d]
        PROVE  \/ \E y \in Signal : subscribedSignals'[d][y] > 0
               \/ \E u \in Thread : pc'[u] \in UnsubscribePc /\ cli'[u] = d
    <3>1. \/ \E y \in Signal : subscribedSignals[d][y] > 0
          \/ \E u \in Thread : pc[u] \in UnsubscribePc /\ cli[u] = d
      BY <2>1 DEF Events
    <3> QED
      BY <3>1
  <2>2. \A u \in Thread : pc'[u] \in {"makeEvent", "watch"} =>
                            subscribedSignals'[cli'[u]][sig'[u]] > 0
    BY DEF Events
  <2> QED
    BY <2>1, <2>2 DEF Events
<1>3. ASSUME NEW c \in Client, NEW s \in Signal, Unsubscribe(t, c, s) PROVE Events'
  <2> USE <1>3 DEF Unsubscribe
  <2>1. \A u \in Thread : Busy(u) => cli[u] # c
    BY Free DEF MayRequest
  <2>2. \A d \in Client : d # c => subscribedSignals'[d] = subscribedSignals[d]
    OBVIOUS
  <2>3. ASSUME NEW d \in Client, session'[d] = "live", watching'[d]
        PROVE  \/ \E y \in Signal : subscribedSignals'[d][y] > 0
               \/ \E u \in Thread : pc'[u] \in UnsubscribePc /\ cli'[u] = d
    <3>1. CASE d = c
      BY <3>1
    <3>2. CASE d # c
      <4>1. \/ \E y \in Signal : subscribedSignals[d][y] > 0
            \/ \E u \in Thread : pc[u] \in UnsubscribePc /\ cli[u] = d
        BY <2>3 DEF Events
      <4> QED
        BY <2>2, <3>2, <4>1
    <3> QED
      BY <3>1, <3>2
  <2>4. \A u \in Thread : pc'[u] \in {"makeEvent", "watch"} =>
                            subscribedSignals'[cli'[u]][sig'[u]] > 0
    BY <2>1, <2>2 DEF Events, Busy, WorksOn
  <2> QED
    BY <2>3, <2>4 DEF Events
<1>4. ASSUME NEW c \in Client, Close(t, c) PROVE Events'
  <2> USE <1>4 DEF Close
  <2>1. \A u \in Thread : Busy(u) => cli[u] # c
    BY Free
  <2>2. \A d \in Client : d # c => subscribedSignals'[d] = subscribedSignals[d]
                                   /\ session'[d] = session[d]
    OBVIOUS
  <2>3. ASSUME NEW d \in Client, session'[d] = "live", watching'[d]
        PROVE  \/ \E y \in Signal : subscribedSignals'[d][y] > 0
               \/ \E u \in Thread : pc'[u] \in UnsubscribePc /\ cli'[u] = d
    <3>1. d # c
      BY <2>3
    <3>2. \/ \E y \in Signal : subscribedSignals[d][y] > 0
          \/ \E u \in Thread : pc[u] \in UnsubscribePc /\ cli[u] = d
      BY <2>2, <2>3, <3>1 DEF Events
    <3> QED
      BY <2>2, <3>1, <3>2
  <2>4. \A u \in Thread : pc'[u] \in {"makeEvent", "watch"} =>
                            subscribedSignals'[cli'[u]][sig'[u]] > 0
    BY <2>1, <2>2 DEF Events, Busy, WorksOn
  <2> QED
    BY <2>3, <2>4 DEF Events
<1> QED
  BY <1>1, <1>2, <1>3, <1>4 DEF Start

\* A client that holds no signal any more has given its event back, whichever of
\* its requests removed the last one (makeUnsubscription, clientApp.cpp:76).
THEOREM GivenBack == ASSUME ~Pipelined PROVE Spec => []EventGivenBack
<1>1. Init => Events
  BY DEF Init, Events
<1>2. IInv /\ Events /\ [Next]_vars => Events'
  <2> SUFFICES ASSUME IInv, Events, [Next]_vars PROVE Events'
    OBVIOUS
  <2>1. ASSUME NEW t \in Thread, Continue(t) PROVE Events'
    BY <2>1, EventsContinue, EventsRecord, EventsWatch, EventsUnwatch DEF Continue
  <2>2. ASSUME NEW t \in Thread, Start(t) PROVE Events'
    BY <2>2, EventsStart
  <2>3. ASSUME NEW c \in Client, Disconnect(c) PROVE Events'
    <3>1. \A d \in Client : watching'[d] => watching[d]
      BY <2>3 DEF Disconnect, IInv, TypeInv, TypeOK
    <3> QED
      BY <2>3, <3>1 DEF Disconnect, Events
  <2>4. ASSUME NEW t \in Thread, Crash(t) PROVE Events'
    BY <2>4, EventsFrame DEF Crash
  <2>5. ASSUME UNCHANGED vars PROVE Events'
    BY <2>5, EventsFrame DEF vars
  <2> QED
    BY <2>1, <2>2, <2>3, <2>4, <2>5 DEF Next, Run
<1>3. IInv /\ Events => EventGivenBack
  <2> SUFFICES ASSUME IInv, Events, NEW c \in Client, session[c] = "live", Quiet(c),
                      subscribedSignals[c] = Nothing, watching[c]
               PROVE  FALSE
    BY DEF EventGivenBack
  <2>1. \A s \in Signal : subscribedSignals[c][s] = 0
    BY DEF Nothing
  <2>2. \A t \in Thread : ~(pc[t] \in UnsubscribePc /\ cli[t] = c)
    BY DEF Quiet
  <2> QED
    BY <2>1, <2>2 DEF Events
<1> QED
  BY Inductive, <1>1, <1>2, <1>3, PTL DEF Spec

=============================================================================
