-------------------------- MODULE SubscriptionsInv --------------------------
(***************************************************************************)
(* The inductive invariants of Subscriptions: LockInv, of the locks, however*)
(* the requests of a session come, and IInv, of the lists too, when it has *)
(* one processed at a time.  They say, for every place a thread may be at, *)
(* what it has done so far and what it holds.                              *)
(***************************************************************************)
EXTENDS Subscriptions

Busy(t) == pc[t] \in RequestPc \cup ClosePc

\* A thread works on a signal and a client that exist.
WorksOn ==
  \A t \in Thread :
    /\ pc[t] \in RequestPc \cup NotifyPc \cup {"detach"} => sig[t] \in Signal
    /\ Busy(t) \/ pc[t] = "drop" => cli[t] \in Client

\* A client has one request, or its own end, under way, and is alive meanwhile.
OneAtATime ==
  \A t, u \in Thread : Busy(t) /\ Busy(u) /\ cli[t] = cli[u] => t = u

Sessions ==
  \A t \in Thread :
    /\ pc[t] \in RequestPc => session[cli[t]] = "live"
    /\ pc[t] \in ClosePc => session[cli[t]] = "dying"

\* The locks are held by the threads that are between taking and releasing them.
Locks ==
  \A t \in Thread :
    /\ \A s \in Signal :
         observerListMutex[s] = t <=> pc[t] \in {"link", "visit", "drop"} /\ sig[t] = s
    /\ \A c \in Client :
         observableListMutex[c] = t <=> pc[t] \in {"leave", "detach"} /\ cli[t] = c

BackLink(c, s) == observerList[s][c] > 0 => s \in observableList[c]

\* No request is changing what joins client c and signal s.
Settled(c, s) ==
  \A t \in Thread : Busy(t) /\ cli[t] = c => sig[t] # s \/ pc[t] \in {"makeEvent", "watch"}

Joined ==
  \A c \in Client, s \in Signal :
    /\ observerList[s][c] <= 1
    /\ session[c] = "live" /\ Settled(c, s) =>
         observerList[s][c] = subscribedSignals[c][s] /\ BackLink(c, s)
    /\ session[c] = "freed" => observerList[s][c] = 0

InProgress ==
  \A t \in Thread :
    LET s == sig[t]
        c == cli[t]
    IN  /\ pc[t] \in {"attach", "link", "record", "subtract"} => subscribedSignals[c][s] = 0
        /\ pc[t] \in {"attach", "unwatch"} => observerList[s][c] = 0
        /\ pc[t] \in {"link", "record"} => observerList[s][c] = 1
        /\ pc[t] \in {"record", "subtract"} => BackLink(c, s)
        /\ pc[t] = "unwatch" => subscribedSignals[c][s] = 0

\* The lists that ~Observer has still to leave.
ToLeave(t) ==
  IF pc[t] = "close" THEN observableList[cli[t]]
  ELSE IF pc[t] = "leave" THEN remaining[t] ELSE remaining[t] \cup {sig[t]}

Leaving ==
  \A t \in Thread : pc[t] \in ClosePc =>
    \A s \in Signal : observerList[s][cli[t]] > 0 => s \in ToLeave(t)

\* A walk visits no client that is not in the list it walks.
Walking ==
  \A t \in Thread, c \in Client : pending[t][c] > 0 =>
    pc[t] \in {"visit", "drop"} /\ observerList[sig[t]][c] > 0

TypeInv == TypeOK /\ WorksOn

\* A session is ended once.
OneCloser ==
  \A t, u \in Thread : pc[t] \in ClosePc /\ pc[u] \in ClosePc /\ cli[t] = cli[u] => t = u

LockInv == TypeInv /\ Sessions /\ OneCloser /\ Locks

IInv ==
  /\ TypeInv /\ OneAtATime /\ Sessions /\ Locks
  /\ Joined /\ InProgress /\ Leaving /\ Walking

\* Who watches an event holds a signal, or a thread is about to see that it does
\* not; a subscription that has come to its event has recorded its signal.
Events ==
  /\ \A c \in Client : session[c] = "live" /\ watching[c] =>
       \/ \E s \in Signal : subscribedSignals[c][s] > 0
       \/ \E t \in Thread : pc[t] \in UnsubscribePc /\ cli[t] = c
  /\ \A t \in Thread :
       pc[t] \in {"makeEvent", "watch"} => subscribedSignals[cli[t]][sig[t]] > 0

=============================================================================
