--------------------------- MODULE Subscriptions ---------------------------
(***************************************************************************)
(* Clients, signals and the observer lists that join them: the templates   *)
(* of observer-pattern.hpp, clientAppCtx, and the two branches of          *)
(* signal_verb that subscribe and unsubscribe a client.                    *)
(*                                                                         *)
(* Threads of the binder run three kinds of work at the same time: a       *)
(* request of a client, the arrival of a value (Signal::set, which         *)
(* notifies the observers), and the destruction of the context of a        *)
(* session that ends.  A critical section that takes no second lock is one *)
(* step; the others (addObserver, notify, ~Observer) are one step for each *)
(* lock they take.  A list is the bag of its elements: its order is left   *)
(* out, no property tells it apart.                                        *)
(***************************************************************************)
EXTENDS Naturals

CONSTANTS
  Signal,     \* the signals; they live as long as the model runs
  Client,     \* the client contexts, one for each session
  Thread,     \* the threads of the binder
  None,       \* no thread, no signal, no client
  Pipelined,  \* may a session have several requests being processed at once
  Faults      \* what may fail outside: a connection, a subscription

ASSUME NoneAssumption == None \notin Signal \cup Client \cup Thread
ASSUME PipelinedAssumption == Pipelined \in BOOLEAN
ASSUME FaultsAssumption == Faults \subseteq {"disconnect", "refuse"}

VARIABLES
  observerList,       \* Observable::observerList_, how often each client is in it
  observerListMutex,  \* the thread that holds Observable::observerListMutex_
  observableList,     \* Observer::observableList_, addObservable allows no duplicate
  observableListMutex,\* the thread that holds Observer::observableListMutex_
  subscribedSignals,  \* clientAppCtx::subscribedSignals_, how often each signal is in it
  event,              \* is clientAppCtx::event_ a valid event
  watching,           \* does the framework forward that event to the client
  session,            \* the life of the context
  pc, sig, cli,       \* where each thread is, and the signal and client it works on
  pending,            \* the observers a thread in notify has still to visit
  remaining,          \* the observables a thread in ~Observer has still to leave
  crashed             \* the process has been aborted

shared == <<observerList, observerListMutex, observableList, observableListMutex,
            subscribedSignals, event, watching, session>>
local  == <<pc, sig, cli, pending, remaining>>
vars   == <<shared, local, crashed>>

Nobody  == [c \in Client |-> 0]
Nothing == [s \in Signal |-> 0]

SubscribePc   == {"attach", "link", "record", "makeEvent", "watch"}
UnsubscribePc == {"subtract", "unwatch"}
ClosePc       == {"close", "leave", "detach"}
NotifyPc      == {"notify", "visit", "drop"}
RequestPc     == SubscribePc \cup UnsubscribePc
Pc            == {"idle"} \cup RequestPc \cup ClosePc \cup NotifyPc

TypeOK ==
  /\ observerList        \in [Signal -> [Client -> Nat]]
  /\ observerListMutex   \in [Signal -> Thread \cup {None}]
  /\ observableList      \in [Client -> SUBSET Signal]
  /\ observableListMutex \in [Client -> Thread \cup {None}]
  /\ subscribedSignals   \in [Client -> [Signal -> Nat]]
  /\ event               \in [Client -> BOOLEAN]
  /\ watching            \in [Client -> BOOLEAN]
  /\ session             \in [Client -> {"live", "dying", "freed"}]
  /\ pc                  \in [Thread -> Pc]
  /\ sig                 \in [Thread -> Signal \cup {None}]
  /\ cli                 \in [Thread -> Client \cup {None}]
  /\ pending             \in [Thread -> [Client -> Nat]]
  /\ remaining           \in [Thread -> SUBSET Signal]
  /\ crashed             \in BOOLEAN

Init ==
  /\ observerList        = [s \in Signal |-> Nobody]
  /\ observerListMutex   = [s \in Signal |-> None]
  /\ observableList      = [c \in Client |-> {}]
  /\ observableListMutex = [c \in Client |-> None]
  /\ subscribedSignals   = [c \in Client |-> Nothing]
  /\ event               = [c \in Client |-> FALSE]
  /\ watching            = [c \in Client |-> FALSE]
  /\ session             = [c \in Client |-> "live"]
  /\ pc                  = [t \in Thread |-> "idle"]
  /\ sig                 = [t \in Thread |-> None]
  /\ cli                 = [t \in Thread |-> None]
  /\ pending             = [t \in Thread |-> Nobody]
  /\ remaining           = [t \in Thread |-> {}]
  /\ crashed             = FALSE

-----------------------------------------------------------------------------
(* Steps of a thread. *)

Goto(t, from, to) ==
  /\ pc[t] = from
  /\ pc' = [pc EXCEPT ![t] = to]

Begin(t, to, s, c) ==
  /\ Goto(t, "idle", to)
  /\ sig' = [sig EXCEPT ![t] = s]
  /\ cli' = [cli EXCEPT ![t] = c]

Finish(t, from) ==
  /\ Goto(t, from, "idle")
  /\ sig' = [sig EXCEPT ![t] = None]
  /\ cli' = [cli EXCEPT ![t] = None]

\* A request of client c is being processed.
InFlight(c) == \E t \in Thread : pc[t] \in RequestPc /\ cli[t] = c

\* The framework dispatches a request of a session that has not ended.
MayRequest(c) ==
  /\ session[c] = "live"
  /\ Pipelined \/ ~InFlight(c)

-----------------------------------------------------------------------------
(* Subscribing: appendSignals, then makeSubscription. *)

\* appendSignals looks the signal up among the ones subscribed.
Subscribe(t, c, s) ==
  /\ MayRequest(c)
  /\ Begin(t, IF subscribedSignals[c][s] > 0 THEN "makeEvent" ELSE "attach", s, c)
  /\ UNCHANGED <<shared, pending, remaining>>

\* addObserver takes the lock of the signal and appends the client ...
Attach(t) ==
  /\ Goto(t, "attach", "link")
  /\ observerListMutex[sig[t]] = None
  /\ observerListMutex' = [observerListMutex EXCEPT ![sig[t]] = t]
  /\ observerList' = [observerList EXCEPT ![sig[t]][cli[t]] = @ + 1]
  /\ UNCHANGED <<observableList, observableListMutex, subscribedSignals, event,
                 watching, session, sig, cli, pending, remaining>>

\* Mutants: addObservable is not called; it does not release its lock.
LinkForgotten(t) ==
  /\ Goto(t, "link", "record")
  /\ observerListMutex' = [observerListMutex EXCEPT ![sig[t]] = None]
  /\ UNCHANGED <<observerList, observableList, observableListMutex, subscribedSignals,
                 event, watching, session, sig, cli, pending, remaining>>

LinkStaysLocked(t) ==
  /\ Goto(t, "link", "record")
  /\ observableListMutex[cli[t]] = None
  /\ observableListMutex' = [observableListMutex EXCEPT ![cli[t]] = t]
  /\ observableList' = [observableList EXCEPT ![cli[t]] = @ \cup {sig[t]}]
  /\ observerListMutex' = [observerListMutex EXCEPT ![sig[t]] = None]
  /\ UNCHANGED <<observerList, subscribedSignals, event, watching, session,
                 sig, cli, pending, remaining>>

\* ... and, holding it, addObservable takes the lock of the client.
Link(t) ==
  /\ Goto(t, "link", "record")
  /\ observableListMutex[cli[t]] = None
  /\ observableList' = [observableList EXCEPT ![cli[t]] = @ \cup {sig[t]}]
  /\ observerListMutex' = [observerListMutex EXCEPT ![sig[t]] = None]
  /\ UNCHANGED <<observerList, observableListMutex, subscribedSignals, event,
                 watching, session, sig, cli, pending, remaining>>

\* Mutant: the signal is not recorded.
RecordNothing(t) ==
  /\ Goto(t, "record", "makeEvent")
  /\ UNCHANGED <<shared, sig, cli, pending, remaining>>

\* appendSignals records the signal.
Record(t) ==
  /\ Goto(t, "record", "makeEvent")
  /\ subscribedSignals' = [subscribedSignals EXCEPT ![cli[t]][sig[t]] = @ + 1]
  /\ UNCHANGED <<observerList, observerListMutex, observableList, observableListMutex,
                 event, watching, session, sig, cli, pending, remaining>>

\* makeSubscription creates the event at the first subscription ...
MakeEvent(t) ==
  /\ Goto(t, "makeEvent", "watch")
  /\ event' = [event EXCEPT ![cli[t]] = TRUE]
  /\ UNCHANGED <<observerList, observerListMutex, observableList, observableListMutex,
                 subscribedSignals, watching, session, sig, cli, pending, remaining>>

\* ... and has the framework forward it to the client, which may be refused.
\* Either way the request is answered.
Watch(t) ==
  /\ Finish(t, "watch")
  /\ \/ watching' = [watching EXCEPT ![cli[t]] = TRUE]
     \/ "refuse" \in Faults /\ UNCHANGED watching
  /\ UNCHANGED <<observerList, observerListMutex, observableList, observableListMutex,
                 subscribedSignals, event, session, pending, remaining>>

-----------------------------------------------------------------------------
(* delObserver: unsubscribing, notify and ~Observer all call it. *)

\* Mutant: what is not found is erased all the same.
DecrementBlindly(n) == n - 1

\* The first occurrence is erased, if there is one.
Decrement(n) == IF n > 0 THEN n - 1 ELSE 0

\* Mutants: delObserver does not wait for the lock; the signal is erased from the
\* list of the client as well.
DelObserverUnlocked(t) ==
  /\ pc[t] \in {"subtract", "drop", "detach"}
  /\ observerList' = [observerList EXCEPT ![sig[t]][cli[t]] = Decrement(@)]
  /\ pc' = [pc EXCEPT ![t] = CASE @ = "subtract" -> "unwatch"
                               [] @ = "drop"     -> "visit"
                               [] @ = "detach"   -> "leave"]
  /\ UNCHANGED <<observerListMutex, observableList, observableListMutex,
                 subscribedSignals, event, watching, session, sig, cli, pending, remaining>>

DelObserverTells(t) ==
  /\ pc[t] \in {"subtract", "drop", "detach"}
  /\ observerListMutex[sig[t]] = None
  /\ observerList' = [observerList EXCEPT ![sig[t]][cli[t]] = Decrement(@)]
  /\ observableList' = [observableList EXCEPT ![cli[t]] = @ \ {sig[t]}]
  /\ pc' = [pc EXCEPT ![t] = CASE @ = "subtract" -> "unwatch"
                               [] @ = "drop"     -> "visit"
                               [] @ = "detach"   -> "leave"]
  /\ UNCHANGED <<observerListMutex, observableListMutex,
                 subscribedSignals, event, watching, session, sig, cli, pending, remaining>>

\* The first occurrence of the client is erased under the lock of the signal.  The
\* callers go on: subtractSignals (clientApp.cpp:65), clientAppCtx::update in the
\* walk of notify (clientApp.cpp:31), ~Observer in its own (observer-pattern.hpp:40).
DelObserver(t) ==
  /\ pc[t] \in {"subtract", "drop", "detach"}
  /\ observerListMutex[sig[t]] = None
  /\ observerList' = [observerList EXCEPT ![sig[t]][cli[t]] = Decrement(@)]
  /\ pc' = [pc EXCEPT ![t] = CASE @ = "subtract" -> "unwatch"
                               [] @ = "drop"     -> "visit"
                               [] @ = "detach"   -> "leave"]
  /\ UNCHANGED <<observerListMutex, observableList, observableListMutex,
                 subscribedSignals, event, watching, session, sig, cli, pending, remaining>>

-----------------------------------------------------------------------------
(* Unsubscribing: subtractSignals, then makeUnsubscription. *)

\* Mutant: the signal stays in subscribedSignals_.
UnsubscribeKept(t, c, s) ==
  /\ MayRequest(c)
  /\ Begin(t, "subtract", s, c)
  /\ UNCHANGED <<shared, pending, remaining>>

\* subtractSignals forgets the signal first.
Unsubscribe(t, c, s) ==
  /\ MayRequest(c)
  /\ Begin(t, "subtract", s, c)
  /\ subscribedSignals' = [subscribedSignals EXCEPT ![c][s] = Decrement(@)]
  /\ UNCHANGED <<observerList, observerListMutex, observableList, observableListMutex,
                 event, watching, session, pending, remaining>>

\* Mutant: the test for the last signal is inverted.
UnwatchInverted(t) ==
  /\ Finish(t, "unwatch")
  /\ watching' = [watching EXCEPT ![cli[t]] = @ /\ subscribedSignals[cli[t]] = Nothing]
  /\ UNCHANGED <<observerList, observerListMutex, observableList, observableListMutex,
                 subscribedSignals, event, session, pending, remaining>>

\* The event is given back with the last signal.  Without a signal and without
\* a valid event, or when the client did not watch it, the request fails.
Unwatch(t) ==
  /\ Finish(t, "unwatch")
  /\ watching' = [watching EXCEPT ![cli[t]] = @ /\ subscribedSignals[cli[t]] # Nothing]
  /\ UNCHANGED <<observerList, observerListMutex, observableList, observableListMutex,
                 subscribedSignals, event, session, pending, remaining>>

-----------------------------------------------------------------------------
(* Signal::set ends with notify, which updates every observer under the lock. *)

Set(t, s) ==
  /\ Begin(t, "notify", s, None)
  /\ UNCHANGED <<shared, pending, remaining>>

NotifyLock(t) ==
  /\ Goto(t, "notify", "visit")
  /\ observerListMutex[sig[t]] = None
  /\ observerListMutex' = [observerListMutex EXCEPT ![sig[t]] = t]
  /\ pending' = [pending EXCEPT ![t] = observerList[sig[t]]]
  /\ UNCHANGED <<observerList, observableList, observableListMutex, subscribedSignals,
                 event, watching, session, sig, cli, remaining>>

\* clientAppCtx::update.  Nothing is pushed before the event exists; a push that
\* reaches nobody makes the client leave the list that is being walked.
Update(t, c) ==
  /\ pc[t] = "visit"
  /\ pending[t][c] > 0
  /\ session[c] = "live"
  /\ pending' = [pending EXCEPT ![t][c] = @ - 1]
  /\ \/ /\ event[c] => watching[c]
        /\ UNCHANGED <<pc, cli>>
     \/ /\ event[c] /\ ~watching[c]
        /\ pc' = [pc EXCEPT ![t] = "drop"]
        /\ cli' = [cli EXCEPT ![t] = c]
  /\ UNCHANGED <<shared, sig, remaining>>

\* Mutant: notify does not release its lock.
NotifyEndLocked(t) ==
  /\ Finish(t, "visit")
  /\ pending[t] = Nobody
  /\ UNCHANGED <<shared, pending, remaining>>

\* The walk is over and the lock released.
NotifyEnd(t) ==
  /\ Finish(t, "visit")
  /\ pending[t] = Nobody
  /\ observerListMutex' = [observerListMutex EXCEPT ![sig[t]] = None]
  /\ UNCHANGED <<observerList, observableList, observableListMutex, subscribedSignals,
                 event, watching, session, pending, remaining>>

\* The object is past ~clientAppCtx: update is the pure virtual of Observer.
UpdateDying(t, c) ==
  /\ pc[t] = "visit"
  /\ pending[t][c] > 0
  /\ session[c] # "live"

-----------------------------------------------------------------------------
(* The session ends: destroyContext, whose ~Observer leaves every observable. *)

\* The framework keeps a context while a request of its session uses it.
Close(t, c) ==
  /\ session[c] = "live"
  /\ ~InFlight(c)
  /\ Begin(t, "close", None, c)
  /\ session' = [session EXCEPT ![c] = "dying"]
  /\ subscribedSignals' = [subscribedSignals EXCEPT ![c] = Nothing]
  /\ UNCHANGED <<observerList, observerListMutex, observableList, observableListMutex,
                 event, watching, pending, remaining>>

CloseLock(t) ==
  /\ Goto(t, "close", "leave")
  /\ observableListMutex[cli[t]] = None
  /\ observableListMutex' = [observableListMutex EXCEPT ![cli[t]] = t]
  /\ remaining' = [remaining EXCEPT ![t] = observableList[cli[t]]]
  /\ UNCHANGED <<observerList, observerListMutex, observableList, subscribedSignals,
                 event, watching, session, sig, cli, pending>>

Leave(t, s) ==
  /\ Goto(t, "leave", "detach")
  /\ s \in remaining[t]
  /\ sig' = [sig EXCEPT ![t] = s]
  /\ remaining' = [remaining EXCEPT ![t] = @ \ {s}]
  /\ UNCHANGED <<shared, cli, pending>>

CloseEnd(t) ==
  /\ Finish(t, "leave")
  /\ remaining[t] = {}
  /\ observableListMutex' = [observableListMutex EXCEPT ![cli[t]] = None]
  /\ session' = [session EXCEPT ![cli[t]] = "freed"]
  /\ UNCHANGED <<observerList, observerListMutex, observableList, subscribedSignals,
                 event, watching, pending, remaining>>

\* The connection of a client is lost, its session stays.
Disconnect(c) ==
  /\ "disconnect" \in Faults
  /\ watching[c]
  /\ watching' = [watching EXCEPT ![c] = FALSE]
  /\ UNCHANGED <<observerList, observerListMutex, observableList, observableListMutex,
                 subscribedSignals, event, session, local>>

-----------------------------------------------------------------------------
\* What a thread does once it has begun.
Continue(t) ==
  \/ Attach(t) \/ Link(t) \/ Record(t) \/ MakeEvent(t) \/ Watch(t)
  \/ DelObserver(t) \/ Unwatch(t)
  \/ NotifyLock(t) \/ (\E c \in Client : Update(t, c)) \/ NotifyEnd(t)
  \/ CloseLock(t) \/ (\E s \in Signal : Leave(t, s)) \/ CloseEnd(t)

Start(t) ==
  \/ \E c \in Client, s \in Signal : Subscribe(t, c, s) \/ Unsubscribe(t, c, s)
  \/ \E c \in Client : Close(t, c)
  \/ \E s \in Signal : Set(t, s)

Crash(t) ==
  /\ \E c \in Client : UpdateDying(t, c)
  /\ crashed' = TRUE
  /\ UNCHANGED <<shared, local>>

Run(t) ==
  /\ ~crashed
  /\ \/ Continue(t) /\ UNCHANGED crashed
     \/ Crash(t)

Next ==
  \/ \E t \in Thread : Run(t)
  \/ /\ ~crashed
     /\ \/ \E t \in Thread : Start(t)
        \/ \E c \in Client : Disconnect(c)
     /\ UNCHANGED crashed

Spec == Init /\ [][Next]_vars

\* Threads are scheduled; nobody is obliged to begin anything.
Fairness == \A t \in Thread : WF_vars(Run(t))

FairSpec == Spec /\ Fairness

-----------------------------------------------------------------------------
(* Properties. *)

\* Nothing of client c is under way.
Quiet(c) == \A t \in Thread : cli[t] = c => pc[t] \notin RequestPc \cup ClosePc

\* A freed context is in no observer list and no thread is about to update it:
\* ~Observer finds every list the client is in, although delObserver never
\* tells the observer which list it has left (observer-pattern.hpp:37, :85).
NoDanglingObserver ==
  \A c \in Client : session[c] = "freed" =>
    /\ \A s \in Signal : observerList[s][c] = 0
    /\ \A t \in Thread : pending[t][c] = 0

\* Between two requests the client and the signals agree: it is an observer,
\* once, of exactly the signals it has in subscribedSignals_.
ListsAgree ==
  \A c \in Client, s \in Signal :
    session[c] = "live" /\ Quiet(c) =>
      /\ observerList[s][c] = subscribedSignals[c][s]
      /\ subscribedSignals[c][s] <= 1

\* Once an unsubscription has been answered no thread, not even one that was
\* notifying before the request, will push that signal to the client.
NoPushAfterUnsubscribe ==
  \A t \in Thread, c \in Client :
    /\ session[c] = "live" /\ Quiet(c)
    /\ pc[t] = "visit"
    /\ subscribedSignals[c][sig[t]] = 0
    => pending[t][c] = 0

\* "Clean up already subscribed signals to avoid duplicata" (clientApp.cpp:40):
\* no client is twice in the observer list of a signal.
NoDuplicateObserver ==
  \A s \in Signal, c \in Client : observerList[s][c] <= 1

\* A client that holds no signal any more has given its event back
\* (makeUnsubscription; "When no more signals are holded by the client then it
\* unsubscribe", docs/part-1/4-SignalComposerAPI.md:19).
EventGivenBack ==
  \A c \in Client :
    session[c] = "live" /\ Quiet(c) /\ subscribedSignals[c] = Nothing => ~watching[c]

\* No step of any thread changes a list from the begin to the end of the loop
\* that walks it, so that its iterator stays valid: the list of the signal in
\* notify, even when the update of a visited client calls delObserver, and the
\* list of the client in ~Observer, even while delObserver waits for a lock.
WalkedListStable ==
  [][\A t \in Thread :
       /\ {pc[t], pc'[t]} \subseteq {"visit", "drop"}
          => observerList'[sig[t]] = observerList[sig[t]]
       /\ {pc[t], pc'[t]} \subseteq {"leave", "detach"}
          => observableList'[cli[t]] = observableList[cli[t]]]_vars

\* The locks are ordered: addObserver and ~Observer take the locks of a signal
\* and of a client in opposite orders, yet never wait for each other.  A thread
\* in addObserver finds the lock of its client free.
NoLockCycle ==
  \A t \in Thread : pc[t] = "link" => observableListMutex[cli[t]] = None

\* A thread that waits for a lock it holds itself.
SelfLocked(t) == pc[t] = "drop" /\ observerListMutex[sig[t]] = t

\* Whatever has begun is completed and answered, unless some thread locks
\* itself out in update, or the process is aborted.  A mutex promises no order
\* among the threads that wait, so the work has to come to an end for that.
Completes ==
  /\ [](\A t \in Thread : ~SelfLocked(t) /\ ~crashed)
  /\ <>[][\A t \in Thread : ~Start(t)]_vars
  => \A t \in Thread : pc[t] # "idle" ~> pc[t] = "idle"

\* "Using subscribe you can get update on change for signals you chose"
\* (docs/part-1/4-SignalComposerAPI.md:5): the arrival of a value is pushed to
\* every client that had subscribed before.
UpdatesDelivered ==
  \A t \in Thread, c \in Client :
    pc[t] = "visit" /\ pending[t][c] > 0 /\ watching[c] ~> pending[t][c] = 0 \/ crashed

=============================================================================
