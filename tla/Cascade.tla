------------------------------- MODULE Cascade -------------------------------
(***************************************************************************)
(* A value on its way from the signal it arrives for to the virtual signals*)
(* computed from it and to their clients: Signal::set, notify, and the two *)
(* updates, of a signal and of a client.                                   *)
(*                                                                         *)
(* A thread that sets a signal walks its observers under its lock.  The    *)
(* update of a virtual signal reads its dependencies, which no lock        *)
(* protects, and runs its action, which may set the virtual signal: a walk *)
(* inside the walk, with one more lock.  What a thread holds is a chain    *)
(* from the signal that an event set (`caller') to the innermost (`top').  *)
(* The graph of the signals is any graph: the recursion check "ignores" a  *)
(* signal that observes itself, and leaves it in the observer lists.       *)
(*                                                                         *)
(* A value is a version number: what a property can tell of a value is     *)
(* which one it is, and from which values it was computed (`basis').       *)
(***************************************************************************)
EXTENDS Naturals

CONSTANTS
  Signal,    \* the signals of the composer
  Client,    \* the clients that have subscribed
  Thread,    \* the threads of the binder
  None,      \* no thread, no signal
  Depends,   \* dependsSigV_, the signals that the action of a signal is given
  Observes,  \* those it is attached to: not one that was defined again after it
  Watches,   \* the signals each client has subscribed to
  Filtering, \* the signals whose action may leave them unset
  Clear,     \* the signals from which the observers lead into no loop
  Rank,      \* a witness of that: among these, the observers climb
  Root,      \* for some signals, the only signal events set that reaches them
  MaxSets    \* the number of values that events give each signal, a bound

Raw == {s \in Signal : Depends[s] = {}}

ASSUME NoneAssumption == None \notin Signal \cup Client \cup Thread
ASSUME KindAssumption == Signal \cap Client = {} /\ Filtering \subseteq Signal
ASSUME BoundAssumption == MaxSets \in [Signal -> Nat]
ASSUME GraphAssumption ==
  /\ Depends \in [Signal -> SUBSET Signal] /\ Observes \in [Signal -> SUBSET Signal]
  /\ Watches \in [Client -> SUBSET Signal]
  /\ \A s \in Signal : Observes[s] \subseteq Depends[s]
\* No restriction: every finite graph has such a set, the empty one at least.
\* With the largest one, Clear are the signals that a recursion check made now
\* would accept.
ASSUME ClearAssumption ==
  /\ Clear \subseteq Signal /\ Rank \in [Signal -> Nat]
  /\ \A s \in Signal : \A d \in Observes[s] \cap Clear : s \in Clear /\ Rank[d] < Rank[s]
ASSUME RootAssumption ==
  /\ Root \in [Signal -> Signal \cup {None}]
  /\ \A s \in Raw : Root[s] = s
  /\ \A s \in Signal \ Raw : Root[s] # None =>
       /\ Root[s] \in Raw
       /\ Observes[s] = Depends[s]
       /\ \A d \in Depends[s] : Root[d] = Root[s]

VARIABLES
  ver,     \* value_ of each signal, as the number of times it was set
  basis,   \* the values of the dependencies that its action was last done with
  seen,    \* the last value of a signal that a client was pushed
  lock,    \* the thread that holds observerListMutex_
  todo,    \* the observers that the walk of this signal has still to update
  caller,  \* the signal in whose walk this signal was set, of one that is locked
  depth,   \* how many locks its holder took before; no action depends on it
  pc,      \* where each thread is
  top,     \* the signal whose observers a thread is walking
  cur,     \* the signal it sets or updates
  toRead,  \* the dependencies an update has still to read
  got,     \* those it has read
  held     \* the value that is about to be pushed

walk   == <<lock, todo, caller, depth>>
values == <<ver, basis, seen>>
vars   == <<values, walk, pc, top, cur, toRead, got, held>>

Observers(s) == {v \in Signal : s \in Observes[v]} \cup {c \in Client : s \in Watches[c]}

NoValue == [s \in Signal |-> 0]

TypeOK ==
  /\ ver    \in [Signal -> Nat]
  /\ basis  \in [Signal -> [Signal -> Nat]]
  /\ seen   \in [Signal -> [Client -> Nat]]
  /\ lock   \in [Signal -> Thread \cup {None}]
  /\ todo   \in [Signal -> SUBSET (Signal \cup Client)]
  /\ caller \in [Signal -> Signal \cup {None}]
  /\ depth  \in [Signal -> Nat]
  /\ pc     \in [Thread -> {"idle", "lock", "visit", "read", "act", "push"}]
  /\ top    \in [Thread -> Signal \cup {None}]
  /\ cur    \in [Thread -> Signal \cup Client \cup {None}]
  /\ toRead \in [Thread -> SUBSET Signal]
  /\ got    \in [Thread -> [Signal -> Nat]]
  /\ held   \in [Thread -> Nat]
  /\ \A t \in Thread :
       /\ pc[t] \in {"visit", "read", "act", "push"} => top[t] \in Signal
       /\ pc[t] \in {"lock", "read", "act"} => cur[t] \in Signal
       /\ pc[t] = "push" => cur[t] \in Client

Init ==
  /\ ver    = NoValue
  /\ basis  = [s \in Signal |-> NoValue]
  /\ seen   = [s \in Signal |-> [c \in Client |-> 0]]
  /\ lock   = [s \in Signal |-> None]
  /\ todo   = [s \in Signal |-> {}]
  /\ caller = [s \in Signal |-> None]
  /\ depth  = NoValue
  /\ pc     = [t \in Thread |-> "idle"]
  /\ top    = [t \in Thread |-> None]
  /\ cur    = [t \in Thread |-> None]
  /\ toRead = [t \in Thread |-> {}]
  /\ got    = [t \in Thread |-> NoValue]
  /\ held   = [t \in Thread |-> 0]

Goto(t, from, to) ==
  /\ pc[t] = from
  /\ pc' = [pc EXCEPT ![t] = to]

-----------------------------------------------------------------------------
(* Signal::set and notify *)

\* An event gives a signal a value, which set writes without any lock.
Set(t, s) ==
  /\ s \in Raw
  /\ ver[s] < MaxSets[s]
  /\ Goto(t, "idle", "lock")
  /\ ver' = [ver EXCEPT ![s] = @ + 1]
  /\ cur' = [cur EXCEPT ![t] = s]
  /\ UNCHANGED <<basis, seen, walk, top, toRead, got, held>>

\* Mutants: the lock is not waited for; a signal that is being notified already
\* is left to the other thread.
LockUnlocked(t) ==
  /\ Goto(t, "lock", "visit")
  /\ lock' = [lock EXCEPT ![cur[t]] = t]
  /\ todo' = [todo EXCEPT ![cur[t]] = Observers(cur[t])]
  /\ caller' = [caller EXCEPT ![cur[t]] = top[t]]
  /\ depth' = [depth EXCEPT ![cur[t]] = IF top[t] = None THEN 0 ELSE depth[top[t]] + 1]
  /\ top' = [top EXCEPT ![t] = cur[t]]
  /\ UNCHANGED <<values, cur, toRead, got, held>>

LockTried(t) ==
  \/ LockUnlocked(t) /\ lock[cur[t]] = None
  \/ /\ Goto(t, "lock", IF top[t] = None THEN "idle" ELSE "visit")
     /\ lock[cur[t]] # None
     /\ UNCHANGED <<values, walk, top, cur, toRead, got, held>>

\* notify takes the lock of the signal and begins to walk its observers.
Lock(t) ==
  /\ Goto(t, "lock", "visit")
  /\ lock[cur[t]] = None
  /\ lock' = [lock EXCEPT ![cur[t]] = t]
  /\ todo' = [todo EXCEPT ![cur[t]] = Observers(cur[t])]
  /\ caller' = [caller EXCEPT ![cur[t]] = top[t]]
  /\ depth' = [depth EXCEPT ![cur[t]] = IF top[t] = None THEN 0 ELSE depth[top[t]] + 1]
  /\ top' = [top EXCEPT ![t] = cur[t]]
  /\ UNCHANGED <<values, cur, toRead, got, held>>

\* Mutants: the lock is kept; the caller is not returned from.
UnlockKept(t) ==
  /\ Goto(t, "visit", IF caller[top[t]] = None THEN "idle" ELSE "visit")
  /\ todo[top[t]] = {}
  /\ top' = [top EXCEPT ![t] = caller[top[t]]]
  /\ UNCHANGED <<values, walk, cur, toRead, got, held>>

UnlockStays(t) ==
  /\ Goto(t, "visit", "visit")
  /\ todo[top[t]] = {}
  /\ lock' = [lock EXCEPT ![top[t]] = None]
  /\ top' = [top EXCEPT ![t] = caller[top[t]]]
  /\ UNCHANGED <<values, todo, caller, depth, cur, toRead, got, held>>

\* Everybody has been updated: notify releases the lock, and set returns to the
\* action of the signal whose update it is part of, or to the event.
Unlock(t) ==
  /\ Goto(t, "visit", IF caller[top[t]] = None THEN "idle" ELSE "visit")
  /\ todo[top[t]] = {}
  /\ lock' = [lock EXCEPT ![top[t]] = None]
  /\ top' = [top EXCEPT ![t] = caller[top[t]]]
  /\ UNCHANGED <<values, todo, caller, depth, cur, toRead, got, held>>

-----------------------------------------------------------------------------
(* clientAppCtx::update *)

\* toJSON copies the value the signal has now ...
Render(t, c) ==
  /\ Goto(t, "visit", "push")
  /\ c \in todo[top[t]]
  /\ todo' = [todo EXCEPT ![top[t]] = @ \ {c}]
  /\ cur' = [cur EXCEPT ![t] = c]
  /\ held' = [held EXCEPT ![t] = ver[top[t]]]
  /\ UNCHANGED <<values, lock, caller, depth, top, toRead, got>>

\* ... and the framework pushes it.
Push(t) ==
  /\ Goto(t, "push", "visit")
  /\ seen' = [seen EXCEPT ![top[t]][cur[t]] = held[t]]
  /\ held' = [held EXCEPT ![t] = 0]
  /\ UNCHANGED <<ver, basis, walk, top, cur, toRead, got>>

-----------------------------------------------------------------------------
(* Signal::update *)

\* The update of a signal begins: its dependencies other than the signal that
\* triggers it are looked up and read, one after the other ...
Visit(t, v) ==
  /\ Goto(t, "visit", "read")
  /\ v \in todo[top[t]]
  /\ todo' = [todo EXCEPT ![top[t]] = @ \ {v}]
  /\ cur' = [cur EXCEPT ![t] = v]
  /\ toRead' = [toRead EXCEPT ![t] = Depends[v] \ {top[t]}]
  /\ UNCHANGED <<values, lock, caller, depth, top, got, held>>

Read(t, d) ==
  /\ pc[t] = "read"
  /\ d \in toRead[t]
  /\ toRead' = [toRead EXCEPT ![t] = @ \ {d}]
  /\ got' = [got EXCEPT ![t][d] = ver[d]]
  /\ UNCHANGED <<values, walk, pc, top, cur, held>>

\* Mutant: the trigger is not given to the action.
ReadOthers(t) ==
  /\ Goto(t, "read", "act")
  /\ toRead[t] = {}
  /\ UNCHANGED <<values, walk, top, cur, toRead, got, held>>

\* ... and the trigger is the last element.
ReadTrigger(t) ==
  /\ Goto(t, "read", "act")
  /\ toRead[t] = {}
  /\ got' = [got EXCEPT ![t][top[t]] = ver[top[t]]]
  /\ UNCHANGED <<values, walk, top, cur, toRead, held>>

\* Mutant: the action is given the context of the signal that triggered it.
ActOnTrigger(t) ==
  /\ Goto(t, "act", "lock")
  /\ basis' = [basis EXCEPT ![cur[t]] = got[t]]
  /\ got' = [got EXCEPT ![t] = NoValue]
  /\ ver' = [ver EXCEPT ![top[t]] = @ + 1]
  /\ cur' = [cur EXCEPT ![t] = top[t]]
  /\ UNCHANGED <<seen, walk, top, toRead, held>>

\* The action sets the signal, whose context it was given, or leaves it.
Act(t) ==
  /\ \/ /\ Goto(t, "act", "lock")
        /\ ver' = [ver EXCEPT ![cur[t]] = @ + 1]
     \/ /\ Goto(t, "act", "visit")
        /\ cur[t] \in Filtering
        /\ UNCHANGED ver
  /\ basis' = [basis EXCEPT ![cur[t]] = got[t]]
  /\ got' = [got EXCEPT ![t] = NoValue]
  /\ UNCHANGED <<seen, walk, top, cur, toRead, held>>

-----------------------------------------------------------------------------
Run(t) ==
  \/ Lock(t) \/ Unlock(t)
  \/ (\E c \in Client : Render(t, c)) \/ Push(t)
  \/ (\E v \in Signal : Visit(t, v)) \/ (\E d \in Signal : Read(t, d))
  \/ ReadTrigger(t) \/ Act(t)

Next == \E t \in Thread : Run(t) \/ \E s \in Signal : Set(t, s)

Spec == Init /\ [][Next]_vars

\* Threads are scheduled; no event is obliged to come.
FairSpec == Spec /\ \A t \in Thread : WF_vars(Run(t))

-----------------------------------------------------------------------------
(* Properties. *)

\* Thread t is about to notify the observers of signal s, or does so.
Notifies(t, s) == lock[s] = t \/ (pc[t] = "lock" /\ cur[t] = s)

\* A thread that holds the lock of a signal from which no loop is reached waits
\* only for the locks of such signals, further up: whatever waits in a circle,
\* because notify keeps its lock while the observers are updated
\* (observer-pattern.hpp:110), holds no such signal.
LocksClimb ==
  \A t \in Thread, s \in Clear :
    pc[t] = "lock" /\ lock[s] = t => cur[t] \in Clear /\ Rank[s] < Rank[cur[t]]

\* Whoever has subscribed to a signal has been pushed its value, or a thread is
\* still about to, although set writes the value before notify locks and a
\* thread may push the value of another one.
Told ==
  \A c \in Client : \A s \in Watches[c] :
    seen[s][c] = ver[s] \/ \E t \in Thread : Notifies(t, s)

\* No client is pushed a value older than one it was pushed already.
PushesInOrder == [][\A s \in Signal, c \in Client : seen'[s][c] >= seen[s][c]]_vars

\* A virtual signal that depends, in whatever way, on one raw signal only has
\* been computed from the values its dependencies have, when no thread is at
\* that raw signal: the lock of the raw signal covers the whole cascade, so that
\* the unlocked reads of update are of one set only.
UpToDate ==
  \A v \in Signal : Root[v] # None =>
    \/ \A d \in Depends[v] : basis[v][d] = ver[d]
    \/ \E t \in Thread : Notifies(t, Root[v])

\* Every event of a raw signal from which no loop is reached is processed to its
\* end, even when other threads have locked themselves out in signals that the
\* recursion check refused.  A lock promises no order among those that wait, and
\* MaxSets bounds the number of events.
Completes ==
  \A t \in Thread : \A s \in Raw \cap Clear :
    pc[t] = "lock" /\ cur[t] = s ~> pc[t] = "idle"

\* "Recursion check to ensure that there is no infinite loop in the
\* Observers/Observables structure" (signal.cpp:648): no thread comes back to a
\* signal whose walk it is in and waits for its own lock.
NeverLocksItself == \A t \in Thread : ~(pc[t] = "lock" /\ lock[cur[t]] = t)

=============================================================================
