--------------------------- MODULE RefinementProofs ---------------------------
(***************************************************************************)
(* Subscriptions implements Subscription, for any number of clients,       *)
(* signals and threads, when a session has one request processed at a      *)
(* time.  Six actions are steps of the service, the others change nothing  *)
(* of it; IInv says why each of the six may be taken.                      *)
(***************************************************************************)
EXTENDS SubscriptionRefinement, SubscriptionsProofs

USE NoneAssumption
    DEF Pc, RequestPc, SubscribePc, UnsubscribePc, ClosePc, NotifyPc, shared, local

Bar == <<holdsBar, presentBar, deliveringBar, owedBar>>

-----------------------------------------------------------------------------
(* The frame: what leaves the service where it is. *)

\* One thread at a time walks the list of a signal: notify holds its lock
\* throughout (observer-pattern.hpp:110).
LEMMA OneWalk ==
  ASSUME IInv, NEW t \in Thread, NEW u \in Thread,
         pc[t] \in WalkPc, pc[u] \in WalkPc, sig[t] = sig[u]
  PROVE  t = u
<1>1. sig[t] \in Signal
  BY DEF IInv, TypeInv, WorksOn, WalkPc
<1> QED
  BY <1>1 DEF IInv, Locks, WalkPc

\* A signal whose lock is free is not being delivered: addObserver and
\* delObserver wait for the end of notify (observer-pattern.hpp:78, :85).
LEMMA FreeLock ==
  ASSUME IInv, NEW s \in Signal, observerListMutex[s] = None
  PROVE  s \notin deliveringBar
BY DEF IInv, Locks, deliveringBar, WalkPc

\* Only a thread in the walk of notify has clients to tell (observer-pattern.hpp:111).
LEMMA OwedInWalk ==
  ASSUME IInv, NEW s \in Signal, s \notin deliveringBar
  PROVE  owedBar[s] = {}
BY DEF IInv, Walking, owedBar, deliveringBar, WalkPc

\* The steps of a thread outside its walk deliver nothing.
LEMMA WalkFrame ==
  ASSUME IInv, UNCHANGED pending,
         \A u \in Thread : /\ pc'[u] \in WalkPc <=> pc[u] \in WalkPc
                           /\ pc[u] \in WalkPc => sig'[u] = sig[u]
  PROVE  UNCHANGED <<deliveringBar, owedBar>>
<1>1. deliveringBar' = deliveringBar
  BY DEF deliveringBar
<1>2. ASSUME NEW u \in Thread, NEW c \in Client, pending[u][c] > 0 PROVE sig'[u] = sig[u]
  BY <1>2 DEF IInv, Walking, WalkPc
<1>3. owedBar' = owedBar
  BY <1>2 DEF owedBar
<1> QED
  BY <1>1, <1>3

\* The steps that leave the observer lists and the contexts alone.
LEMMA ListFrame ==
  ASSUME UNCHANGED observerList,
         \A c \in Client : session'[c] = "freed" <=> session[c] = "freed"
  PROVE  UNCHANGED <<holdsBar, presentBar>>
BY DEF holdsBar, presentBar

-----------------------------------------------------------------------------
(* The steps of the service. *)

\* addObserver is the subscription (observer-pattern.hpp:75).
LEMMA AttachImplements ==
  ASSUME IInv, NEW t \in Thread, Attach(t)
  PROVE  Service!Subscribe(cli[t], sig[t])
<1> USE DEF Attach, Goto
<1>1. sig[t] \in Signal /\ cli[t] \in Client
  BY DEF IInv, TypeInv, WorksOn, Busy
<1>2. cli[t] \in presentBar
  BY <1>1 DEF IInv, Sessions, presentBar
<1>3. sig[t] \notin deliveringBar
  BY <1>1, FreeLock
<1>4. UNCHANGED <<deliveringBar, owedBar>>
  BY WalkFrame DEF WalkPc, IInv, TypeInv, TypeOK
<1>5. presentBar' = presentBar
  BY DEF presentBar
<1>6. holdsBar' = [holdsBar EXCEPT ![cli[t]] = @ \cup {sig[t]}]
  <2>1. observerList'[sig[t]][cli[t]] > 0
    BY <1>1 DEF IInv, TypeInv, TypeOK
  <2>2. \A c \in Client, s \in Signal :
          ~(c = cli[t] /\ s = sig[t]) => observerList'[s][c] = observerList[s][c]
    BY <1>1 DEF IInv, TypeInv, TypeOK
  <2>3. {s \in Signal : observerList'[s][cli[t]] > 0}
          = {s \in Signal : observerList[s][cli[t]] > 0} \cup {sig[t]}
    BY <1>1, <2>1, <2>2
  <2>4. holdsBar'[cli[t]] = holdsBar[cli[t]] \cup {sig[t]}
    BY <1>1, <2>3 DEF holdsBar
  <2>5. \A c \in Client : c # cli[t] => holdsBar'[c] = holdsBar[c]
    BY <2>2 DEF holdsBar
  <2> QED
    BY <1>1, <2>4, <2>5 DEF holdsBar
<1> QED
  BY <1>2, <1>3, <1>4, <1>5, <1>6 DEF Service!Subscribe

\* delObserver is its end, for a request or for ~Observer; it is never reached
\* from update, which would wait for its own lock (observer-pattern.hpp:83).
LEMMA DelObserverImplements ==
  ASSUME IInv, NEW t \in Thread, DelObserver(t)
  PROVE  Service!Unsubscribe(cli[t], sig[t])
<1> USE DEF DelObserver
<1>1. sig[t] \in Signal /\ cli[t] \in Client
  BY DEF IInv, TypeInv, WorksOn, Busy
<1>2. cli[t] \in presentBar
  BY <1>1 DEF IInv, Sessions, presentBar, Locks
<1>3. sig[t] \notin deliveringBar
  BY <1>1, FreeLock
<1>4. pc[t] \notin WalkPc
  BY <1>1, <1>3 DEF deliveringBar
<1>5. UNCHANGED <<deliveringBar, owedBar>>
  <2>1. pc'[t] \notin WalkPc
    BY <1>4 DEF WalkPc, IInv, TypeInv, TypeOK
  <2> QED
    BY <1>4, <2>1, WalkFrame DEF IInv, TypeInv, TypeOK
<1>6. presentBar' = presentBar
  BY DEF presentBar
<1>7. holdsBar' = [holdsBar EXCEPT ![cli[t]] = @ \ {sig[t]}]
  <2>1. observerList[sig[t]][cli[t]] \in {0, 1}
    <3>1. observerList[sig[t]][cli[t]] \in Nat
      BY <1>1 DEF IInv, TypeInv, TypeOK
    <3> QED
      BY <1>1, <3>1 DEF IInv, Joined
  <2>2. observerList'[sig[t]][cli[t]] = 0
    BY <1>1, <2>1, DecrementValue DEF IInv, TypeInv, TypeOK
  <2>3. \A c \in Client, s \in Signal :
          ~(c = cli[t] /\ s = sig[t]) => observerList'[s][c] = observerList[s][c]
    BY <1>1 DEF IInv, TypeInv, TypeOK
  <2>4. {s \in Signal : observerList'[s][cli[t]] > 0}
          = {s \in Signal : observerList[s][cli[t]] > 0} \ {sig[t]}
    BY <1>1, <2>2, <2>3
  <2>5. holdsBar'[cli[t]] = holdsBar[cli[t]] \ {sig[t]}
    BY <1>1, <2>4 DEF holdsBar
  <2>6. \A c \in Client : c # cli[t] => holdsBar'[c] = holdsBar[c]
    BY <2>3 DEF holdsBar
  <2> QED
    BY <1>1, <2>5, <2>6 DEF holdsBar
<1> QED
  BY <1>2, <1>3, <1>5, <1>6, <1>7 DEF Service!Unsubscribe

\* The lock taken by notify is the beginning of the delivery: whoever is in the
\* list then is to be told (observer-pattern.hpp:110).
LEMMA NotifyLockImplements ==
  ASSUME IInv, NEW t \in Thread, NotifyLock(t)
  PROVE  Service!Deliver(sig[t])
<1> USE DEF NotifyLock, Goto
<1>1. sig[t] \in Signal
  BY DEF IInv, TypeInv, WorksOn
<1>2. sig[t] \notin deliveringBar
  BY <1>1, FreeLock
<1>3. UNCHANGED <<holdsBar, presentBar>>
  BY ListFrame
<1>4. deliveringBar' = deliveringBar \cup {sig[t]}
  BY <1>1 DEF deliveringBar, WalkPc, IInv, TypeInv, TypeOK
<1>5. owedBar' = [owedBar EXCEPT ![sig[t]] = Service!Holders(sig[t])]
  <2>1. \A u \in Thread \ {t} : pending'[u] = pending[u] /\ sig'[u] = sig[u]
    BY DEF IInv, TypeInv, TypeOK
  <2>2. \A c \in Client : pending[t][c] = 0
    <3>1. \A c \in Client : pending[t][c] \in Nat
      BY DEF IInv, TypeInv, TypeOK
    <3> QED
      BY <3>1 DEF IInv, Walking
  <2>3. \A c \in Client : pending'[t][c] = observerList[sig[t]][c]
    BY DEF IInv, TypeInv, TypeOK
  <2>4. owedBar[sig[t]] = {}
    BY <1>1, <1>2, OwedInWalk
  <2>5. Service!Holders(sig[t]) = {c \in Client : observerList[sig[t]][c] > 0}
    BY <1>1 DEF Service!Holders, holdsBar
  <2>6. owedBar'[sig[t]] = Service!Holders(sig[t])
    <3>1. \A u \in Thread \ {t}, c \in Client :
            ~(sig'[u] = sig[t] /\ pending'[u][c] > 0)
      BY <1>1, <2>1, <2>4 DEF owedBar
    <3>2. sig'[t] = sig[t]
      OBVIOUS
    <3>3. owedBar'[sig[t]] = {c \in Client : pending'[t][c] > 0}
      BY <1>1, <3>1, <3>2 DEF owedBar
    <3> QED
      BY <2>3, <2>5, <3>3
  <2>7. \A s \in Signal \ {sig[t]} : owedBar'[s] = owedBar[s]
    BY <1>1, <2>1 DEF owedBar
  <2>8. /\ owedBar = [s \in Signal |-> owedBar[s]]
        /\ owedBar' = [s \in Signal |-> owedBar'[s]]
    BY DEF owedBar
  <2> QED
    BY <1>1, <2>6, <2>7, <2>8
<1> QED
  BY <1>2, <1>3, <1>4, <1>5 DEF Service!Deliver

\* An update is the telling of one of them (observer-pattern.hpp:113).
LEMMA UpdateImplements ==
  ASSUME IInv, NEW t \in Thread, NEW c \in Client, Update(t, c)
  PROVE  Service!Tell(sig[t], c) \/ UNCHANGED Bar
<1> USE DEF Update
<1>1. sig[t] \in Signal
  BY DEF IInv, TypeInv, WorksOn
<1>2. UNCHANGED <<holdsBar, presentBar>>
  BY ListFrame DEF shared
<1>3. deliveringBar' = deliveringBar
  BY DEF deliveringBar, WalkPc, IInv, TypeInv, TypeOK
<1>4. c \in owedBar[sig[t]]
  BY <1>1 DEF owedBar
<1>5. \A u \in Thread, d \in Client :
        ~(u = t /\ d = c) => pending'[u][d] = pending[u][d]
  BY DEF IInv, TypeInv, TypeOK
<1>6. pending'[t][c] = pending[t][c] - 1 /\ pending[t][c] \in Nat
  BY DEF IInv, TypeInv, TypeOK
<1>7. \A u \in Thread : u # t /\ sig[u] = sig[t] => ~(pending[u][c] > 0)
  BY OneWalk DEF IInv, Walking, WalkPc
<1>8. \A s \in Signal, d \in Client :
        ~(s = sig[t] /\ d = c) => (d \in owedBar'[s] <=> d \in owedBar[s])
  BY <1>5 DEF owedBar
<1>9. CASE pending[t][c] > 1
  <2>1. c \in owedBar'[sig[t]]
    BY <1>1, <1>6, <1>9 DEF owedBar
  <2>2. owedBar' = owedBar
    BY <1>4, <1>8, <2>1 DEF owedBar
  <2> QED
    BY <1>2, <1>3, <2>2 DEF Bar
<1>10. CASE ~(pending[t][c] > 1)
  <2>1. c \notin owedBar'[sig[t]]
    BY <1>1, <1>5, <1>6, <1>7, <1>10 DEF owedBar
  <2>2. owedBar' = [owedBar EXCEPT ![sig[t]] = @ \ {c}]
    <3>1. owedBar'[sig[t]] = owedBar[sig[t]] \ {c}
      BY <1>1, <1>8, <2>1 DEF owedBar
    <3>2. \A s \in Signal : s # sig[t] => owedBar'[s] = owedBar[s]
      BY <1>8 DEF owedBar
    <3> QED
      BY <1>1, <3>1, <3>2 DEF owedBar
  <2> QED
    BY <1>2, <1>3, <1>4, <2>2 DEF Service!Tell
<1> QED
  BY <1>9, <1>10

\* The end of the walk is the end of the delivery (observer-pattern.hpp:115).
LEMMA NotifyEndImplements ==
  ASSUME IInv, NEW t \in Thread, NotifyEnd(t)
  PROVE  Service!Delivered(sig[t])
<1> USE DEF NotifyEnd, Finish, Goto
<1>1. sig[t] \in Signal
  BY DEF IInv, TypeInv, WorksOn
<1>2. sig[t] \in deliveringBar
  BY <1>1 DEF deliveringBar, WalkPc
<1>3. \A u \in Thread : u # t /\ pc[u] \in WalkPc => sig[u] # sig[t]
  BY OneWalk DEF WalkPc
<1>4. \A c \in Client : pending[t][c] = 0
  BY DEF Nobody
<1>5. owedBar[sig[t]] = {}
  BY <1>1, <1>3, <1>4 DEF owedBar, IInv, Walking, WalkPc
<1>6. \A u \in Thread : u # t => pc'[u] = pc[u] /\ sig'[u] = sig[u]
  BY DEF IInv, TypeInv, TypeOK
<1>7. deliveringBar' = deliveringBar \ {sig[t]}
  BY <1>1, <1>3, <1>6 DEF deliveringBar, WalkPc, IInv, TypeInv, TypeOK
<1>8. owedBar' = owedBar
  BY <1>4, <1>6 DEF owedBar
<1>9. UNCHANGED <<holdsBar, presentBar>>
  BY ListFrame
<1> QED
  BY <1>2, <1>5, <1>7, <1>8, <1>9 DEF Service!Delivered

\* A context is freed when it is in no list and nobody is about to update it
\* (~Observer, observer-pattern.hpp:42).
LEMMA CloseEndImplements ==
  ASSUME IInv, NEW t \in Thread, CloseEnd(t)
  PROVE  Service!Gone(cli[t])
<1> USE DEF CloseEnd, Finish, Goto
<1>1. cli[t] \in Client
  BY DEF IInv, TypeInv, WorksOn, Busy
<1>2. \A s \in Signal : ~(observerList[s][cli[t]] > 0)
  BY DEF IInv, Leaving, ToLeave
<1>3. holdsBar[cli[t]] = {}
  BY <1>1, <1>2 DEF holdsBar
<1>4. \A s \in Signal : cli[t] \notin owedBar[s]
  BY <1>1, <1>2 DEF owedBar, IInv, Walking
<1>5. presentBar' = presentBar \ {cli[t]}
  BY <1>1 DEF presentBar, IInv, TypeInv, TypeOK
<1>6. holdsBar' = holdsBar
  BY DEF holdsBar
<1>7. UNCHANGED <<deliveringBar, owedBar>>
  BY WalkFrame DEF WalkPc, IInv, TypeInv, TypeOK
<1> QED
  BY <1>3, <1>4, <1>5, <1>6, <1>7 DEF Service!Gone

-----------------------------------------------------------------------------
(* The steps that change nothing of the service. *)

\* What a request, a thread about to notify and ~Observer do between the steps
\* above (clientApp.cpp:37-91, observer-pattern.hpp:35-42).
LEMMA Stutters ==
  ASSUME IInv, NEW t \in Thread,
         \/ Link(t) \/ Record(t) \/ MakeEvent(t) \/ Watch(t) \/ Unwatch(t)
         \/ CloseLock(t) \/ \E s \in Signal : Leave(t, s)
  PROVE  UNCHANGED Bar
<1>1. UNCHANGED <<observerList, session, pending>>
  BY DEF Link, Record, MakeEvent, Watch, Unwatch, CloseLock, Leave
<1>2. /\ pc[t] \notin WalkPc /\ pc'[t] \notin WalkPc
      /\ \A u \in Thread \ {t} : pc'[u] = pc[u] /\ sig'[u] = sig[u]
  BY DEF Link, Record, MakeEvent, Watch, Unwatch, CloseLock, Leave, Finish, Goto, WalkPc,
         IInv, TypeInv, TypeOK
<1> QED
  BY <1>1, <1>2, WalkFrame, ListFrame DEF Bar

\* The beginning of a request, of an event and of the end of a session.
LEMMA StartStutters ==
  ASSUME IInv, NEW t \in Thread, Start(t)
  PROVE  UNCHANGED Bar
<1>1. UNCHANGED <<observerList, pending>>
  BY DEF Start, Subscribe, Unsubscribe, Close, Set
<1>2. /\ pc[t] \notin WalkPc /\ pc'[t] \notin WalkPc
      /\ \A u \in Thread \ {t} : pc'[u] = pc[u] /\ sig'[u] = sig[u]
  BY DEF Start, Subscribe, Unsubscribe, Close, Set, Begin, Goto, WalkPc,
         IInv, TypeInv, TypeOK
<1>3. \A c \in Client : session'[c] = "freed" <=> session[c] = "freed"
  BY DEF Start, Subscribe, Unsubscribe, Close, Set, IInv, TypeInv, TypeOK
<1> QED
  BY <1>1, <1>2, <1>3, WalkFrame, ListFrame DEF Bar

-----------------------------------------------------------------------------
(* The refinement. *)

\* Freshly built objects: nobody holds anything, everybody is present.
LEMMA InitImplements == Init => Service!Init
<1> SUFFICES ASSUME Init PROVE Service!Init
  OBVIOUS
<1>1. holdsBar = [c \in Client |-> {}]
  BY DEF Init, holdsBar, Nobody
<1>2. presentBar = Client
  BY DEF Init, presentBar
<1>3. deliveringBar = {}
  BY DEF Init, deliveringBar, WalkPc
<1>4. owedBar = [s \in Signal |-> {}]
  BY DEF Init, owedBar, Nobody
<1> QED
  BY <1>1, <1>2, <1>3, <1>4 DEF Service!Init

\* Every step is a step of the service or changes nothing of it.
LEMMA NextImplements ==
  ASSUME IInv, [Next]_vars
  PROVE  [Service!Next]_(Service!vars)
<1>1. Bar = Service!vars /\ Bar' = Service!vars'
  BY DEF Bar, Service!vars
<1>2. ASSUME NEW t \in Thread, Continue(t) PROVE Service!Next \/ UNCHANGED Bar
  <2>1. CASE Attach(t)
    BY <2>1, AttachImplements DEF Service!Next, Attach, Goto, IInv, TypeInv, WorksOn, Busy
  <2>2. CASE DelObserver(t)
    BY <2>2, DelObserverImplements
       DEF Service!Next, DelObserver, IInv, TypeInv, WorksOn, Busy
  <2>3. CASE NotifyLock(t)
    BY <2>3, NotifyLockImplements DEF Service!Next, NotifyLock, Goto, IInv, TypeInv, WorksOn
  <2>4. ASSUME NEW c \in Client, Update(t, c) PROVE Service!Next \/ UNCHANGED Bar
    BY <2>4, UpdateImplements DEF Service!Next, Update, IInv, TypeInv, WorksOn
  <2>5. CASE NotifyEnd(t)
    BY <2>5, NotifyEndImplements
       DEF Service!Next, NotifyEnd, Finish, Goto, IInv, TypeInv, WorksOn
  <2>6. CASE CloseEnd(t)
    BY <2>6, CloseEndImplements
       DEF Service!Next, CloseEnd, Finish, Goto, IInv, TypeInv, WorksOn, Busy
  <2> QED
    BY <1>2, <2>1, <2>2, <2>3, <2>4, <2>5, <2>6, Stutters DEF Continue
<1>3. ASSUME NEW t \in Thread, Start(t) PROVE UNCHANGED Bar
  BY <1>3, StartStutters
<1>4. ASSUME UNCHANGED <<observerList, session, pc, sig, pending>> PROVE UNCHANGED Bar
  BY <1>4 DEF Bar, holdsBar, presentBar, deliveringBar, owedBar
<1>5. ASSUME NEW t \in Thread, Crash(t) PROVE UNCHANGED Bar
  BY <1>4, <1>5 DEF Crash
<1>6. ASSUME NEW c \in Client, Disconnect(c) PROVE UNCHANGED Bar
  BY <1>4, <1>6 DEF Disconnect
<1>7. ASSUME UNCHANGED vars PROVE UNCHANGED Bar
  BY <1>4, <1>7 DEF vars
<1>8. Service!Next \/ UNCHANGED Bar
  BY <1>2, <1>3, <1>5, <1>6, <1>7 DEF Next, Run
<1> QED
  BY <1>1, <1>8

\* Through all its threads, locks and lists the code does what Subscription
\* promises: nobody's holdings change while a value is delivered, whoever held
\* the signal is told once, nobody else is, and a context is freed only when
\* nothing refers to it (observer-pattern.hpp, clientApp.cpp).
THEOREM Implementation == ASSUME ~Pipelined PROVE Spec => Implements
<1>1. Spec => []IInv
  BY Inductive
<1>2. Init => Service!Init
  BY InitImplements
<1>3. IInv /\ [Next]_vars => [Service!Next]_(Service!vars)
  BY NextImplements
<1> QED
  BY <1>1, <1>2, <1>3, PTL DEF Spec, Implements, Service!Spec

-----------------------------------------------------------------------------
(* What follows from the promise. *)

Promise == Service!TypeOK /\ Service!OnlyHolders

\* At first nobody holds anything.
LEMMA PromiseInit == Service!Init => Promise
BY DEF Promise, Service!Init, Service!TypeOK, Service!OnlyHolders, Service!Holders

\* An action of the service keeps the promise; each disturbs one of its parts.
LEMMA PromiseNext == Promise /\ [Service!Next]_(Service!vars) => Promise'
<1> SUFFICES ASSUME Promise, [Service!Next]_(Service!vars) PROVE Promise'
  OBVIOUS
<1> USE DEF Promise, Service!TypeOK, Service!OnlyHolders, Service!Holders
<1>1. ASSUME NEW c \in Client, NEW s \in Signal, Service!Subscribe(c, s) PROVE Promise'
  BY <1>1 DEF Service!Subscribe
<1>2. ASSUME NEW c \in Client, NEW s \in Signal, Service!Unsubscribe(c, s) PROVE Promise'
  BY <1>2 DEF Service!Unsubscribe
<1>3. ASSUME NEW c \in Client, NEW s \in Signal, Service!Tell(s, c) PROVE Promise'
  BY <1>3 DEF Service!Tell
<1>4. ASSUME NEW s \in Signal, Service!Deliver(s) PROVE Promise'
  BY <1>4 DEF Service!Deliver
<1>5. ASSUME NEW s \in Signal, Service!Delivered(s) PROVE Promise'
  BY <1>5 DEF Service!Delivered
<1>6. ASSUME NEW c \in Client, Service!Gone(c) PROVE Promise'
  BY <1>6 DEF Service!Gone
<1>7. CASE UNCHANGED Service!vars
  BY <1>7 DEF Service!vars
<1> QED
  BY <1>1, <1>2, <1>3, <1>4, <1>5, <1>6, <1>7 DEF Service!Next

\* Nobody but a holder is about to be told of a signal, and whoever is gone holds
\* none.
THEOREM TellsHolders == ASSUME ~Pipelined PROVE Spec => []OnlyHolders
<1>1. Spec => Service!Spec
  BY Implementation DEF Implements
<1>2. Promise => OnlyHolders
  BY DEF Promise, OnlyHolders
<1> QED
  BY <1>1, <1>2, PromiseInit, PromiseNext, PTL DEF Service!Spec

=============================================================================
