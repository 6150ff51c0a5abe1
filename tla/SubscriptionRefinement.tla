----------------------- MODULE SubscriptionRefinement -----------------------
(***************************************************************************)
(* Subscriptions implements Subscription.  A client holds the signals in   *)
(* whose lists it is, whatever subscribedSignals_ says meanwhile; a signal *)
(* is being delivered while a thread walks its list.                       *)
(***************************************************************************)
EXTENDS SubscriptionsInv

WalkPc == {"visit", "drop"}

holdsBar      == [c \in Client |-> {s \in Signal : observerList[s][c] > 0}]
presentBar    == {c \in Client : session[c] # "freed"}
deliveringBar == {s \in Signal : \E t \in Thread : pc[t] \in WalkPc /\ sig[t] = s}
owedBar       == [s \in Signal |->
                    {c \in Client : \E t \in Thread : sig[t] = s /\ pending[t][c] > 0}]

Service == INSTANCE Subscription
             WITH holds <- holdsBar, present <- presentBar,
                  delivering <- deliveringBar, owed <- owedBar

\* Every step of the threads is a step of the service or changes nothing of it:
\* addObserver and delObserver are the subscription and its end, the walk of
\* notify is the delivery, and a context is freed when it is in no list.
Implements == Service!Spec

\* What follows from the promise holds of the code: only those who hold a signal
\* are about to be told of it, only while it is delivered, and a client whose
\* context is freed holds nothing.
OnlyHolders == Service!OnlyHolders

=============================================================================
