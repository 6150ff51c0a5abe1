---------------------------- MODULE Subscription ----------------------------
(***************************************************************************)
(* What subscribing promises, without threads, locks, lists and requests:  *)
(* a client holds a set of signals, and a value of a signal is delivered   *)
(* to those who hold it.  Who holds a signal does not change while one of  *)
(* its values is delivered, and a client is gone only when it holds        *)
(* nothing and nobody is about to tell it anything.                        *)
(***************************************************************************)
CONSTANTS Signal, Client

VARIABLES
  holds,       \* the signals that each client holds
  present,     \* the clients whose context exists
  delivering,  \* the signals of which a value is being delivered
  owed         \* the clients that have still to be told, for each signal

vars == <<holds, present, delivering, owed>>

Holders(s) == {c \in Client : s \in holds[c]}

Init ==
  /\ holds = [c \in Client |-> {}]
  /\ present = Client
  /\ delivering = {}
  /\ owed = [s \in Signal |-> {}]

Subscribe(c, s) ==
  /\ c \in present /\ s \notin delivering
  /\ holds' = [holds EXCEPT ![c] = @ \cup {s}]
  /\ UNCHANGED <<present, delivering, owed>>

Unsubscribe(c, s) ==
  /\ c \in present /\ s \notin delivering
  /\ holds' = [holds EXCEPT ![c] = @ \ {s}]
  /\ UNCHANGED <<present, delivering, owed>>

\* A value of signal s has arrived: everybody who holds it is to be told.
Deliver(s) ==
  /\ s \notin delivering
  /\ delivering' = delivering \cup {s}
  /\ owed' = [owed EXCEPT ![s] = Holders(s)]
  /\ UNCHANGED <<holds, present>>

Tell(s, c) ==
  /\ c \in owed[s]
  /\ owed' = [owed EXCEPT ![s] = @ \ {c}]
  /\ UNCHANGED <<holds, present, delivering>>

Delivered(s) ==
  /\ s \in delivering /\ owed[s] = {}
  /\ delivering' = delivering \ {s}
  /\ UNCHANGED <<holds, present, owed>>

Gone(c) ==
  /\ holds[c] = {} /\ \A s \in Signal : c \notin owed[s]
  /\ present' = present \ {c}
  /\ UNCHANGED <<holds, delivering, owed>>

Next ==
  \/ \E c \in Client, s \in Signal :
       Subscribe(c, s) \/ Unsubscribe(c, s) \/ Tell(s, c)
  \/ \E s \in Signal : Deliver(s) \/ Delivered(s)
  \/ \E c \in Client : Gone(c)

Spec == Init /\ [][Next]_vars

-----------------------------------------------------------------------------
(* What follows from the promise. *)

TypeOK ==
  /\ holds \in [Client -> SUBSET Signal]
  /\ present \subseteq Client
  /\ delivering \subseteq Signal
  /\ owed \in [Signal -> SUBSET Client]

\* Only those who hold a signal are told of it, while it is delivered, and only
\* those who are present hold anything.
OnlyHolders ==
  /\ \A s \in Signal : owed[s] \subseteq Holders(s)
  /\ \A s \in Signal : s \notin delivering => owed[s] = {}
  /\ \A c \in Client \ present : holds[c] = {}

=============================================================================
