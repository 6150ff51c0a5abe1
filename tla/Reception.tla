----------------------------- MODULE Reception -----------------------------
(***************************************************************************)
(* What a thread does with an event of a source: the choice among several  *)
(* signals (SourceAPI::onSourceEvents), the conversion of the integers for *)
(* Lua, the action of the signal and the default callback (onReceivedCB,   *)
(* defaultReceivedCB).                                                     *)
(*                                                                         *)
(* The signals of an event are given the same object one after the other,  *)
(* and the conversion deletes and adds entries while two iterators stand   *)
(* on it.  An iterator is the key it stands on: json-c unlinks an entry    *)
(* that is deleted and adds at the end, so that an iterator of such a key  *)
(* is at the end of the object.                                            *)
(***************************************************************************)
EXTENDS Naturals, Sequences, FiniteSets, SequencesExt

CONSTANTS
  Signal,     \* the signals of the source
  Lua,        \* those whose onReceived action is a Lua function
  WithEvent,  \* the raw signals, whose event_ is not empty
  Key,        \* keys of an object
  Number,     \* the integers that an event may hold
  Answer,     \* the sets of signals that may answer to a string of an event
  Flag,       \* USEC_TIMESTAMP_FLAG
  Nano,       \* NANO
  None        \* no key, no signal

ASSUME KindAssumption ==
  /\ Lua \subseteq Signal /\ WithEvent \subseteq Signal
  /\ IsFiniteSet(Key) /\ None \notin Key \cup Signal
  /\ IsFiniteSet(Signal) /\ Answer \subseteq SUBSET Signal
\* The largest int64_t in nanoseconds is not above the flag in seconds.
ASSUME NumberAssumption ==
  /\ Flag \in Nat /\ Nano \in Nat \ {0}
  /\ Number \subseteq Nat /\ \A n \in Number : n \div Nano <= Flag

\* An entry is an integer, or a string that some signals answer to (fnmatch).
Entry == [key: Key, type: {"int"}, number: Number, names: {{}}]
           \cup [key: Key, type: {"string"}, number: {0}, names: Answer]
Object == {o \in UNION {[1 .. n -> Entry] : n \in 0 .. Cardinality(Key)} :
             \A i, j \in DOMAIN o : o[i].key = o[j].key => i = j}

VARIABLES
  event,   \* the event as it was sent
  kind,    \* what it is: an object, an array, or nothing
  object,  \* the entries of the object, in their order
  found,   \* the signals that the name of the event finds
  outer,   \* where onSourceEvents stands in the object
  inner,   \* where the conversion for Lua stands
  named,   \* has a signal been found by a value of the object
  toCall,  \* the signals to call at this place
  cur,     \* the signal that is called
  calls,   \* how often each signal has been called for this event
  isSet,   \* the signals that the default callback has set
  pc,      \* where the thread is
  fault    \* a null pointer has been used

vars == <<event, kind, object, found, outer, inner, named, toCall, cur, calls, isSet, pc, fault>>

Keys(o) == {o[i].key : i \in DOMAIN o}

TypeOK ==
  /\ kind \in {"object", "array", "null"}
  /\ Keys(object) = Keys(event) /\ Len(object) = Len(event)
  /\ found \subseteq Signal /\ toCall \subseteq found /\ isSet \subseteq WithEvent
  /\ outer \in Keys(object) \cup {None} /\ inner \in Keys(object) \cup {None}
  /\ named \in BOOLEAN /\ fault \in BOOLEAN
  /\ cur \in Signal \cup {None}
  /\ calls \in [Signal -> 0 .. Len(event) + 1]
  /\ pc \in {"new", "scan", "call", "rest", "convert", "act", "default", "done"}

\* One event: nothing of it is kept for the next one.
Init ==
  /\ kind \in {"object", "array", "null"}
  /\ event \in IF kind = "object" THEN Object ELSE {<< >>}
  /\ object = event
  /\ found \in SUBSET Signal
  /\ outer = None /\ inner = None /\ named = FALSE
  /\ toCall = {} /\ cur = None
  /\ calls = [s \in Signal |-> 0] /\ isSet = {}
  /\ pc = "new" /\ fault = FALSE

-----------------------------------------------------------------------------
(* Iterators of json-c (external). *)

At(k) == CHOOSE i \in DOMAIN object : object[i].key = k

First == IF object = << >> THEN None ELSE object[1].key

NextKey(k) == IF At(k) = Len(object) THEN None ELSE object[At(k) + 1].key

\* json_object_iter_begin takes the head of the table of an object, and there is
\* no table in anything else.
Iterable == kind = "object"

Fail ==
  /\ fault' = TRUE
  /\ pc' = "done"
  /\ UNCHANGED <<event, kind, object, found, outer, inner, named, toCall, cur, calls, isSet>>

-----------------------------------------------------------------------------
(* SourceAPI::onSourceEvents *)

\* An event comes.  Several signals are told apart by what it holds; one is
\* called, and an event that finds none is left.
Receive ==
  /\ pc = "new"
  /\ \/ /\ Cardinality(found) > 1
        /\ pc' = "scan"
        /\ outer' = IF Iterable THEN First ELSE None
        /\ UNCHANGED toCall
     \/ /\ Cardinality(found) <= 1
        /\ pc' = "rest"
        /\ toCall' = found
        /\ UNCHANGED outer
  /\ UNCHANGED <<event, kind, object, found, inner, named, cur, calls, isSet, fault>>

\* Mutant: the loop stops looking at the first string that names a signal.
ScanFirst ==
  /\ pc = "scan" /\ Iterable /\ outer # None
  /\ toCall' = IF named THEN {} ELSE object[At(outer)].names \cap found
  /\ named' = (named \/ toCall' # {})
  /\ pc' = "call"
  /\ UNCHANGED <<event, kind, object, found, outer, inner, cur, calls, isSet, fault>>

\* A string of the object may name some of the signals found ...
Scan ==
  /\ pc = "scan" /\ Iterable /\ outer # None
  /\ toCall' = object[At(outer)].names \cap found
  /\ named' = (named \/ toCall' # {})
  /\ pc' = "call"
  /\ UNCHANGED <<event, kind, object, found, outer, inner, cur, calls, isSet, fault>>

ScanFails == pc = "scan" /\ ~Iterable /\ Fail

\* ... when they have been called the loop goes on ...
ScanNext ==
  /\ pc = "call" /\ toCall = {}
  /\ outer' = NextKey(outer)
  /\ pc' = "scan"
  /\ UNCHANGED <<event, kind, object, found, inner, named, toCall, cur, calls, isSet, fault>>

\* ... and when nobody was named everybody is called.
ScanEnd ==
  /\ pc = "scan" /\ Iterable /\ outer = None
  /\ toCall' = IF named THEN {} ELSE found
  /\ pc' = "rest"
  /\ UNCHANGED <<event, kind, object, found, outer, inner, named, cur, calls, isSet, fault>>

Handled ==
  /\ pc = "rest" /\ toCall = {}
  /\ pc' = "done"
  /\ UNCHANGED <<event, kind, object, found, outer, inner, named, toCall, cur, calls, isSet, fault>>

-----------------------------------------------------------------------------
(* Signal::onReceivedCB *)

Call(s) ==
  /\ pc \in {"call", "rest"} /\ s \in toCall
  /\ toCall' = toCall \ {s}
  /\ calls' = [calls EXCEPT ![s] = @ + 1]
  /\ cur' = s
  /\ inner' = IF s \in Lua /\ Iterable THEN First ELSE None
  /\ pc' = IF s \in Lua THEN "convert" ELSE "act"
  /\ UNCHANGED <<event, kind, object, found, outer, named, isSet, fault>>

\* Mutant: the number is divided whatever it is.
ToLuaAlways(n) == n \div Nano

\* A timestamp in nanoseconds is made one in seconds.
ToLua(n) == IF n > Flag THEN n \div Nano ELSE n

\* Mutant: strings are deleted and added as well.
ConvertAll ==
  /\ pc = "convert" /\ inner # None
  /\ LET i == At(inner)
         e == [object[i] EXCEPT !.number = ToLua(@)]
     IN  object' = Append(RemoveAt(object, i), e)
  /\ inner' = None
  /\ UNCHANGED <<event, kind, found, outer, named, toCall, cur, calls, isSet, pc, fault>>

\* Mutant: the integer is deleted and never added again.
ConvertDrops ==
  /\ pc = "convert" /\ inner # None
  /\ object' = IF object[At(inner)].type = "int" THEN RemoveAt(object, At(inner)) ELSE object
  /\ inner' = IF object[At(inner)].type = "int" THEN None ELSE NextKey(inner)
  /\ UNCHANGED <<event, kind, found, outer, named, toCall, cur, calls, isSet, pc, fault>>

\* Mutant: the iterator moves before its entry is deleted, and meets it again.
ConvertNextFirst ==
  /\ pc = "convert" /\ inner # None
  /\ LET i == At(inner)
         e == [object[i] EXCEPT !.number = ToLua(@)]
     IN  object' = IF e.type = "int" THEN Append(RemoveAt(object, i), e) ELSE object
  /\ inner' = NextKey(inner)
  /\ UNCHANGED <<event, kind, found, outer, named, toCall, cur, calls, isSet, pc, fault>>

\* An integer is deleted and added again under its key: it is the last entry then,
\* and the loop, whose iterator stands on it, is over.
Convert ==
  /\ pc = "convert" /\ inner # None
  /\ LET i == At(inner)
         e == [object[i] EXCEPT !.number = ToLua(@)]
     IN  \/ /\ object[i].type = "int"
            /\ object' = Append(RemoveAt(object, i), e)
            /\ inner' = None
         \/ /\ object[i].type # "int"
            /\ inner' = NextKey(inner)
            /\ UNCHANGED object
  /\ UNCHANGED <<event, kind, found, outer, named, toCall, cur, calls, isSet, pc, fault>>

ConvertFails == pc = "convert" /\ ~Iterable /\ Fail

ConvertEnd ==
  /\ pc = "convert" /\ Iterable /\ inner = None
  /\ pc' = "act"
  /\ UNCHANGED <<event, kind, object, found, outer, inner, named, toCall, cur, calls, isSet, fault>>

\* Where the call returns to: the loop of onSourceEvents, or the one that follows.
Return == IF outer = None THEN "rest" ELSE "call"

\* The action is executed, if there is one; what it sets is up to it (external).
\* The default callback follows for a raw signal.
Act ==
  /\ pc = "act"
  /\ pc' = IF cur \in WithEvent THEN "default" ELSE Return
  /\ UNCHANGED <<event, kind, object, found, outer, inner, named, toCall, cur, calls, isSet, fault>>

\* defaultReceivedCB sets the signal to an event that is an array, and then
\* iterates over it as if it were an object ...
DefaultFails ==
  /\ pc = "default" /\ ~Iterable
  /\ isSet' = IF kind = "array" THEN isSet \cup {cur} ELSE isSet
  /\ fault' = TRUE
  /\ pc' = "done"
  /\ UNCHANGED <<event, kind, object, found, outer, inner, named, toCall, cur, calls>>

\* ... and of an object it reads the value and the timestamp, and sets nothing.
Default ==
  /\ pc = "default" /\ Iterable
  /\ pc' = Return
  /\ UNCHANGED <<event, kind, object, found, outer, inner, named, toCall, cur, calls, isSet, fault>>

-----------------------------------------------------------------------------
Next ==
  \/ Receive
  \/ Scan \/ ScanFails \/ ScanNext \/ ScanEnd \/ Handled
  \/ (\E s \in Signal : Call(s)) \/ Convert \/ ConvertFails \/ ConvertEnd
  \/ Act \/ DefaultFails \/ Default

Spec == Init /\ [][Next]_vars

\* The handler of an event is executed.
FairSpec == Spec /\ WF_vars(Next)

-----------------------------------------------------------------------------
(* Properties. *)

\* How many values of the event name signal s.
Mentions(s) == Cardinality({i \in DOMAIN event : s \in event[i].names})

\* Of the signals found the ones that the event names are called, once for each
\* value that names them, and all of them if it names none; although the
\* conversion for Lua deletes and adds entries of the object that is being
\* iterated (source.cpp:103-131, signal.cpp:448-464).
Reached ==
  pc = "done" /\ ~fault =>
    \A s \in found :
      calls[s] = IF Cardinality(found) > 1 /\ \E u \in found : Mentions(u) > 0
                   THEN Mentions(s) ELSE 1

\* However many signals with a Lua action an event has, none of its integers is
\* converted twice: what is in seconds already is below the flag.
ConvertedOnce ==
  \A i \in DOMAIN object, j \in DOMAIN event :
    object[i].key = event[j].key => object[i].number \in {event[j].number, ToLua(event[j].number)}

\* The handler of every event returns.
Returns == <>(pc = "done")

=============================================================================
