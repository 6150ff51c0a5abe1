---------------------------- MODULE ReceptionInv ----------------------------
(***************************************************************************)
(* The invariant of Reception that every step keeps by itself.             *)
(***************************************************************************)
EXTENDS Reception

Rec == [key: Key, type: {"int", "string"}, number: Nat, names: SUBSET Signal]

\* The entries of the event have their keys for themselves, integers name nobody, and
\* the object has the same ones, but for their order and the numbers converted.
Entries ==
  /\ event \in Seq(Rec) /\ object \in Seq(Rec)
  /\ \A j \in DOMAIN event : event[j].number \in Number \cup {0}
  /\ \A i, j \in DOMAIN event : event[i].key = event[j].key => i = j
  /\ \A x, y \in DOMAIN object : object[x].key = object[y].key => x = y
  /\ \A x \in DOMAIN object : object[x].type = "int" => object[x].names = {}
  /\ \A x \in DOMAIN object, j \in DOMAIN event :
       object[x].key = event[j].key => object[x].names = event[j].names

\* The keys that the loop of onSourceEvents has still to come to.
After(k) == IF k = None THEN {} ELSE {object[x].key : x \in (At(k) + 1) .. Len(object)}
Pending  == IF pc = "scan" /\ outer # None THEN After(outer) \cup {outer} ELSE After(outer)

\* The values that name s and have been come to.
Told(s) == {j \in DOMAIN event : s \in event[j].names /\ event[j].key \notin Pending}

\* Is the thread in the loop, or in a call from it.
Looking == pc \in {"scan", "call"} \/ (pc \in {"convert", "act", "default"} /\ outer # None)

\* The calls of s made or decided on, and those there should be in the end.
Called(s) == calls[s] + (IF s \in toCall THEN 1 ELSE 0)
Due(s)    == IF Cardinality(found) > 1 /\ \E u \in found : Mentions(u) > 0
               THEN Mentions(s) ELSE 1

\* Where the thread is agrees with what it has still to do.
Places ==
  /\ kind # "object" => event = << >>
  /\ fault => pc = "done"
  /\ pc = "new" => toCall = {} /\ outer = None /\ ~named /\ \A s \in Signal : calls[s] = 0
  /\ pc = "scan" => toCall = {}
  /\ pc = "call" => outer # None
  /\ pc \in {"rest", "done"} => outer = None \/ fault
  /\ pc = "done" => toCall = {} \/ fault
  /\ pc = "default" => cur \in WithEvent
  /\ outer # None /\ (toCall # {} \/ pc \in {"convert", "act", "default"}) =>
       object[At(outer)].names # {}

\* In the loop a signal has been called for each value come to that names it; after
\* it, as often as it should be.
Counted ==
  /\ Looking => /\ Cardinality(found) > 1
                /\ \A s \in found : Called(s) = Cardinality(Told(s))
                /\ named <=> \E s \in found : Told(s) # {}
  /\ pc # "new" /\ ~Looking /\ ~fault => \A s \in found : Called(s) = Due(s)

Inv == TypeOK /\ Entries /\ Places /\ Counted /\ ConvertedOnce

=============================================================================
