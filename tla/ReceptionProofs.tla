-------------------------- MODULE ReceptionProofs --------------------------
(***************************************************************************)
(* The calls for an event and the conversion of its integers for Lua,      *)
(* whatever the event, the number of its entries and of the signals that   *)
(* share it.                                                               *)
(***************************************************************************)
EXTENDS ReceptionInv, FiniteSetTheorems, TLAPS

-----------------------------------------------------------------------------
(* Numbers and sequences. *)

\* What is in seconds is not above the flag and is left as it is.
LEMMA ToLuaTwice ==
  ASSUME NEW n \in Number \cup {0}
  PROVE  ToLua(ToLua(n)) = ToLua(n) /\ ToLua(n) \in Nat
<1>1. n \in Nat /\ n \div Nano \in Nat /\ (n > Flag => n \div Nano <= Flag)
  BY NumberAssumption, SMT
<1> QED
  BY <1>1, NumberAssumption, SMT DEF ToLua

\* A conversion gives a number.
LEMMA ToLuaNat == ASSUME NEW n \in Nat PROVE ToLua(n) \in Nat
BY NumberAssumption, SMT DEF ToLua

\* The entry at i goes to the end; the others keep their order.
LEMMA Moved ==
  ASSUME NEW S, NEW o \in Seq(S), NEW i \in DOMAIN o, NEW e \in S
  PROVE  LET p == Append(RemoveAt(o, i), e)
         IN  /\ p \in Seq(S) /\ Len(p) = Len(o) /\ p[Len(o)] = e
             /\ \A x \in 1 .. Len(o) - 1 : p[x] = IF x < i THEN o[x] ELSE o[x + 1]
<1> DEFINE a == SubSeq(o, 1, i - 1)
           b == SubSeq(o, i + 1, Len(o))
           r == RemoveAt(o, i)
<1>1. i \in 1 .. Len(o) /\ Len(o) \in Nat
  BY SMT
<1>2. a \in Seq(S) /\ Len(a) = i - 1 /\ \A x \in 1 .. i - 1 : a[x] = o[x]
  BY <1>1, SMT
<1>3. b \in Seq(S) /\ Len(b) = Len(o) - i /\ \A x \in 1 .. Len(o) - i : b[x] = o[i + x]
  BY <1>1, SMT
<1> HIDE DEF a, b
<1>4. r = a \o b
  BY DEF RemoveAt, a, b
<1>5. /\ r \in Seq(S) /\ Len(r) = Len(o) - 1
      /\ \A x \in 1 .. Len(o) - 1 : r[x] = IF x < i THEN o[x] ELSE o[x + 1]
  BY <1>1, <1>2, <1>3, <1>4, SMT
<1> HIDE DEF r
<1>6. /\ Append(r, e) \in Seq(S) /\ Len(Append(r, e)) = Len(o) /\ Append(r, e)[Len(o)] = e
      /\ \A x \in 1 .. Len(o) - 1 : Append(r, e)[x] = IF x < i THEN o[x] ELSE o[x + 1]
  BY <1>1, <1>5, SMT
<1> QED
  BY <1>6 DEF r

-----------------------------------------------------------------------------
(* The places of keys, in any list o of entries. *)

Distinct(o) == o \in Seq(Rec) /\ \A x, y \in DOMAIN o : o[x].key = o[y].key => x = y

AtOf(o, k)  == CHOOSE x \in DOMAIN o : o[x].key = k
Later(o, k) == IF k = None THEN {} ELSE {o[x].key : x \in (AtOf(o, k) + 1) .. Len(o)}

\* The place of a key, and the keys behind it.
LEMMA LaterIs ==
  ASSUME NEW o, Distinct(o), NEW a \in DOMAIN o
  PROVE  /\ AtOf(o, o[a].key) = a /\ o[a].key \in Key /\ o[a].key # None
         /\ \A k : k \in Later(o, o[a].key) <=> \E y \in DOMAIN o : k = o[y].key /\ y > a
         /\ \A y \in DOMAIN o : o[y].key \in Later(o, o[a].key) <=> y > a
<1>1. DOMAIN o = 1 .. Len(o) /\ Len(o) \in Nat /\ o[a] \in Rec
  BY SMT DEF Distinct
<1>2. o[a].key \in Key /\ o[a].key # None
  BY <1>1, KindAssumption DEF Rec
<1>3. AtOf(o, o[a].key) = a
  BY Zenon DEF AtOf, Distinct
<1>4. Later(o, o[a].key) = {o[x].key : x \in (a + 1) .. Len(o)}
  BY <1>2, <1>3 DEF Later
<1>5. \A y : y \in (a + 1) .. Len(o) <=> y \in DOMAIN o /\ y > a
  BY <1>1, SMT
<1>6. \A k : k \in Later(o, o[a].key) <=> \E y \in DOMAIN o : k = o[y].key /\ y > a
  BY <1>4, <1>5
<1>7. \A y \in DOMAIN o : o[y].key \in Later(o, o[a].key) <=> y > a
  BY <1>6 DEF Distinct
<1> QED
  BY <1>2, <1>3, <1>6, <1>7

\* An iterator that goes on leaves nothing out.
LEMMA StepOn ==
  ASSUME NEW o, Distinct(o), NEW a \in DOMAIN o
  PROVE  /\ a = Len(o) => Later(o, o[a].key) = {}
         /\ a # Len(o) => /\ a + 1 \in DOMAIN o
                          /\ Later(o, o[a].key) = Later(o, o[a + 1].key) \cup {o[a + 1].key}
<1>1. DOMAIN o = 1 .. Len(o) /\ Len(o) \in Nat
  BY SMT DEF Distinct
<1>2. CASE a = Len(o)
  <2>1. \A y \in DOMAIN o : ~(y > a)
    BY <1>1, <1>2, SMT
  <2> QED
    BY <1>2, <2>1, LaterIs
<1>3. CASE a # Len(o)
  <2>1. a + 1 \in DOMAIN o /\ \A y \in DOMAIN o : y > a <=> y > a + 1 \/ y = a + 1
    BY <1>1, <1>3, SMT
  <2> HIDE DEF Later
  <2>2. \A k : k \in Later(o, o[a].key) <=> \E y \in DOMAIN o : k = o[y].key /\ y > a
    BY LaterIs
  <2>3. \A k : k \in Later(o, o[a + 1].key) <=> \E y \in DOMAIN o : k = o[y].key /\ y > a + 1
    BY <2>1, LaterIs
  <2>4. \A k : k \in Later(o, o[a].key) <=> k \in Later(o, o[a + 1].key) \cup {o[a + 1].key}
    BY <2>1, <2>2, <2>3
  <2> QED
    BY <1>3, <2>1, <2>4
<1> QED
  BY <1>2, <1>3

\* An iterator that begins has everything before it.
LEMMA AllLater ==
  ASSUME NEW o, Distinct(o), o # << >>
  PROVE  1 \in DOMAIN o /\ Later(o, o[1].key) \cup {o[1].key} = Keys(o)
<1>1. DOMAIN o = 1 .. Len(o) /\ Len(o) \in Nat
  BY SMT DEF Distinct
<1>2. 1 \in DOMAIN o
  BY SMT DEF Distinct
<1>3. \A y \in DOMAIN o : y > 1 \/ y = 1
  BY <1>1, SMT
<1>4. \A k : k \in Later(o, o[1].key) <=> \E y \in DOMAIN o : k = o[y].key /\ y > 1
  BY <1>2, LaterIs
<1>5. \A k : k \in Later(o, o[1].key) \cup {o[1].key} <=> k \in Keys(o)
  BY <1>2, <1>3, <1>4 DEF Keys
<1> QED
  BY <1>2, <1>5

\* p has what o has, with e in the place of the entry at i, and but for that one the
\* same entries are behind each other.
MovedIn(o, i, e, p) ==
  /\ Distinct(p) /\ Keys(p) = Keys(o) /\ Len(p) = Len(o)
  /\ \A x \in DOMAIN p : p[x] = e \/ \E y \in DOMAIN o : y # i /\ p[x] = o[y]
  /\ \A y \in DOMAIN o : y # i => \E x \in DOMAIN p : p[x] = o[y]
  /\ \A a, y \in DOMAIN o : a # i /\ y # i =>
       (o[y].key \in Later(p, o[a].key) <=> o[y].key \in Later(o, o[a].key))

\* An entry goes to the end.
LEMMA MovedKeys ==
  ASSUME NEW o, Distinct(o), NEW i \in DOMAIN o, NEW e \in Rec, e.key = o[i].key
  PROVE  MovedIn(o, i, e, Append(RemoveAt(o, i), e))
<1> DEFINE p == Append(RemoveAt(o, i), e)
           n == Len(o)
           from(x) == IF x = n THEN i ELSE IF x < i THEN x ELSE x + 1
           to(y) == IF y = i THEN n ELSE IF y < i THEN y ELSE y - 1
<1>1. /\ p \in Seq(Rec) /\ Len(p) = n /\ p[n] = e
      /\ \A x \in 1 .. n - 1 : p[x] = IF x < i THEN o[x] ELSE o[x + 1]
  <2>1. o \in Seq(Rec)
    BY DEF Distinct
  <2> HIDE DEF Rec
  <2> QED
    BY <2>1, Moved
<1>2. DOMAIN o = 1 .. n /\ n \in Nat /\ DOMAIN p = 1 .. n /\ i \in 1 .. n
  BY <1>1, SMT DEF Distinct
<1> HIDE DEF n, p
<1>3. \A x \in 1 .. n : from(x) \in 1 .. n /\ (from(x) = i <=> x = n)
  BY <1>2, SMT
<1>4. \A x, y \in 1 .. n : from(x) = from(y) => x = y
  BY <1>2, SMT
<1>5. \A y \in 1 .. n : to(y) \in 1 .. n /\ from(to(y)) = y
  BY <1>2, SMT
<1>6. \A a, y \in 1 .. n : a # i /\ y # i => (to(y) > to(a) <=> y > a)
  BY <1>2, SMT
<1>7. \A x \in 1 .. n : p[x] = IF x = n THEN e ELSE o[from(x)]
  <2>1. \A x \in 1 .. n : x # n => x \in 1 .. n - 1
    BY <1>2, SMT
  <2> QED
    BY <1>1, <2>1
<1> HIDE DEF from, to
<1>8. \A x \in 1 .. n : p[x].key = o[from(x)].key
  BY <1>3, <1>7
<1>9. Distinct(p)
  <2>1. ASSUME NEW x \in DOMAIN p, NEW y \in DOMAIN p, p[x].key = p[y].key
        PROVE  x = y
    <3>1. o[from(x)].key = o[from(y)].key /\ from(x) \in DOMAIN o /\ from(y) \in DOMAIN o
      BY <1>2, <1>3, <1>8, <2>1
    <3>2. from(x) = from(y)
      BY <3>1, Zenon DEF Distinct
    <3> QED
      BY <1>2, <1>4, <2>1, <3>2
  <2> QED
    BY <1>1, <2>1 DEF Distinct
<1>10. \A y \in 1 .. n : p[to(y)].key = o[y].key
  BY <1>5, <1>8
<1>11. Keys(p) = Keys(o)
  <2>1. Keys(p) \subseteq Keys(o)
    BY <1>2, <1>3, <1>8 DEF Keys
  <2>2. ASSUME NEW y \in DOMAIN o
        PROVE  o[y].key \in Keys(p)
    <3>1. PICK x \in DOMAIN p : p[x].key = o[y].key
      BY <1>2, <1>5, <1>10
    <3> QED
      BY <3>1 DEF Keys
  <2> QED
    BY <2>1, <2>2 DEF Keys
<1>12. \A x \in DOMAIN p : p[x] = e \/ \E y \in DOMAIN o : y # i /\ p[x] = o[y]
  BY <1>2, <1>3, <1>7
<1>13. \A y \in 1 .. n : y # i => p[to(y)] = o[y]
  BY <1>3, <1>5, <1>7
<1>14. ASSUME NEW a \in DOMAIN o, NEW y \in DOMAIN o, a # i, y # i
       PROVE  o[y].key \in Later(p, o[a].key) <=> o[y].key \in Later(o, o[a].key)
  <2>1. to(a) \in DOMAIN p /\ to(y) \in DOMAIN p
    BY <1>2, <1>5, <1>14
  <2>2. p[to(a)].key = o[a].key /\ p[to(y)].key = o[y].key
    BY <1>2, <1>10, <1>14
  <2>3. p[to(y)].key \in Later(p, p[to(a)].key) <=> to(y) > to(a)
    BY <1>9, <2>1, LaterIs
  <2>4. o[y].key \in Later(o, o[a].key) <=> y > a
    BY <1>14, LaterIs
  <2> QED
    BY <1>2, <1>6, <1>14, <2>2, <2>3, <2>4
<1> QED
  BY <1>1, <1>2, <1>5, <1>9, <1>11, <1>12, <1>13, <1>14 DEF n, p, MovedIn

-----------------------------------------------------------------------------
(* Values of the event and the signals they name. *)

\* The iterators of the model are those places.
LEMMA Iterators ==
  /\ \A k : At(k) = AtOf(object, k) /\ After(k) = Later(object, k)
  /\ (\A k : At(k) = AtOf(object, k) /\ After(k) = Later(object, k))'
BY DEF At, After, AtOf, Later

\* The object has the keys of the event, each once.
LEMMA EntryOf ==
  ASSUME Entries, Keys(object) = Keys(event)
  PROVE  /\ Distinct(object) /\ Distinct(event)
         /\ \A x \in DOMAIN object : \E j \in DOMAIN event :
              event[j].key = object[x].key /\ event[j].names = object[x].names
         /\ \A j \in DOMAIN event : \E x \in DOMAIN object :
              event[j].key = object[x].key /\ event[j].names = object[x].names
<1>1. Distinct(object) /\ Distinct(event)
  BY DEF Entries, Distinct
<1>2. /\ \A x \in DOMAIN object : \E j \in DOMAIN event : event[j].key = object[x].key
      /\ \A j \in DOMAIN event : \E x \in DOMAIN object : event[j].key = object[x].key
  BY DEF Keys
<1> QED
  BY <1>1, <1>2 DEF Entries

\* The values told, and those there are, can be counted.
LEMMA ToldIs ==
  ASSUME event \in Seq(Rec), NEW s
  PROVE  /\ IsFiniteSet(Told(s)) /\ Cardinality(Told(s)) \in 0 .. Len(event)
         /\ Mentions(s) \in 0 .. Len(event) /\ Len(event) \in Nat
         /\ (Cardinality(Told(s)) = 0 <=> Told(s) = {})
         /\ (Mentions(s) = 0 <=> {j \in DOMAIN event : s \in event[j].names} = {})
         /\ Pending = {} => Cardinality(Told(s)) = Mentions(s)
<1>1. DOMAIN event = 1 .. Len(event) /\ Len(event) \in Nat
  BY SMT
<1>2. IsFiniteSet(DOMAIN event) /\ Cardinality(DOMAIN event) = Len(event)
  BY <1>1, FS_Interval
<1>3. ASSUME NEW T \in SUBSET DOMAIN event
      PROVE  /\ IsFiniteSet(T) /\ Cardinality(T) \in 0 .. Len(event)
             /\ (Cardinality(T) = 0 <=> T = {})
  <2>1. IsFiniteSet(T) /\ Cardinality(T) <= Len(event)
    BY <1>2, FS_Subset
  <2>2. Cardinality(T) \in Nat /\ (Cardinality(T) = 0 <=> T = {})
    BY <2>1, FS_CardinalityType, FS_EmptySet
  <2> QED
    BY <1>1, <2>1, <2>2
<1>4. Told(s) \in SUBSET DOMAIN event
  BY DEF Told
<1>5. Pending = {} => Told(s) = {j \in DOMAIN event : s \in event[j].names}
  BY DEF Told
<1> QED
  BY <1>1, <1>3, <1>4, <1>5 DEF Mentions

-----------------------------------------------------------------------------
(* The inductive invariant. *)

\* What an event may hold fits the types of the object.
LEMMA EntryFits == Entry \subseteq Rec
<1>1. \A n \in Number : n \in Nat
  BY NumberAssumption
<1> QED
  BY <1>1, KindAssumption DEF Entry, Rec

\* An event comes, and nothing has been done with it.
LEMMA InvInit == Init => Inv
<1> SUFFICES ASSUME Init PROVE Inv
  OBVIOUS
<1>1. PICK n \in Nat : event \in [1 .. n -> Entry]
  <2>1. CASE kind = "object"
    <3>1. Cardinality(Key) \in Nat
      BY KindAssumption, FS_CardinalityType
    <3>2. PICK n \in 0 .. Cardinality(Key) : event \in [1 .. n -> Entry]
      BY <2>1 DEF Init, Object
    <3> QED
      BY <3>1, <3>2, SMT
  <2>2. CASE kind # "object"
    <3>1. event = << >>
      BY <2>2 DEF Init
    <3>2. event \in [1 .. 0 -> Entry]
      BY <3>1, SMT
    <3> QED
      BY <3>2
  <2> QED
    BY <2>1, <2>2
<1>2. event \in Seq(Rec) /\ Len(event) \in Nat
  <2>1. event \in [1 .. n -> Rec]
    BY <1>1, EntryFits
  <2> QED
    BY <2>1, SMT
<1>3. \A j \in DOMAIN event : /\ event[j].number \in Number \cup {0}
                              /\ event[j].type = "int" => event[j].names = {}
  BY <1>1 DEF Entry
<1>4. \A i, j \in DOMAIN event : event[i].key = event[j].key => i = j
  <2>1. CASE kind = "object"
    BY <2>1 DEF Init, Object
  <2>2. CASE kind # "object"
    BY <2>2 DEF Init
  <2> QED
    BY <2>1, <2>2
<1>5. object = event /\ inner = None /\ outer = None /\ pc = "new" /\ ~fault /\ toCall = {}
  BY DEF Init
<1>6. Entries /\ ConvertedOnce
  BY <1>2, <1>3, <1>4, <1>5 DEF Entries, ConvertedOnce
<1>7. Places
  BY <1>5 DEF Init, Places
<1>8. Counted
  BY <1>5 DEF Counted, Looking
<1>9. TypeOK
  <2>1. calls \in [Signal -> 0 .. Len(event) + 1]
    BY <1>2 DEF Init
  <2> QED
    BY <1>5, <2>1 DEF Init, TypeOK
<1> QED
  BY <1>6, <1>7, <1>8, <1>9 DEF Inv

\* The event and the object stay as they are, and so do the counts of the calls.
LEMMA TypesFrame ==
  ASSUME TypeOK, UNCHANGED <<event, object, kind, found, calls>>,
         toCall' \subseteq found, isSet' \subseteq WithEvent,
         outer' \in Keys(object) \cup {None}, inner' \in Keys(object) \cup {None},
         named' \in BOOLEAN, fault' \in BOOLEAN, cur' \in Signal \cup {None},
         pc' \in {"new", "scan", "call", "rest", "convert", "act", "default", "done"}
  PROVE  TypeOK'
<1>1. Keys(object)' = Keys(object) /\ Keys(event)' = Keys(event)
  BY DEF Keys
<1> QED
  BY <1>1 DEF TypeOK

\* What is said of the entries is untouched, where they are.
LEMMA EntriesFrame ==
  ASSUME Inv, UNCHANGED <<event, object, kind, found>>
  PROVE  /\ Entries' /\ ConvertedOnce' /\ Keys(object)' = Keys(object)
         /\ (kind # "object" => event = << >>)'
         /\ \A s : Mentions(s)' = Mentions(s) /\ Due(s)' = Due(s)
<1>1. Entries' /\ ConvertedOnce'
  BY DEF Inv, Entries, ConvertedOnce, ToLua
<1>2. Keys(object)' = Keys(object) /\ (kind # "object" => event = << >>)'
  BY DEF Inv, Places, Keys
<1>3. \A s : Mentions(s)' = Mentions(s)
  BY DEF Mentions
<1> QED
  BY <1>1, <1>2, <1>3 DEF Due

\* What has been told changes only with the values that name somebody.
LEMMA ToldFrame ==
  ASSUME event' = event,
         \A j \in DOMAIN event : event[j].names # {} =>
           (event[j].key \in Pending' <=> event[j].key \in Pending)
  PROVE  \A s : Told(s)' = Told(s)
BY DEF Told

\* The iterators begin with an entry, or end at once.
LEMMA FirstIsKey ==
  ASSUME Entries
  PROVE  /\ First \in Keys(object) \cup {None}
         /\ object = << >> => First = None
         /\ object # << >> => /\ First # None
                              /\ After(First) \cup {First} = Keys(object)
<1>1. CASE object = << >>
  BY <1>1 DEF First
<1>2. CASE object # << >>
  <2>1. Distinct(object)
    BY DEF Entries, Distinct
  <2>2. 1 \in DOMAIN object /\ First = object[1].key
    BY <1>2, <2>1, AllLater DEF First
  <2> QED
    BY <1>2, <2>1, <2>2, AllLater, LaterIs, Iterators DEF Keys
<1> QED
  BY <1>1, <1>2

\* They go on with an entry, or end.
LEMMA NextIsKey ==
  ASSUME Entries, NEW k \in Keys(object)
  PROVE  /\ NextKey(k) \in Keys(object) \cup {None}
         /\ After(k) = IF NextKey(k) = None THEN {} ELSE After(NextKey(k)) \cup {NextKey(k)}
<1>1. Distinct(object)
  BY DEF Entries, Distinct
<1>2. PICK a \in DOMAIN object : k = object[a].key
  BY DEF Keys
<1>3. At(k) = a
  BY <1>1, <1>2, LaterIs, Iterators
<1>4. CASE a = Len(object)
  BY <1>1, <1>2, <1>3, <1>4, StepOn, Iterators DEF NextKey
<1>5. CASE a # Len(object)
  <2>1. NextKey(k) = object[a + 1].key /\ a + 1 \in DOMAIN object
    BY <1>1, <1>3, <1>5, StepOn DEF NextKey
  <2>2. NextKey(k) \in Keys(object) /\ NextKey(k) # None
    BY <1>1, <2>1, LaterIs DEF Keys
  <2>3. After(k) = After(NextKey(k)) \cup {NextKey(k)}
    BY <1>1, <1>2, <1>5, <2>1, StepOn, Iterators
  <2> QED
    BY <2>2, <2>3
<1> QED
  BY <1>4, <1>5

-----------------------------------------------------------------------------
(* The steps. *)

\* A call that is due is one that the counters have room for.
LEMMA CallFits ==
  ASSUME Inv, pc \in {"call", "rest"}, NEW s \in toCall
  PROVE  calls[s] \in Nat /\ calls[s] + 1 \in 0 .. Len(event) + 1
<1>1. s \in Signal /\ s \in found /\ calls[s] \in 0 .. Len(event) + 1
  BY DEF Inv, TypeOK
<1>2. event \in Seq(Rec)
  BY DEF Inv, Entries
<1>3. /\ Cardinality(Told(s)) \in 0 .. Len(event) /\ Mentions(s) \in 0 .. Len(event)
      /\ Len(event) \in Nat
  BY <1>2, ToldIs
<1>4. Called(s) = calls[s] + 1
  BY DEF Called
<1>5. CASE pc = "call"
  <2>1. Called(s) = Cardinality(Told(s))
    BY <1>1, <1>5 DEF Inv, Counted, Looking
  <2> QED
    BY <1>1, <1>3, <1>4, <2>1
<1>6. CASE pc = "rest"
  <2>1. ~fault /\ ~Looking
    BY <1>6 DEF Inv, Places, Looking
  <2>2. Called(s) = Due(s)
    BY <1>1, <1>6, <2>1 DEF Inv, Counted
  <2>3. Due(s) \in 0 .. Len(event) + 1
    BY <1>3 DEF Due
  <2> QED
    BY <1>1, <1>3, <1>4, <2>2, <2>3
<1> QED
  BY <1>5, <1>6

\* A null pointer ends everything.
LEMMA FaultKeepsInv ==
  ASSUME Inv, UNCHANGED <<event, kind, object, found, outer, inner, named, toCall, cur, calls>>,
         isSet' \subseteq WithEvent, fault' = TRUE, pc' = "done"
  PROVE  Inv'
<1>1. Entries' /\ ConvertedOnce' /\ (kind # "object" => event = << >>)'
  BY EntriesFrame
<1>2. TypeOK'
  BY DEF Inv, TypeOK, Keys
<1>3. Places'
  BY <1>1 DEF Inv, Places, At
<1>4. Counted'
  BY DEF Counted, Looking
<1> QED
  BY <1>1, <1>2, <1>3, <1>4 DEF Inv

\* The thread goes on within the loop, or after it, and nobody is called.
LEMMA QuietKeepsInv ==
  ASSUME Inv, UNCHANGED <<event, kind, object, found, outer, named, toCall, calls, fault>>,
         TypeOK', Places', Pending' = Pending, Looking' <=> Looking, pc # "new"
  PROVE  Inv'
<1>1. Entries' /\ ConvertedOnce'
  BY EntriesFrame
<1>2. \A s : Told(s)' = Told(s) /\ Called(s)' = Called(s) /\ Due(s)' = Due(s)
  BY EntriesFrame, ToldFrame DEF Called
<1>3. Counted'
  BY <1>2 DEF Inv, Counted
<1> QED
  BY <1>1, <1>3 DEF Inv

\* Where nothing is looked up, what is pending depends on the object and the place.
LEMMA PlaceFrame ==
  ASSUME UNCHANGED <<object, outer>>
  PROVE  /\ object[At(outer)]' = object[At(outer)] /\ After(outer)' = After(outer)
         /\ pc # "scan" /\ pc' # "scan" => Pending' = Pending
BY DEF At, After, Pending

\* The action of a signal touches neither the object nor the iterators.
LEMMA ActKeepsInv == ASSUME Inv, Act PROVE Inv'
<1>1. TypeOK'
  BY DEF Inv, TypeOK, Act, Keys, Return
<1>2. Places'
  BY PlaceFrame DEF Inv, Places, Act, Return
<1>3. Pending' = Pending /\ (Looking' <=> Looking) /\ pc # "new"
  BY PlaceFrame DEF Act, Return, Looking
<1> QED
  BY <1>1, <1>2, <1>3, QuietKeepsInv DEF Act

\* Nor does the default callback, which reads a value and a timestamp and sets nothing.
LEMMA DefaultKeepsInv == ASSUME Inv, Default PROVE Inv'
<1>1. TypeOK'
  BY DEF Inv, TypeOK, Default, Keys, Return
<1>2. Places'
  BY PlaceFrame DEF Inv, Places, Default, Return
<1>3. Pending' = Pending /\ (Looking' <=> Looking) /\ pc # "new"
  BY PlaceFrame DEF Default, Return, Looking
<1> QED
  BY <1>1, <1>2, <1>3, QuietKeepsInv DEF Default

\* A conversion that has gone through the object is followed by the action.
LEMMA ConvertEndKeepsInv == ASSUME Inv, ConvertEnd PROVE Inv'
<1>1. TypeOK'
  BY DEF Inv, TypeOK, ConvertEnd, Keys
<1>2. Places'
  BY PlaceFrame DEF Inv, Places, ConvertEnd
<1>3. Pending' = Pending /\ (Looking' <=> Looking) /\ pc # "new"
  BY PlaceFrame DEF ConvertEnd, Looking
<1> QED
  BY <1>1, <1>2, <1>3, QuietKeepsInv DEF ConvertEnd

\* When every signal without a value of its own has been called, the event is done.
LEMMA HandledKeepsInv == ASSUME Inv, Handled PROVE Inv'
<1>1. TypeOK'
  BY DEF Inv, TypeOK, Handled, Keys
<1>2. Places'
  BY PlaceFrame DEF Inv, Places, Handled
<1>3. Pending' = Pending /\ (Looking' <=> Looking) /\ pc # "new"
  BY PlaceFrame DEF Handled, Looking
<1> QED
  BY <1>1, <1>2, <1>3, QuietKeepsInv DEF Handled

\* A call moves a signal from those to call to those called.
LEMMA CallKeepsInv == ASSUME Inv, NEW s \in Signal, Call(s) PROVE Inv'
<1>1. pc \in {"call", "rest"} /\ s \in toCall /\ pc' \in {"convert", "act"}
  BY DEF Call
<1>2. Entries' /\ ConvertedOnce' /\ \A t : Due(t)' = Due(t)
  BY EntriesFrame DEF Call
<1>3. TypeOK'
  <2>1. calls' \in [Signal -> 0 .. Len(event') + 1]
    BY <1>1, CallFits DEF Inv, TypeOK, Call
  <2>2. inner' \in Keys(object') \cup {None}
    BY FirstIsKey DEF Inv, Call
  <2> QED
    BY <1>1, <2>1, <2>2 DEF Inv, TypeOK, Call, Keys
<1>4. Places'
  BY <1>1, PlaceFrame DEF Inv, Places, Call
<1>5. Counted'
  <2>1. (Looking' <=> Looking) /\ ~fault /\ pc # "new"
    BY <1>1 DEF Inv, Places, Call, Looking
  <2>2. Pending' = Pending
    BY <1>1, PlaceFrame DEF Call
  <2>3. \A t : Told(t)' = Told(t)
    BY <2>2, ToldFrame DEF Call
  <2>4. ASSUME NEW t \in found PROVE Called(t)' = Called(t)
    <3>1. calls'[t] = IF t = s THEN calls[t] + 1 ELSE calls[t]
      BY <2>4 DEF Call, Inv, TypeOK
    <3>2. calls[t] \in Nat
      BY <2>4 DEF Inv, TypeOK
    <3>3. t \in toCall' <=> t \in toCall /\ t # s
      BY DEF Call
    <3> QED
      BY <1>1, <3>1, <3>2, <3>3 DEF Called
  <2> QED
    BY <1>2, <2>1, <2>3, <2>4 DEF Inv, Counted, Call
<1> QED
  BY <1>2, <1>3, <1>4, <1>5 DEF Inv

\* The loop comes to the next entry: what was pending behind it still is.
LEMMA ScanNextKeepsInv == ASSUME Inv, ScanNext PROVE Inv'
<1>1. outer \in Keys(object) /\ outer # None
  BY DEF Inv, TypeOK, Places, ScanNext
<1>2. /\ NextKey(outer) \in Keys(object) \cup {None}
      /\ After(outer) = IF NextKey(outer) = None THEN {}
                          ELSE After(NextKey(outer)) \cup {NextKey(outer)}
  BY <1>1, NextIsKey DEF Inv
<1>3. \A k : After(k)' = After(k)
  BY DEF ScanNext, After, At
<1>4. Pending' = Pending
  <2>1. Pending = After(outer)
    BY DEF Pending, ScanNext
  <2>2. Pending' = IF outer' = None THEN {} ELSE After(outer') \cup {outer'}
    BY <1>3 DEF Pending, ScanNext, After
  <2> QED
    BY <1>2, <2>1, <2>2 DEF ScanNext
<1>5. Entries' /\ ConvertedOnce' /\ \A t : Due(t)' = Due(t)
  BY EntriesFrame DEF ScanNext
<1>6. TypeOK'
  BY <1>2 DEF Inv, TypeOK, ScanNext, Keys
<1>7. Places'
  BY DEF Inv, Places, ScanNext
<1>8. Counted'
  <2>1. \A t : Told(t)' = Told(t) /\ Called(t)' = Called(t)
    BY <1>4, ToldFrame DEF Called, ScanNext
  <2> QED
    BY <2>1 DEF Inv, Counted, Looking, ScanNext
<1> QED
  BY <1>5, <1>6, <1>7, <1>8 DEF Inv

\* The loop ends: what has been told is all there is, and nobody named means everybody.
LEMMA ScanEndKeepsInv == ASSUME Inv, ScanEnd PROVE Inv'
<1>1. Entries' /\ ConvertedOnce' /\ \A t : Due(t)' = Due(t)
  BY EntriesFrame DEF ScanEnd
<1>2. TypeOK'
  BY DEF Inv, TypeOK, ScanEnd, Keys
<1>3. Places'
  BY DEF Inv, Places, ScanEnd
<1>4. Pending = {} /\ event \in Seq(Rec)
  BY DEF Pending, After, ScanEnd, Inv, Entries
<1>5. \A t : /\ Cardinality(Told(t)) = Mentions(t) /\ Mentions(t) \in Nat
             /\ (Mentions(t) = 0 <=> Told(t) = {})
  BY <1>4, ToldIs
<1>6. Cardinality(found) > 1 /\ (named <=> \E u \in found : Mentions(u) > 0)
  BY <1>5 DEF Inv, Counted, Looking, ScanEnd
<1>7. ASSUME NEW t \in found PROVE Called(t)' = Due(t)
  <2>1. t \notin toCall /\ calls[t] = Mentions(t)
    <3>1. toCall = {} /\ Called(t) = Cardinality(Told(t)) /\ calls[t] \in Nat
      BY <1>7 DEF Inv, TypeOK, Places, Counted, Looking, ScanEnd
    <3> QED
      BY <1>5, <3>1 DEF Called
  <2>2. CASE named
    BY <1>5, <1>6, <2>1, <2>2 DEF Called, Due, ScanEnd
  <2>3. CASE ~named
    BY <1>5, <1>6, <1>7, <2>1, <2>3 DEF Called, Due, ScanEnd
  <2> QED
    BY <2>2, <2>3
<1>8. Counted'
  BY <1>1, <1>7 DEF Counted, Looking, ScanEnd
<1> QED
  BY <1>1, <1>2, <1>3, <1>8 DEF Inv

\* An event comes: all of it is pending, or its one signal is to be called.
LEMMA ReceiveKeepsInv == ASSUME Inv, Receive PROVE Inv'
<1>1. /\ pc = "new" /\ toCall = {} /\ outer = None /\ ~named /\ ~fault
      /\ \A s \in Signal : calls[s] = 0
  BY DEF Inv, Places, Receive
<1>2. found \subseteq Signal /\ event \in Seq(Rec) /\ object \in Seq(Rec)
  BY DEF Inv, TypeOK, Entries
<1>3. Entries' /\ ConvertedOnce' /\ \A t : Due(t)' = Due(t)
  BY EntriesFrame DEF Receive
<1>4. CASE Cardinality(found) > 1 /\ pc' = "scan"
  <2>1. toCall' = {} /\ outer' = IF Iterable THEN First ELSE None
    BY <1>1, <1>4 DEF Receive
  <2>2. TypeOK'
    <3>1. TypeOK /\ outer' \in Keys(object) \cup {None} /\ toCall' \subseteq found
      BY <2>1, FirstIsKey DEF Inv
    <3>2. UNCHANGED <<event, object, kind, found, inner, named, cur, calls, isSet, fault>>
      BY DEF Receive
    <3> QED
      BY <1>4, <3>1, <3>2, TypesFrame DEF TypeOK
  <2>3. Places'
    BY <1>1, <1>4, <2>1 DEF Inv, Places, Receive
  <2>4. \A s : Told(s)' = {}
    <3>1. CASE kind = "object" /\ object # << >>
      <4>1. outer' # None /\ After(outer') \cup {outer'} = Keys(event)
        BY <2>1, <3>1, FirstIsKey DEF Inv, TypeOK, Iterable
      <4>2. Pending' = Keys(event)
        BY <1>4, <4>1 DEF Pending, After, At, Receive
      <4> QED
        BY <4>2 DEF Told, Keys, Receive
    <3>2. CASE kind # "object" \/ object = << >>
      <4>1. event = << >>
        <5>1. object = << >> => Len(event) = 0
          BY DEF Inv, TypeOK
        <5> QED
          BY <1>2, <3>2, <5>1, SMT DEF Inv, Places
      <4>2. DOMAIN event = {}
        BY <4>1
      <4> QED
        BY <4>2 DEF Told, Receive
    <3> QED
      BY <3>1, <3>2
  <2>5. Cardinality({}) = 0
    BY FS_EmptySet
  <2>6. \A s \in found : Called(s)' = 0
    BY <1>1, <1>2, <1>4, <2>1 DEF Called, Receive
  <2>7. UNCHANGED <<found, named>> /\ Looking'
    BY <1>4 DEF Receive, Looking
  <2>8. \A s \in found : Cardinality(Told(s)') = 0 /\ Told(s)' = {}
    BY <2>4, <2>5
  <2>9. Counted'
    BY <1>1, <1>4, <2>6, <2>7, <2>8 DEF Counted
  <2> QED
    BY <1>3, <2>2, <2>3, <2>9 DEF Inv
<1>5. CASE Cardinality(found) <= 1 /\ pc' = "rest"
  <2>1. toCall' = found /\ outer' = None /\ UNCHANGED <<found, calls, fault>>
    BY <1>1, <1>5 DEF Receive
  <2>2. TypeOK'
    BY <1>5, <2>1 DEF Inv, TypeOK, Receive, Keys
  <2>3. Places'
    BY <1>1, <1>5, <2>1 DEF Inv, Places, Receive
  <2>4. Cardinality(found) \in Nat
    BY <1>2, KindAssumption, FS_Subset, FS_CardinalityType
  <2>5. \A s \in found : Due(s) = 1
    BY <1>5, <2>4 DEF Due
  <2>6. \A s \in found : Called(s)' = 1
    BY <1>1, <1>2, <2>1 DEF Called
  <2>7. Counted'
    BY <1>3, <1>5, <2>1, <2>5, <2>6 DEF Counted, Looking
  <2> QED
    BY <1>3, <2>2, <2>3, <2>7 DEF Inv
<1> QED
  BY <1>4, <1>5 DEF Receive

\* The value at the place of the loop has been told, and those it names are to call.
LEMMA ScanKeepsInv == ASSUME Inv, Scan PROVE Inv'
<1>1. /\ pc = "scan" /\ outer \in Keys(object) /\ outer # None /\ toCall = {}
      /\ UNCHANGED <<event, object, found, outer, calls, fault>> /\ pc' = "call" /\ ~fault
  BY DEF Inv, TypeOK, Places, Scan
<1>2. Entries' /\ ConvertedOnce' /\ \A t : Due(t)' = Due(t)
  BY EntriesFrame DEF Scan
<1>3. TypeOK'
  <2>1. toCall' \subseteq found /\ named' \in BOOLEAN /\ UNCHANGED <<kind, inner, cur, isSet>>
    BY DEF Scan
  <2>2. TypeOK
    BY DEF Inv
  <2> QED
    BY <1>1, <2>1, <2>2, TypesFrame DEF TypeOK
<1>4. Places'
  <2>1. toCall' # {} => object[At(outer)].names # {}
    BY DEF Scan
  <2> QED
    BY <1>1, <2>1, PlaceFrame DEF Inv, Places, Scan
<1>5. Distinct(object) /\ Distinct(event) /\ event \in Seq(Rec)
  BY EntryOf DEF Inv, TypeOK, Entries
<1>6. PICK a \in DOMAIN object : object[a].key = outer
  BY <1>1 DEF Keys
<1>7. PICK j0 \in DOMAIN event : event[j0].key = outer /\ event[j0].names = object[a].names
  BY <1>6, EntryOf DEF Inv, TypeOK
<1>8. At(outer) = a /\ outer \notin After(outer)
  <2>1. ~(a > a)
    <3>1. a \in 1 .. Len(object) /\ Len(object) \in Nat
      BY <1>5, <1>6, SMT DEF Distinct
    <3> QED
      BY <3>1, SMT
  <2> QED
    BY <1>5, <1>6, <2>1, LaterIs, Iterators
<1>9. Pending = After(outer) \cup {outer} /\ Pending' = After(outer)
  BY <1>1, PlaceFrame DEF Pending
<1>10. toCall' = event[j0].names \cap found /\ (named' <=> named \/ toCall' # {})
  BY <1>7, <1>8 DEF Scan
<1>11. \A j \in DOMAIN event : event[j].key = outer <=> j = j0
  BY <1>5, <1>7 DEF Distinct
<1>12. \A s : /\ j0 \notin Told(s)
              /\ Told(s)' = IF s \in event[j0].names THEN Told(s) \cup {j0} ELSE Told(s)
  BY <1>1, <1>7, <1>8, <1>9, <1>11 DEF Told
<1>13. ASSUME NEW s \in found
       PROVE  Called(s)' = Cardinality(Told(s)')
  <2>1. Called(s) = Cardinality(Told(s)) /\ calls[s] \in Nat
    BY <1>1 DEF Inv, TypeOK, Counted, Looking
  <2>2. calls[s] = Cardinality(Told(s))
    BY <1>1, <2>1 DEF Called
  <2>3. IsFiniteSet(Told(s))
    BY <1>5, ToldIs
  <2>4. Cardinality(Told(s) \cup {j0}) = Cardinality(Told(s)) + 1
    BY <1>12, <2>3, FS_AddElement
  <2>5. Called(s)' = calls[s] + (IF s \in event[j0].names THEN 1 ELSE 0)
    BY <1>1, <1>10 DEF Called
  <2>6. CASE s \in event[j0].names
    BY <1>12, <2>2, <2>4, <2>5, <2>6
  <2>7. CASE s \notin event[j0].names
    BY <1>12, <2>1, <2>2, <2>5, <2>7
  <2> QED
    BY <2>6, <2>7
<1>14. named' <=> \E s \in found : Told(s)' # {}
  <2>1. named <=> \E s \in found : Told(s) # {}
    BY <1>1 DEF Inv, Counted, Looking
  <2> QED
    BY <1>10, <1>12, <2>1
<1>15. Counted'
  <2>1. Cardinality(found) > 1
    BY <1>1 DEF Inv, Counted, Looking
  <2> QED
    BY <1>1, <1>13, <1>14, <2>1 DEF Counted, Looking
<1> QED
  BY <1>2, <1>3, <1>4, <1>15 DEF Inv

\* lua2c: the entry converted goes to the end and no other one changes.  It names nobody,
\* so that the iterator of onSourceEvents does not stand on it, and keeps behind it
\* every value that names somebody.
LEMMA ConvertMovesKeepsInv ==
  ASSUME Inv, Convert, object[At(inner)].type = "int"
  PROVE  Inv'
<1> DEFINE i == At(inner)
           e == [object[i] EXCEPT !.number = ToLua(@)]
<1>1. /\ inner \in Keys(object) /\ pc = "convert" /\ inner' = None
      /\ UNCHANGED <<event, kind, found, outer, named, toCall, cur, calls, isSet, pc, fault>>
      /\ object' = Append(RemoveAt(object, i), e)
  BY DEF Inv, TypeOK, Convert
<1>2. Distinct(object) /\ Distinct(event) /\ object \in Seq(Rec)
  BY EntryOf DEF Inv, TypeOK, Entries
<1>3. i \in DOMAIN object /\ object[i] \in Rec
  <2>1. i \in DOMAIN object
    BY <1>1, Zenon DEF Keys, At
  <2> QED
    BY <1>2, <2>1, SMT
<1>4. /\ e \in Rec /\ e.key = object[i].key /\ e.number = ToLua(object[i].number)
      /\ e.type = "int" /\ e.names = object[i].names /\ e.names = {}
  BY <1>3, ToLuaNat DEF Inv, Entries, Rec
<1> HIDE DEF i, e
<1>5. MovedIn(object, i, e, object')
  BY <1>1, <1>2, <1>3, <1>4, MovedKeys
<1>6. Entries'
  <2>1. ASSUME NEW x \in DOMAIN object'
        PROVE  /\ object'[x].type = "int" => object'[x].names = {}
               /\ \E y \in DOMAIN object :
                    object'[x].key = object[y].key /\ object'[x].names = object[y].names
    <3>1. CASE object'[x] = e
      BY <1>3, <1>4, <3>1
    <3>2. ASSUME NEW y \in DOMAIN object, object'[x] = object[y]
          PROVE  object'[x].type = "int" => object'[x].names = {}
      BY <3>2 DEF Inv, Entries
    <3> QED
      BY <1>4, <1>5, <3>1, <3>2 DEF MovedIn
  <2>2. /\ \A x \in DOMAIN object' : object'[x].type = "int" => object'[x].names = {}
        /\ \A x \in DOMAIN object', j \in DOMAIN event :
             object'[x].key = event[j].key => object'[x].names = event[j].names
    BY <2>1 DEF Inv, Entries
  <2> QED
    BY <1>1, <1>5, <2>2 DEF MovedIn, Inv, Entries, Distinct
<1>7. ConvertedOnce'
  <2>1. ASSUME NEW j \in DOMAIN event, e.key = event[j].key
        PROVE  e.number \in {event[j].number, ToLua(event[j].number)}
    <3>1. object[i].number \in {event[j].number, ToLua(event[j].number)}
      BY <1>3, <1>4, <2>1 DEF Inv, ConvertedOnce
    <3>2. ToLua(ToLua(event[j].number)) = ToLua(event[j].number)
      BY ToLuaTwice DEF Inv, Entries
    <3> QED
      BY <1>4, <3>1, <3>2
  <2> SUFFICES ASSUME NEW x \in DOMAIN object', NEW j \in DOMAIN event, object'[x].key = event[j].key
               PROVE  object'[x].number \in {event[j].number, ToLua(event[j].number)}
    BY <1>1 DEF ConvertedOnce, ToLua
  <2>2. CASE object'[x] = e
    BY <2>1, <2>2
  <2>3. ASSUME NEW y \in DOMAIN object, object'[x] = object[y]
        PROVE  object'[x].number \in {event[j].number, ToLua(event[j].number)}
    BY <2>3 DEF Inv, ConvertedOnce
  <2> QED
    BY <1>5, <2>2, <2>3 DEF MovedIn
<1>8. TypeOK'
  BY <1>1, <1>5 DEF MovedIn, Inv, TypeOK
<1>9. ASSUME outer # None
      PROVE  /\ object'[At(outer)'].names # {}
             /\ \A j \in DOMAIN event : event[j].names # {} =>
                  (event[j].key \in After(outer)' <=> event[j].key \in After(outer))
  <2>1. PICK a \in DOMAIN object : object[a].key = outer
    BY <1>9 DEF Inv, TypeOK, Keys
  <2>2. At(outer) = a
    BY <1>2, <2>1, LaterIs, Iterators
  <2>3. object[a].names # {}
    BY <1>1, <1>9, <2>2 DEF Inv, Places
  <2>4. a # i
    BY <1>4, <2>3
  <2>5. PICK x \in DOMAIN object' : object'[x] = object[a]
    BY <1>5, <2>4 DEF MovedIn
  <2>6. AtOf(object', object'[x].key) = x
    BY <1>5, <2>5, LaterIs DEF MovedIn
  <2>7. At(outer)' = x
    BY <1>1, <2>1, <2>5, <2>6, Iterators
  <2>8. ASSUME NEW j \in DOMAIN event, event[j].names # {}
        PROVE  event[j].key \in After(outer)' <=> event[j].key \in After(outer)
    <3>1. PICK y \in DOMAIN object : event[j].key = object[y].key /\ event[j].names = object[y].names
      BY EntryOf DEF Inv, TypeOK
    <3>2. y # i
      BY <1>4, <2>8, <3>1
    <3>3. object[y].key \in Later(object', object[a].key) <=> object[y].key \in Later(object, object[a].key)
      BY <1>5, <2>4, <3>2 DEF MovedIn
    <3>4. After(outer)' = Later(object', outer) /\ After(outer) = Later(object, outer)
      BY <1>1, Iterators
    <3> QED
      BY <2>1, <3>1, <3>3, <3>4
  <2> QED
    BY <2>3, <2>5, <2>7, <2>8
<1>10. Places'
  BY <1>1, <1>9 DEF Inv, Places
<1>11. Counted'
  <2>1. \A s : Told(s)' = Told(s)
    <3>1. Pending = After(outer) /\ Pending' = After(outer)'
      BY <1>1 DEF Pending
    <3>2. outer = None => After(outer) = {} /\ After(outer)' = {}
      BY <1>1 DEF After
    <3> QED
      BY <1>1, <1>9, <3>1, <3>2, ToldFrame
  <2>2. \A s : Called(s)' = Called(s) /\ Due(s)' = Due(s)
    BY <1>1 DEF Called, Due, Mentions
  <2> QED
    BY <1>1, <2>1, <2>2 DEF Inv, Counted, Looking
<1> QED
  BY <1>6, <1>7, <1>8, <1>10, <1>11 DEF Inv

\* A string is left where it is.
LEMMA ConvertSkipsKeepsInv ==
  ASSUME Inv, Convert, object[At(inner)].type # "int"
  PROVE  Inv'
<1>1. /\ inner \in Keys(object) /\ pc = "convert" /\ inner' = NextKey(inner) /\ object' = object
      /\ UNCHANGED <<event, kind, found, outer, named, toCall, cur, calls, isSet, pc, fault>>
  BY DEF Inv, TypeOK, Convert
<1>2. inner' \in Keys(object) \cup {None}
  BY <1>1, NextIsKey DEF Inv
<1>3. TypeOK'
  <2>1. TypeOK
    BY DEF Inv
  <2> QED
    BY <1>1, <1>2, <2>1, TypesFrame DEF TypeOK
<1>4. Places'
  BY <1>1, PlaceFrame DEF Inv, Places
<1>5. Pending' = Pending /\ (Looking' <=> Looking)
  BY <1>1, PlaceFrame DEF Looking
<1> QED
  BY <1>1, <1>3, <1>4, <1>5, QuietKeepsInv

-----------------------------------------------------------------------------
(* Theorems. *)

\* The invariant holds of every reachable state.
THEOREM Inductive == Spec => []Inv
<1>1. Init => Inv
  BY InvInit
<1>2. Inv /\ [Next]_vars => Inv'
  <2> SUFFICES ASSUME Inv, [Next]_vars PROVE Inv'
    OBVIOUS
  <2>1. CASE Receive
    BY <2>1, ReceiveKeepsInv
  <2>2. CASE Scan
    BY <2>2, ScanKeepsInv
  <2>3. CASE ScanFails \/ ConvertFails
    <3>1. isSet \subseteq WithEvent
      BY DEF Inv, TypeOK
    <3> QED
      BY <2>3, <3>1, FaultKeepsInv DEF ScanFails, ConvertFails, Fail
  <2>4. CASE ScanNext
    BY <2>4, ScanNextKeepsInv
  <2>5. CASE ScanEnd
    BY <2>5, ScanEndKeepsInv
  <2>6. CASE Handled
    BY <2>6, HandledKeepsInv
  <2>7. ASSUME NEW s \in Signal, Call(s) PROVE Inv'
    BY <2>7, CallKeepsInv
  <2>8. CASE Convert
    BY <2>8, ConvertMovesKeepsInv, ConvertSkipsKeepsInv
  <2>9. CASE ConvertEnd
    BY <2>9, ConvertEndKeepsInv
  <2>10. CASE Act
    BY <2>10, ActKeepsInv
  <2>11. CASE DefaultFails
    <3>1. isSet' \subseteq WithEvent
      BY <2>11 DEF DefaultFails, Inv, TypeOK, Places
    <3> QED
      BY <2>11, <3>1, FaultKeepsInv DEF DefaultFails
  <2>12. CASE Default
    BY <2>12, DefaultKeepsInv
  <2>13. CASE UNCHANGED vars
    <3>1. TypeOK' /\ Entries' /\ ConvertedOnce'
      <4>1. TypeOK
        BY DEF Inv
      <4>2. TypeOK'
        BY <2>13, <4>1, TypesFrame DEF vars, TypeOK
      <4>3. UNCHANGED <<event, object>>
        BY <2>13 DEF vars
      <4> QED
        BY <2>13, <4>2, <4>3, EntriesFrame DEF vars
    <3>2. Places' /\ Pending' = Pending
      BY <2>13 DEF vars, Inv, Places, Pending, After, At
    <3>3. \A s : Told(s)' = Told(s) /\ Called(s)' = Called(s) /\ Due(s)' = Due(s)
      BY <2>13, <3>2, ToldFrame DEF vars, Called, Due, Mentions
    <3>4. Counted'
      BY <2>13, <3>3 DEF vars, Inv, Counted, Looking
    <3> QED
      BY <3>1, <3>2, <3>4 DEF Inv
  <2> QED
    BY <2>1, <2>2, <2>3, <2>4, <2>5, <2>6, <2>7, <2>8, <2>9, <2>10, <2>11, <2>12, <2>13 DEF Next
<1> QED
  BY <1>1, <1>2, PTL DEF Spec

\* The types hold: the iterators stand on entries that are there, and the counters of
\* the calls have room for one more than the event has values.
THEOREM TypeCorrect == Spec => []TypeOK
<1>1. Inv => TypeOK
  BY DEF Inv
<1> QED
  BY <1>1, Inductive, PTL

\* However many Lua signals share an event, no integer of it is converted twice.
THEOREM NoneTwice == Spec => []ConvertedOnce
<1>1. Inv => ConvertedOnce
  BY DEF Inv
<1> QED
  BY <1>1, Inductive, PTL

\* Every signal that the event is for has been called as often as the event names it,
\* whatever the conversions have done to the object that was iterated.
THEOREM AllReached == Spec => []Reached
<1>1. Inv => Reached
  <2> SUFFICES ASSUME Inv, pc = "done", ~fault, NEW s \in found
               PROVE  calls[s] = Due(s)
    BY DEF Reached, Due
  <2>1. toCall = {} /\ Called(s) = Due(s)
    BY DEF Inv, Places, Counted, Looking
  <2>2. calls[s] \in Nat
    BY DEF Inv, TypeOK
  <2> QED
    BY <2>1, <2>2 DEF Called
<1> QED
  BY <1>1, Inductive, PTL

=============================================================================
