------------------------- MODULE ComposerGraphProofs -------------------------
(***************************************************************************)
(* Proofs about the graph of the observers of Composer: what the recursion *)
(* check is worth, and which edges there are.  The check is a recursive    *)
(* function of the depth of the calls.  That the function exists, and what *)
(* its values are, follows by induction on the depth, in the form of the   *)
(* least depth at which it would fail (LeastElement).                      *)
(*                                                                         *)
(* LoopFree and IgnoredForALoop, the two sides of the check, need nothing  *)
(* of the configurations.  What is said of edges                           *)
(* needs definitions that are Ranked: where a loop is declared, signals    *)
(* are ignored, stay among the new ones and are attached once more by      *)
(* every addObjects.                                                       *)
(***************************************************************************)
EXTENDS ComposerProofs, FiniteSetTheorems

-----------------------------------------------------------------------------
(* The recursion check. *)

\* What the calls down to depth m return, if f says what those one level down do.
Levels(m, f) ==
  [n \in 0..m |-> IF n = 0 THEN [o \in Objects |-> "endless"] ELSE Deeper(f[n - 1])]

\* The recursion is well-defined, however deep it goes.
LEMMA LevelsExist ==
  ASSUME NEW k \in Nat
  PROVE  \E f : f = Levels(k, f)
<1> DEFINE Undefined == {m \in Nat : ~\E f : f = Levels(m, f)}
           m == Min(Undefined)
<1>1. SUFFICES ASSUME Undefined # {}
               PROVE  FALSE
  OBVIOUS
<1>2. m \in Undefined /\ \A n \in Undefined : m <= n
  BY <1>1, LeastExists
<1>3. m \in Nat /\ ~\E f : f = Levels(m, f)
  BY <1>2
<1>4. \A n \in Nat : n < m => \E f : f = Levels(n, f)
  <2> HIDE DEF m
  <2> QED
    BY <1>2, <1>3
<1> HIDE DEF m, Undefined
<1>5. CASE m = 0
  <2> DEFINE e == [o \in Objects |-> "endless"]
             f == [n \in 0..0 |-> e]
  <2>1. f = Levels(0, f)
    BY DEF Levels
  <2> QED
    BY <1>3, <1>5, <2>1
<1>6. CASE m # 0
  <2>1. m - 1 \in Nat /\ m - 1 < m
    BY <1>3, <1>6
  <2>2. PICK f : f = Levels(m - 1, f)
    BY <1>4, <2>1
  <2> DEFINE g == Levels(m, f)
  <2>3. \A n \in 0..(m - 1) : g[n] = f[n]
    <3>1. \A n \in 0..(m - 1) : n \in 0..m
      BY <1>3
    <3> QED
      BY <2>2, <3>1 DEF Levels
  <2>4. \A n \in 0..m : n # 0 => Deeper(g[n - 1]) = Deeper(f[n - 1])
    <3>1. \A n \in 0..m : n # 0 => n - 1 \in 0..(m - 1)
      BY <1>3
    <3> HIDE DEF g
    <3> QED
      BY <2>3, <3>1
  <2>5. g = Levels(m, g)
    <3>1. Levels(m, f) = Levels(m, g)
      <4> HIDE DEF g
      <4> QED
        BY <2>4 DEF Levels
    <3> QED
      BY <3>1
  <2> QED
    BY <1>3, <2>5
<1> QED
  BY <1>5, <1>6

\* recursionCheck is that function, at the depth at which nothing new can come.
LEMMA NestedCheckIs ==
  ASSUME TypeOK
  PROVE  \E f : NestedCheck = f[Len(signal)] /\ f = Levels(Len(signal), f)
<1> DEFINE nested[n \in 0..Len(signal)] ==
             IF n = 0 THEN [o \in Objects |-> "endless"] ELSE Deeper(nested[n - 1])
<1>1. NestedCheck = nested[Len(signal)]
  BY DEF NestedCheck
<1>2. nested = CHOOSE f : f = Levels(Len(signal), f)
  BY DEF nested, Levels
<1> HIDE DEF nested
<1>3. Len(signal) \in Nat
  <2> DEFINE R == [id: Id, depends: Seq(Id), subscribed: BOOLEAN]
  <2>1. signal \in Seq(R)
    BY DEF TypeOK, GraphTypes
  <2> HIDE DEF R
  <2> QED
    BY <2>1, LenProperties
<1>4. \E f : f = Levels(Len(signal), f)
  BY <1>3, LevelsExist
<1>5. nested = Levels(Len(signal), nested)
  BY <1>2, <1>4, Zenon
<1> QED
  BY <1>1, <1>5, Zenon

\* What decides on the result of a call: nothing, or one of the observers.
LEMMA DeeperIs ==
  ASSUME TypeOK, NEW result, NEW o \in Objects
  PROVE  \/ /\ Deeper(result)[o] = "none"
            /\ \A q \in ToSet(observers[o]) : signal[q].id # signal[o].id /\ result[q] = "none"
         \/ \E q \in ToSet(observers[o]) :
              \/ signal[q].id = signal[o].id /\ Deeper(result)[o] = "loop"
              \/ /\ signal[q].id # signal[o].id /\ result[q] # "none"
                 /\ Deeper(result)[o] = result[q]
<1> DEFINE list == observers[o]
           I    == {k \in 1..Len(list) :
                      signal[list[k]].id = signal[o].id \/ result[list[k]] # "none"}
           q    == list[Min(I)]
<1>1. Len(list) \in Nat /\ DOMAIN list = 1..Len(list)
  BY LenProperties DEF TypeOK, GraphTypes
<1>2. CASE I = {}
  <2>1. Deeper(result)[o] = "none"
    BY <1>2 DEF Deeper, SelectInSeq
  <2>2. \A p \in ToSet(list) : signal[p].id # signal[o].id /\ result[p] = "none"
    BY <1>1, <1>2 DEF ToSet
  <2> QED
    BY <2>1, <2>2
<1>3. CASE I # {}
  <2>1. Min(I) \in I
    <3>1. I \subseteq Nat
      BY <1>1
    <3> HIDE DEF I
    <3> QED
      BY <1>3, <3>1, LeastExists
  <2>2. Min(I) # 0 /\ Min(I) \in 1..Len(list)
    <3>1. Min(I) \in 1..Len(list)
      BY <2>1
    <3> HIDE DEF I, list
    <3> QED
      BY <1>1, <3>1
  <2>3. Deeper(result)[o] = IF signal[q].id = signal[o].id THEN "loop" ELSE result[q]
    BY <1>3, <2>2 DEF Deeper, SelectInSeq
  <2>4. q \in ToSet(list) /\ (signal[q].id = signal[o].id \/ result[q] # "none")
    BY <1>1, <2>1, <2>2 DEF ToSet
  <2> HIDE DEF q
  <2> QED
    BY <2>3, <2>4
<1> QED
  BY <1>2, <1>3

\* The same of the first call, which looks for the signal itself.
LEMMA RecursionCheckIs ==
  ASSUME TypeOK, NEW o \in Objects
  PROVE  \/ /\ RecursionCheck[o] = "none"
            /\ \A q \in ToSet(observers[o]) : q # o /\ NestedCheck[q] = "none"
         \/ \E q \in ToSet(observers[o]) :
              \/ q = o /\ RecursionCheck[o] = "loop"
              \/ q # o /\ NestedCheck[q] # "none" /\ RecursionCheck[o] = NestedCheck[q]
<1> DEFINE list == observers[o]
           I    == {k \in 1..Len(list) : list[k] = o \/ NestedCheck[list[k]] # "none"}
           q    == list[Min(I)]
<1>1. Len(list) \in Nat /\ DOMAIN list = 1..Len(list)
  BY LenProperties DEF TypeOK, GraphTypes
<1>2. CASE I = {}
  <2>1. RecursionCheck[o] = "none"
    BY <1>2 DEF RecursionCheck, SelectInSeq
  <2>2. \A p \in ToSet(list) : p # o /\ NestedCheck[p] = "none"
    BY <1>1, <1>2 DEF ToSet
  <2> QED
    BY <2>1, <2>2
<1>3. CASE I # {}
  <2>1. Min(I) \in I
    <3>1. I \subseteq Nat
      BY <1>1
    <3> HIDE DEF I
    <3> QED
      BY <1>3, <3>1, LeastExists
  <2>2. Min(I) # 0 /\ Min(I) \in 1..Len(list)
    <3>1. Min(I) \in 1..Len(list)
      BY <2>1
    <3> HIDE DEF I, list
    <3> QED
      BY <1>1, <3>1
  <2>3. RecursionCheck[o] = IF q = o THEN "loop" ELSE NestedCheck[q]
    BY <1>3, <2>2 DEF RecursionCheck, SelectInSeq
  <2>4. q \in ToSet(list) /\ (q = o \/ NestedCheck[q] # "none")
    BY <1>1, <2>1, <2>2 DEF ToSet
  <2> HIDE DEF q
  <2> QED
    BY <2>3, <2>4
<1> QED
  BY <1>2, <1>3

\* No signal on a ring of observers passes the check (signal.cpp:648): each call on
\* the ring has an observer on the ring to go on with, and returns nothing but -1.
LEMMA RingIsFound ==
  ASSUME TypeOK, NEW ring \in SUBSET Objects,
         \A o \in ring : ToSet(observers[o]) \cap ring # {},
         NEW o \in ring
  PROVE  RecursionCheck[o] # "none"
<1>1. PICK f : NestedCheck = f[Len(signal)] /\ f = Levels(Len(signal), f)
  BY NestedCheckIs
<1> DEFINE N == Len(signal)
           Passed == {n \in 0..N : \E p \in ring : f[n][p] = "none"}
           m == Min(Passed)
<1>2. N \in Nat
  <2> DEFINE R == [id: Id, depends: Seq(Id), subscribed: BOOLEAN]
  <2>1. signal \in Seq(R)
    BY DEF TypeOK, GraphTypes
  <2> HIDE DEF R
  <2> QED
    BY <2>1, LenProperties
<1>3. \A n \in 0..N : f[n] = IF n = 0 THEN [p \in Objects |-> "endless"] ELSE Deeper(f[n - 1])
  BY <1>1 DEF Levels
<1> HIDE DEF N
<1>4. Passed = {}
  <2>1. SUFFICES ASSUME Passed # {}
                 PROVE  FALSE
    OBVIOUS
  <2>2. Passed \subseteq Nat
    BY <1>2
  <2> HIDE DEF Passed
  <2>3. m \in Passed /\ \A n \in Passed : m <= n
    BY <2>1, <2>2, LeastExists
  <2> HIDE DEF m
  <2>4. PICK p \in ring : m \in 0..N /\ f[m][p] = "none"
    BY <2>3 DEF Passed
  <2>5. m # 0
    BY <1>3, <2>4
  <2>6. m - 1 \in 0..N /\ ~(m <= m - 1)
    BY <1>2, <2>4, <2>5
  <2>7. f[m] = Deeper(f[m - 1])
    BY <1>3, <2>4, <2>5
  <2>8. \A q \in ToSet(observers[p]) : f[m - 1][q] = "none"
    <3>1. Deeper(f[m - 1])[p] = "none"
      BY <2>4, <2>7
    <3> DEFINE result == f[m - 1]
    <3> HIDE DEF result
    <3>2. Deeper(result)[p] = "none"
      BY <3>1 DEF result
    <3>3. \A q \in ToSet(observers[p]) : result[q] = "none"
      BY <2>4, <3>2, DeeperIs
    <3> QED
      BY <3>3 DEF result
  <2>9. PICK q \in ring : q \in ToSet(observers[p])
    BY <2>4
  <2>10. m - 1 \in Passed
    BY <2>6, <2>8, <2>9 DEF Passed
  <2> QED
    BY <2>3, <2>6, <2>10
<1>5. \A p \in ring : NestedCheck[p] # "none"
  BY <1>1, <1>2, <1>4 DEF N
<1>6. PICK q \in ring : q \in ToSet(observers[o])
  OBVIOUS
<1> QED
  BY <1>5, <1>6, RecursionCheckIs

-----------------------------------------------------------------------------
(* No loop among the accepted signals. *)

\* What is accepted, map by map.
LEMMA AcceptedIs ==
  ASSUME TypeOK
  PROVE  /\ Accepted \subseteq Objects
         /\ \A o : o \in Accepted <=>
              \E s \in DOMAIN source : \E i \in DOMAIN source[s].signalsM : o = source[s].signalsM[i]
<1>1. \A s \in DOMAIN source : source[s].signalsM \in Map
  BY SourceAt DEF TypeOK
<1>2. \A o : o \in Accepted <=>
        \E s \in DOMAIN source : \E i \in DOMAIN source[s].signalsM : o = source[s].signalsM[i]
  BY DEF Accepted, Kept
<1> QED
  BY <1>1, <1>2, MapIs

\* A destructor takes observers away, and adds none.
LEMMA DestroyShrinks ==
  ASSUME NEW O, NEW a \in [O -> Seq(O)], NEW b \in [O -> SUBSET O], NEW o \in O, NEW p \in O
  PROVE  ToSet(Destroy([observers |-> a, observables |-> b], o).observers[p]) \subseteq ToSet(a[p])
<1> DEFINE g == Destroy([observers |-> a, observables |-> b], o)
<1>1. Destroyed(O, a, b, o, g)
  BY DestroyIs
<1> HIDE DEF g
<1>2. ToSet(<< >>) = {}
  BY DEF ToSet
<1>3. ToSet(RemoveFirst(a[p], o)) \subseteq ToSet(a[p])
  BY RemoveFirstList
<1>4. ToSet(g.observers[p]) \subseteq ToSet(a[p])
  BY <1>1, <1>2, <1>3 DEF Destroyed
<1> QED
  BY <1>4 DEF g

\* No list of observers grows, whether a signal is replaced or not.
LEMMA DiscardShrinks ==
  ASSUME NEW O, NEW a \in [O -> Seq(O)], NEW b \in [O -> SUBSET O], NEW i,
         NEW map, i \in DOMAIN map => map[i] \in O, NEW p \in O
  PROVE  ToSet(Discard([observers |-> a, observables |-> b], map, i).observers[p])
           \subseteq ToSet(a[p])
<1>1. CASE i \in DOMAIN map
  BY <1>1, DestroyShrinks DEF Discard
<1>2. CASE i \notin DOMAIN map
  BY <1>2 DEF Discard
<1> QED
  BY <1>1, <1>2

\* Fewer accepted signals, with fewer accepted observers, have no loop either.
LEMMA LoopFreeShrinks ==
  ASSUME LoopFree, Accepted' \subseteq Accepted,
         \A o \in Accepted' : ToSet(observers'[o]) \cap Accepted' \subseteq ToSet(observers[o])
  PROVE  LoopFree'
<1>1. SUFFICES ASSUME NEW ring \in (SUBSET Accepted') \ {{}}
               PROVE  \E o \in ring : ToSet(observers'[o]) \cap ring = {}
  BY DEF LoopFree
<1>2. PICK o \in ring : ToSet(observers[o]) \cap ring = {}
  BY DEF LoopFree
<1> QED
  BY <1>2

\* A signal that is accepted passed the check, so that it closes no loop.
LEMMA LoopFreeAccept ==
  ASSUME RegistryInv, LoopFree, Accept
  PROVE  LoopFree'
<1> USE DEF RegistryInv
<1>1. /\ Current \in DOMAIN source /\ At \in Objects /\ RecursionCheck[At] = "none"
      /\ \A t \in DOMAIN source : source'[t].signalsM =
           IF t = Current THEN Extend(source[t].signalsM, Min(Rest), At) ELSE source[t].signalsM
      /\ DOMAIN source' = DOMAIN source
  BY AcceptIs DEF Accept
<1>2. Accepted' \subseteq Accepted \cup {At}
  <2>1. ASSUME NEW t \in DOMAIN source, NEW i \in DOMAIN source'[t].signalsM
        PROVE  \/ source'[t].signalsM[i] = At
               \/ i \in DOMAIN source[t].signalsM /\ source'[t].signalsM[i] = source[t].signalsM[i]
    <3> DEFINE map == source[t].signalsM
    <3>1. source'[t].signalsM = map \/ source'[t].signalsM = Extend(map, Min(Rest), At)
      BY <1>1
    <3> HIDE DEF map
    <3>2. \/ source'[t].signalsM[i] = At
          \/ i \in DOMAIN map /\ source'[t].signalsM[i] = map[i]
      BY <2>1, <3>1 DEF Extend
    <3> QED
      BY <3>2 DEF map
  <2>2. Accepted' = UNION {{source'[s].signalsM[i] : i \in DOMAIN source'[s].signalsM} :
                             s \in DOMAIN source'}
    BY DEF Accepted, Kept
  <2>3. TypeOK
    OBVIOUS
  <2> HIDE DEF RegistryInv
  <2> QED
    BY <1>1, <2>1, <2>2, <2>3, AcceptedIs
<1>3. \A p \in Objects : ToSet(observers'[p]) \subseteq ToSet(observers[p])
  <2>1. ASSUME NEW i, i \in DOMAIN source[Current].signalsM
        PROVE  source[Current].signalsM[i] \in Objects
    BY <1>1, <2>1, SourceAt, MapIs DEF TypeOK
  <2>2. observers' = Discard(Graph, source[Current].signalsM, Min(Rest)).observers
    BY DEF Accept, GraphIs
  <2>3. /\ observers \in [Objects -> Seq(Objects)]
        /\ observables \in [Objects -> SUBSET Objects]
    BY DEF TypeOK, GraphTypes
  <2> QED
    BY <2>1, <2>2, <2>3, DiscardShrinks DEF Graph
<1>4. SUFFICES ASSUME NEW ring \in (SUBSET Accepted') \ {{}},
                      \A o \in ring : ToSet(observers'[o]) \cap ring # {}
               PROVE  FALSE
  BY DEF LoopFree
<1>5. ring \subseteq Objects
  BY <1>1, <1>2, AcceptedIs
<1>6. \A o \in ring : ToSet(observers[o]) \cap ring # {}
  BY <1>3, <1>4, <1>5
<1>7. CASE At \in ring
  BY <1>1, <1>5, <1>6, <1>7, RingIsFound
<1>8. CASE At \notin ring
  BY <1>2, <1>6, <1>8 DEF LoopFree
<1> QED
  BY <1>7, <1>8

\* A signal that is attached to its dependencies is a new one.
LEMMA AtIsNew ==
  ASSUME RegistryInv, todo <= Len(sourcesListV), Rest # {}
  PROVE  At \notin Accepted
<1>1. /\ Current \in DOMAIN source /\ Min(Rest) \in DOMAIN source[Current].newSignalsM
      /\ At = source[Current].newSignalsM[Min(Rest)]
  BY AtIs DEF RegistryInv, At
<1> QED
  BY <1>1, AcceptedIs DEF RegistryInv, KeptOnce, SignalMap

\* At first nothing is accepted.
LEMMA LoopFreeInit ==
  ASSUME Init
  PROVE  LoopFree
<1>1. Accepted = {}
  BY DEF Init, Accepted, Kept
<1>2. (SUBSET Accepted) \ {{}} = {}
  BY <1>1
<1> QED
  BY <1>2 DEF LoopFree

\* No step closes a loop: the other steps accept nothing, and the only one that adds an
\* observer adds a new signal.
LEMMA LoopFreeNext ==
  ASSUME RegistryInv, LoopFree, [Next]_vars
  PROVE  LoopFree'
<1> USE DEF RegistryInv
<1>1. Accepted' = UNION {{source'[s].signalsM[i] : i \in DOMAIN source'[s].signalsM} :
                           s \in DOMAIN source'}
  BY DEF Accepted, Kept
<1>2. Accepted \subseteq Objects
  BY AcceptedIs
<1>3. ASSUME DOMAIN source' = DOMAIN source,
             \A s \in DOMAIN source : source'[s].signalsM = source[s].signalsM
      PROVE  Accepted' = Accepted
  BY <1>1, <1>3 DEF Accepted, Kept
<1>4. CASE UNCHANGED <<source, observers>>
  BY <1>4, <1>3, LoopFreeShrinks
<1>5. CASE (\E u \in Uid : LoadOneSourceAPI(u)) \/ EndSources
  <2>1. UNCHANGED observers
    BY <1>5 DEF LoadOneSourceAPI, EndSources, graph
  <2>2. ASSUME NEW u \in Uid \cup {SelfUid}, NEW api \in ApiSet, AppendSource(u, api)
        PROVE  Accepted' \subseteq Accepted
    <3> DEFINE n == Len(source) + 1
    <3>1. /\ DOMAIN source' = DOMAIN source \cup {n}
          /\ \A s \in DOMAIN source : source'[s] = source[s]
          /\ DOMAIN source'[n].signalsM = {}
      BY <2>2, AppendSourceIs DEF TypeOK
    <3> HIDE DEF n
    <3> QED
      BY <1>1, <3>1 DEF Accepted, Kept
  <2>3. CASE UNCHANGED registry
    BY <1>4, <2>1, <2>3 DEF registry
  <2>4. Accepted' \subseteq Accepted
    BY <1>3, <1>5, <2>2, <2>3 DEF LoadOneSourceAPI, EndSources, ApiSet, registry
  <2> QED
    BY <2>1, <2>4, LoopFreeShrinks
<1>6. CASE \E d \in Definition : LoadOneSignal(d)
  <2>1. PICK d \in Definition : LoadOneSignal(d)
    BY <1>6
  <2> DEFINE s == GetSourceAPI(d.api)
             a == Append(observers, << >>)
             b == Append(observables, {})
             O == Objects'
  <2>2. s \in DOMAIN source /\ AddSignal(s, d)
    BY <2>1, GetSourceAPIIs DEF LoadOneSignal, TypeOK
  <2> HIDE DEF s
  <2>3. /\ a \in [O -> Seq(O)] /\ b \in [O -> SUBSET O]
        /\ \A p \in Objects : p \in O /\ a[p] = observers[p]
    BY <2>2, AddSignalIs
  <2>4. d.id \in DOMAIN source[s].newSignalsM => source[s].newSignalsM[d.id] \in O
    <3>1. source[s].newSignalsM \in Map
      BY <2>2, SourceAt DEF TypeOK
    <3> QED
      BY <2>3, <3>1, MapIs
  <2>5. observers' = Discard([observers |-> a, observables |-> b],
                             source[s].newSignalsM, d.id).observers
    BY <2>2 DEF AddSignal, GraphIs
  <2> HIDE DEF a, b, O
  <2>6. ASSUME NEW p \in O
        PROVE  ToSet(observers'[p]) \subseteq ToSet(a[p])
    <3> DEFINE map == source[s].newSignalsM
               i   == d.id
    <3>1. i \in DOMAIN map => map[i] \in O
      BY <2>4
    <3>2. observers' = Discard([observers |-> a, observables |-> b], map, i).observers
      BY <2>5
    <3>3. a \in [O -> Seq(O)] /\ b \in [O -> SUBSET O]
      BY <2>3
    <3> HIDE DEF map, i
    <3> QED
      BY <3>1, <3>2, <3>3, DiscardShrinks
  <2>7. Accepted' = Accepted
    BY <1>3, <2>2, AddSignalIs
  <2> QED
    BY <1>2, <2>3, <2>6, <2>7, LoopFreeShrinks
<1>7. CASE Attach
  <2>1. CASE Die("unknownDependency")
    BY <1>4, <2>1 DEF Die, registry, graph
  <2>2. CASE ~Die("unknownDependency")
    <3> DEFINE p == SearchFirst(signal[At].depends[dep + 1])
    <3>1. /\ Turn("attach") /\ Rest # {} /\ p # 0 /\ UNCHANGED source
          /\ observers' = AddObserver(Graph, p, At).observers
      BY <1>7, <2>2 DEF Attach, GraphIs, registry
    <3>2. At \notin Accepted
      BY <3>1, AtIsNew DEF Turn
    <3>3. observers' = [observers EXCEPT ![p] = Append(@, At)]
      BY <3>1 DEF AddObserver, Graph
    <3> HIDE DEF p
    <3>4. ASSUME NEW q \in Objects
          PROVE  ToSet(observers'[q]) \subseteq ToSet(observers[q]) \cup {At}
      <4>1. observers \in [Objects -> Seq(Objects)] /\ At \in Objects
        BY <3>1, AtIs DEF TypeOK, GraphTypes, Turn
      <4>2. ToSet(Append(observers[q], At)) = ToSet(observers[q]) \cup {At}
        BY <4>1, AppendList
      <4> QED
        BY <3>3, <4>1, <4>2
    <3>5. Accepted' = Accepted
      BY <1>3, <3>1
    <3> QED
      BY <1>2, <3>2, <3>4, <3>5, LoopFreeShrinks
  <2> QED
    BY <2>1, <2>2
<1>8. CASE CleanNotSubscribed
  <2> DEFINE o == source[Current].signalsM[Min(NotSubscribed)]
  <2>1. o \in Objects
    BY <1>8, NotSubscribedIs DEF CleanNotSubscribed
  <2>2. observers' = Destroy(Graph, o).observers
    BY <1>8 DEF CleanNotSubscribed, GraphIs
  <2> HIDE DEF o
  <2>3. \A p \in Objects : ToSet(observers'[p]) \subseteq ToSet(observers[p])
    <3>1. /\ observers \in [Objects -> Seq(Objects)]
          /\ observables \in [Objects -> SUBSET Objects]
      BY DEF TypeOK, GraphTypes
    <3> QED
      BY <2>1, <2>2, <3>1, DestroyShrinks DEF Graph
  <2>4. Accepted' \subseteq Accepted
    <3>1. /\ DOMAIN source' = DOMAIN source
          /\ \A t \in DOMAIN source :
               \/ source'[t].signalsM = source[t].signalsM
               \/ source'[t].signalsM = Without(source[t].signalsM, Min(NotSubscribed))
      BY <1>8, CleanIs
    <3>2. \A t \in DOMAIN source : \A i \in DOMAIN source'[t].signalsM :
            i \in DOMAIN source[t].signalsM /\ source'[t].signalsM[i] = source[t].signalsM[i]
      BY <3>1 DEF Without, Restrict
    <3> QED
      BY <1>1, <3>1, <3>2 DEF Accepted, Kept
  <2> QED
    BY <1>2, <2>3, <2>4, LoopFreeShrinks
<1>9. CASE Accept
  BY <1>9, LoopFreeAccept
<1>10. CASE ControlStep \/ MakeSubscription \/ Init1 \/ HandleEvents \/ Init2 \/ UNCHANGED vars
  <2>1. UNCHANGED <<source, observers>>
    BY <1>10, ControlStepIs DEF MakeSubscription, Init1, HandleEvents, Init2, vars, registry, graph
  <2> QED
    BY <1>4, <2>1
<1>11. CASE (\E d \in Definition : LoadVirtualSignal(d)) \/ CheckForEver
            \/ \E api \in handled, id \in Id : SourceEvent(api, id)
  <2>1. UNCHANGED <<source, observers>>
    BY <1>11 DEF LoadVirtualSignal, CheckForEver, SourceEvent, Die, registry, graph
  <2> QED
    BY <1>4, <2>1
<1> QED
  BY <1>5, <1>6, <1>7, <1>8, <1>9, <1>10, <1>11, NextIs

\* The invariant of the registry, with LoopFree, holds of every reachable state.
THEOREM Inductive == Spec => []IInv
<1>1. Init => IInv
  BY RegistryInit, LoopFreeInit DEF IInv
<1>2. IInv /\ [Next]_vars => IInv'
  BY RegistryNext, LoopFreeNext DEF IInv
<1> QED
  BY <1>1, <1>2, PTL DEF Spec

\* "ensure that there is no infinite loop in the Observers/Observables structure"
\* (signal.cpp:648), whatever the configurations declare: a chain of updates among
\* accepted signals ends.
THEOREM AcceptedAreLoopFree == Spec => []LoopFree
<1>1. IInv => LoopFree
  BY DEF IInv
<1> QED
  BY <1>1, Inductive, PTL

-----------------------------------------------------------------------------
(* The edges.  Both ends of each are signals that are kept. *)

\* Both ends of an edge know of it, and it is there once.
Matched(O, a, b) ==
  \A p \in O : IsInjective(a[p]) /\ \A o \in O : o \in ToSet(a[p]) <=> p \in b[o]

\* The edges of g are those of a and b between other signals than o.
EdgesWithout(O, a, b, o, g) ==
  /\ Matched(O, g.observers, g.observables)
  /\ \A p \in O : ToSet(g.observers[p]) = IF p = o THEN {} ELSE ToSet(a[p]) \ {o}
  /\ \A q \in O : g.observables[q] = IF q = o THEN {} ELSE b[q] \ {o}

\* The destructors of o take away its edges, and no other ones.
LEMMA DestroyEdges ==
  ASSUME NEW O, NEW a \in [O -> Seq(O)], NEW b \in [O -> SUBSET O], NEW o \in O,
         Matched(O, a, b), NEW g, Destroyed(O, a, b, o, g)
  PROVE  EdgesWithout(O, a, b, o, g)
<1> DEFINE c == g.observers
           e == g.observables
<1>1. ASSUME NEW p \in O
      PROVE  /\ ToSet(RemoveFirst(a[p], o)) = ToSet(a[p]) \ {o}
             /\ IsInjective(RemoveFirst(a[p], o)) /\ IsInjective(a[p])
  BY RemoveFirstList DEF Matched
<1>2. IsInjective(<< >>) /\ ToSet(<< >>) = {}
  BY DEF IsInjective, ToSet
<1>3. ASSUME NEW p \in O
      PROVE  IsInjective(c[p]) /\ ToSet(c[p]) = IF p = o THEN {} ELSE ToSet(a[p]) \ {o}
  <2>1. c[p] = IF p = o THEN << >> ELSE IF p \in b[o] THEN RemoveFirst(a[p], o) ELSE a[p]
    BY DEF Destroyed
  <2>2. p \notin b[o] => ToSet(a[p]) = ToSet(a[p]) \ {o}
    BY DEF Matched
  <2> HIDE DEF c
  <2> QED
    BY <1>1, <1>2, <2>1, <2>2
<1>4. ASSUME NEW q \in O
      PROVE  e[q] = IF q = o THEN {} ELSE b[q] \ {o}
  <2> DEFINE left == IF o \in b[o] THEN RemoveFirst(a[o], o) ELSE a[o]
  <2>1. e[q] = IF q = o THEN {} ELSE IF q \in ToSet(left) THEN b[q] \ {o} ELSE b[q]
    BY DEF Destroyed
  <2>2. q # o => (q \in ToSet(left) <=> q \in ToSet(a[o]))
    BY <1>1
  <2>3. q \in ToSet(a[o]) <=> o \in b[q]
    BY DEF Matched
  <2> HIDE DEF left, e
  <2> QED
    BY <2>1, <2>2, <2>3
<1>5. Matched(O, c, e)
  <2> HIDE DEF c, e
  <2>1. \A p, q \in O : q \in ToSet(a[p]) <=> p \in b[q]
    BY DEF Matched
  <2>2. ASSUME NEW p \in O, NEW q \in O
        PROVE  q \in ToSet(c[p]) <=> p \in e[q]
    <3>1. ToSet(c[p]) = IF p = o THEN {} ELSE ToSet(a[p]) \ {o}
      BY <1>3
    <3>2. e[q] = IF q = o THEN {} ELSE b[q] \ {o}
      BY <1>4
    <3> QED
      BY <2>1, <3>1, <3>2
  <2>3. \A p \in O : IsInjective(c[p])
    BY <1>3
  <2> QED
    BY <2>2, <2>3 DEF Matched
<1> QED
  BY <1>3, <1>4, <1>5 DEF EdgesWithout

\* The edges of g are some of those of a and b, none of them of the signal of uid i.
EdgesLeft(O, a, b, i, map, g) ==
  /\ Matched(O, g.observers, g.observables)
  /\ \A p, q \in O : q \in ToSet(g.observers[p]) =>
       /\ q \in ToSet(a[p])
       /\ i \in DOMAIN map => p # map[i] /\ q # map[i]
  /\ \A q \in O : g.observables[q] \subseteq b[q]

\* A signal that another one of its uid replaces leaves no edge behind.
LEMMA DiscardEdges ==
  ASSUME NEW O, NEW a \in [O -> Seq(O)], NEW b \in [O -> SUBSET O], NEW i,
         NEW map, i \in DOMAIN map => map[i] \in O, Matched(O, a, b),
         NEW g, g = Discard([observers |-> a, observables |-> b], map, i)
  PROVE  EdgesLeft(O, a, b, i, map, g)
<1>1. CASE i \in DOMAIN map
  <2> DEFINE o == map[i]
  <2>1. o \in O /\ Destroyed(O, a, b, o, g)
    <3>1. g = Destroy([observers |-> a, observables |-> b], o)
      BY <1>1 DEF Discard
    <3> HIDE DEF o
    <3>2. o \in O
      BY <1>1 DEF o
    <3> QED
      BY <3>1, <3>2, DestroyIs
  <2> HIDE DEF o
  <2>2. EdgesWithout(O, a, b, o, g)
    BY <2>1, DestroyEdges
  <2>3. /\ Matched(O, g.observers, g.observables)
        /\ \A q \in O : g.observables[q] \subseteq b[q]
    BY <2>2 DEF EdgesWithout
  <2>4. \A p, q \in O : q \in ToSet(g.observers[p]) =>
          q \in ToSet(a[p]) /\ p # o /\ q # o
    BY <2>2 DEF EdgesWithout
  <2> QED
    BY <2>3, <2>4 DEF o, EdgesLeft
<1>2. CASE i \notin DOMAIN map
  BY <1>2 DEF Discard, EdgesLeft
<1> QED
  BY <1>1, <1>2

\* What is kept, map by map.
LEMMA LiveIs ==
  ASSUME TypeOK
  PROVE  /\ Live \subseteq Objects
         /\ \A o : o \in Live <=>
              \E s \in DOMAIN source : \E m \in SignalMap : \E i \in DOMAIN source[s][m] :
                o = source[s][m][i]
<1>1. \A s \in DOMAIN source : \A m \in SignalMap : source[s][m] \in Map
  BY SourceAt DEF TypeOK, SignalMap
<1>2. \A o : o \in Live <=>
        \E s \in DOMAIN source : \E m \in SignalMap : \E i \in DOMAIN source[s][m] :
          o = source[s][m][i]
  BY DEF Live, Kept, SignalMap
<1> QED
  BY <1>1, <1>2, MapIs

\* An observer ranks higher than what it observes.
LEMMA EdgeRank ==
  ASSUME TypeOK, EdgeInv, NEW rank, Ranked(rank),
         NEW p \in Objects, NEW o \in ToSet(observers[p])
  PROVE  o \in Objects /\ rank[signal[p].id] < rank[signal[o].id]
<1>1. o \in Objects
  BY LenProperties, ElementOfSeq DEF TypeOK, GraphTypes, ToSet
<1>2. PICK d \in Definition : d.id = signal[o].id /\ d.depends = signal[o].depends
  BY <1>1 DEF EdgeInv, Declared
<1>3. signal[p].id \in ToSet(d.depends)
  BY <1>1, <1>2 DEF EdgeInv, Edges
<1>4. PICK k \in DOMAIN d.depends : d.depends[k] = signal[p].id
  BY <1>3 DEF ToSet
<1> QED
  BY <1>1, <1>2, <1>4 DEF Ranked

\* Where signals are ranked, no call finds a loop.
LEMMA NeverALoop ==
  ASSUME TypeOK, EdgeInv, NEW rank, Ranked(rank), NEW o \in Objects
  PROVE  RecursionCheck[o] \in {"none", "endless"}
<1>1. PICK f : NestedCheck = f[Len(signal)] /\ f = Levels(Len(signal), f)
  BY NestedCheckIs
<1> DEFINE N == Len(signal)
           Looped == {n \in 0..N : \E p \in Objects : f[n][p] \notin {"none", "endless"}}
           m == Min(Looped)
<1>2. N \in Nat
  <2> DEFINE R == [id: Id, depends: Seq(Id), subscribed: BOOLEAN]
  <2>1. signal \in Seq(R)
    BY DEF TypeOK, GraphTypes
  <2> HIDE DEF R
  <2> QED
    BY <2>1, LenProperties
<1>3. \A n \in 0..N : f[n] = IF n = 0 THEN [p \in Objects |-> "endless"] ELSE Deeper(f[n - 1])
  BY <1>1 DEF Levels
<1>4. ASSUME NEW p \in Objects, NEW q \in ToSet(observers[p])
      PROVE  /\ q \in Objects /\ q # p /\ signal[q].id # signal[p].id
  <2>1. q \in Objects /\ rank[signal[p].id] < rank[signal[q].id]
    BY EdgeRank
  <2>2. rank[signal[p].id] \in Nat
    BY SignalAt DEF TypeOK, Ranked
  <2> QED
    BY <2>1, <2>2
<1> HIDE DEF N
<1>5. Looped = {}
  <2>1. SUFFICES ASSUME Looped # {}
                 PROVE  FALSE
    OBVIOUS
  <2>2. Looped \subseteq Nat
    BY <1>2
  <2> HIDE DEF Looped
  <2>3. m \in Looped /\ \A n \in Looped : m <= n
    BY <2>1, <2>2, LeastExists
  <2> HIDE DEF m
  <2>4. PICK p \in Objects : m \in 0..N /\ f[m][p] \notin {"none", "endless"}
    BY <2>3 DEF Looped
  <2>5. m # 0
    BY <1>3, <2>4
  <2>6. m - 1 \in 0..N /\ ~(m <= m - 1)
    BY <1>2, <2>4, <2>5
  <2> DEFINE result == f[m - 1]
  <2>7. f[m] = Deeper(result)
    BY <1>3, <2>4, <2>5
  <2>8. \A q \in Objects : result[q] \in {"none", "endless"}
    BY <2>3, <2>6 DEF Looped
  <2> HIDE DEF result
  <2>9. PICK q \in ToSet(observers[p]) :
          \/ signal[q].id = signal[p].id
          \/ Deeper(result)[p] = result[q]
    BY <2>4, <2>7, DeeperIs
  <2> QED
    BY <1>4, <2>4, <2>7, <2>8, <2>9
<1>6. \A p \in Objects : NestedCheck[p] \in {"none", "endless"}
  BY <1>1, <1>2, <1>5 DEF N
<1> QED
  BY <1>4, <1>6, RecursionCheckIs

\* The edges stay as they are, or go, while what they lead to is kept.
LEMMA EdgesFrame ==
  ASSUME Edges, Objects' = Objects,
         \A o \in Objects : signal'[o].id = signal[o].id /\ signal'[o].depends = signal[o].depends,
         Matched(Objects, observers', observables'),
         \A p, o \in Objects : o \in ToSet(observers'[p]) =>
           o \in ToSet(observers[p]) /\ (o \in Live => o \in Live') /\ (p \in Live => p \in Live')
  PROVE  Edges'
<1>1. Matched(Objects', observers', observables')
  OBVIOUS
<1>2. ASSUME NEW p \in Objects, NEW o \in Objects, o \in ToSet(observers'[p])
      PROVE  o \in Live' /\ p \in Live' /\ signal'[p].id \in ToSet(signal'[o].depends)
  BY <1>2 DEF Edges
<1> QED
  BY <1>1, <1>2 DEF Edges, Matched

\* The registry and the graph stay as they are, and so does, or grows, what a new signal
\* may have been attached to.
LEMMA EdgeInvFrame ==
  ASSUME EdgeInv, UNCHANGED <<source, graph>>,
         \A s \in DOMAIN source : \A i \in DOMAIN source[s].newSignalsM :
           AttachedTo(s, i) \subseteq AttachedTo(s, i)',
         NothingIgnored'
  PROVE  EdgeInv'
<1>1. UNCHANGED <<source, signal, observers, observables>>
  BY DEF graph
<1>2. (\A o \in Objects : Declared(o))'
  BY <1>1 DEF EdgeInv, Declared, Objects
<1>3. Edges'
  BY <1>1 DEF EdgeInv, Edges, Objects, Live, Kept
<1>4. NewEdges'
  <2>1. ASSUME NEW s \in DOMAIN source, NEW i \in DOMAIN source[s].newSignalsM,
               NEW p \in observables[source[s].newSignalsM[i]]
        PROVE  signal[p].id \in AttachedTo(s, i)'
    BY DEF EdgeInv, NewEdges
  <2> QED
    BY <1>1, <2>1 DEF NewEdges
<1> QED
  BY <1>2, <1>3, <1>4 DEF EdgeInv

\* The stages in which nothing has been attached yet.
LEMMA NotAttached ==
  ASSUME pc \notin {"attach", "check"}, NEW s, NEW i
  PROVE  AttachedTo(s, i) = {}
BY DEF AttachedTo

\* The steps of the loops, and those between them.
LEMMA EdgeControl ==
  ASSUME RegistryInv, EdgeInv, NEW rank, Ranked(rank), ControlStep
  PROVE  EdgeInv'
<1> USE DEF RegistryInv
<1>1. UNCHANGED <<source, sourcesListV, signal>> /\ UNCHANGED graph
  BY ControlStepIs DEF registry, graph
<1>2. ASSUME pc \notin {"attach", "check"}, pc' # "check"
      PROVE  EdgeInv'
  BY <1>1, <1>2, NotAttached, EdgeInvFrame DEF NothingIgnored
<1>3. CASE AddObjects \/ RejectSource \/ EndInitSources \/ RejectSignal \/ EndSignals
           \/ FailSignals \/ WithoutSignals \/ PassOver \/ EndClean \/ EndSubscribe
  <2>1. pc \notin {"attach", "check"} /\ pc' # "check"
    BY <1>3 DEF AddObjects, RejectSource, EndInitSources, RejectSignal, EndSignals, FailSignals,
                WithoutSignals, PassOver, EndClean, EndSubscribe, Answer, Goto, Turn
  <2> QED
    BY <1>2, <2>1
<1>4. CASE Attached
  <2> DEFINE k == Min(Rest)
             s0 == Current
  <2>1. /\ pc = "attach" /\ todo <= Len(sourcesListV) /\ k \in Rest
        /\ dep = Len(signal[At].depends) /\ visited' = visited \cup {k}
        /\ UNCHANGED <<pc, todo>>
    BY <1>4, AtIs DEF Attached, Turn
  <2>2. UNCHANGED Current
    BY <1>1, <2>1 DEF Current
  <2>3. ASSUME NEW s \in DOMAIN source, NEW i \in DOMAIN source[s].newSignalsM
        PROVE  AttachedTo(s, i) \subseteq AttachedTo(s, i)'
    <3> DEFINE depends == signal[source[s].newSignalsM[i]].depends
    <3>1. CASE s # Current
      BY <2>1, <3>1 DEF AttachedTo
    <3>2. CASE s = Current /\ i \in visited
      BY <1>1, <2>1, <2>2, <3>2 DEF AttachedTo
    <3>3. CASE s = Current /\ i = k /\ i \notin visited
      <4>1. AttachedTo(s, i) = {depends[j] : j \in 1..dep}
        BY <2>1, <3>3 DEF AttachedTo
      <4>2. AttachedTo(s, i)' = ToSet(depends)
        BY <1>1, <2>1, <2>2, <3>3 DEF AttachedTo
      <4>3. dep = Len(depends)
        BY <2>1, <3>3 DEF At
      <4>4. DOMAIN depends = 1..Len(depends)
        <5>1. At \in Objects /\ depends = signal[At].depends
          BY <1>4, <3>3, AtIs DEF Attached, Turn, At
        <5> QED
          BY <5>1, SignalAt, LenProperties DEF TypeOK
      <4> QED
        BY <4>1, <4>2, <4>3, <4>4 DEF ToSet
    <3>4. CASE s = Current /\ i # k /\ i \notin visited
      BY <2>1, <3>4 DEF AttachedTo
    <3> QED
      BY <3>1, <3>2, <3>3, <3>4
  <2>4. NothingIgnored'
    BY <2>1 DEF NothingIgnored
  <2> QED
    BY <1>1, <2>3, <2>4, EdgeInvFrame
<1>5. CASE EndAttach
  <2>1. /\ pc = "attach" /\ todo <= Len(sourcesListV) /\ Rest = {} /\ pc' = "check"
        /\ visited' = {} /\ UNCHANGED <<todo, err>>
    BY <1>5 DEF EndAttach, Turn
  <2>2. UNCHANGED Current
    BY <1>1, <2>1 DEF Current
  <2>3. ASSUME NEW s \in DOMAIN source, NEW i \in DOMAIN source[s].newSignalsM
        PROVE  AttachedTo(s, i) \subseteq AttachedTo(s, i)'
    <3>1. CASE s # Current
      BY <2>1, <3>1 DEF AttachedTo
    <3>2. CASE s = Current
      <4>1. i \in visited
        BY <2>1, <3>2 DEF Rest
      <4> QED
        BY <1>1, <2>1, <2>2, <3>2, <4>1 DEF AttachedTo
    <3> QED
      BY <3>1, <3>2
  <2>4. NothingIgnored'
    BY <2>1 DEF NothingIgnored, Staged
  <2> QED
    BY <1>1, <2>3, <2>4, EdgeInvFrame
<1>6. CASE Ignore
  <2>1. /\ pc = "check" /\ todo <= Len(sourcesListV) /\ Rest # {}
        /\ RecursionCheck[At] # "endless" /\ (err \/ RecursionCheck[At] # "none")
    BY <1>6 DEF Ignore, Turn
  <2>2. At \in Objects
    BY <2>1, AtIs
  <2>3. RecursionCheck[At] \in {"none", "endless"}
    BY <2>2, NeverALoop
  <2> QED
    BY <2>1, <2>3 DEF EdgeInv, NothingIgnored
<1>7. CASE EndCheck
  <2>1. /\ pc = "check" /\ Rest = {} /\ visited = {} /\ pc' = "attach"
    BY <1>7 DEF EndCheck, Turn, EdgeInv, NothingIgnored
  <2>2. ASSUME NEW s \in DOMAIN source, NEW i \in DOMAIN source[s].newSignalsM
        PROVE  AttachedTo(s, i) = {}
    <3>1. s # Current
      BY <2>1 DEF Rest
    <3> QED
      BY <2>1, <3>1 DEF AttachedTo
  <2>3. NothingIgnored'
    BY <2>1 DEF NothingIgnored
  <2> QED
    BY <1>1, <2>2, <2>3, EdgeInvFrame
<1>8. CASE EndInitSignals
  <2>1. pc = "attach" /\ todo = Len(sourcesListV) + 1 /\ pc' = "subscribe"
    BY <1>8 DEF EndInitSignals, Goto
  <2>2. ~(todo <= Len(sourcesListV))
    BY <2>1, LenProperties DEF TypeOK, RegistryTypes
  <2>3. ASSUME NEW s, NEW i
        PROVE  AttachedTo(s, i) = {}
    BY <2>1, <2>2 DEF AttachedTo
  <2>4. NothingIgnored'
    BY <2>1 DEF NothingIgnored
  <2> QED
    BY <1>1, <2>3, <2>4, EdgeInvFrame
<1> QED
  BY <1>3, <1>4, <1>5, <1>6, <1>7, <1>8 DEF ControlStep

\* The process dies, a source is loaded or initialised: no edge comes or goes.
LEMMA EdgeSources ==
  ASSUME RegistryInv, EdgeInv,
         \/ (\E d \in Definition : LoadVirtualSignal(d)) \/ CheckForEver
            \/ \E api \in handled, id \in Id : SourceEvent(api, id)
         \/ (\E u \in Uid : LoadOneSourceAPI(u)) \/ EndSources
         \/ Init1 \/ HandleEvents \/ Init2
         \/ UNCHANGED vars \/ UNCHANGED <<registry, graph, control>>
  PROVE  EdgeInv'
<1> USE DEF RegistryInv
<1>1. ASSUME UNCHANGED <<registry, graph, control>>
      PROVE  EdgeInv'
  <2>1. /\ UNCHANGED <<source, graph, sourcesListV, signal, pc, todo, visited, dep, err>>
    BY <1>1 DEF registry, graph, control, loop
  <2>2. NothingIgnored'
    BY <2>1 DEF EdgeInv, NothingIgnored
  <2>3. ASSUME NEW s \in DOMAIN source, NEW i \in DOMAIN source[s].newSignalsM
        PROVE  AttachedTo(s, i) = AttachedTo(s, i)'
    BY <2>1 DEF AttachedTo, Current, Rest
  <2> QED
    BY <2>1, <2>2, <2>3, EdgeInvFrame
<1>2. CASE (\E d \in Definition : LoadVirtualSignal(d)) \/ CheckForEver
           \/ \E api \in handled, id \in Id : SourceEvent(api, id)
  BY <1>1, <1>2 DEF LoadVirtualSignal, CheckForEver, SourceEvent, Die
<1>3. CASE UNCHANGED vars
  BY <1>1, <1>3 DEF vars
<1>4. CASE Init1 \/ HandleEvents \/ Init2
  <2>1. UNCHANGED <<source, graph, control>> /\ pc = "initSources"
    BY <1>4 DEF Init1, HandleEvents, Init2, Staged
  <2>2. pc' = pc
    BY <2>1 DEF control
  <2>3. NothingIgnored'
    BY <2>1, <2>2 DEF NothingIgnored
  <2> QED
    BY <2>1, <2>3, NotAttached, EdgeInvFrame
<1>5. CASE (\E u \in Uid : LoadOneSourceAPI(u)) \/ EndSources
  <2>1. UNCHANGED graph /\ pc = "sources" /\ pc' \notin {"attach", "check"}
    BY <1>5 DEF LoadOneSourceAPI, EndSources, Goto, control
  <2>2. NothingIgnored'
    BY <2>1 DEF NothingIgnored
  <2>3. CASE UNCHANGED registry
    BY <2>1, <2>2, <2>3, NotAttached, EdgeInvFrame DEF registry
  <2>4. ASSUME NEW u \in Uid \cup {SelfUid}, NEW api \in ApiSet, AppendSource(u, api)
        PROVE  EdgeInv'
    <3> DEFINE n == Len(source) + 1
    <3>1. /\ DOMAIN source' = DOMAIN source \cup {n}
          /\ \A s \in DOMAIN source : source'[s] = source[s]
          /\ DOMAIN source'[n].newSignalsM = {}
      BY <2>4, AppendSourceIs DEF TypeOK
    <3> HIDE DEF n
    <3>2. Live \subseteq Live'
      BY <3>1 DEF Live, Kept
    <3>3. UNCHANGED <<signal, observers, observables>>
      BY <2>1 DEF graph
    <3>4. (\A o \in Objects : Declared(o))'
      BY <3>3 DEF EdgeInv, Declared, Objects
    <3>5. Edges'
      BY <3>2, <3>3 DEF EdgeInv, Edges, Objects
    <3>6. NewEdges'
      <4>1. ASSUME NEW s \in DOMAIN source', NEW i \in DOMAIN source'[s].newSignalsM
            PROVE  observables'[source'[s].newSignalsM[i]] = {}
        <5>1. s \in DOMAIN source /\ source'[s] = source[s]
          BY <3>1, <4>1
        <5>2. AttachedTo(s, i) = {}
          BY <2>1, NotAttached
        <5> QED
          BY <3>3, <4>1, <5>1, <5>2 DEF EdgeInv, NewEdges
      <4> QED
        BY <4>1 DEF NewEdges
    <3> QED
      BY <2>2, <3>4, <3>5, <3>6 DEF EdgeInv
  <2> QED
    BY <1>5, <2>3, <2>4 DEF LoadOneSourceAPI, EndSources, ApiSet
<1> QED
  BY <1>1, <1>2, <1>3, <1>4, <1>5

\* getSignals takes signals: what they are declared as, and the edges, stay.
LEMMA EdgeMakeSubscription ==
  ASSUME RegistryInv, EdgeInv, MakeSubscription
  PROVE  EdgeInv'
<1> USE DEF RegistryInv
<1>1. /\ UNCHANGED <<source, observers, observables>> /\ pc = "subscribe" /\ pc' = "clean"
      /\ Objects' = Objects
      /\ \A o \in Objects : signal'[o].id = signal[o].id /\ signal'[o].depends = signal[o].depends
  BY MakeSubscriptionIs DEF MakeSubscription, registry, Turn
<1>2. (\A o \in Objects : Declared(o))'
  BY <1>1 DEF EdgeInv, Declared
<1>3. Edges'
  BY <1>1 DEF EdgeInv, Edges, Live, Kept
<1>4. NewEdges'
  <2>1. ASSUME NEW s \in DOMAIN source, NEW i \in DOMAIN source[s].newSignalsM
        PROVE  observables[source[s].newSignalsM[i]] = {}
    <3>1. AttachedTo(s, i) = {}
      BY <1>1, NotAttached
    <3> QED
      BY <3>1 DEF EdgeInv, NewEdges
  <2> QED
    BY <1>1, <2>1 DEF NewEdges
<1>5. NothingIgnored'
  BY <1>1 DEF NothingIgnored
<1> QED
  BY <1>2, <1>3, <1>4, <1>5 DEF EdgeInv

\* A refused signal is erased: its edges go with it.
LEMMA EdgeClean ==
  ASSUME RegistryInv, EdgeInv, CleanNotSubscribed
  PROVE  EdgeInv'
<1> USE DEF RegistryInv
<1> DEFINE s0 == Current
           k  == Min(NotSubscribed)
           x  == source[s0].signalsM[k]
<1>1. /\ s0 \in DOMAIN source /\ k \in DOMAIN source[s0].signalsM /\ x \in Objects
      /\ UNCHANGED <<signal, pc>> /\ pc = "clean"
  BY NotSubscribedIs DEF CleanNotSubscribed, Turn
<1>2. /\ DOMAIN source' = DOMAIN source
      /\ \A t \in DOMAIN source :
           /\ source'[t].signalsM =
                IF t = s0 THEN Without(source[s0].signalsM, k) ELSE source[t].signalsM
           /\ source'[t].newSignalsM = source[t].newSignalsM
  BY CleanIs
<1>3. Objects' = Objects
  BY <1>1 DEF Objects
<1>4. EdgesWithout(Objects, observers, observables, x,
                   [observers |-> observers', observables |-> observables'])
  <2> DEFINE g == Destroy(Graph, x)
             a == observers
             b == observables
             O == Objects
  <2>1. observers' = g.observers /\ observables' = g.observables
    BY DEF CleanNotSubscribed, GraphIs
  <2>2. a \in [O -> Seq(O)] /\ b \in [O -> SUBSET O] /\ x \in O
    BY <1>1 DEF TypeOK, GraphTypes
  <2>3. Matched(O, a, b)
    BY DEF EdgeInv, Edges, Matched
  <2>4. g = Destroy([observers |-> a, observables |-> b], x)
    BY DEF Graph
  <2> HIDE DEF g, a, b, O, x
  <2>5. EdgesWithout(O, a, b, x, g)
    BY <2>2, <2>3, <2>4, DestroyIs, DestroyEdges
  <2>6. EdgesWithout(O, a, b, x, [observers |-> observers', observables |-> observables'])
    BY <2>1, <2>5 DEF EdgesWithout
  <2> QED
    BY <2>6 DEF O, a, b
<1> HIDE DEF s0, k
<1>5. ASSUME NEW o, o \in Live, o # x
      PROVE  o \in Live'
  <2>1. PICK s \in DOMAIN source, m \in SignalMap : \E i \in DOMAIN source[s][m] : o = source[s][m][i]
    BY <1>5, LiveIs
  <2>2. PICK i \in DOMAIN source[s][m] : o = source[s][m][i]
    BY <2>1
  <2>3. i \in DOMAIN source'[s][m] /\ source'[s][m][i] = o
    <3>1. CASE s = s0 /\ m = "signalsM"
      <4>1. i # k
        BY <1>5, <2>2, <3>1
      <4>2. source'[s][m] = Without(source[s][m], k)
        BY <1>1, <1>2, <3>1
      <4> QED
        BY <2>2, <4>1, <4>2 DEF Without, Restrict
    <3>2. CASE ~(s = s0 /\ m = "signalsM")
      <4>1. source'[s][m] = source[s][m]
        BY <1>2, <3>2 DEF SignalMap
      <4> QED
        BY <2>2, <4>1
    <3> QED
      BY <3>1, <3>2
  <2> QED
    BY <1>2, <2>1, <2>3 DEF Live, Kept, SignalMap
<1> HIDE DEF x
<1>6. /\ Matched(Objects, observers', observables')
      /\ \A p, o \in Objects : o \in ToSet(observers'[p]) => o \in ToSet(observers[p]) /\ o # x /\ p # x
      /\ \A q \in Objects : observables'[q] \subseteq observables[q]
  BY <1>4 DEF EdgesWithout
<1>7. Edges'
  BY <1>1, <1>3, <1>5, <1>6, EdgesFrame DEF EdgeInv
<1>8. (\A o \in Objects : Declared(o))'
  BY <1>1, <1>3 DEF EdgeInv, Declared
<1>9. NewEdges'
  <2>1. ASSUME NEW s \in DOMAIN source, NEW i \in DOMAIN source[s].newSignalsM
        PROVE  observables'[source[s].newSignalsM[i]] = {}
    <3>1. AttachedTo(s, i) = {}
      BY <1>1, NotAttached
    <3>2. source[s].newSignalsM[i] \in Objects
      BY SourceAt, MapIs DEF TypeOK
    <3> QED
      BY <1>6, <3>1, <3>2 DEF EdgeInv, NewEdges
  <2> QED
    BY <1>2, <2>1 DEF NewEdges
<1>10. NothingIgnored'
  BY <1>1 DEF NothingIgnored
<1> QED
  BY <1>7, <1>8, <1>9, <1>10 DEF EdgeInv

\* A signal is accepted: the one that it replaces goes with its edges, and the other new
\* ones of its source stay attached to what they name.
LEMMA EdgeAccept ==
  ASSUME RegistryInv, EdgeInv, Accept
  PROVE  EdgeInv'
<1> USE DEF RegistryInv
<1> DEFINE s0  == Current
           k   == Min(Rest)
           map == source[s0].signalsM
<1>1. /\ s0 \in DOMAIN source /\ k \in DOMAIN source[s0].newSignalsM
      /\ At = source[s0].newSignalsM[k]
      /\ UNCHANGED <<signal, pc, todo, visited, err, sourcesListV>> /\ pc = "check"
      /\ todo <= Len(sourcesListV)
      /\ \A i \in DOMAIN map : map[i] \in Objects
  <2>1. s0 \in DOMAIN source
    BY AcceptIs
  <2>2. map \in Map
    BY <2>1, SourceAt DEF TypeOK
  <2> QED
    BY <2>2, AcceptIs, MapIs DEF Accept, Turn, loop
<1>2. /\ DOMAIN source' = DOMAIN source
      /\ \A t \in DOMAIN source :
           /\ source'[t].signalsM =
                IF t = s0 THEN Extend(map, k, At) ELSE source[t].signalsM
           /\ source'[t].newSignalsM =
                IF t = s0 THEN Without(source[s0].newSignalsM, k) ELSE source[t].newSignalsM
  BY AcceptIs
<1>3. Objects' = Objects /\ UNCHANGED Current
  BY <1>1 DEF Objects, Current
<1>4. /\ Matched(Objects, observers', observables')
      /\ \A p, q \in Objects : q \in ToSet(observers'[p]) =>
           /\ q \in ToSet(observers[p])
           /\ k \in DOMAIN map => p # map[k] /\ q # map[k]
      /\ \A q \in Objects : observables'[q] \subseteq observables[q]
  <2> DEFINE g == Discard(Graph, map, k)
             a == observers
             b == observables
             O == Objects
  <2>1. observers' = g.observers /\ observables' = g.observables
    BY DEF Accept, GraphIs
  <2>2. a \in [O -> Seq(O)] /\ b \in [O -> SUBSET O] /\ (k \in DOMAIN map => map[k] \in O)
    BY <1>1 DEF TypeOK, GraphTypes
  <2>3. Matched(O, a, b)
    BY DEF EdgeInv, Edges, Matched
  <2>4. g = Discard([observers |-> a, observables |-> b], map, k)
    BY DEF Graph
  <2> HIDE DEF g, a, b, O, map, k
  <2>5. EdgesLeft(O, a, b, k, map, g)
    BY <2>2, <2>3, <2>4, DiscardEdges
  <2> QED
    BY <2>1, <2>5 DEF O, a, b, EdgesLeft
<1> HIDE DEF s0, k
<1>5. ASSUME NEW o, o \in Live, k \in DOMAIN map => o # map[k]
      PROVE  o \in Live'
  <2>1. PICK s \in DOMAIN source, m \in SignalMap : \E i \in DOMAIN source[s][m] : o = source[s][m][i]
    BY <1>5, LiveIs
  <2>2. PICK i \in DOMAIN source[s][m] : o = source[s][m][i]
    BY <2>1
  <2>3. \E n \in SignalMap : \E j \in DOMAIN source'[s][n] : source'[s][n][j] = o
    <3>1. CASE s = s0 /\ m = "signalsM"
      <4>1. i # k
        BY <1>5, <2>2, <3>1
      <4>2. source'[s][m] = Extend(source[s][m], k, At)
        BY <1>1, <1>2, <3>1
      <4>3. i \in DOMAIN source'[s][m] /\ source'[s][m][i] = o
        BY <2>2, <4>1, <4>2 DEF Extend
      <4> QED
        BY <4>3
    <3>2. CASE s = s0 /\ m = "newSignalsM" /\ i = k
      <4>1. source'[s].signalsM = Extend(map, k, At) /\ o = At
        BY <1>1, <1>2, <2>2, <3>2
      <4> HIDE DEF map
      <4>2. k \in DOMAIN source'[s].signalsM /\ source'[s].signalsM[k] = o
        BY <4>1 DEF Extend
      <4> QED
        BY <4>2 DEF SignalMap
    <3>3. CASE s = s0 /\ m = "newSignalsM" /\ i # k
      <4>1. source'[s][m] = Without(source[s][m], k)
        BY <1>1, <1>2, <3>3
      <4>2. i \in DOMAIN source'[s][m] /\ source'[s][m][i] = o
        BY <2>2, <3>3, <4>1 DEF Without, Restrict
      <4> QED
        BY <4>2
    <3>4. CASE s # s0
      <4>1. source'[s][m] = source[s][m]
        BY <1>2, <3>4 DEF SignalMap
      <4> QED
        BY <2>2, <4>1
    <3> QED
      BY <3>1, <3>2, <3>3, <3>4 DEF SignalMap
  <2> QED
    BY <1>2, <2>1, <2>3 DEF Live, Kept, SignalMap
<1>6. Edges'
  <2>1. \A p, o \in Objects : o \in ToSet(observers'[p]) =>
          o \in ToSet(observers[p]) /\ (o \in Live => o \in Live') /\ (p \in Live => p \in Live')
    BY <1>4, <1>5
  <2> QED
    BY <1>1, <1>3, <1>4, <2>1, EdgesFrame DEF EdgeInv
<1>7. (\A o \in Objects : Declared(o))'
  BY <1>1, <1>3 DEF EdgeInv, Declared
<1>8. NewEdges'
  <2>1. ASSUME NEW s \in DOMAIN source, NEW i \in DOMAIN source'[s].newSignalsM
        PROVE  /\ i \in DOMAIN source[s].newSignalsM
               /\ source'[s].newSignalsM[i] = source[s].newSignalsM[i]
    <3>1. \/ source'[s].newSignalsM = source[s].newSignalsM
          \/ source'[s].newSignalsM = Without(source[s].newSignalsM, k)
      BY <1>2
    <3> QED
      BY <2>1, <3>1 DEF Without, Restrict
  <2>2. ASSUME NEW s \in DOMAIN source, NEW i \in DOMAIN source'[s].newSignalsM
        PROVE  AttachedTo(s, i) \subseteq AttachedTo(s, i)'
    BY <1>1, <1>3, <2>1, <2>2 DEF AttachedTo
  <2>3. ASSUME NEW s \in DOMAIN source, NEW i \in DOMAIN source'[s].newSignalsM,
               NEW p \in observables'[source'[s].newSignalsM[i]]
        PROVE  signal[p].id \in AttachedTo(s, i)'
    <3>1. source[s].newSignalsM[i] \in Objects
      BY <2>1, <2>3, SourceAt, MapIs DEF TypeOK
    <3>2. p \in observables[source[s].newSignalsM[i]]
      BY <1>4, <2>1, <2>3, <3>1
    <3> QED
      BY <2>1, <2>2, <2>3, <3>2 DEF EdgeInv, NewEdges
  <2> QED
    BY <1>1, <1>2, <2>3 DEF NewEdges
<1>9. NothingIgnored'
  BY <1>1 DEF NothingIgnored, EdgeInv
<1> QED
  BY <1>6, <1>7, <1>8, <1>9 DEF EdgeInv

\* A new signal is attached to its next dependency: as no dependency is named twice, and
\* it has been attached to those before only, the edge was not there.
LEMMA EdgeAttach ==
  ASSUME RegistryInv, EdgeInv, NEW rank, Ranked(rank), Attach
  PROVE  EdgeInv'
<1> USE DEF RegistryInv
<1> DEFINE id == signal[At].depends[dep + 1]
           p0 == SearchFirst(id)
           k0 == Min(Rest)
<1>1. CASE Die("unknownDependency")
  BY <1>1, EdgeSources DEF Die
<1>2. CASE ~Die("unknownDependency")
  <2>1. /\ pc = "attach" /\ todo <= Len(sourcesListV) /\ Rest # {} /\ p0 # 0
        /\ dep < Len(signal[At].depends) /\ dep' = dep + 1
        /\ GraphIs(AddObserver(Graph, p0, At))
        /\ UNCHANGED <<registry, signal, pc, todo, visited, err>>
    BY <1>2 DEF Attach, Turn
  <2>2. /\ Current \in DOMAIN source /\ k0 \in Rest /\ k0 \in DOMAIN source[Current].newSignalsM
        /\ At \in Objects /\ At = source[Current].newSignalsM[k0]
    BY <2>1, AtIs DEF At
  <2>3. dep \in Nat /\ dep + 1 \in DOMAIN signal[At].depends /\ id \in Id
    <3>1. signal[At].depends \in Seq(Id) /\ dep \in Nat
      BY <2>2, SignalAt DEF TypeOK, ControlTypes
    <3>2. dep + 1 \in 1..Len(signal[At].depends)
      BY <2>1, <3>1, LenProperties
    <3> QED
      BY <3>1, <3>2, ElementOfSeq, LenProperties
  <2>4. p0 \in Live /\ p0 \in Objects /\ signal[p0].id = id
    BY <2>1, <2>3, SearchFirstIs, LiveIs
  <2>5. At \in Live
    BY <2>2, LiveIs DEF SignalMap
  <2> DEFINE depends == signal[At].depends
  <2>6. AttachedTo(Current, k0) = {depends[j] : j \in 1..dep}
    BY <2>1, <2>2 DEF AttachedTo, Rest
  <2>7. ASSUME NEW s, NEW i, s = Current, i = k0
        PROVE  AttachedTo(s, i)' = {depends[j] : j \in 1..(dep + 1)}
    <3>1. UNCHANGED <<source, sourcesListV, signal, pc, todo, visited, Current, Rest>>
      BY <2>1 DEF registry, Current, Rest
    <3>2. i \notin visited /\ signal[source[s].newSignalsM[i]].depends = depends
      BY <2>2, <2>7 DEF Rest
    <3> QED
      BY <2>1, <2>7, <3>1, <3>2 DEF AttachedTo
  <2>8. At \notin ToSet(observers[p0])
    <3>1. SUFFICES ASSUME p0 \in observables[At]
                   PROVE  FALSE
      BY <2>2, <2>4 DEF EdgeInv, Edges
    <3>2. id \in {depends[j] : j \in 1..dep}
      BY <2>2, <2>4, <2>6, <3>1 DEF EdgeInv, NewEdges
    <3>3. PICK j \in 1..dep : depends[j] = depends[dep + 1]
      BY <3>2
    <3>4. IsInjective(depends)
      BY <2>2 DEF EdgeInv, Declared, Ranked
    <3>5. j \in DOMAIN depends /\ dep + 1 \in DOMAIN depends /\ j # dep + 1
      <4>1. depends \in Seq(Id)
        BY <2>2, SignalAt DEF TypeOK
      <4>2. DOMAIN depends = 1..Len(depends) /\ Len(depends) \in Nat
        BY <4>1, LenProperties
      <4> QED
        BY <2>1, <2>3, <3>3, <4>2
    <3> QED
      BY <3>3, <3>4, <3>5 DEF IsInjective
  <2>9. /\ \A q \in Objects : observers'[q] =
             IF q = p0 THEN Append(observers[q], At) ELSE observers[q]
        /\ \A q \in Objects : observables'[q] =
             IF q = At THEN observables[q] \cup {p0} ELSE observables[q]
    <3>1. /\ observers' = [observers EXCEPT ![p0] = Append(@, At)]
          /\ observables' = [observables EXCEPT ![At] = @ \cup {p0}]
      BY <2>1 DEF GraphIs, AddObserver, Graph
    <3> HIDE DEF p0
    <3> QED
      BY <2>2, <2>4, <3>1 DEF TypeOK, GraphTypes
  <2>10. /\ UNCHANGED <<source, signal>> /\ Live' = Live /\ Objects' = Objects
    BY <2>1 DEF registry, Live, Kept, Objects
  <2>11. id \in ToSet(depends)
    BY <2>3 DEF ToSet
  <2> HIDE DEF p0, k0, id, depends
  <2>12. ASSUME NEW q \in Objects
         PROVE  /\ IsInjective(observers'[q])
                /\ ToSet(observers'[q]) =
                     IF q = p0 THEN ToSet(observers[q]) \cup {At} ELSE ToSet(observers[q])
    <3>1. observers[q] \in Seq(Objects) /\ IsInjective(observers[q])
      BY DEF TypeOK, GraphTypes, EdgeInv, Edges
    <3>2. /\ ToSet(Append(observers[q], At)) = ToSet(observers[q]) \cup {At}
          /\ At \notin ToSet(observers[q]) => IsInjective(Append(observers[q], At))
      BY <2>2, <3>1, AppendList
    <3> QED
      BY <2>8, <2>9, <3>1, <3>2
  <2>13. Edges'
    <3>1. ASSUME NEW q \in Objects, NEW o \in Objects
          PROVE  /\ o \in ToSet(observers'[q]) <=> q \in observables'[o]
                 /\ o \in ToSet(observers'[q]) =>
                      o \in Live /\ q \in Live /\ signal[q].id \in ToSet(signal[o].depends)
      <4>1. /\ o \in ToSet(observers[q]) <=> q \in observables[o]
            /\ o \in ToSet(observers[q]) =>
                 o \in Live /\ q \in Live /\ signal[q].id \in ToSet(signal[o].depends)
        BY DEF EdgeInv, Edges
      <4>2. o \in ToSet(observers'[q]) <=> o \in ToSet(observers[q]) \/ (q = p0 /\ o = At)
        BY <2>12
      <4>3. q \in observables'[o] <=> q \in observables[o] \/ (q = p0 /\ o = At)
        BY <2>9
      <4>4. signal[p0].id \in ToSet(signal[At].depends)
        BY <2>4, <2>11 DEF depends
      <4> QED
        BY <2>4, <2>5, <4>1, <4>2, <4>3, <4>4
    <3> QED
      BY <2>10, <2>12, <3>1 DEF Edges
  <2>14. (\A o \in Objects : Declared(o))'
    BY <2>10 DEF EdgeInv, Declared
  <2>15. NewEdges'
    <3>1. ASSUME NEW s \in DOMAIN source, NEW i \in DOMAIN source[s].newSignalsM,
                 NEW p \in observables'[source[s].newSignalsM[i]]
          PROVE  signal[p].id \in AttachedTo(s, i)'
      <4> DEFINE o == source[s].newSignalsM[i]
      <4>1. o \in Objects
        BY SourceAt, MapIs DEF TypeOK
      <4>2. CASE o = At
        <5>1. s = Current
          BY <2>2, <4>2 DEF KeptOnce, SignalMap
        <5>2. i = k0
          <6>1. signal[o].id = i /\ signal[At].id = k0
            BY <2>2 DEF TypeOK, RegistryTypes
          <6> QED
            BY <4>2, <6>1
        <5>3. CASE p = p0
          <6>1. id \in {depends[j] : j \in 1..(dep + 1)}
            BY <2>3 DEF id, depends
          <6> QED
            BY <2>4, <2>7, <5>1, <5>2, <5>3, <6>1
        <5>4. CASE p # p0
          <6>1. p \in observables[o]
            BY <2>9, <3>1, <4>1, <5>4
          <6>2. signal[p].id \in {depends[j] : j \in 1..dep}
            BY <2>6, <5>1, <5>2, <6>1 DEF EdgeInv, NewEdges
          <6>3. signal[p].id \in {depends[j] : j \in 1..(dep + 1)}
            BY <2>3, <6>2
          <6> QED
            BY <2>7, <5>1, <5>2, <6>3
        <5> QED
          BY <5>3, <5>4
      <4>3. CASE o # At
        <5>1. p \in observables[o]
          BY <2>9, <3>1, <4>1, <4>3
        <5>2. signal[p].id \in AttachedTo(s, i)
          BY <5>1 DEF EdgeInv, NewEdges
        <5>3. ~(s = Current /\ i = k0)
          BY <2>2, <4>3
        <5>4. AttachedTo(s, i)' = AttachedTo(s, i)
          <6>1. UNCHANGED <<source, sourcesListV, signal, pc, todo, visited, Current, Rest>>
            BY <2>1 DEF registry, Current, Rest
          <6> QED
            BY <2>1, <5>3, <6>1 DEF AttachedTo, k0
        <5> QED
          BY <5>2, <5>4
      <4> QED
        BY <4>2, <4>3
    <3> QED
      BY <2>10, <3>1 DEF NewEdges
  <2>16. NothingIgnored'
    BY <2>1 DEF NothingIgnored
  <2> QED
    BY <2>13, <2>14, <2>15, <2>16 DEF EdgeInv
<1> QED
  BY <1>1, <1>2

\* A new signal has no edge, and those of the one that it replaces go; nothing has been
\* attached yet.
LEMMA EdgeLoadOneSignal ==
  ASSUME RegistryInv, EdgeInv, NEW d \in Definition, LoadOneSignal(d)
  PROVE  EdgeInv'
<1> USE DEF RegistryInv
<1> DEFINE s0 == GetSourceAPI(d.api)
           n == Len(signal) + 1
           O == Objects'
           a == Append(observers, << >>)
           b == Append(observables, {})
           map == source[s0].newSignalsM
           g == Discard([observers |-> a, observables |-> b], map, d.id)
<1>1. /\ pc = "signals" /\ pc' = "signals" /\ s0 \in DOMAIN source /\ AddSignal(s0, d)
  BY GetSourceAPIIs DEF LoadOneSignal, control, TypeOK
<1>2. observers' = g.observers /\ observables' = g.observables
  BY <1>1 DEF AddSignal, GraphIs
<1> HIDE DEF s0
<1>3. /\ n \notin Objects /\ O = Objects \cup {n}
      /\ \A p \in Objects : signal'[p] = signal[p]
      /\ signal'[n] = [id |-> d.id, depends |-> d.depends, subscribed |-> FALSE]
      /\ a \in [O -> Seq(O)]
      /\ \A p \in O : a[p] = IF p = n THEN << >> ELSE observers[p]
      /\ b \in [O -> SUBSET O]
      /\ \A p \in O : b[p] = IF p = n THEN {} ELSE observables[p]
      /\ DOMAIN source' = DOMAIN source
      /\ \A t \in DOMAIN source :
           /\ source'[t].signalsM = source[t].signalsM
           /\ source'[t].newSignalsM =
                IF t = s0 THEN Extend(map, d.id, n) ELSE source[t].newSignalsM
  <2>1. /\ O = Objects \cup {n} /\ n \notin Objects /\ DOMAIN source' = DOMAIN source
        /\ \A t \in DOMAIN source :
             /\ source'[t].signalsM = source[t].signalsM
             /\ source'[t].newSignalsM =
                  IF t = s0 THEN Extend(map, d.id, n) ELSE source[t].newSignalsM
    BY <1>1, AddSignalMaps
  <2>2. /\ \A p \in Objects : signal'[p] = signal[p]
        /\ signal'[n] = [id |-> d.id, depends |-> d.depends, subscribed |-> FALSE]
    BY <1>1, AddSignalIs
  <2>3. /\ a \in [O -> Seq(O)]
        /\ \A p \in O : a[p] = IF p = n THEN << >> ELSE observers[p]
    BY <1>1, AddSignalIs
  <2>4. /\ b \in [O -> SUBSET O]
        /\ \A p \in O : b[p] = IF p = n THEN {} ELSE observables[p]
    BY <1>1, AddSignalIs
  <2> QED
    BY <2>1, <2>2, <2>3, <2>4, Zenon
<1>4. \A t \in DOMAIN source : \A i \in DOMAIN source[t].newSignalsM :
        source[t].newSignalsM[i] \in Objects
  BY SourceAt, MapIs DEF TypeOK
<1>5. d.id \in DOMAIN map => map[d.id] \in O
  BY <1>1, <1>3, <1>4
<1> HIDE DEF n, O, a, b, map
<1>6. \A p \in Objects : ToSet(observers[p]) \subseteq Objects /\ observables[p] \subseteq Objects
  BY ElementOfSeq, LenProperties DEF TypeOK, GraphTypes, ToSet
<1>7. Matched(O, a, b)
  <2>1. IsInjective(<< >>) /\ ToSet(<< >>) = {}
    BY DEF IsInjective, ToSet
  <2>2. ASSUME NEW p \in O
        PROVE  IsInjective(a[p])
    BY <1>3, <2>1 DEF EdgeInv, Edges
  <2>3. ASSUME NEW p \in O, NEW o \in O
        PROVE  o \in ToSet(a[p]) <=> p \in b[o]
    BY <1>3, <1>6, <2>1 DEF EdgeInv, Edges
  <2> QED
    BY <2>2, <2>3 DEF Matched
<1>8. EdgesLeft(O, a, b, d.id, map, g)
  BY <1>3, <1>5, <1>7, DiscardEdges
<1> HIDE DEF g
<1>9. ASSUME NEW x \in Live, d.id \in DOMAIN map => x # map[d.id]
      PROVE  x \in Live'
  <2>1. PICK s \in DOMAIN source : \E m \in SignalMap : \E i \in DOMAIN source[s][m] :
               x = source[s][m][i]
    BY LiveIs
  <2>2. PICK m \in SignalMap : \E i \in DOMAIN source[s][m] : x = source[s][m][i]
    BY <2>1
  <2>3. PICK i \in DOMAIN source[s][m] : x = source[s][m][i]
    BY <2>2
  <2>4. i \in DOMAIN source'[s][m] /\ source'[s][m][i] = x
    <3>1. CASE s = s0 /\ m = "newSignalsM"
      <4>1. source'[s][m] = Extend(map, d.id, n) /\ i \in DOMAIN map /\ map[i] = x
        BY <1>3, <2>3, <3>1 DEF map
      <4>2. i # d.id
        BY <1>9, <4>1
      <4> QED
        BY <4>1, <4>2 DEF Extend
    <3>2. CASE ~(s = s0 /\ m = "newSignalsM")
      BY <1>3, <2>3, <3>2 DEF SignalMap
    <3> QED
      BY <3>1, <3>2
  <2> QED
    BY <1>3, <2>4 DEF Live, Kept, SignalMap
<1>10. Edges'
  <2>1. ASSUME NEW p \in O, NEW o \in O, o \in ToSet(observers'[p])
        PROVE  o \in Live' /\ p \in Live' /\ signal'[p].id \in ToSet(signal'[o].depends)
    <3>1. o \in ToSet(a[p]) /\ (d.id \in DOMAIN map => p # map[d.id] /\ o # map[d.id])
      BY <1>2, <1>8, <2>1 DEF EdgesLeft
    <3>2. p \in Objects /\ o \in ToSet(observers[p]) /\ o \in Objects
      <4>1. ToSet(<< >>) = {}
        BY DEF ToSet
      <4> QED
        BY <1>3, <1>6, <3>1, <4>1
    <3>3. o \in Live /\ p \in Live /\ signal[p].id \in ToSet(signal[o].depends)
      BY <3>2 DEF EdgeInv, Edges
    <3> QED
      BY <1>3, <1>9, <3>1, <3>2, <3>3
  <2>2. Matched(O, observers', observables')
    BY <1>2, <1>8 DEF EdgesLeft
  <2> QED
    BY <2>1, <2>2 DEF Edges, Matched, O
<1>11. (\A o \in Objects : Declared(o))'
  BY <1>3 DEF EdgeInv, Declared, O
<1>12. NewEdges'
  <2>1. ASSUME NEW s \in DOMAIN source', NEW i \in DOMAIN source'[s].newSignalsM
        PROVE  observables'[source'[s].newSignalsM[i]] = {}
    <3> DEFINE x == source'[s].newSignalsM[i]
    <3>1. \/ x = n
          \/ i \in DOMAIN source[s].newSignalsM /\ x = source[s].newSignalsM[i]
      <4>1. CASE s = s0
        <5>1. source'[s].newSignalsM = Extend(map, d.id, n) /\ map = source[s].newSignalsM
          BY <1>3, <2>1, <4>1 DEF map
        <5>2. \A j \in DOMAIN Extend(map, d.id, n) :
                \/ Extend(map, d.id, n)[j] = n
                \/ j \in DOMAIN map /\ Extend(map, d.id, n)[j] = map[j]
          BY DEF Extend
        <5> QED
          BY <2>1, <5>1, <5>2
      <4>2. CASE s # s0
        BY <1>3, <2>1, <4>2
      <4> QED
        BY <4>1, <4>2
    <3> HIDE DEF x
    <3>2. x \in O /\ b[x] = {}
      <4>1. CASE x = n
        BY <1>3, <4>1
      <4>2. CASE i \in DOMAIN source[s].newSignalsM /\ x = source[s].newSignalsM[i]
        <5>1. x \in Objects /\ x # n
          BY <1>3, <1>4, <2>1, <4>2
        <5>2. observables[x] = {}
          BY <1>1, <1>3, <2>1, <4>2, NotAttached DEF EdgeInv, NewEdges
        <5> QED
          BY <1>3, <5>1, <5>2
      <4> QED
        BY <3>1, <4>1, <4>2
    <3>3. observables'[x] = {}
      BY <1>2, <1>8, <3>2 DEF EdgesLeft
    <3> QED
      BY <3>3 DEF x
  <2> QED
    BY <2>1 DEF NewEdges
<1>13. NothingIgnored'
  BY <1>1 DEF NothingIgnored
<1> QED
  BY <1>10, <1>11, <1>12, <1>13 DEF EdgeInv

\* At first there is no signal.
LEMMA EdgeInit ==
  ASSUME Init
  PROVE  EdgeInv
<1>1. DOMAIN source = {} /\ Objects = {} /\ pc # "check"
  BY DEF Init, Objects
<1> QED
  BY <1>1 DEF EdgeInv, Edges, NewEdges, NothingIgnored

\* Every step.
LEMMA EdgeNext ==
  ASSUME RegistryInv, EdgeInv, NEW rank, Ranked(rank), [Next]_vars
  PROVE  EdgeInv'
<1>1. CASE Next
  BY <1>1, NextIs, EdgeControl, EdgeSources, EdgeLoadOneSignal, EdgeAttach, EdgeAccept,
     EdgeMakeSubscription, EdgeClean
<1>2. CASE UNCHANGED vars
  BY <1>2, EdgeSources
<1> QED
  BY <1>1, <1>2

\* What declares no loop has edges between kept signals only, the two ends of each agree,
\* and it is there once.
THEOREM RankedInductive ==
  ASSUME NEW rank, Ranked(rank)
  PROVE  Spec => []RankedInv
<1>1. Init => RankedInv
  BY RegistryInit, EdgeInit DEF RankedInv
<1>2. RankedInv /\ [Next]_vars => RankedInv'
  BY RegistryNext, EdgeNext DEF RankedInv
<1> QED
  BY <1>1, <1>2, PTL DEF Spec

\* Whatever is redefined, refused or removed, update and ~Observable never follow a
\* pointer to a signal that has been destroyed (observer-pattern.hpp:94, :113), when
\* nothing that configurations declare depends on itself.
THEOREM EdgesNeverDangle ==
  ASSUME NEW rank, Ranked(rank)
  PROVE  Spec => []NoDanglingEdge
<1>1. RankedInv => NoDanglingEdge
  <2>1. SUFFICES ASSUME RegistryInv, EdgeInv, NEW o \in Live
                 PROVE  ToSet(observers[o]) \cup observables[o] \subseteq Live
    BY DEF NoDanglingEdge, RankedInv
  <2>2. o \in Objects
    BY <2>1, LiveIs DEF RegistryInv
  <2>3. ToSet(observers[o]) \subseteq Objects /\ observables[o] \subseteq Objects
    BY <2>1, <2>2, ElementOfSeq, LenProperties DEF RegistryInv, TypeOK, GraphTypes, ToSet
  <2> QED
    BY <2>1, <2>2, <2>3 DEF EdgeInv, Edges
<1> QED
  BY <1>1, RankedInductive, PTL

\* An observer knows what it observes and is called once for each change of it
\* (observer-pattern.hpp:76, :113).
THEOREM EdgesAreMatched ==
  ASSUME NEW rank, Ranked(rank)
  PROVE  Spec => []EdgesMatch
<1>1. RankedInv => EdgesMatch
  <2>1. SUFFICES ASSUME RegistryInv, EdgeInv, NEW o \in Live, NEW p \in Live
                 PROVE  Cardinality({k \in DOMAIN observers[p] : observers[p][k] = o}) =
                          IF p \in observables[o] THEN 1 ELSE 0
    BY DEF EdgesMatch, RankedInv
  <2> DEFINE places == {k \in DOMAIN observers[p] : observers[p][k] = o}
  <2>2. o \in Objects /\ p \in Objects
    BY <2>1, LiveIs DEF RegistryInv
  <2>3. IsInjective(observers[p]) /\ (o \in ToSet(observers[p]) <=> p \in observables[o])
    BY <2>1, <2>2 DEF EdgeInv, Edges
  <2>4. CASE p \in observables[o]
    <3>1. PICK k \in DOMAIN observers[p] : observers[p][k] = o
      BY <2>3, <2>4 DEF ToSet
    <3>2. places = {k}
      BY <2>3, <3>1 DEF IsInjective
    <3> QED
      BY <2>4, <3>2, FS_Singleton
  <2>5. CASE p \notin observables[o]
    <3>1. places = {}
      BY <2>3, <2>5 DEF ToSet
    <3> QED
      BY <2>5, <3>1, FS_EmptySet
  <2> QED
    BY <2>4, <2>5
<1> QED
  BY <1>1, RankedInductive, PTL

-----------------------------------------------------------------------------
(* The check returns, where signals are ranked. *)

\* The signals that rank higher: those that a chain of updates can still come to.
Above(rank, p) == {q \in Objects : rank[signal[q].id] > rank[signal[p].id]}

\* What observes p has fewer signals above it than p.
LEMMA AboveIs ==
  ASSUME TypeOK, EdgeInv, NEW rank, Ranked(rank)
  PROVE  /\ \A p \in Objects : /\ Cardinality(Above(rank, p)) \in Nat
                               /\ Cardinality(Above(rank, p)) < Len(signal)
         /\ \A p \in Objects : \A q \in ToSet(observers[p]) :
              q \in Objects /\ Cardinality(Above(rank, q)) < Cardinality(Above(rank, p))
<1>1. Objects = 1..Len(signal) /\ Len(signal) \in Nat
  <2> DEFINE R == [id: Id, depends: Seq(Id), subscribed: BOOLEAN]
  <2>1. signal \in Seq(R)
    BY DEF TypeOK, GraphTypes
  <2> HIDE DEF R
  <2> QED
    BY <2>1, LenProperties DEF Objects
<1>2. IsFiniteSet(Objects) /\ Cardinality(Objects) = Len(signal)
  BY <1>1, FS_Interval
<1>3. \A p \in Objects : rank[signal[p].id] \in Nat
  BY SignalAt DEF TypeOK, Ranked
<1>4. ASSUME NEW S, IsFiniteSet(S), NEW T \in SUBSET S, NEW x \in S, x \notin T
      PROVE  /\ Cardinality(T) \in Nat /\ Cardinality(S) \in Nat
             /\ Cardinality(T) < Cardinality(S)
  <2>1. IsFiniteSet(T) /\ Cardinality(T) <= Cardinality(S) /\ Cardinality(T) # Cardinality(S)
    BY <1>4, FS_Subset
  <2>2. Cardinality(T) \in Nat /\ Cardinality(S) \in Nat
    BY <1>4, <2>1, FS_CardinalityType
  <2> QED
    BY <2>1, <2>2
<1>5. ASSUME NEW p \in Objects
      PROVE  /\ Above(rank, p) \in SUBSET Objects /\ p \notin Above(rank, p)
             /\ IsFiniteSet(Above(rank, p))
  <2>1. Above(rank, p) \in SUBSET Objects /\ p \notin Above(rank, p)
    BY <1>3 DEF Above
  <2> QED
    BY <1>2, <2>1, FS_Subset
<1>6. ASSUME NEW p \in Objects, NEW q \in ToSet(observers[p])
      PROVE  q \in Objects /\ Cardinality(Above(rank, q)) < Cardinality(Above(rank, p))
  <2>1. q \in Objects /\ rank[signal[p].id] < rank[signal[q].id]
    BY EdgeRank
  <2>2. q \in Above(rank, p) /\ Above(rank, q) \in SUBSET Above(rank, p)
    BY <1>3, <2>1 DEF Above
  <2> QED
    BY <1>4, <1>5, <2>1, <2>2
<1> QED
  BY <1>2, <1>4, <1>5, <1>6

\* A call at depth n has n signals above it still; no signal has as many as there are.
LEMMA NeverEndless ==
  ASSUME TypeOK, EdgeInv, NEW rank, Ranked(rank), NEW o \in Objects
  PROVE  RecursionCheck[o] = "none"
<1>1. PICK f : NestedCheck = f[Len(signal)] /\ f = Levels(Len(signal), f)
  BY NestedCheckIs
<1> DEFINE N == Len(signal)
           height == [p \in Objects |-> Cardinality(Above(rank, p))]
           Low == {n \in 0..N : \E p \in Objects : f[n][p] = "endless" /\ height[p] < n}
           m == Min(Low)
<1>2. N \in Nat
  <2> DEFINE R == [id: Id, depends: Seq(Id), subscribed: BOOLEAN]
  <2>1. signal \in Seq(R)
    BY DEF TypeOK, GraphTypes
  <2> HIDE DEF R
  <2> QED
    BY <2>1, LenProperties
<1>3. \A n \in 0..N : f[n] = IF n = 0 THEN [p \in Objects |-> "endless"] ELSE Deeper(f[n - 1])
  BY <1>1 DEF Levels
<1>4. /\ \A p \in Objects : height[p] \in Nat /\ height[p] < N
      /\ \A p \in Objects : \A q \in ToSet(observers[p]) : q \in Objects /\ height[q] < height[p]
  BY AboveIs
<1> HIDE DEF N, height
<1>5. Low = {}
  <2>1. SUFFICES ASSUME Low # {}
                 PROVE  FALSE
    OBVIOUS
  <2>2. Low \subseteq Nat
    BY <1>2
  <2> HIDE DEF Low
  <2>3. m \in Low /\ \A n \in Low : m <= n
    BY <2>1, <2>2, LeastExists
  <2> HIDE DEF m
  <2>4. PICK p \in Objects : m \in 0..N /\ f[m][p] = "endless" /\ height[p] < m
    BY <2>3 DEF Low
  <2>5. m # 0 /\ m - 1 \in 0..N /\ ~(m <= m - 1)
    BY <1>2, <1>4, <2>4
  <2> DEFINE result == f[m - 1]
  <2>6. f[m] = Deeper(result)
    BY <1>3, <2>4, <2>5
  <2>7. \A q \in Objects : result[q] = "endless" => ~(height[q] < m - 1)
    BY <2>3, <2>5 DEF Low
  <2> HIDE DEF result
  <2>8. PICK q \in ToSet(observers[p]) : result[q] = "endless"
    BY <2>4, <2>6, DeeperIs
  <2>9. q \in Objects /\ height[q] < height[p] /\ height[q] \in Nat /\ height[p] \in Nat
    BY <1>4, <2>4, <2>8
  <2> QED
    BY <1>2, <2>4, <2>7, <2>8, <2>9
<1>6. \A p \in Objects : NestedCheck[p] # "endless"
  <2>1. NestedCheck = f[N] /\ N \in 0..N
    BY <1>1, <1>2 DEF N
  <2> QED
    BY <1>4, <1>5, <2>1
<1>7. RecursionCheck[o] # "endless"
  BY <1>4, <1>6, RecursionCheckIs
<1> QED
  BY <1>7, NeverALoop

\* "@return 0 if no infinite loop detected, -1 if not." (signal.cpp:653): the check
\* always returns, when nothing that configurations declare depends on itself.  Where
\* something does, the check of a signal that is not on the loop, but leads to it, may
\* go round for ever.
THEOREM CheckReturnsWhenRanked ==
  ASSUME NEW rank, Ranked(rank)
  PROVE  Spec => []RecursionCheckReturns
<1>1. Init => RecursionCheckReturns
  BY DEF Init, RecursionCheckReturns
<1>2. RankedInv /\ RecursionCheckReturns /\ [Next]_vars => RecursionCheckReturns'
  <2>1. SUFFICES ASSUME RegistryInv, EdgeInv, RecursionCheckReturns, [Next]_vars
                 PROVE  RecursionCheckReturns'
    BY DEF RankedInv
  <2> USE DEF RecursionCheckReturns
  <2>2. CASE UNCHANGED vars
    BY <2>1, <2>2 DEF vars
  <2>3. CASE ControlStep
    BY <2>1, <2>3, ControlStepIs
  <2>4. CASE (\E d \in Definition : LoadVirtualSignal(d))
             \/ \E api \in handled, id \in Id : SourceEvent(api, id)
    BY <2>4 DEF LoadVirtualSignal, SourceEvent, Die
  <2>5. CASE CheckForEver
    <3>1. At \in Objects /\ RecursionCheck[At] = "endless"
      BY <2>1, <2>5, AtIs DEF CheckForEver, RegistryInv, Turn
    <3> QED
      BY <2>1, <3>1, NeverEndless DEF RegistryInv
  <2>6. CASE \/ (\E u \in Uid : LoadOneSourceAPI(u)) \/ EndSources \/ Init1 \/ HandleEvents \/ Init2
             \/ \E d \in Definition : LoadOneSignal(d)
    BY <2>1, <2>6 DEF LoadOneSourceAPI, EndSources, Init1, HandleEvents, Init2, LoadOneSignal
  <2>7. CASE Attach \/ Accept \/ MakeSubscription \/ CleanNotSubscribed
    BY <2>1, <2>7 DEF Attach, Die, Accept, MakeSubscription, CleanNotSubscribed
  <2> QED
    BY <2>1, <2>2, <2>3, <2>4, <2>5, <2>6, <2>7, NextIs
<1> QED
  BY <1>1, <1>2, RankedInductive, PTL DEF Spec

-----------------------------------------------------------------------------
(* What is ignored, and why. *)

\* f tells at which depths the check of a signal returns 0: where it does for all of
\* its observers, none of which has its uid.
ReturnsNone(f) ==
  \A n \in 0..Len(signal), o \in Objects :
    f[n][o] = "none" <=>
      /\ n # 0
      /\ \A q \in ToSet(observers[o]) : signal[q].id # signal[o].id /\ f[n - 1][q] = "none"

\* When the first call returns 0.
CheckIs ==
  \E f : /\ ReturnsNone(f)
         /\ \A o \in Objects : RecursionCheck[o] = "none" <=>
              \A q \in ToSet(observers[o]) : q # o /\ f[Len(signal)][q] = "none"

\* So the check answers 0 of a signal exactly if that is so, with itself not below it.
LEMMA CheckHolds == ASSUME TypeOK PROVE CheckIs
<1>1. PICK f : NestedCheck = f[Len(signal)] /\ f = Levels(Len(signal), f)
  BY NestedCheckIs
<1>2. \A n \in 0..Len(signal) :
        f[n] = IF n = 0 THEN [o \in Objects |-> "endless"] ELSE Deeper(f[n - 1])
  BY <1>1 DEF Levels
<1>3. ASSUME NEW n \in 0..Len(signal), NEW o \in Objects
      PROVE  f[n][o] = "none" <=>
               /\ n # 0
               /\ \A q \in ToSet(observers[o]) :
                    signal[q].id # signal[o].id /\ f[n - 1][q] = "none"
  <2>1. CASE n = 0
    BY <1>2, <2>1
  <2>2. CASE n # 0
    <3> DEFINE result == f[n - 1]
    <3>1. f[n][o] = Deeper(result)[o]
      BY <1>2, <2>2
    <3> HIDE DEF result
    <3>2. f[n][o] = "none" <=>
            \A q \in ToSet(observers[o]) : signal[q].id # signal[o].id /\ result[q] = "none"
      BY <3>1, DeeperIs
    <3> QED
      BY <2>2, <3>2 DEF result
  <2> QED
    BY <2>1, <2>2
<1>4. ASSUME NEW o \in Objects
      PROVE  RecursionCheck[o] = "none" <=>
               \A q \in ToSet(observers[o]) : q # o /\ f[Len(signal)][q] = "none"
  BY <1>1, RecursionCheckIs
<1> QED
  BY <1>3, <1>4, Zenon DEF CheckIs, ReturnsNone

\* The same of the next state.
LEMMA CheckHoldsNext == TypeOK' => CheckIs'
<1>1. TypeOK => CheckIs
  BY CheckHolds
<1> QED
  BY <1>1, PTL

\* The result of the check only grows with the graph: what was refused because of a
\* chain of signals in P is refused as long as that chain is there.
LEMMA StaysGuilty ==
  ASSUME TypeOK, TypeOK', Objects' = Objects, Len(signal') = Len(signal),
         \A o \in Objects : signal'[o].id = signal[o].id,
         NEW P \in SUBSET Objects,
         \A p \in P : ToSet(observers[p]) \subseteq P \cap ToSet(observers'[p]),
         NEW o \in P, RecursionCheck[o] # "none"
  PROVE  RecursionCheck'[o] # "none"
<1> DEFINE N == Len(signal)
<1>1. N \in Nat
  <2> DEFINE R == [id: Id, depends: Seq(Id), subscribed: BOOLEAN]
  <2>1. signal \in Seq(R)
    BY DEF TypeOK, GraphTypes
  <2> HIDE DEF R
  <2> QED
    BY <2>1, LenProperties
<1>2. PICK f : /\ ReturnsNone(f)
               /\ \A p \in Objects : RecursionCheck[p] = "none" <=>
                    \A q \in ToSet(observers[p]) : q # p /\ f[N][q] = "none"
  BY CheckHolds DEF CheckIs
<1>3. PICK g : /\ \A n \in 0..N, p \in Objects :
                    g[n][p] = "none" <=>
                      /\ n # 0
                      /\ \A q \in ToSet(observers'[p]) :
                           signal'[q].id # signal'[p].id /\ g[n - 1][q] = "none"
               /\ \A p \in Objects : RecursionCheck'[p] = "none" <=>
                    \A q \in ToSet(observers'[p]) : q # p /\ g[N][q] = "none"
  <2>1. PICK g : /\ ReturnsNone(g)'
                 /\ \A p \in Objects' : RecursionCheck'[p] = "none" <=>
                      \A q \in ToSet(observers'[p]) : q # p /\ g[Len(signal')][q] = "none"
    BY CheckHoldsNext, Zenon DEF CheckIs
  <2>2. \A n \in 0..N, p \in Objects :
          g[n][p] = "none" <=>
            /\ n # 0
            /\ \A q \in ToSet(observers'[p]) :
                 signal'[q].id # signal'[p].id /\ g[n - 1][q] = "none"
    BY <2>1 DEF ReturnsNone
  <2>3. \A p \in Objects : RecursionCheck'[p] = "none" <=>
          \A q \in ToSet(observers'[p]) : q # p /\ g[N][q] = "none"
    <3>1. Objects' = Objects /\ Len(signal') = N
      OBVIOUS
    <3> HIDE DEF N
    <3> QED
      BY <2>1, <3>1, Zenon
  <2> QED
    BY <2>2, <2>3, Zenon
<1>4. \A n \in 0..N, p \in Objects :
        f[n][p] = "none" <=>
          /\ n # 0
          /\ \A q \in ToSet(observers[p]) : signal[q].id # signal[p].id /\ f[n - 1][q] = "none"
  BY <1>2 DEF ReturnsNone
<1> HIDE DEF N
<1> DEFINE Released == {n \in 0..N : \E p \in P : f[n][p] # "none" /\ g[n][p] = "none"}
           m == Min(Released)
<1>5. Released = {}
  <2>1. SUFFICES ASSUME Released # {}
                 PROVE  FALSE
    OBVIOUS
  <2>2. Released \subseteq Nat
    BY <1>1
  <2> HIDE DEF Released
  <2>3. m \in Released /\ \A n \in Released : m <= n
    BY <2>1, <2>2, LeastExists
  <2> HIDE DEF m
  <2>4. PICK p \in P : m \in 0..N /\ f[m][p] # "none" /\ g[m][p] = "none"
    BY <2>3 DEF Released
  <2>5. p \in Objects /\ m # 0
    BY <1>3, <2>4
  <2>6. m - 1 \in 0..N /\ ~(m <= m - 1)
    BY <1>1, <2>4, <2>5
  <2>7. PICK q \in ToSet(observers[p]) : signal[q].id = signal[p].id \/ f[m - 1][q] # "none"
    BY <1>4, <2>4, <2>5
  <2>8. q \in P /\ q \in ToSet(observers'[p])
    BY <2>7
  <2>9. signal'[q].id # signal'[p].id /\ g[m - 1][q] = "none"
    BY <1>3, <2>4, <2>5, <2>8
  <2>10. signal[q].id # signal[p].id
    BY <2>5, <2>8, <2>9
  <2>11. m - 1 \in Released
    BY <2>6, <2>7, <2>8, <2>9, <2>10 DEF Released
  <2> QED
    BY <2>3, <2>6, <2>11
<1>6. PICK q \in ToSet(observers[o]) : q = o \/ f[N][q] # "none"
  BY <1>2 DEF N
<1>7. q \in P /\ q \in ToSet(observers'[o])
  BY <1>6
<1>8. q = o \/ g[N][q] # "none"
  <2>1. N \in 0..N
    BY <1>1
  <2> QED
    BY <1>5, <1>6, <1>7, <2>1
<1> QED
  BY <1>3, <1>7, <1>8

\* Attaching adds an observer, a virtual signal, and takes none away.
LEMMA AttachGrows ==
  ASSUME TypeOK, Attach
  PROVE  /\ pc = "attach" /\ UNCHANGED <<registry, signal, pc, todo>> /\ Objects' = Objects
         /\ \A q \in Objects :
              /\ ToSet(observers[q]) \subseteq ToSet(observers'[q])
              /\ \A o \in ToSet(observers'[q]) : o \in ToSet(observers[q]) \/ IsVirtual(o)
<1>1. CASE Die("unknownDependency")
  BY <1>1 DEF Die, Attach, Turn, graph, control, loop, Objects
<1>2. CASE ~Die("unknownDependency")
  <2> DEFINE p == SearchFirst(signal[At].depends[dep + 1])
  <2>1. /\ pc = "attach" /\ todo <= Len(sourcesListV) /\ Rest # {}
        /\ dep < Len(signal[At].depends)
        /\ GraphIs(AddObserver(Graph, p, At))
        /\ UNCHANGED <<registry, signal, pc, todo>>
    BY <1>2 DEF Attach, Turn
  <2>2. At \in Objects /\ observers \in [Objects -> Seq(Objects)] /\ Objects' = Objects
    BY <2>1, AtIs DEF TypeOK, GraphTypes, Objects
  <2>3. IsVirtual(At)
    <3>1. dep \in Nat /\ Len(<< >>) = 0
      BY DEF TypeOK, ControlTypes
    <3> QED
      BY <2>1, <3>1 DEF IsVirtual
  <2>4. observers' = [observers EXCEPT ![p] = Append(@, At)]
    BY <2>1 DEF GraphIs, AddObserver, Graph
  <2> HIDE DEF p
  <2>5. ASSUME NEW q \in Objects
        PROVE  \/ observers'[q] = observers[q]
               \/ ToSet(observers'[q]) = ToSet(observers[q]) \cup {At}
    <3>1. ToSet(Append(observers[q], At)) = ToSet(observers[q]) \cup {At}
      BY <2>2, AppendList
    <3> QED
      BY <2>2, <2>4, <3>1
  <2>6. ASSUME NEW q \in Objects
        PROVE  /\ ToSet(observers[q]) \subseteq ToSet(observers'[q])
               /\ \A o \in ToSet(observers'[q]) : o \in ToSet(observers[q]) \/ IsVirtual(o)
    BY <2>3, <2>5
  <2> QED
    BY <2>1, <2>2, <2>6
<1> QED
  BY <1>1, <1>2

\* The destructor of a signal that does not observe leaves the other lists as they are.
LEMMA DestroyKeeps ==
  ASSUME NEW O, NEW a \in [O -> Seq(O)], NEW b \in [O -> SUBSET O], NEW x \in O,
         NEW p \in O, p # x, x \notin ToSet(a[p])
  PROVE  ToSet(a[p]) \subseteq ToSet(Destroy([observers |-> a, observables |-> b], x).observers[p])
<1> DEFINE g    == Destroy([observers |-> a, observables |-> b], x)
           list == a[p]
<1>1. Destroyed(O, a, b, x, g)
  BY DestroyIs
<1> HIDE DEF g
<1>2. list \in Seq(O) /\ x \notin ToSet(list)
  OBVIOUS
<1> HIDE DEF list
<1>3. {i \in 1..Len(list) : list[i] = x} = {}
  BY <1>2, LenProperties DEF ToSet
<1>4. RemoveFirst(list, x) = list
  BY <1>3 DEF RemoveFirst
<1> QED
  BY <1>1, <1>4 DEF Destroyed, g, list

\* getSourceAPI gives a source of the API it is asked for, and the first one that is
\* initialised if that has it.
LEMMA GetSourceAPIFinds ==
  ASSUME RegistryTypes, NEW api, GetSourceAPI(api) # 0
  PROVE  /\ GetSourceAPI(api) \in DOMAIN source /\ source[GetSourceAPI(api)].api = api
         /\ GetSourceAPI(api) \in ToSet(sourcesListV) \cup ToSet(newSourcesListV)
         /\ sourcesListV # << >> /\ source[sourcesListV[1]].api = api =>
              GetSourceAPI(api) = sourcesListV[1]
<1> DEFINE lists == sourcesListV \o newSourcesListV
           I     == {k \in 1..Len(lists) : source[lists[k]].api = api}
<1>1. /\ lists \in Seq(DOMAIN source)
      /\ sourcesListV \in Seq(DOMAIN source) /\ newSourcesListV \in Seq(DOMAIN source)
  BY ConcatProperties DEF RegistryTypes
<1>2. Len(lists) \in Nat /\ \A k \in 1..Len(lists) : lists[k] \in DOMAIN source
  BY <1>1, LenProperties, ElementOfSeq
<1>3. I # {}
  BY DEF GetSourceAPI, SelectInSeq
<1>4. I \subseteq Nat
  BY <1>2
<1>5. \A k \in 1..Len(lists) : lists[k] \in ToSet(sourcesListV) \cup ToSet(newSourcesListV)
  <2>1. /\ Len(sourcesListV) \in Nat /\ Len(newSourcesListV) \in Nat
        /\ DOMAIN sourcesListV = 1..Len(sourcesListV)
        /\ DOMAIN newSourcesListV = 1..Len(newSourcesListV)
        /\ Len(lists) = Len(sourcesListV) + Len(newSourcesListV)
        /\ \A k \in 1..Len(lists) : lists[k] =
             IF k <= Len(sourcesListV) THEN sourcesListV[k]
             ELSE newSourcesListV[k - Len(sourcesListV)]
    BY <1>1, LenProperties, ConcatProperties
  <2> HIDE DEF lists
  <2>2. ASSUME NEW k \in 1..Len(lists), k <= Len(sourcesListV)
        PROVE  lists[k] \in ToSet(sourcesListV)
    BY <2>1, <2>2 DEF ToSet
  <2>3. ASSUME NEW k \in 1..Len(lists), ~(k <= Len(sourcesListV))
        PROVE  lists[k] \in ToSet(newSourcesListV)
    <3>1. k - Len(sourcesListV) \in DOMAIN newSourcesListV
      BY <2>1, <2>3
    <3> QED
      BY <2>1, <2>3, <3>1 DEF ToSet
  <2> QED
    BY <2>2, <2>3
<1>6. ASSUME sourcesListV # << >>
      PROVE  1 \in 1..Len(lists) /\ lists[1] = sourcesListV[1]
  <2>1. Len(sourcesListV) \in Nat \ {0} /\ Len(newSourcesListV) \in Nat
    BY <1>1, <1>6, EmptySeq, LenProperties
  <2> QED
    BY <1>1, <2>1, ConcatProperties
<1> HIDE DEF lists
<1>7. Min(I) \in I /\ \A k \in I : Min(I) <= k
  <2> HIDE DEF I
  <2> QED
    BY <1>3, <1>4, LeastExists
<1>8. Min(I) # 0 /\ Min(I) \in Nat
  BY <1>2, <1>7
<1>9. GetSourceAPI(api) = lists[Min(I)]
  BY <1>3, <1>8, Zenon DEF GetSourceAPI, SelectInSeq, lists
<1>10. ASSUME sourcesListV # << >>, source[sourcesListV[1]].api = api
       PROVE  GetSourceAPI(api) = sourcesListV[1]
  <2>1. 1 \in I
    BY <1>6, <1>10
  <2>2. Min(I) = 1
    <3>1. Min(I) <= 1
      BY <1>7, <2>1
    <3> HIDE DEF I
    <3> QED
      BY <1>8, <3>1
  <2> QED
    BY <1>6, <1>9, <1>10, <2>2
<1> QED
  BY <1>2, <1>5, <1>7, <1>9, <1>10

\* No signal becomes an observer, and none gets to another source.
LEMMA VirtualFrame ==
  ASSUME TypeOK, VirtualObserve, Objects' = Objects,
         \A o \in Objects : signal'[o].depends = signal[o].depends,
         \A p \in Objects : \A o \in ToSet(observers'[p]) :
           o \in Objects /\ (o \in ToSet(observers[p]) \/ IsVirtual(o)),
         \A s \in DOMAIN source' : \A m \in SignalMap : \A i \in DOMAIN source'[s][m] :
           /\ s \in DOMAIN source /\ source'[s].api = source[s].api
           /\ \E n \in SignalMap : \E j \in DOMAIN source[s][n] :
                source'[s][m][i] = source[s][n][j]
  PROVE  VirtualObserve'
<1>1. \A o \in Objects : signal'[o].depends # << >> <=> IsVirtual(o)
  BY DEF IsVirtual
<1>2. ASSUME NEW p \in Objects', NEW o \in ToSet(observers'[p])
      PROVE  signal'[o].depends # << >>
  BY <1>1 DEF VirtualObserve
<1>3. ASSUME NEW s \in DOMAIN source', NEW m \in SignalMap, NEW i \in DOMAIN source'[s][m],
             signal'[source'[s][m][i]].depends # << >>
      PROVE  source'[s].api = SelfApi
  <2>1. PICK n \in SignalMap : \E j \in DOMAIN source[s][n] :
          source'[s][m][i] = source[s][n][j]
    OBVIOUS
  <2>2. PICK j \in DOMAIN source[s][n] : source'[s][m][i] = source[s][n][j]
    BY <2>1
  <2>3. s \in DOMAIN source /\ source'[s].api = source[s].api
    OBVIOUS
  <2>4. source[s][n][j] \in Objects
    BY <2>3, SourceAt, MapIs DEF TypeOK, SignalMap
  <2>5. IsVirtual(source[s][n][j])
    BY <1>1, <1>3, <2>2, <2>4
  <2> QED
    BY <2>3, <2>5 DEF VirtualObserve
<1> QED
  BY <1>2, <1>3, Zenon DEF VirtualObserve, IsVirtual

\* Observers come and go, all of them virtual signals in a source of the own API.
LEMMA VirtualNext ==
  ASSUME RegistryInv, VirtualObserve, [Next]_vars
  PROVE  VirtualObserve'
<1> USE DEF RegistryInv
<1>1. ASSUME NEW p \in Objects
      PROVE  observers[p] \in Seq(Objects) /\ \A o \in ToSet(observers[p]) : o \in Objects
  <2>1. observers[p] \in Seq(Objects)
    BY DEF TypeOK, GraphTypes
  <2> QED
    BY <2>1, LenProperties, ElementOfSeq DEF ToSet
<1>2. CASE UNCHANGED <<source, signal, observers>>
  BY <1>1, <1>2, VirtualFrame DEF Objects
<1>3. CASE UNCHANGED vars \/ ControlStep \/ Init1 \/ HandleEvents \/ Init2
  <2>1. UNCHANGED <<source, signal, observers>>
    BY <1>3, ControlStepIs DEF Init1, HandleEvents, Init2, vars, registry, graph
  <2> QED
    BY <1>2, <2>1
<1>4. CASE (\E d \in Definition : LoadVirtualSignal(d)) \/ CheckForEver
           \/ \E api \in handled, id \in Id : SourceEvent(api, id)
  <2>1. UNCHANGED <<source, signal, observers>>
    BY <1>4 DEF LoadVirtualSignal, CheckForEver, SourceEvent, Die, registry, graph
  <2> QED
    BY <1>2, <2>1
<1>5. CASE (\E u \in Uid : LoadOneSourceAPI(u)) \/ EndSources
  <2>1. UNCHANGED <<signal, observers>>
    BY <1>5 DEF LoadOneSourceAPI, EndSources, graph
  <2>2. CASE UNCHANGED registry
    BY <1>2, <2>1, <2>2 DEF registry
  <2>3. ASSUME NEW u \in Uid \cup {SelfUid}, NEW api \in ApiSet, AppendSource(u, api)
        PROVE  VirtualObserve'
    <3> DEFINE n == Len(source) + 1
    <3>1. /\ DOMAIN source' = DOMAIN source \cup {n}
          /\ \A s \in DOMAIN source : source'[s] = source[s]
          /\ DOMAIN source'[n].signalsM = {} /\ DOMAIN source'[n].newSignalsM = {}
      BY <2>3, AppendSourceIs DEF TypeOK
    <3> HIDE DEF n
    <3>2. ASSUME NEW s \in DOMAIN source', NEW m \in SignalMap, NEW i \in DOMAIN source'[s][m]
          PROVE  s \in DOMAIN source /\ source'[s] = source[s]
      BY <3>1 DEF SignalMap
    <3> QED
      BY <1>1, <2>1, <3>2, VirtualFrame DEF Objects
  <2> QED
    BY <1>5, <2>2, <2>3 DEF LoadOneSourceAPI, EndSources, ApiSet
<1>6. ASSUME NEW d \in Definition, LoadOneSignal(d)
      PROVE  VirtualObserve'
  <2> DEFINE s0  == GetSourceAPI(d.api)
             new == Len(signal) + 1
             a   == Append(observers, << >>)
             b   == Append(observables, {})
             O   == Objects'
  <2>1. s0 \in DOMAIN source /\ source[s0].api = d.api /\ AddSignal(s0, d)
    BY <1>6, GetSourceAPIFinds DEF LoadOneSignal, TypeOK
  <2> HIDE DEF s0
  <2>2. /\ new \notin Objects /\ Objects' = Objects \cup {new}
        /\ \A p \in Objects : signal'[p] = signal[p]
        /\ signal'[new] = [id |-> d.id, depends |-> d.depends, subscribed |-> FALSE]
        /\ a \in [O -> Seq(O)] /\ b \in [O -> SUBSET O]
        /\ \A p \in O : a[p] = IF p = new THEN << >> ELSE observers[p]
        /\ DOMAIN source' = DOMAIN source
        /\ \A t \in DOMAIN source :
             /\ source'[t].api = source[t].api
             /\ source'[t].signalsM = source[t].signalsM
             /\ source'[t].newSignalsM =
                  IF t = s0 THEN Extend(source[s0].newSignalsM, d.id, new)
                  ELSE source[t].newSignalsM
    BY <2>1, AddSignalIs
  <2>3. /\ \A p \in Objects : signal'[p].depends # << >> <=> IsVirtual(p)
        /\ signal'[new].depends # << >> => d.api = SelfApi
    <3>1. signal'[new].depends = d.depends
      BY <2>2
    <3> HIDE DEF new
    <3> QED
      BY <2>2, <3>1, DefinitionAssumption DEF IsVirtual
  <2>4. ASSUME NEW p \in O
        PROVE  ToSet(observers'[p]) \subseteq ToSet(a[p])
    <3> DEFINE map == source[s0].newSignalsM
               i   == d.id
    <3>1. i \in DOMAIN map => map[i] \in O
      <4>1. map \in Map
        BY <2>1, SourceAt DEF TypeOK
      <4> QED
        BY <2>2, <4>1, MapIs
    <3>2. observers' = Discard([observers |-> a, observables |-> b], map, i).observers
      BY <2>1 DEF AddSignal, GraphIs
    <3>3. a \in [O -> Seq(O)] /\ b \in [O -> SUBSET O]
      BY <2>2
    <3> HIDE DEF map, i, a, b, O
    <3> QED
      BY <3>1, <3>2, <3>3, DiscardShrinks
  <2>5. ASSUME NEW p \in O, NEW o \in ToSet(observers'[p])
        PROVE  signal'[o].depends # << >>
    <3>1. o \in ToSet(a[p])
      BY <2>4
    <3>2. p \in Objects /\ a[p] = observers[p]
      <4>1. ToSet(<< >>) = {}
        BY DEF ToSet
      <4> HIDE DEF new, a
      <4> QED
        BY <2>2, <3>1, <4>1
    <3> QED
      BY <1>1, <2>3, <3>1, <3>2 DEF VirtualObserve
  <2> HIDE DEF new, a, b
  <2>6. ASSUME NEW t \in DOMAIN source, NEW m \in SignalMap, NEW i \in DOMAIN source'[t][m],
               signal'[source'[t][m][i]].depends # << >>
        PROVE  source'[t].api = SelfApi
    <3>1. CASE t = s0 /\ source'[t][m][i] = new
      BY <2>1, <2>2, <2>3, <2>6, <3>1
    <3>2. CASE ~(t = s0 /\ source'[t][m][i] = new)
      <4>1. i \in DOMAIN source[t][m] /\ source'[t][m][i] = source[t][m][i]
        <5>1. \/ source'[t][m] = source[t][m]
              \/ t = s0 /\ source'[t][m] = Extend(source[t][m], d.id, new)
          BY <2>2 DEF SignalMap
        <5> QED
          BY <2>6, <3>2, <5>1 DEF Extend
      <4>2. source[t][m][i] \in Objects
        BY <4>1, SourceAt, MapIs DEF TypeOK, SignalMap
      <4> QED
        BY <2>2, <2>3, <2>6, <4>1, <4>2 DEF VirtualObserve
    <3> QED
      BY <3>1, <3>2
  <2> QED
    BY <2>2, <2>5, <2>6, Zenon DEF VirtualObserve, IsVirtual
<1>7. CASE Attach
  <2>1. UNCHANGED <<source, signal>> /\ Objects' = Objects
    BY <1>7, AttachGrows DEF registry
  <2>2. ASSUME NEW p \in Objects, NEW o \in ToSet(observers'[p])
        PROVE  o \in Objects /\ (o \in ToSet(observers[p]) \/ IsVirtual(o))
    <3>1. observers' \in [Objects -> Seq(Objects)]
      BY <1>7, <2>1, AttachTypes DEF TypeOK, GraphTypes
    <3>2. o \in Objects
      BY <3>1, LenProperties, ElementOfSeq DEF ToSet
    <3> QED
      BY <1>7, <3>2, AttachGrows
  <2> QED
    BY <2>1, <2>2, VirtualFrame
<1>8. CASE Accept
  <2>1. Objects' = Objects /\ UNCHANGED signal
    BY <1>8 DEF Accept, Objects
  <2>2. \A p \in Objects : ToSet(observers'[p]) \subseteq ToSet(observers[p])
    <3>1. source[Current].signalsM \in Map
      BY <1>8, AcceptIs, SourceAt DEF TypeOK
    <3>2. ASSUME NEW i, i \in DOMAIN source[Current].signalsM
          PROVE  source[Current].signalsM[i] \in Objects
      BY <3>1, <3>2, MapIs
    <3>3. observers' = Discard(Graph, source[Current].signalsM, Min(Rest)).observers
      BY <1>8 DEF Accept, GraphIs
    <3>4. observers \in [Objects -> Seq(Objects)] /\ observables \in [Objects -> SUBSET Objects]
      BY DEF TypeOK, GraphTypes
    <3> QED
      BY <3>2, <3>3, <3>4, DiscardShrinks DEF Graph
  <2>3. ASSUME NEW s \in DOMAIN source', NEW m \in SignalMap, NEW i \in DOMAIN source'[s][m]
        PROVE  /\ s \in DOMAIN source /\ source'[s].api = source[s].api
               /\ \E n \in SignalMap : \E j \in DOMAIN source[s][n] :
                    source'[s][m][i] = source[s][n][j]
    <3> DEFINE k == Min(Rest)
    <3>1. /\ s \in DOMAIN source /\ source'[s].api = source[s].api
          /\ k \in DOMAIN source[Current].newSignalsM /\ At = source[Current].newSignalsM[k]
          /\ \/ source'[s][m] = source[s][m]
             \/ source'[s][m] = Extend(source[s][m], k, At) /\ s = Current
             \/ source'[s][m] = Without(source[s][m], k)
      BY <1>8, AcceptIs DEF SignalMap
    <3> HIDE DEF k
    <3>2. \/ i \in DOMAIN source[s][m] /\ source'[s][m][i] = source[s][m][i]
          \/ source'[s][m][i] = At /\ s = Current
      BY <2>3, <3>1 DEF Extend, Without, Restrict
    <3> QED
      BY <3>1, <3>2 DEF SignalMap
  <2> QED
    BY <1>1, <2>1, <2>2, <2>3, VirtualFrame
<1>9. CASE MakeSubscription
  <2>1. UNCHANGED <<source, observers>>
    BY <1>9 DEF MakeSubscription, registry
  <2> QED
    BY <1>1, <1>9, <2>1, MakeSubscriptionIs, VirtualFrame
<1>10. CASE CleanNotSubscribed
  <2>1. Objects' = Objects /\ UNCHANGED signal
    BY <1>10 DEF CleanNotSubscribed, Objects
  <2>2. \A p \in Objects : ToSet(observers'[p]) \subseteq ToSet(observers[p])
    <3> DEFINE o == source[Current].signalsM[Min(NotSubscribed)]
    <3>1. o \in Objects
      BY <1>10, NotSubscribedIs DEF CleanNotSubscribed
    <3>2. observers' = Destroy(Graph, o).observers
      BY <1>10 DEF CleanNotSubscribed, GraphIs
    <3> HIDE DEF o
    <3>3. observers \in [Objects -> Seq(Objects)] /\ observables \in [Objects -> SUBSET Objects]
      BY DEF TypeOK, GraphTypes
    <3> QED
      BY <3>1, <3>2, <3>3, DestroyShrinks DEF Graph
  <2>3. ASSUME NEW s \in DOMAIN source', NEW m \in SignalMap, NEW i \in DOMAIN source'[s][m]
        PROVE  /\ s \in DOMAIN source /\ source'[s].api = source[s].api
               /\ i \in DOMAIN source[s][m] /\ source'[s][m][i] = source[s][m][i]
    <3>1. /\ s \in DOMAIN source /\ source'[s].api = source[s].api
          /\ \/ source'[s][m] = source[s][m]
             \/ source'[s][m] = Without(source[s][m], Min(NotSubscribed))
      BY <1>10, CleanIs DEF SignalMap
    <3> QED
      BY <2>3, <3>1 DEF Without, Restrict
  <2> QED
    BY <1>1, <2>1, <2>2, <2>3, VirtualFrame
<1> QED
  BY <1>3, <1>4, <1>5, <1>6, <1>7, <1>8, <1>9, <1>10, NextIs

\* The list of a stage is the one the source of the binding comes last in.
Arranged == pc = "initSources" \/ (boot /\ pc = "signals")

\* The lists stay as they are.
LEMMA OwnFrame ==
  ASSUME TypeOK, OwnFirst, UNCHANGED <<sourcesListV, newSourcesListV, initialising>>,
         \A s \in DOMAIN source : source'[s].api = source[s].api,
         Arranged' => Arranged, boot' => pc' # "idle"
  PROVE  OwnFirst'
<1>1. /\ sourcesListV \in Seq(DOMAIN source) /\ newSourcesListV \in Seq(DOMAIN source)
      /\ initialising \in DOMAIN source \cup {0}
  BY DEF TypeOK, RegistryTypes
<1>2. sourcesListV # << >> => sourcesListV[1] \in DOMAIN source
  BY <1>1, EmptySeq, LenProperties, ElementOfSeq
<1>3. newSourcesListV # << >> => Last(newSourcesListV) \in DOMAIN source
  <2>1. newSourcesListV # << >> => Len(newSourcesListV) \in 1..Len(newSourcesListV)
    BY <1>1, EmptySeq, LenProperties
  <2> QED
    BY <1>1, <2>1, ElementOfSeq DEF Last
<1> QED
  BY <1>1, <1>2, <1>3 DEF OwnFirst, Arranged

\* The source of the binding goes from the back of the list to the first place.
LEMMA OwnFirstNext ==
  ASSUME RegistryInv, OwnFirst, [Next]_vars
  PROVE  OwnFirst'
<1> USE DEF RegistryInv
<1>0. /\ sourcesListV \in Seq(DOMAIN source) /\ newSourcesListV \in Seq(DOMAIN source)
      /\ initialising \in DOMAIN source \cup {0}
  BY DEF TypeOK, RegistryTypes
<1>1. CASE UNCHANGED <<registry, boot, pc>>
  BY <1>1, OwnFrame DEF registry, Arranged, OwnFirst
<1>2. CASE ControlStep
  <2>1. UNCHANGED registry
    BY <1>2, ControlStepIs
  <2>2. Arranged' => Arranged
    BY <1>2 DEF ControlStep, AddObjects, RejectSource, EndInitSources, RejectSignal, EndSignals,
         FailSignals, WithoutSignals, Attached, EndAttach, Ignore, EndCheck, EndInitSignals,
         PassOver, EndClean, EndSubscribe, Answer, Goto, Turn, Arranged, OwnFirst
  <2>3. boot' => pc' # "idle"
    BY <1>2 DEF ControlStep, AddObjects, RejectSource, EndInitSources, RejectSignal, EndSignals,
         FailSignals, WithoutSignals, Attached, EndAttach, Ignore, EndCheck, EndInitSignals,
         PassOver, EndClean, EndSubscribe, Answer, Goto, Turn, OwnFirst
  <2> QED
    BY <2>1, <2>2, <2>3, OwnFrame DEF registry
<1>3. CASE UNCHANGED vars
           \/ (\E d \in Definition : LoadVirtualSignal(d)) \/ CheckForEver
           \/ \E api \in handled, id \in Id : SourceEvent(api, id)
  <2>1. UNCHANGED <<registry, boot, pc>>
    BY <1>3 DEF LoadVirtualSignal, CheckForEver, SourceEvent, Die, control, vars
  <2> QED
    BY <1>1, <2>1
<1>4. CASE (\E u \in Uid : LoadOneSourceAPI(u)) \/ EndSources
  <2>1. pc = "sources" /\ initialising = 0
    BY <1>4 DEF LoadOneSourceAPI, EndSources, Goto, Staged
  <2>2. ASSUME NEW u \in Uid \cup {SelfUid}, NEW api \in ApiSet, AppendSource(u, api)
        PROVE  /\ UNCHANGED <<sourcesListV, initialising>>
               /\ \A s \in DOMAIN source : source'[s] = source[s]
               /\ source'[Last(newSourcesListV')].api = api
    <3> DEFINE n == Len(source) + 1
               r == [uid |-> u, api |-> api, signalsM |-> << >>, newSignalsM |-> << >>]
    <3>1. /\ \A s \in DOMAIN source : source'[s] = source[s]
          /\ newSourcesListV' = Append(newSourcesListV, n)
          /\ UNCHANGED <<sourcesListV, initialising>>
          /\ source' = Append(source, r) /\ r.api = api
      BY <2>2, AppendSourceIs DEF AppendSource, TypeOK
    <3>2. source'[n] = r
      <4> DEFINE R == [uid: Uid \cup {SelfUid}, api: ApiSet, signalsM: Map, newSignalsM: Map]
                 X == R \cup {r}
      <4>1. source \in Seq(R)
        BY DEF TypeOK, RegistryTypes
      <4> HIDE DEF R, r
      <4>2. source \in Seq(X) /\ r \in X
        BY <4>1, SeqMonotonic
      <4> HIDE DEF X
      <4> QED
        BY <3>1, <4>2, AppendProperties
    <3> HIDE DEF n, r
    <3>3. Last(newSourcesListV') = n
      <4> DEFINE X == DOMAIN source \cup {n}
      <4>1. newSourcesListV \in Seq(X) /\ n \in X
        BY <1>0, SeqMonotonic
      <4> HIDE DEF X
      <4>2. Len(newSourcesListV') = Len(newSourcesListV) + 1
            /\ newSourcesListV'[Len(newSourcesListV) + 1] = n
        BY <3>1, <4>1, AppendProperties
      <4> QED
        BY <4>2 DEF Last
    <3> QED
      BY <3>1, <3>2, <3>3
  <2>3. sourcesListV # << >> => sourcesListV[1] \in DOMAIN source
    BY <1>0, EmptySeq, LenProperties, ElementOfSeq
  <2>4. CASE \E u \in Uid : LoadOneSourceAPI(u)
    <3>1. PICK u \in Uid : LoadOneSourceAPI(u)
      BY <2>4
    <3>2. AppendSource(u, ApiOf[u]) /\ UNCHANGED <<boot, pc>>
      BY <3>1 DEF LoadOneSourceAPI, control
    <3>3. /\ UNCHANGED <<sourcesListV, initialising>>
          /\ \A s \in DOMAIN source : source'[s] = source[s]
      BY <2>2, <3>2 DEF ApiSet
    <3> QED
      BY <2>1, <2>3, <3>2, <3>3 DEF OwnFirst
  <2>5. CASE EndSources /\ Initialised(SelfUid)
    <3>1. UNCHANGED <<registry, boot>> /\ pc' # "idle" /\ sourcesListV # << >>
      BY <2>5 DEF EndSources, Initialised, Goto
    <3> QED
      BY <3>1 DEF OwnFirst, registry
  <2>6. CASE EndSources /\ ~Initialised(SelfUid)
    <3>1. AppendSource(SelfUid, SelfApi) /\ pc' # "idle"
      BY <2>6 DEF EndSources, Goto
    <3>2. /\ UNCHANGED <<sourcesListV, initialising>>
          /\ \A s \in DOMAIN source : source'[s] = source[s]
          /\ source'[Last(newSourcesListV')].api = SelfApi
      BY <2>2, <3>1 DEF ApiSet
    <3> QED
      BY <2>1, <2>3, <3>1, <3>2 DEF OwnFirst
  <2> QED
    BY <1>4, <2>4, <2>5, <2>6
<1>5. CASE Init1
  <2>1. /\ pc = "initSources" /\ newSourcesListV # << >> /\ initialising = 0
        /\ initialising' = Last(newSourcesListV)
        /\ UNCHANGED <<source, sourcesListV, boot, pc>>
    BY <1>5 DEF Init1, control
  <2>2. initialising' # 0
    <3>1. Last(newSourcesListV) \in DOMAIN source
      <4>1. Len(newSourcesListV) \in 1..Len(newSourcesListV)
        BY <1>0, <2>1, EmptySeq, LenProperties
      <4> QED
        BY <1>0, <4>1, ElementOfSeq DEF Last
    <3>2. 0 \notin DOMAIN source
      <4>1. DOMAIN source = 1..Len(source) /\ Len(source) \in Nat
        BY LenProperties DEF TypeOK, RegistryTypes
      <4> QED
        BY <4>1
    <3> QED
      BY <2>1, <3>1, <3>2
  <2> QED
    BY <2>1, <2>2 DEF OwnFirst
<1>6. CASE Init2
  <2>1. /\ initialising # 0 /\ initialising \in DOMAIN source
        /\ sourcesListV' = Append(sourcesListV, initialising)
        /\ UNCHANGED <<source, boot, pc>>
    BY <1>0, <1>6 DEF Init2, control
  <2>2. sourcesListV' # << >> /\ sourcesListV'[1] = IF sourcesListV = << >> THEN initialising
                                                    ELSE sourcesListV[1]
    <3>1. /\ Len(sourcesListV) \in Nat /\ Len(sourcesListV') = Len(sourcesListV) + 1
          /\ \A k \in 1..Len(sourcesListV) : sourcesListV'[k] = sourcesListV[k]
          /\ sourcesListV'[Len(sourcesListV) + 1] = initialising
          /\ sourcesListV = << >> <=> Len(sourcesListV) = 0
      BY <1>0, <2>1, AppendProperties, EmptySeq, LenProperties
    <3>2. sourcesListV' # << >>
      BY <1>0, <2>1, AppendProperties
    <3> QED
      BY <3>1, <3>2
  <2> QED
    BY <2>1, <2>2 DEF OwnFirst
<1>7. CASE \E d \in Definition : LoadOneSignal(d)
  <2>1. PICK d \in Definition : LoadOneSignal(d)
    BY <1>7
  <2>2. \A s \in DOMAIN source : source'[s].api = source[s].api
    BY <2>1, GetSourceAPIIs, AddSignalIs DEF LoadOneSignal, TypeOK
  <2>3. UNCHANGED <<sourcesListV, newSourcesListV, initialising, boot, pc>>
    BY <2>1 DEF LoadOneSignal, control
  <2> QED
    BY <2>2, <2>3, OwnFrame DEF Arranged, OwnFirst
<1>8. CASE Attach \/ MakeSubscription
  <2>1. UNCHANGED <<registry, boot>> /\ pc \notin {"idle", "signals", "initSources"}
        /\ pc' \notin {"idle", "signals", "initSources"}
    BY <1>8 DEF Attach, Die, MakeSubscription, Turn, control
  <2> QED
    BY <2>1, OwnFrame DEF registry, Arranged
<1>9. CASE Accept \/ CleanNotSubscribed
  <2>1. \A s \in DOMAIN source : source'[s].api = source[s].api
    BY <1>9, AcceptIs, CleanIs
  <2>2. UNCHANGED <<sourcesListV, newSourcesListV, initialising, boot, pc>>
    BY <1>9 DEF Accept, CleanNotSubscribed
  <2> QED
    BY <2>1, <2>2, OwnFrame DEF Arranged, OwnFirst
<1>10. CASE HandleEvents
  <2>1. UNCHANGED <<source, sourcesListV, newSourcesListV, initialising, boot, pc>>
    BY <1>10 DEF HandleEvents, control
  <2> QED
    BY <2>1 DEF OwnFirst
<1> QED
  BY <1>2, <1>3, <1>4, <1>5, <1>6, <1>7, <1>8, <1>9, <1>10, NextIs

\* A signal that is filed in a source of the own API gets to the first one, or to one that
\* has accepted nothing yet.
LEMMA NeverReplacesNext ==
  ASSUME RegistryInv, OwnFirst, NeverReplaces, [Next]_vars
  PROVE  NeverReplaces'
<1> USE DEF RegistryInv
<1>0. /\ sourcesListV \in Seq(DOMAIN source) /\ initialising \in DOMAIN source \cup {0}
  BY DEF TypeOK, RegistryTypes
<1>1. CASE UNCHANGED registry \/ Init1 \/ HandleEvents \/ UNCHANGED vars
  <2>1. UNCHANGED <<source, sourcesListV>>
    BY <1>1 DEF registry, Init1, HandleEvents, vars
  <2> QED
    BY <2>1 DEF NeverReplaces
<1>2. ASSUME NEW u \in Uid \cup {SelfUid}, NEW api \in ApiSet, AppendSource(u, api)
      PROVE  NeverReplaces'
  <2> DEFINE n == Len(source) + 1
  <2>1. /\ DOMAIN source' = DOMAIN source \cup {n} /\ UNCHANGED sourcesListV
        /\ \A s \in DOMAIN source : source'[s] = source[s]
        /\ DOMAIN source'[n].signalsM = {}
    BY <1>2, AppendSourceIs DEF AppendSource, TypeOK
  <2> HIDE DEF n
  <2> QED
    BY <2>1 DEF NeverReplaces
<1>3. CASE Init2
  <2>1. /\ initialising \in DOMAIN source /\ UNCHANGED source
        /\ sourcesListV' = Append(sourcesListV, initialising)
    BY <1>0, <1>3 DEF Init2
  <2>2. sourcesListV # << >> => sourcesListV' # << >> /\ sourcesListV'[1] = sourcesListV[1]
    <3>1. /\ Len(sourcesListV) \in Nat
          /\ \A k \in 1..Len(sourcesListV) : sourcesListV'[k] = sourcesListV[k]
          /\ sourcesListV = << >> <=> Len(sourcesListV) = 0
          /\ sourcesListV' # << >>
      BY <1>0, <2>1, AppendProperties, EmptySeq, LenProperties
    <3> QED
      BY <3>1
  <2> QED
    BY <2>1, <2>2 DEF NeverReplaces
<1>4. ASSUME NEW d \in Definition, LoadOneSignal(d)
      PROVE  NeverReplaces'
  <2> DEFINE s0 == GetSourceAPI(d.api)
  <2>1. /\ s0 \in DOMAIN source /\ source[s0].api = d.api /\ AddSignal(s0, d)
        /\ sourcesListV # << >> /\ source[sourcesListV[1]].api = d.api => s0 = sourcesListV[1]
        /\ UNCHANGED sourcesListV
    BY <1>4, GetSourceAPIFinds DEF LoadOneSignal, TypeOK
  <2> HIDE DEF s0
  <2>2. /\ DOMAIN source' = DOMAIN source
        /\ \A t \in DOMAIN source :
             /\ source'[t].api = source[t].api
             /\ source'[t].signalsM = source[t].signalsM
             /\ t # s0 => source'[t].newSignalsM = source[t].newSignalsM
    BY <2>1, AddSignalIs
  <2>3. source[s0].api = SelfApi =>
          \/ sourcesListV # << >> /\ s0 = sourcesListV[1]
          \/ DOMAIN source[s0].signalsM = {}
    <3>1. CASE sourcesListV # << >>
      BY <2>1, <3>1 DEF OwnFirst
    <3>2. CASE sourcesListV = << >>
      BY <2>1, <3>2 DEF Unlisted, ToSet
    <3> QED
      BY <3>1, <3>2
  <2> QED
    BY <2>1, <2>2, <2>3 DEF NeverReplaces
<1>5. CASE Accept
  <2> DEFINE i == Min(Rest)
  <2>1. /\ DOMAIN source' = DOMAIN source /\ UNCHANGED sourcesListV
        /\ i \in DOMAIN source[Current].newSignalsM
        /\ \A t \in DOMAIN source :
             /\ source'[t].api = source[t].api
             /\ source'[t].signalsM =
                  IF t = Current THEN Extend(source[t].signalsM, i, At) ELSE source[t].signalsM
             /\ source'[t].newSignalsM =
                  IF t = Current THEN Without(source[t].newSignalsM, i) ELSE source[t].newSignalsM
    BY <1>5, AcceptIs DEF Accept
  <2> HIDE DEF i
  <2>2. ASSUME NEW t \in DOMAIN source
        PROVE  DOMAIN source[t].signalsM \cap DOMAIN source[t].newSignalsM = {} =>
               DOMAIN source'[t].signalsM \cap DOMAIN source'[t].newSignalsM = {}
    <3> DEFINE f == source[t].signalsM
               h == source[t].newSignalsM
    <3>1. \/ source'[t].signalsM = f /\ source'[t].newSignalsM = h
          \/ source'[t].signalsM = Extend(f, i, At) /\ source'[t].newSignalsM = Without(h, i)
      BY <2>1
    <3>2. DOMAIN Extend(f, i, At) = DOMAIN f \cup {i} /\ DOMAIN Without(h, i) = DOMAIN h \ {i}
      BY DEF Extend, Without, Restrict
    <3> HIDE DEF f, h
    <3>3. DOMAIN f \cap DOMAIN h = {} =>
          DOMAIN source'[t].signalsM \cap DOMAIN source'[t].newSignalsM = {}
      BY <3>1, <3>2
    <3> QED
      BY <3>3 DEF f, h
  <2> QED
    BY <2>1, <2>2 DEF NeverReplaces
<1>6. CASE CleanNotSubscribed
  <2>1. /\ DOMAIN source' = DOMAIN source /\ UNCHANGED sourcesListV
        /\ \A t \in DOMAIN source :
             /\ source'[t].api = source[t].api
             /\ \/ source'[t].signalsM = source[t].signalsM
                \/ source'[t].signalsM = Without(source[t].signalsM, Min(NotSubscribed))
             /\ source'[t].newSignalsM = source[t].newSignalsM
    BY <1>6, CleanIs DEF CleanNotSubscribed
  <2>2. \A t \in DOMAIN source : DOMAIN source'[t].signalsM \subseteq DOMAIN source[t].signalsM
    BY <2>1 DEF Without, Restrict
  <2> QED
    BY <2>1, <2>2 DEF NeverReplaces
<1> QED
  BY <1>1, <1>2, <1>3, <1>4, <1>5, <1>6, RegistryStep

\* In the turn of a source that is not the first an acceptance destroys raw signals only,
\* which nobody's check goes through.
LEMMA AcceptSpares ==
  ASSUME RegistryInv, VirtualObserve, NeverReplaces, Accept, todo # 1,
         NEW s \in DOMAIN source, s # Current,
         NEW o \in Kept(s, "newSignalsM"), RecursionCheck[o] # "none", TypeOK'
  PROVE  RecursionCheck'[o] # "none"
<1> USE DEF RegistryInv
<1> DEFINE i == Min(Rest)
           map == source[Current].signalsM
<1>1. /\ Current \in DOMAIN source /\ todo \in DOMAIN sourcesListV
      /\ i \in DOMAIN source[Current].newSignalsM
      /\ UNCHANGED signal /\ Objects' = Objects
      /\ observers' = Discard(Graph, map, i).observers
  BY AtIs DEF Accept, Turn, GraphIs, Objects
<1>2. o \in Objects
  BY SourceAt, MapIs DEF TypeOK, Kept
<1>3. ASSUME NEW p \in Objects
      PROVE  \A q \in ToSet(observers[p]) : q \in Objects /\ IsVirtual(q)
  <2>1. observers[p] \in Seq(Objects)
    BY DEF TypeOK, GraphTypes
  <2> QED
    BY <2>1, LenProperties, ElementOfSeq DEF ToSet, VirtualObserve
<1> HIDE DEF i
<1>4. CASE i \notin DOMAIN map
  <2>1. UNCHANGED observers
    BY <1>1, <1>4 DEF Discard, Graph
  <2> QED
    BY <1>1, <1>2, <1>3, <2>1, StaysGuilty
<1>5. CASE i \in DOMAIN map
  <2> DEFINE x == map[i]
  <2>1. x \in Objects
    BY <1>1, <1>5, SourceAt, MapIs DEF TypeOK
  <2>2. source[Current].api # SelfApi
    <3>1. sourcesListV # << >> => Current # sourcesListV[1]
      <4>1. IsInjective(sourcesListV) /\ todo \in DOMAIN sourcesListV /\ todo # 1
        BY <1>1 DEF Placed
      <4>2. DOMAIN sourcesListV = 1..Len(sourcesListV) /\ Len(sourcesListV) \in Nat
        BY LenProperties DEF TypeOK, RegistryTypes
      <4>3. 1 \in DOMAIN sourcesListV
        BY <4>1, <4>2
      <4> QED
        BY <4>1, <4>3 DEF IsInjective, Current
    <3> QED
      BY <1>1, <1>5, <3>1 DEF NeverReplaces
  <2>3. ~IsVirtual(x)
    BY <1>1, <1>5, <2>2 DEF VirtualObserve, SignalMap
  <2>4. o # x
    <3>1. \A j \in DOMAIN source[s].newSignalsM : source[s].newSignalsM[j] # map[i]
      BY <1>1, <1>5 DEF KeptOnce, SignalMap
    <3> QED
      BY <3>1 DEF Kept
  <2>5. observers' = Destroy(Graph, x).observers
    BY <1>1, <1>5 DEF Discard
  <2> HIDE DEF x, map
  <2> DEFINE P == Objects \ {x}
  <2>6. ASSUME NEW p \in P
        PROVE  ToSet(observers[p]) \subseteq P \cap ToSet(observers'[p])
    <3>1. x \notin ToSet(observers[p]) /\ ToSet(observers[p]) \subseteq P
      BY <1>3, <2>3
    <3>2. observers \in [Objects -> Seq(Objects)] /\ observables \in [Objects -> SUBSET Objects]
      BY DEF TypeOK, GraphTypes
    <3>3. ToSet(observers[p]) \subseteq ToSet(observers'[p])
      BY <2>1, <2>5, <3>1, <3>2, DestroyKeeps DEF Graph
    <3> QED
      BY <3>1, <3>3
  <2> QED
    BY <1>1, <1>2, <2>4, <2>6, StaysGuilty
<1> QED
  BY <1>4, <1>5

\* Where no observer is taken away, a source whose new signals stay is as guilty as before.
LEMMA GuiltyStays ==
  ASSUME TypeOK, TypeOK', UNCHANGED signal,
         \A p \in Objects : ToSet(observers[p]) \subseteq ToSet(observers'[p]),
         NEW s \in DOMAIN source, UNCHANGED source, Guilty(s)
  PROVE  Guilty(s)'
<1>1. PICK o \in Kept(s, "newSignalsM") : RecursionCheck[o] # "none"
  BY DEF Guilty
<1>2. o \in Objects /\ Objects' = Objects /\ o \in Kept(s, "newSignalsM")'
  BY SourceAt, MapIs DEF TypeOK, Kept, Objects
<1>3. ASSUME NEW p \in Objects
      PROVE  ToSet(observers[p]) \subseteq Objects
  <2>1. observers[p] \in Seq(Objects)
    BY DEF TypeOK, GraphTypes
  <2> QED
    BY <2>1, LenProperties, ElementOfSeq DEF ToSet
<1>4. RecursionCheck'[o] # "none"
  BY <1>1, <1>2, <1>3, StaysGuilty
<1> QED
  BY <1>2, <1>4 DEF Guilty

\* The turns go on, and none leaves a source behind in which all that is ignored is
\* innocent.
LEMMA GuiltNext ==
  ASSUME RegistryInv, VirtualObserve, NeverReplaces, GuiltySoFar, TypeOK', [Next]_vars
  PROVE  GuiltySoFar'
<1> USE DEF RegistryInv
<1> DEFINE Settled(s) == Kept(s, "newSignalsM") # {} => Guilty(s)
           Due == pc \in {"attach", "check"} \/ (pc = "subscribe" /\ todo = 1)
<1>0. /\ todo \in Nat /\ 1 <= todo /\ Len(sourcesListV) \in Nat
      /\ DOMAIN sourcesListV = 1..Len(sourcesListV)
      /\ \A k \in DOMAIN sourcesListV : sourcesListV[k] \in DOMAIN source
  BY LenProperties, ElementOfSeq DEF TypeOK, RegistryTypes, ControlTypes
<1>1. /\ Due => \A k \in DOMAIN sourcesListV :
           k < todo \/ pc = "subscribe" => Settled(sourcesListV[k])
      /\ pc = "check" => IF err THEN Guilty(Current) ELSE visited = {}
  BY DEF GuiltySoFar
<1>2. ASSUME Due' => \A k \in DOMAIN sourcesListV' :
               k < todo' \/ pc' = "subscribe" => Settled(sourcesListV[k])',
             pc' = "check" => IF err' THEN Guilty(Current)' ELSE visited' = {}
      PROVE  GuiltySoFar'
  BY <1>2 DEF GuiltySoFar
<1>3. ASSUME ~Due'
      PROVE  GuiltySoFar'
  BY <1>2, <1>3
<1>4. ASSUME UNCHANGED <<source, sourcesListV, signal>>,
             \A p \in Objects : ToSet(observers[p]) \subseteq ToSet(observers'[p])
      PROVE  \A s \in DOMAIN source : /\ Guilty(s) => Guilty(s)'
                                      /\ Settled(s) => Settled(s)'
  BY <1>4, GuiltyStays DEF Kept
<1> HIDE DEF Settled
<1>5. ASSUME UNCHANGED <<source, sourcesListV, signal>>,
             \A p \in Objects : ToSet(observers[p]) \subseteq ToSet(observers'[p]),
             UNCHANGED <<pc, todo, err, visited>>, pc = "check" => todo \in DOMAIN sourcesListV
      PROVE  GuiltySoFar'
  <2>1. \A k \in DOMAIN sourcesListV : Settled(sourcesListV[k]) => Settled(sourcesListV[k])'
    BY <1>0, <1>4, <1>5
  <2>2. pc = "check" => (Guilty(Current) => Guilty(Current)')
    BY <1>0, <1>4, <1>5 DEF Current
  <2> QED
    BY <1>1, <1>2, <1>5, <2>1, <2>2
<1>6. pc = "check" => todo \in DOMAIN sourcesListV
  BY <1>0 DEF Staged
<1>7. CASE UNCHANGED vars
           \/ (\E d \in Definition : LoadVirtualSignal(d)) \/ CheckForEver
           \/ \E api \in handled, id \in Id : SourceEvent(api, id)
  <2>1. UNCHANGED <<source, sourcesListV, signal, observers, pc, todo, err, visited>>
    BY <1>7 DEF LoadVirtualSignal, CheckForEver, SourceEvent, Die, control, loop, vars, registry,
                graph
  <2> QED
    BY <1>5, <1>6, <2>1
<1>8. CASE (\E u \in Uid : LoadOneSourceAPI(u)) \/ EndSources \/ Init1 \/ HandleEvents \/ Init2
           \/ \E d \in Definition : LoadOneSignal(d)
  <2>1. pc' \in {"sources", "signals", "initSources"}
    BY <1>8 DEF LoadOneSourceAPI, EndSources, Init1, HandleEvents, Init2, LoadOneSignal, Goto, control, Staged
  <2> QED
    BY <1>3, <2>1
<1>9. CASE MakeSubscription \/ CleanNotSubscribed
  <2>1. pc' = "clean"
    BY <1>9 DEF MakeSubscription, CleanNotSubscribed, Turn
  <2> QED
    BY <1>3, <2>1
<1>10. CASE Attach
  <2>1. /\ UNCHANGED <<source, sourcesListV, signal, pc, todo>> /\ pc = "attach"
        /\ \A p \in Objects : ToSet(observers[p]) \subseteq ToSet(observers'[p])
    BY <1>10, AttachGrows DEF registry
  <2>2. UNCHANGED <<err, visited>>
    BY <1>10 DEF Attach, Die, control, loop
  <2> QED
    BY <1>5, <2>1, <2>2
<1>11. CASE ControlStep
  <2>1. UNCHANGED <<source, sourcesListV, signal, observers>>
    BY <1>11, ControlStepIs DEF registry, graph
  <2>2. \A k \in DOMAIN sourcesListV : Settled(sourcesListV[k]) => Settled(sourcesListV[k])'
    BY <1>0, <1>4, <2>1
  <2>3. CASE AddObjects \/ RejectSource \/ RejectSignal \/ FailSignals \/ WithoutSignals
             \/ EndSubscribe
    <3>1. pc' \notin {"attach", "check", "subscribe"}
      BY <2>3 DEF AddObjects, RejectSource, RejectSignal, FailSignals, WithoutSignals,
                  EndSubscribe, Answer, Goto
    <3> QED
      BY <1>3, <3>1
  <2>4. CASE EndInitSources \/ EndSignals
    <3>1. /\ pc' \in {"attach", "signals", "initSources"} /\ todo' = todo
          /\ pc \in {"initSources", "signals"}
      BY <2>4 DEF EndInitSources, EndSignals, Goto, loop
    <3>2. todo = 1
      BY <3>1 DEF Staged
    <3>3. \A k \in DOMAIN sourcesListV : ~(k < todo)
      BY <1>0, <3>2
    <3> QED
      BY <1>2, <2>1, <3>1, <3>3
  <2>5. CASE PassOver \/ EndClean
    <3>1. pc' = "subscribe" /\ todo' = todo + 1
      BY <2>5 DEF PassOver, EndClean, Turn
    <3>2. todo' # 1
      BY <1>0, <3>1
    <3> QED
      BY <1>3, <3>1, <3>2
  <2>6. CASE Attached
    <3>1. pc = "attach" /\ UNCHANGED <<pc, todo>>
      BY <2>6 DEF Attached, Turn
    <3> QED
      BY <1>1, <1>2, <2>1, <2>2, <3>1
  <2>7. CASE EndAttach
    <3>1. pc = "attach" /\ pc' = "check" /\ visited' = {} /\ UNCHANGED <<todo, err>>
      BY <2>7 DEF EndAttach, Turn
    <3>2. ~err
      BY <3>1 DEF Staged
    <3> QED
      BY <1>1, <1>2, <2>1, <2>2, <3>1, <3>2
  <2>8. CASE Ignore
    <3>1. /\ pc = "check" /\ todo <= Len(sourcesListV) /\ Rest # {}
          /\ err \/ RecursionCheck[At] # "none"
          /\ err' = TRUE /\ UNCHANGED <<pc, todo>>
      BY <2>8 DEF Ignore, Turn
    <3>2. Current \in DOMAIN source /\ At \in Kept(Current, "newSignalsM")
      BY <3>1, AtIs DEF At, Kept
    <3>3. Guilty(Current)
      BY <1>1, <3>1, <3>2 DEF Guilty
    <3>4. Guilty(Current)'
      BY <1>4, <2>1, <3>1, <3>2, <3>3 DEF Current
    <3> QED
      BY <1>1, <1>2, <2>1, <2>2, <3>1, <3>4
  <2>9. CASE EndCheck
    <3>1. /\ pc = "check" /\ Rest = {} /\ pc' = "attach" /\ todo' = todo + 1
      BY <2>9 DEF EndCheck, Turn
    <3>2. Settled(Current)
      <4>1. CASE err
        BY <1>1, <3>1, <4>1 DEF Settled
      <4>2. CASE ~err
        <5>1. DOMAIN source[Current].newSignalsM = {}
          BY <1>1, <3>1, <4>2 DEF Rest
        <5> QED
          BY <5>1 DEF Settled, Kept
      <4> QED
        BY <4>1, <4>2
    <3>3. \A k \in DOMAIN sourcesListV : k < todo' => k < todo \/ k = todo
      BY <1>0, <3>1
    <3>4. \A k \in DOMAIN sourcesListV : k < todo' => Settled(sourcesListV[k])
      BY <1>1, <3>1, <3>2, <3>3 DEF Current
    <3> QED
      BY <1>2, <2>1, <2>2, <3>1, <3>4
  <2>10. CASE EndInitSignals
    <3>1. pc = "attach" /\ pc' = "subscribe" /\ todo = Len(sourcesListV) + 1
      BY <2>10 DEF EndInitSignals, Goto
    <3>2. \A k \in DOMAIN sourcesListV : k < todo
      BY <1>0, <3>1
    <3> QED
      BY <1>1, <1>2, <2>1, <2>2, <3>1, <3>2
  <2> QED
    BY <1>11, <2>3, <2>4, <2>5, <2>6, <2>7, <2>8, <2>9, <2>10 DEF ControlStep
<1>12. CASE Accept
  <2>1. /\ pc = "check" /\ ~err /\ todo \in DOMAIN sourcesListV
        /\ UNCHANGED <<sourcesListV, pc, todo, err, visited>>
    BY <1>6, <1>12 DEF Accept, Turn, loop
  <2>2. ASSUME NEW k \in DOMAIN sourcesListV, k < todo
        PROVE  Settled(sourcesListV[k])'
    <3> DEFINE s == sourcesListV[k]
    <3>1. /\ s \in DOMAIN source /\ s # Current /\ todo # 1
      BY <1>0, <2>1, <2>2 DEF Placed, IsInjective, Current
    <3>2. source'[s].newSignalsM = source[s].newSignalsM
      BY <1>12, <3>1, AcceptIs
    <3> HIDE DEF s
    <3>3. ASSUME Guilty(s)
          PROVE  \E o \in Kept(s, "newSignalsM") : RecursionCheck'[o] # "none"
      <4>1. PICK o \in Kept(s, "newSignalsM") : RecursionCheck[o] # "none"
        BY <3>3 DEF Guilty
      <4>2. RecursionCheck'[o] # "none"
        BY <1>12, <3>1, <4>1, AcceptSpares
      <4> QED
        BY <4>2
    <3>4. Settled(s)
      BY <1>1, <2>1, <2>2 DEF s
    <3>5. s' = s
      BY <2>1 DEF s
    <3> QED
      BY <3>2, <3>3, <3>4, <3>5 DEF Settled, Guilty, Kept, s
  <2> QED
    BY <1>1, <1>2, <2>1, <2>2
<1> QED
  BY <1>7, <1>8, <1>9, <1>10, <1>11, <1>12, NextIs

\* The invariant of what is ignored holds of every reachable state.
THEOREM GuiltInductive == Spec => []GuiltInv
<1>1. Init => GuiltInv
  <2>1. ASSUME Init
        PROVE  VirtualObserve /\ OwnFirst /\ NeverReplaces /\ GuiltySoFar
    BY <2>1 DEF Init, VirtualObserve, OwnFirst, NeverReplaces, GuiltySoFar, Objects
  <2> QED
    BY <2>1, RegistryInit DEF GuiltInv
<1>2. GuiltInv /\ [Next]_vars => GuiltInv'
  <2>1. GuiltInv /\ [Next]_vars => RegistryInv'
    BY RegistryNext DEF GuiltInv
  <2>2. RegistryInv' => TypeOK'
    BY DEF RegistryInv
  <2> QED
    BY <2>1, <2>2, VirtualNext, OwnFirstNext, NeverReplacesNext, GuiltNext DEF GuiltInv
<1> QED
  BY <1>1, <1>2, PTL DEF Spec

\* What initSignals ignores, although its errors add up (source.cpp:168), is never all
\* innocent, whatever the configurations declare and however many there are.
THEOREM NoneIgnoredWithoutALoop == Spec => []IgnoredForALoop
<1>1. GuiltInv => IgnoredForALoop
  BY DEF GuiltInv, GuiltySoFar, IgnoredForALoop, Guilty
<1> QED
  BY <1>1, GuiltInductive, PTL

=============================================================================
