--------------------------- MODULE ComposerProofs ---------------------------
(***************************************************************************)
(* Proofs about the registry of Composer, for any configurations, sources  *)
(* and signals: its types, in which list each source is, and what the      *)
(* subscription of the accepted signals leaves.  What each operation does  *)
(* to lists, maps and the graph is stated first, then the types, then one  *)
(* part of RegistryInv after the other, each kept by every step.           *)
(***************************************************************************)
EXTENDS ComposerInv, SequenceTheorems, LeastElement

-----------------------------------------------------------------------------
(* Lists. *)

\* push_back.
LEMMA AppendList ==
  ASSUME NEW S, NEW list \in Seq(S), NEW e \in S
  PROVE  /\ Append(list, e) \in Seq(S)
         /\ Len(Append(list, e)) = Len(list) + 1
         /\ \A k \in 1..Len(list) : Append(list, e)[k] = list[k]
         /\ Append(list, e)[Len(list) + 1] = e
         /\ ToSet(Append(list, e)) = ToSet(list) \cup {e}
         /\ IsInjective(list) /\ e \notin ToSet(list) => IsInjective(Append(list, e))
<1> DEFINE longer == Append(list, e)
<1>1. /\ longer \in Seq(S) /\ Len(longer) = Len(list) + 1
      /\ \A k \in 1..Len(list) : longer[k] = list[k]
      /\ longer[Len(list) + 1] = e
  BY AppendProperties
<1>2. /\ DOMAIN longer = 1..(Len(list) + 1) /\ DOMAIN list = 1..Len(list)
      /\ Len(list) \in Nat
  BY <1>1, LenProperties
<1> HIDE DEF longer
<1>3. ToSet(longer) = ToSet(list) \cup {e}
  BY <1>1, <1>2, SMT DEF ToSet
<1>4. IsInjective(list) /\ e \notin ToSet(list) => IsInjective(longer)
  BY <1>1, <1>2, SMT DEF ToSet, IsInjective
<1> QED
  BY <1>1, <1>3, <1>4 DEF longer

\* back and pop_back.
LEMMA FrontList ==
  ASSUME NEW S, NEW list \in Seq(S), list # << >>
  PROVE  /\ Front(list) \in Seq(S)
         /\ Last(list) \in ToSet(list)
         /\ IsInjective(list) => /\ IsInjective(Front(list))
                                 /\ ToSet(Front(list)) = ToSet(list) \ {Last(list)}
<1> DEFINE front == Front(list)
           n     == Len(list)
<1>1. n \in Nat \ {0} /\ DOMAIN list = 1..n /\ \A k \in 1..n : list[k] \in S
  BY EmptySeq, LenProperties, ElementOfSeq
<1>2. /\ front \in Seq(S) /\ Len(front) = n - 1
      /\ \A k \in 1..(n - 1) : front[k] = list[k]
  BY <1>1, SubSeqProperties, SMT DEF Front
<1>3. DOMAIN front = 1..(n - 1)
  BY <1>2, LenProperties
<1>4. Last(list) = list[n]
  BY DEF Last
<1> HIDE DEF front, n
<1>5. Last(list) \in ToSet(list)
  BY <1>1, <1>4, SMT DEF ToSet
<1>6. ASSUME IsInjective(list)
      PROVE  IsInjective(front) /\ ToSet(front) = ToSet(list) \ {Last(list)}
  <2>1. IsInjective(front)
    BY <1>1, <1>2, <1>3, <1>6, SMT DEF IsInjective
  <2>2. ToSet(front) = ToSet(list) \ {Last(list)}
    BY <1>1, <1>2, <1>3, <1>4, <1>6, SMT DEF ToSet, IsInjective
  <2> QED
    BY <2>1, <2>2
<1> QED
  BY <1>2, <1>5, <1>6 DEF front

\* std::find and erase.
LEMMA RemoveFirstList ==
  ASSUME NEW S, NEW list \in Seq(S), NEW e
  PROVE  /\ RemoveFirst(list, e) \in Seq(S)
         /\ ToSet(RemoveFirst(list, e)) \subseteq ToSet(list)
         /\ IsInjective(list) => /\ IsInjective(RemoveFirst(list, e))
                                 /\ ToSet(RemoveFirst(list, e)) = ToSet(list) \ {e}
<1> DEFINE shorter == RemoveFirst(list, e)
           n       == Len(list)
           I       == {i \in 1..n : list[i] = e}
           m       == Min(I)
<1>1. n \in Nat /\ DOMAIN list = 1..n /\ \A k \in 1..n : list[k] \in S
  BY LenProperties, ElementOfSeq
<1>2. CASE I = {}
  <2>1. shorter = list
    BY <1>2 DEF RemoveFirst
  <2>2. e \notin ToSet(list)
    BY <1>1, <1>2 DEF ToSet
  <2> QED
    BY <2>1, <2>2
<1>3. CASE I # {}
  <2>1. m \in 1..n /\ list[m] = e
    <3>1. I \subseteq Nat
      BY <1>1
    <3>2. m \in I
      BY <1>3, <3>1, LeastExists
    <3> QED
      BY <3>2
  <2>2. shorter = SubSeq(list, 1, m - 1) \o SubSeq(list, m + 1, n)
    BY <1>3 DEF RemoveFirst, RemoveAt, SelectInSeq
  <2> HIDE DEF m, n, I, shorter
  <2> DEFINE before == SubSeq(list, 1, m - 1)
             after  == SubSeq(list, m + 1, n)
  <2>3. /\ before \in Seq(S) /\ Len(before) = m - 1
        /\ \A k \in 1..(m - 1) : before[k] = list[k]
    BY <1>1, <2>1, SubSeqProperties, SMT
  <2>4. /\ after \in Seq(S) /\ Len(after) = n - m
        /\ \A k \in 1..(n - m) : after[k] = list[m + k]
    <3>1. \A i \in (m + 1)..n : list[i] \in S
      BY <1>1, <2>1, SMT
    <3>2. /\ after \in Seq(S)
          /\ Len(after) = IF m + 1 <= n THEN n - (m + 1) + 1 ELSE 0
          /\ \A k \in 1..(n - (m + 1) + 1) : after[k] = list[(m + 1) + k - 1]
      BY <1>1, <2>1, <3>1, SubSeqProperties, SMT
    <3> HIDE DEF after
    <3>3. Len(after) = n - m
      BY <1>1, <2>1, <3>2, SMT
    <3>4. ASSUME NEW k \in 1..(n - m) PROVE after[k] = list[m + k]
      <4>1. k \in 1..(n - (m + 1) + 1) /\ (m + 1) + k - 1 = m + k
        BY <1>1, <2>1, SMT
      <4> QED
        BY <3>2, <4>1
    <3> QED
      BY <3>2, <3>3, <3>4
  <2>5. /\ shorter \in Seq(S) /\ Len(shorter) = n - 1
        /\ \A k \in 1..(n - 1) : shorter[k] = IF k < m THEN list[k] ELSE list[k + 1]
    <3> HIDE DEF before, after
    <3>1. /\ before \o after \in Seq(S)
          /\ Len(before \o after) = Len(before) + Len(after)
          /\ \A k \in 1..(Len(before) + Len(after)) : (before \o after)[k] =
                  IF k <= Len(before) THEN before[k] ELSE after[k - Len(before)]
      BY <2>3, <2>4, ConcatProperties
    <3>2. shorter = before \o after
      BY <2>2 DEF before, after
    <3>3. shorter \in Seq(S) /\ Len(shorter) = n - 1
      <4>1. shorter \in Seq(S) /\ Len(shorter) = Len(before) + Len(after)
        BY <3>1, <3>2, Zenon
      <4> QED
        BY <1>1, <2>1, <2>3, <2>4, <4>1, SMT
    <3>4. ASSUME NEW k \in 1..(n - 1)
          PROVE  shorter[k] = IF k < m THEN list[k] ELSE list[k + 1]
      <4>1. k \in 1..(Len(before) + Len(after))
        BY <1>1, <2>1, <2>3, <2>4, SMT
      <4>2. CASE k < m
        <5>1. k <= Len(before) /\ k \in 1..(m - 1)
          BY <1>1, <2>1, <2>3, <4>2, SMT
        <5> QED
          BY <2>3, <3>1, <3>2, <4>1, <4>2, <5>1
      <4>3. CASE ~(k < m)
        <5>1. /\ ~(k <= Len(before)) /\ k - Len(before) \in 1..(n - m)
              /\ m + (k - Len(before)) = k + 1
          BY <1>1, <2>1, <2>3, <4>3, SMT
        <5> QED
          BY <2>4, <3>1, <3>2, <4>1, <4>3, <5>1
      <4> QED
        BY <4>2, <4>3
    <3> QED
      BY <3>3, <3>4
  <2>6. DOMAIN shorter = 1..(n - 1)
    BY <2>5, LenProperties
  <2>7. ToSet(shorter) \subseteq ToSet(list)
    <3>1. \A k \in 1..(n - 1) : k \in 1..n /\ k + 1 \in 1..n
      BY <1>1, SMT
    <3> QED
      BY <1>1, <2>5, <2>6, <3>1, Zenon DEF ToSet
  <2>8. ASSUME IsInjective(list)
        PROVE  IsInjective(shorter) /\ ToSet(shorter) = ToSet(list) \ {e}
    <3>1. IsInjective(shorter)
      <4>1. \A j, k \in 1..n : list[j] = list[k] => j = k
        BY <1>1, <2>8, Zenon DEF IsInjective
      <4>2. \A j, k \in 1..(n - 1) : shorter[j] = shorter[k] => j = k
        BY <1>1, <2>1, <2>5, <4>1, SMTT(30)
      <4> QED
        BY <2>6, <4>2, Zenon DEF IsInjective
    <3>2. e \notin ToSet(shorter)
      <4>1. \A k \in 1..n : list[k] = e => k = m
        BY <1>1, <2>1, <2>8, Zenon DEF IsInjective
      <4>2. \A k \in 1..(n - 1) : shorter[k] # e
        BY <1>1, <2>1, <2>5, <4>1, SMT
      <4> QED
        BY <2>6, <4>2 DEF ToSet
    <3>3. ASSUME NEW k \in 1..n, list[k] # e
          PROVE  list[k] \in ToSet(shorter)
      <4>1. CASE k < m
        BY <1>1, <2>1, <2>5, <2>6, <4>1, SMT DEF ToSet
      <4>2. CASE k > m
        <5>1. k - 1 \in 1..(n - 1) /\ shorter[k - 1] = list[k]
          BY <1>1, <2>1, <2>5, <4>2, SMT
        <5> QED
          BY <2>6, <5>1 DEF ToSet
      <4> QED
        BY <1>1, <2>1, <3>3, <4>1, <4>2, SMT
    <3> QED
      BY <1>1, <2>7, <3>1, <3>2, <3>3 DEF ToSet
  <2> QED
    BY <2>5, <2>7, <2>8 DEF shorter
<1> QED
  BY <1>2, <1>3

-----------------------------------------------------------------------------
(* Maps, searches and the graph. *)

\* A map and its types.
LEMMA MapIs ==
  /\ \A f \in Map : DOMAIN f \subseteq Id /\ f \in [DOMAIN f -> Objects]
  /\ \A I \in SUBSET Id : [I -> Objects] \subseteq Map
BY DEF Map

\* The fields of a source.
LEMMA SourceAt ==
  ASSUME RegistryTypes, NEW s \in DOMAIN source
  PROVE  /\ source[s] \in [uid: Uid \cup {SelfUid}, api: ApiSet, signalsM: Map, newSignalsM: Map]
         /\ source[s].signalsM \in Map /\ source[s].newSignalsM \in Map
         /\ source[s].uid \in Uid \cup {SelfUid} /\ source[s].api \in ApiSet
<1> DEFINE R == [uid: Uid \cup {SelfUid}, api: ApiSet, signalsM: Map, newSignalsM: Map]
<1>1. source \in Seq(R)
  BY DEF RegistryTypes
<1> HIDE DEF R
<1>2. source[s] \in R
  BY <1>1, LenProperties, ElementOfSeq
<1> QED
  BY <1>2 DEF R

\* getSourceAPI gives a source that is in one of the lists, or none.
LEMMA GetSourceAPIIs ==
  ASSUME RegistryTypes, NEW api
  PROVE  GetSourceAPI(api) \in DOMAIN source \cup {0}
<1> DEFINE lists == sourcesListV \o newSourcesListV
           I     == {k \in 1..Len(lists) : source[lists[k]].api = api}
<1>1. lists \in Seq(DOMAIN source)
  BY ConcatProperties DEF RegistryTypes
<1>2. Len(lists) \in Nat /\ \A k \in 1..Len(lists) : lists[k] \in DOMAIN source
  BY <1>1, LenProperties, ElementOfSeq
<1>3. CASE I = {}
  BY <1>3 DEF GetSourceAPI, SelectInSeq
<1>4. CASE I # {}
  <2>1. I \subseteq Nat
    BY <1>2
  <2> HIDE DEF lists
  <2>2. Min(I) \in 1..Len(lists)
    BY <1>4, <2>1, LeastExists
  <2>3. Min(I) # 0
    BY <1>2, <2>2
  <2>4. GetSourceAPI(api) = lists[Min(I)]
    BY <1>4, <2>3, Zenon DEF GetSourceAPI, SelectInSeq, lists
  <2> QED
    BY <1>2, <2>2, <2>4
<1> QED
  BY <1>3, <1>4

\* searchSignals gives a signal of the uid, which a source that is initialised has.
LEMMA SearchFirstIs ==
  ASSUME TypeOK, NEW id \in Id, SearchFirst(id) # 0
  PROVE  \E s \in DOMAIN source : \E m \in SignalMap :
           /\ id \in DOMAIN source[s][m]
           /\ SearchFirst(id) = source[s][m][id]
           /\ SearchFirst(id) \in Objects /\ signal[SearchFirst(id)].id = id
<1> DEFINE I == {k \in 1..Len(sourcesListV) :
                   id \in DOMAIN source[sourcesListV[k]].signalsM
                          \cup DOMAIN source[sourcesListV[k]].newSignalsM}
           s == sourcesListV[Min(I)]
<1>1. /\ Len(sourcesListV) \in Nat
      /\ \A k \in 1..Len(sourcesListV) : sourcesListV[k] \in DOMAIN source
  BY LenProperties, ElementOfSeq DEF TypeOK, RegistryTypes
<1>2. I # {}
  BY DEF SearchFirst, SelectInSeq
<1>3. Min(I) \in I
  <2>1. I \subseteq Nat
    BY <1>1
  <2> HIDE DEF I
  <2> QED
    BY <1>2, <2>1, LeastExists
<1>4. Min(I) # 0
  BY <1>1, <1>3
<1>5. SearchFirst(id) = IF id \in DOMAIN source[s].signalsM THEN source[s].signalsM[id]
                        ELSE source[s].newSignalsM[id]
  BY <1>2, <1>4 DEF SearchFirst, SelectInSeq
<1>6. s \in DOMAIN source /\ id \in DOMAIN source[s].signalsM \cup DOMAIN source[s].newSignalsM
  BY <1>1, <1>3
<1> HIDE DEF I, s
<1>7. PICK m \in SignalMap : id \in DOMAIN source[s][m] /\ SearchFirst(id) = source[s][m][id]
  BY <1>5, <1>6 DEF SignalMap
<1>8. source[s][m] \in Map
  BY <1>6, SourceAt DEF TypeOK, SignalMap
<1>9. source[s][m][id] \in Objects
  BY <1>7, <1>8, MapIs
<1>10. signal[source[s][m][id]].id = id
  BY <1>6, <1>7 DEF TypeOK, RegistryTypes, SignalMap
<1> QED
  BY <1>6, <1>7, <1>9, <1>10

\* The graph g is what the destructors of o leave of the lists a and the sets b.
Destroyed(O, a, b, o, g) ==
  /\ g.observers \in [O -> Seq(O)]
  /\ g.observables \in [O -> SUBSET O]
  /\ \A p \in O : g.observers[p] =
       IF p = o THEN << >> ELSE IF p \in b[o] THEN RemoveFirst(a[p], o) ELSE a[p]
  /\ \A q \in O : g.observables[q] =
       IF q = o THEN {}
       ELSE IF q \in ToSet(IF o \in b[o] THEN RemoveFirst(a[o], o) ELSE a[o])
            THEN b[q] \ {o} ELSE b[q]

\* ~Observer and ~Observable, one after the other (observer-pattern.hpp:35, :94).
LEMMA DestroyIs ==
  ASSUME NEW O, NEW a \in [O -> Seq(O)], NEW b \in [O -> SUBSET O], NEW o \in O
  PROVE  Destroyed(O, a, b, o, Destroy([observers |-> a, observables |-> b], o))
<1> DEFINE g0 == [observers |-> a, observables |-> b]
           g  == Destroy(g0, o)
           g1 == LeaveObservables(g0, o)
           g2 == LeaveObservers(g1, o)
<1>1. \A p \in O : a[p] \in Seq(O) /\ RemoveFirst(a[p], o) \in Seq(O)
  BY RemoveFirstList
<1>2. /\ g1.observers = [p \in O |-> IF p \in b[o] THEN RemoveFirst(a[p], o) ELSE a[p]]
      /\ g1.observables = b
  BY DEF LeaveObservables
<1>3. /\ g2.observers = g1.observers
      /\ g2.observables = [q \in O |-> IF q \in ToSet(g1.observers[o]) THEN b[q] \ {o} ELSE b[q]]
  BY <1>2 DEF LeaveObservers, LeaveObservables
<1>4. /\ g.observers = [g2.observers EXCEPT ![o] = << >>]
      /\ g.observables = [g2.observables EXCEPT ![o] = {}]
  BY DEF Destroy
<1> HIDE DEF g, g1, g2
<1>5. << >> \in Seq(O)
  BY EmptySeq
<1> DEFINE a2 == g2.observers
           b2 == g2.observables
<1>6. /\ a2 \in [O -> Seq(O)]
      /\ \A p \in O : a2[p] = IF p \in b[o] THEN RemoveFirst(a[p], o) ELSE a[p]
  BY <1>1, <1>2, <1>3
<1>7. /\ b2 \in [O -> SUBSET O]
      /\ \A q \in O : b2[q] =
           IF q \in ToSet(IF o \in b[o] THEN RemoveFirst(a[o], o) ELSE a[o])
           THEN b[q] \ {o} ELSE b[q]
  BY <1>2, <1>3
<1>8. g.observers = [a2 EXCEPT ![o] = << >>] /\ g.observables = [b2 EXCEPT ![o] = {}]
  BY <1>4
<1> HIDE DEF a2, b2
<1>9. /\ g.observers \in [O -> Seq(O)]
      /\ \A p \in O : g.observers[p] = IF p = o THEN << >> ELSE a2[p]
  BY <1>5, <1>6, <1>8
<1>10. /\ g.observables \in [O -> SUBSET O]
       /\ \A q \in O : g.observables[q] = IF q = o THEN {} ELSE b2[q]
  BY <1>7, <1>8
<1> QED
  BY <1>6, <1>7, <1>9, <1>10, Zenon DEF g, Destroyed

-----------------------------------------------------------------------------
(* Every action keeps the types.                                            *)

\* The fields of a signal.
LEMMA SignalAt ==
  ASSUME GraphTypes, NEW o \in Objects
  PROVE  /\ signal[o] \in [id: Id, depends: Seq(Id), subscribed: BOOLEAN]
         /\ signal[o].id \in Id /\ signal[o].depends \in Seq(Id) /\ signal[o].subscribed \in BOOLEAN
<1> DEFINE R == [id: Id, depends: Seq(Id), subscribed: BOOLEAN]
<1>1. signal \in Seq(R)
  BY DEF GraphTypes
<1> HIDE DEF R
<1>2. signal[o] \in R
  BY <1>1, LenProperties, ElementOfSeq DEF Objects
<1> QED
  BY <1>2 DEF R

\* The registry stays as it is, and no signal comes, goes or changes its uid.
LEMMA RegistryTypesFrame ==
  ASSUME RegistryTypes, UNCHANGED registry, Objects' = Objects,
         \A o \in Objects : signal'[o].id = signal[o].id
  PROVE  RegistryTypes'
<1>1. Map' = Map
  BY DEF Map
<1>2. ASSUME NEW s \in DOMAIN source, NEW m \in {"signalsM", "newSignalsM"},
             NEW i \in DOMAIN source[s][m]
      PROVE  signal'[source[s][m][i]].id = i
  <2>1. source[s][m] \in Map
    BY SourceAt
  <2>2. source[s][m][i] \in Objects
    BY <2>1, MapIs
  <2> QED
    BY <2>2 DEF RegistryTypes
<1> QED
  BY <1>1, <1>2 DEF RegistryTypes, registry

\* The graph stays as it is.
LEMMA GraphTypesFrame ==
  ASSUME GraphTypes, UNCHANGED graph
  PROVE  GraphTypes' /\ Objects' = Objects /\ (\A o \in Objects : signal'[o].id = signal[o].id)
BY DEF GraphTypes, graph, Objects

\* The process dies: nothing else happens.
LEMMA DieTypes ==
  ASSUME TypeOK, NEW why \in {"noSource", "unknownDependency", "endlessRecursion", "nullSignal"},
         Die(why)
  PROVE  TypeOK'
<1>1. RegistryTypes' /\ GraphTypes'
  BY RegistryTypesFrame, GraphTypesFrame DEF Die, TypeOK
<1>2. ControlTypes'
  BY DEF Die, TypeOK, ControlTypes, control, loop, registry
<1> QED
  BY <1>1, <1>2 DEF TypeOK

\* Steps that only the program counter and the loops know of.
ControlStep ==
  \/ AddObjects \/ RejectSource \/ EndInitSources
  \/ RejectSignal \/ EndSignals \/ FailSignals \/ WithoutSignals
  \/ Attached \/ EndAttach \/ Ignore \/ EndCheck \/ EndInitSignals
  \/ PassOver \/ EndClean \/ EndSubscribe

\* What those steps leave alone.
LEMMA ControlStepIs ==
  ASSUME ControlStep
  PROVE  UNCHANGED <<registry, graph, fault>>
BY DEF ControlStep, AddObjects, RejectSource, EndInitSources, RejectSignal, EndSignals,
       FailSignals, WithoutSignals, Attached, EndAttach, Ignore, EndCheck, EndInitSignals,
       PassOver, EndClean, EndSubscribe, registry, graph

\* The uid that a loop is at.
LEMMA AtIs ==
  ASSUME TypeOK, todo <= Len(sourcesListV), Rest # {}
  PROVE  /\ Current \in DOMAIN source
         /\ todo \in DOMAIN sourcesListV /\ Current \in ToSet(sourcesListV)
         /\ Min(Rest) \in Rest /\ Min(Rest) \in Id
         /\ Min(Rest) \in DOMAIN source[Current].newSignalsM
         /\ At \in Objects /\ signal[At].id = Min(Rest)
<1>1. todo \in 1..Len(sourcesListV)
  BY LenProperties DEF TypeOK, RegistryTypes, ControlTypes
<1>2. Current \in DOMAIN source /\ todo \in DOMAIN sourcesListV
  BY <1>1, LenProperties, ElementOfSeq DEF Current, TypeOK, RegistryTypes
<1>3. source[Current].newSignalsM \in Map
  BY <1>2, SourceAt DEF TypeOK
<1>4. Rest \subseteq Id
  BY <1>3, MapIs DEF Rest
<1>5. Min(Rest) \in Rest
  BY <1>4, LeastExists, UidAssumption
<1>6. Min(Rest) \in DOMAIN source[Current].newSignalsM
  BY <1>5 DEF Rest
<1>7. At \in Objects
  BY <1>3, <1>6, MapIs DEF At
<1>8. signal[At].id = Min(Rest)
  BY <1>2, <1>6 DEF At, TypeOK, RegistryTypes
<1>9. Current \in ToSet(sourcesListV)
  BY <1>2 DEF ToSet, Current
<1> QED
  BY <1>2, <1>4, <1>5, <1>6, <1>7, <1>8, <1>9

\* addObjects answers (signal-composer-binding.cpp:69).
LEMMA AnswerTypes ==
  ASSUME TypeOK, NEW from, NEW answer \in {"success", "sources", "signals", "removed"},
         Answer(from, answer), UNCHANGED <<registry, fault>>
  PROVE  ControlTypes'
<1>1. sourcesListV' = sourcesListV /\ Len(sourcesListV) \in Nat
  BY LenProperties DEF registry, TypeOK, RegistryTypes
<1>2. todo' \in 1..(Len(sourcesListV') + 1)
  BY <1>1 DEF Answer
<1>3. pc' \in {"failed", "idle"}
  BY DEF Answer, Goto
<1> QED
  BY <1>2, <1>3 DEF Answer, TypeOK, ControlTypes

\* They keep the types, every loop within its bounds.
LEMMA ControlStepTypes ==
  ASSUME TypeOK, ControlStep
  PROVE  TypeOK'
<1>1. UNCHANGED <<registry, graph, fault>>
  BY ControlStepIs
<1>2. RegistryTypes' /\ GraphTypes'
  BY <1>1, RegistryTypesFrame, GraphTypesFrame DEF TypeOK
<1>3. ControlTypes'
  <2> USE <1>1 DEF TypeOK, ControlTypes, registry, loop, Goto
  <2>1. Len(sourcesListV) \in Nat
    BY LenProperties DEF RegistryTypes
  <2>2. CASE AddObjects
    BY <2>2, RequestsAssumption DEF AddObjects
  <2>3. CASE RejectSource
    BY <2>3, AnswerTypes DEF RejectSource
  <2>4. CASE EndInitSources
    BY <2>4 DEF EndInitSources
  <2>5. CASE RejectSignal
    BY <2>5 DEF RejectSignal
  <2>6. CASE EndSignals
    BY <2>6 DEF EndSignals
  <2>7. CASE FailSignals
    BY <2>7, AnswerTypes DEF FailSignals
  <2>8. CASE WithoutSignals
    BY <2>8, AnswerTypes DEF WithoutSignals
  <2>9. CASE Attached
    <3>1. Min(Rest) \in Id
      BY <2>9, AtIs DEF Attached, Turn
    <3> QED
      BY <2>9, <3>1 DEF Attached
  <2>10. CASE EndAttach
    BY <2>10 DEF EndAttach
  <2>11. CASE Ignore
    <3>1. Min(Rest) \in Id
      BY <2>11, AtIs DEF Ignore, Turn
    <3> QED
      BY <2>11, <3>1 DEF Ignore
  <2>12. CASE EndCheck
    <3>1. todo' \in 1..(Len(sourcesListV') + 1)
      BY <2>1, <2>12 DEF EndCheck, Turn
    <3> QED
      BY <2>12, <3>1 DEF EndCheck
  <2>13. CASE EndInitSignals
    <3>1. todo' \in 1..(Len(sourcesListV') + 1)
      BY <2>1, <2>13 DEF EndInitSignals
    <3> QED
      BY <2>13, <3>1 DEF EndInitSignals
  <2>14. CASE PassOver
    BY <2>1, <2>14 DEF PassOver, Turn
  <2>15. CASE EndClean
    BY <2>1, <2>15 DEF EndClean, Turn
  <2>16. CASE EndSubscribe
    <3>1. PICK answer \in {"removed", "success"} : Answer("subscribe", answer)
      BY <2>16 DEF EndSubscribe
    <3> HIDE DEF TypeOK, ControlTypes, registry
    <3> QED
      BY <1>1, <3>1, AnswerTypes
  <2> QED
    BY <2>2, <2>3, <2>4, <2>5, <2>6, <2>7, <2>8, <2>9, <2>10, <2>11, <2>12, <2>13, <2>14,
       <2>15, <2>16 DEF ControlStep
<1> QED
  BY <1>2, <1>3 DEF TypeOK

\* The maps of one source are replaced, the first by f and the other by h.
ReplaceMaps(s, f, h) == [source EXCEPT ![s].signalsM = f, ![s].newSignalsM = h]

\* Nothing else is.
LEMMA MapsReplaced ==
  ASSUME RegistryTypes, NEW s \in DOMAIN source, NEW M, Map \subseteq M, NEW f \in M, NEW h \in M,
         source' = ReplaceMaps(s, f, h)
  PROVE  /\ source' \in Seq([uid: Uid \cup {SelfUid}, api: ApiSet, signalsM: M, newSignalsM: M])
         /\ DOMAIN source' = DOMAIN source
         /\ \A t \in DOMAIN source :
              /\ source'[t].uid = source[t].uid /\ source'[t].api = source[t].api
              /\ source'[t].signalsM = IF t = s THEN f ELSE source[t].signalsM
              /\ source'[t].newSignalsM = IF t = s THEN h ELSE source[t].newSignalsM
<1> DEFINE R == [uid: Uid \cup {SelfUid}, api: ApiSet, signalsM: Map, newSignalsM: Map]
           Q == [uid: Uid \cup {SelfUid}, api: ApiSet, signalsM: M, newSignalsM: M]
           r == [source[s] EXCEPT !.signalsM = f, !.newSignalsM = h]
<1>1. source \in Seq(R) /\ source[s] \in R
  BY SourceAt DEF RegistryTypes
<1>2. R \subseteq Q
  OBVIOUS
<1>3. r \in Q
  BY <1>1
<1>4. /\ r.uid = source[s].uid /\ r.api = source[s].api
      /\ r.signalsM = f /\ r.newSignalsM = h
  BY <1>1
<1>5. source' = [source EXCEPT ![s] = r]
  BY DEF ReplaceMaps
<1>6. source \in Seq(Q) /\ s \in 1..Len(source)
  <2> HIDE DEF R, Q
  <2> QED
    BY <1>1, <1>2, SeqMonotonic, LenProperties
<1> HIDE DEF R, Q, r
<1>7. source' \in Seq(Q) /\ DOMAIN source' = DOMAIN source
  <2>1. [source EXCEPT ![s] = r] \in Seq(Q)
    BY <1>3, <1>6, ExceptSeq
  <2> QED
    BY <1>5, <2>1
<1>8. \A t \in DOMAIN source : source'[t] = IF t = s THEN r ELSE source[t]
  BY <1>5
<1> QED
  BY <1>4, <1>7, <1>8 DEF Q

\* A new source is pushed back.
LEMMA AppendSourceIs ==
  ASSUME RegistryTypes, NEW u \in Uid \cup {SelfUid}, NEW api \in ApiSet, AppendSource(u, api)
  PROVE  LET n == Len(source) + 1
         IN  /\ source' \in Seq([uid: Uid \cup {SelfUid}, api: ApiSet,
                                 signalsM: Map, newSignalsM: Map])
             /\ n \notin DOMAIN source /\ n # 0 /\ DOMAIN source' = DOMAIN source \cup {n}
             /\ \A s \in DOMAIN source : source'[s] = source[s]
             /\ DOMAIN source'[n].signalsM = {} /\ DOMAIN source'[n].newSignalsM = {}
             /\ newSourcesListV' = Append(newSourcesListV, n)
<1> DEFINE R == [uid: Uid \cup {SelfUid}, api: ApiSet, signalsM: Map, newSignalsM: Map]
           r == [uid |-> u, api |-> api, signalsM |-> << >>, newSignalsM |-> << >>]
<1>1. << >> \in Map
  <2>1. << >> \in [{} -> Objects]
    OBVIOUS
  <2> QED
    BY <2>1, MapIs
<1>2. r \in R /\ source \in Seq(R) /\ DOMAIN r.signalsM = {} /\ DOMAIN r.newSignalsM = {}
  BY <1>1 DEF RegistryTypes
<1>3. source' = Append(source, r) /\ newSourcesListV' = Append(newSourcesListV, Len(source) + 1)
  BY DEF AppendSource
<1> HIDE DEF R, r
<1>4. /\ source' \in Seq(R) /\ Len(source') = Len(source) + 1
      /\ \A s \in 1..Len(source) : source'[s] = source[s]
      /\ source'[Len(source) + 1] = r
  BY <1>2, <1>3, AppendProperties
<1>5. /\ Len(source) \in Nat /\ DOMAIN source = 1..Len(source)
      /\ DOMAIN source' = 1..Len(source')
  BY <1>2, <1>4, LenProperties
<1>6. /\ DOMAIN source' = DOMAIN source \cup {Len(source) + 1}
      /\ Len(source) + 1 \notin DOMAIN source /\ Len(source) + 1 # 0
  BY <1>4, <1>5
<1> QED
  BY <1>2, <1>3, <1>4, <1>5, <1>6 DEF R

\* A source more: the lists and the maps stay well typed.
LEMMA AppendSourceTypes ==
  ASSUME RegistryTypes, NEW u \in Uid \cup {SelfUid}, NEW api \in ApiSet, AppendSource(u, api),
         UNCHANGED signal
  PROVE  RegistryTypes'
<1> DEFINE n == Len(source) + 1
<1>1. Map' = Map
  BY DEF Map, Objects
<1>2. /\ source' \in Seq([uid: Uid \cup {SelfUid}, api: ApiSet, signalsM: Map, newSignalsM: Map])
      /\ DOMAIN source' = DOMAIN source \cup {n}
      /\ \A s \in DOMAIN source : source'[s] = source[s]
      /\ DOMAIN source'[n].signalsM = {} /\ DOMAIN source'[n].newSignalsM = {}
      /\ newSourcesListV' = Append(newSourcesListV, n)
  BY AppendSourceIs
<1> HIDE DEF n
<1>3. \A s \in DOMAIN source' : \A m \in {"signalsM", "newSignalsM"} :
        \A i \in DOMAIN source'[s][m] : signal'[source'[s][m][i]].id = i
  BY <1>2 DEF RegistryTypes
<1>4. sourcesListV' \in Seq(DOMAIN source')
  BY <1>2, SeqMonotonic DEF RegistryTypes, AppendSource
<1>5. newSourcesListV' \in Seq(DOMAIN source')
  <2>1. newSourcesListV \in Seq(DOMAIN source')
    BY <1>2, SeqMonotonic DEF RegistryTypes
  <2> QED
    BY <1>2, <2>1, AppendProperties
<1> QED
  BY <1>1, <1>2, <1>3, <1>4, <1>5 DEF RegistryTypes, AppendSource

\* A source is taken from the back of the new ones, and one is put among the others.
LEMMA InitSourceTypes ==
  ASSUME TypeOK, Init1 \/ HandleEvents \/ Init2
  PROVE  TypeOK'
<1>1. UNCHANGED <<source, signal>> /\ GraphTypes'
  BY GraphTypesFrame DEF Init1, HandleEvents, Init2, graph, TypeOK
<1>2. Map' = Map
  BY <1>1 DEF Map, Objects
<1>3. CASE Init1
  <2>1. /\ newSourcesListV' \in Seq(DOMAIN source)
        /\ initialising' \in DOMAIN source
    <3>1. newSourcesListV \in Seq(DOMAIN source) /\ newSourcesListV # << >>
      BY <1>3 DEF Init1, TypeOK, RegistryTypes
    <3>2. ToSet(newSourcesListV) \subseteq DOMAIN source
      BY <3>1, LenProperties, ElementOfSeq DEF ToSet
    <3> QED
      BY <1>3, <3>1, <3>2, FrontList DEF Init1
  <2>2. RegistryTypes'
    BY <1>1, <1>2, <1>3, <2>1 DEF Init1, TypeOK, RegistryTypes
  <2>3. ControlTypes'
    BY <1>3 DEF Init1, TypeOK, ControlTypes, control, loop
  <2> QED
    BY <1>1, <2>2, <2>3 DEF TypeOK
<1>4. CASE HandleEvents
  <2>1. handled' \subseteq ApiSet
    <3>1. initialising \in DOMAIN source
      BY <1>4 DEF HandleEvents, TypeOK, RegistryTypes
    <3>2. source[initialising].api \in ApiSet
      BY <3>1, SourceAt DEF TypeOK
    <3> QED
      BY <1>4, <3>2 DEF HandleEvents, TypeOK, RegistryTypes
  <2>2. RegistryTypes'
    BY <1>1, <1>2, <1>4, <2>1 DEF HandleEvents, TypeOK, RegistryTypes
  <2>3. ControlTypes'
    BY <1>4 DEF HandleEvents, TypeOK, ControlTypes, control, loop
  <2> QED
    BY <1>1, <2>2, <2>3 DEF TypeOK
<1>5. CASE Init2
  <2>1. sourcesListV' \in Seq(DOMAIN source) /\ Len(sourcesListV') = Len(sourcesListV) + 1
    BY <1>5, AppendProperties DEF Init2, TypeOK, RegistryTypes
  <2>2. RegistryTypes'
    BY <1>1, <1>2, <1>5, <2>1 DEF Init2, TypeOK, RegistryTypes
  <2>3. ControlTypes'
    <3>1. Len(sourcesListV) \in Nat
      BY LenProperties DEF TypeOK, RegistryTypes
    <3> QED
      BY <1>5, <2>1, <3>1 DEF Init2, TypeOK, ControlTypes, control, loop
  <2> QED
    BY <1>1, <2>2, <2>3 DEF TypeOK
<1> QED
  BY <1>3, <1>4, <1>5

\* The destructors keep the types of the graph, whether they run or not.
LEMMA DiscardTypes ==
  ASSUME NEW O, NEW a \in [O -> Seq(O)], NEW b \in [O -> SUBSET O], NEW i,
         NEW map, i \in DOMAIN map => map[i] \in O
  PROVE  LET g == Discard([observers |-> a, observables |-> b], map, i)
         IN  g.observers \in [O -> Seq(O)] /\ g.observables \in [O -> SUBSET O]
<1>1. CASE i \in DOMAIN map
  BY <1>1, DestroyIs DEF Discard, Destroyed
<1>2. CASE i \notin DOMAIN map
  BY <1>2 DEF Discard
<1> QED
  BY <1>1, <1>2

\* addObserver (observer-pattern.hpp:76).
LEMMA AddObserverIs ==
  ASSUME NEW O, NEW a \in [O -> Seq(O)], NEW b \in [O -> SUBSET O], NEW p \in O, NEW o \in O
  PROVE  LET g == AddObserver([observers |-> a, observables |-> b], p, o)
         IN  /\ g.observers \in [O -> Seq(O)] /\ g.observables \in [O -> SUBSET O]
             /\ \A q \in O : g.observers[q] = IF q = p THEN Append(a[q], o) ELSE a[q]
             /\ \A q \in O : g.observables[q] = IF q = o THEN b[q] \cup {p} ELSE b[q]
<1> DEFINE longer == Append(a[p], o)
           more   == b[o] \cup {p}
<1>1. longer \in Seq(O) /\ more \in SUBSET O
  BY AppendProperties
<1> DEFINE g == AddObserver([observers |-> a, observables |-> b], p, o)
<1>2. g.observers = [a EXCEPT ![p] = longer] /\ g.observables = [b EXCEPT ![o] = more]
  BY DEF AddObserver
<1> HIDE DEF longer, more, g
<1>3. /\ g.observers \in [O -> Seq(O)]
      /\ \A q \in O : g.observers[q] = IF q = p THEN longer ELSE a[q]
  BY <1>1, <1>2
<1>4. /\ g.observables \in [O -> SUBSET O]
      /\ \A q \in O : g.observables[q] = IF q = o THEN more ELSE b[q]
  BY <1>1, <1>2
<1>5. /\ \A q \in O : g.observers[q] = IF q = p THEN Append(a[q], o) ELSE a[q]
      /\ \A q \in O : g.observables[q] = IF q = o THEN b[q] \cup {p} ELSE b[q]
  BY <1>3, <1>4 DEF longer, more
<1> QED
  BY <1>3, <1>4, <1>5, Zenon DEF g

\* A function of the first numbers is a list.
LEMMA FunctionIsList ==
  ASSUME NEW S, NEW n \in Nat, NEW f \in [1..n -> S]
  PROVE  f \in Seq(S) /\ Len(f) = n
<1> QED
  BY SMT

\* Of the new signal the maps of a source get to know: the one of its new signals.
LEMMA AddSignalMaps ==
  ASSUME TypeOK, NEW d \in Definition, NEW s \in DOMAIN source, AddSignal(s, d)
  PROVE  /\ Objects' = Objects \cup {Len(signal) + 1} /\ Len(signal) + 1 \notin Objects
         /\ DOMAIN source' = DOMAIN source
         /\ \A t \in DOMAIN source :
              /\ source'[t].signalsM = source[t].signalsM
              /\ source'[t].newSignalsM =
                   IF t = s THEN Extend(source[s].newSignalsM, d.id, Len(signal) + 1)
                   ELSE source[t].newSignalsM
<1> DEFINE R == [id: Id, depends: Seq(Id), subscribed: BOOLEAN]
           r == [id |-> d.id, depends |-> d.depends, subscribed |-> FALSE]
           map == Extend(source[s].newSignalsM, d.id, Len(signal) + 1)
<1>1. r \in R /\ signal \in Seq(R)
  BY DefinitionAssumption DEF TypeOK, GraphTypes
<1>2. signal' = Append(signal, r) /\ source' = [source EXCEPT ![s].newSignalsM = map]
  BY DEF AddSignal
<1> HIDE DEF R, r
<1>3. signal' \in Seq(R) /\ Len(signal') = Len(signal) + 1
  BY <1>1, <1>2, AppendProperties
<1>4. Len(signal) \in Nat /\ Objects = 1..Len(signal) /\ Objects' = 1..(Len(signal) + 1)
  BY <1>1, <1>3, LenProperties DEF Objects
<1>5. Objects' = Objects \cup {Len(signal) + 1} /\ Len(signal) + 1 \notin Objects
  BY <1>4
<1> HIDE DEF map
<1>6. DOMAIN source' = DOMAIN source /\ \A t \in DOMAIN source \ {s} : source'[t] = source[t]
  BY <1>2
<1>7. source'[s].signalsM = source[s].signalsM /\ source'[s].newSignalsM = map
  <2>1. source[s] \in [uid: Uid \cup {SelfUid}, api: ApiSet, signalsM: Map, newSignalsM: Map]
    BY SourceAt DEF TypeOK
  <2>2. source'[s] = [source[s] EXCEPT !.newSignalsM = map]
    BY <1>2
  <2> QED
    BY <2>1, <2>2
<1> QED
  BY <1>5, <1>6, <1>7 DEF map

\* addSignal: what it adds, and what it changes of the maps (source.cpp:156).
LEMMA AddSignalIs ==
  ASSUME TypeOK, NEW d \in Definition, NEW s \in DOMAIN source, AddSignal(s, d)
  PROVE  LET o == Len(signal) + 1
         IN  /\ o \notin Objects /\ Objects' = Objects \cup {o} /\ o # 0
             /\ signal' \in Seq([id: Id, depends: Seq(Id), subscribed: BOOLEAN])
             /\ \A p \in Objects : signal'[p] = signal[p]
             /\ signal'[o] = [id |-> d.id, depends |-> d.depends, subscribed |-> FALSE]
             /\ Append(observers, << >>) \in [Objects' -> Seq(Objects')]
             /\ \A p \in Objects' : Append(observers, << >>)[p] =
                  IF p = o THEN << >> ELSE observers[p]
             /\ Append(observables, {}) \in [Objects' -> SUBSET Objects']
             /\ \A p \in Objects' : Append(observables, {})[p] =
                  IF p = o THEN {} ELSE observables[p]
             /\ Map \subseteq Map'
             /\ source' \in Seq([uid: Uid \cup {SelfUid}, api: ApiSet,
                                 signalsM: Map', newSignalsM: Map'])
             /\ DOMAIN source' = DOMAIN source
             /\ \A t \in DOMAIN source :
                  /\ source'[t].uid = source[t].uid /\ source'[t].api = source[t].api
                  /\ source'[t].signalsM = source[t].signalsM
                  /\ source'[t].newSignalsM =
                       IF t = s THEN Extend(source[s].newSignalsM, d.id, o)
                       ELSE source[t].newSignalsM
<1> DEFINE R == [id: Id, depends: Seq(Id), subscribed: BOOLEAN]
           o == Len(signal) + 1
           r == [id |-> d.id, depends |-> d.depends, subscribed |-> FALSE]
           map == Extend(source[s].newSignalsM, d.id, o)
<1>1. r \in R /\ signal \in Seq(R) /\ d.id \in Id
  BY DefinitionAssumption DEF TypeOK, GraphTypes
<1>2. /\ signal' = Append(signal, r)
      /\ source' = [source EXCEPT ![s].newSignalsM = map]
  BY DEF AddSignal
<1> HIDE DEF R, r
<1>3. /\ signal' \in Seq(R) /\ Len(signal') = Len(signal) + 1
      /\ \A p \in 1..Len(signal) : signal'[p] = signal[p]
      /\ signal'[o] = r
  BY <1>1, <1>2, AppendProperties
<1>4. /\ Len(signal) \in Nat /\ Objects = 1..Len(signal) /\ Objects' = 1..(Len(signal) + 1)
  BY <1>1, <1>3, LenProperties DEF Objects
<1>5. o \notin Objects /\ Objects' = Objects \cup {o} /\ o # 0 /\ o \in Objects'
  BY <1>4
<1>6. /\ Append(observers, << >>) \in [Objects' -> Seq(Objects')]
      /\ \A p \in Objects' : Append(observers, << >>)[p] =
           IF p = o THEN << >> ELSE observers[p]
  <2> DEFINE T == Seq(Objects')
             a == Append(observers, << >>)
  <2>1. << >> \in T
    BY EmptySeq
  <2>2. observers \in [Objects -> T]
    <3>1. \A p \in Objects : observers[p] \in Seq(Objects)
      BY DEF TypeOK, GraphTypes
    <3>2. \A p \in Objects : observers[p] \in T
      BY <1>5, <3>1, SeqMonotonic
    <3> HIDE DEF T
    <3> QED
      BY <3>2 DEF TypeOK, GraphTypes
  <2> HIDE DEF T
  <2>3. observers \in Seq(T) /\ Len(observers) = Len(signal)
    BY <1>4, <2>2, FunctionIsList
  <2>4. /\ a \in Seq(T) /\ Len(a) = Len(signal) + 1
        /\ \A p \in 1..Len(signal) : a[p] = observers[p]
        /\ a[Len(signal) + 1] = << >>
    BY <2>1, <2>3, AppendProperties
  <2> HIDE DEF a
  <2>5. a \in [Objects' -> T]
    BY <1>4, <2>4, LenProperties
  <2>6. \A p \in Objects' : a[p] = IF p = o THEN << >> ELSE observers[p]
    BY <1>4, <2>4
  <2> QED
    BY <2>5, <2>6 DEF a, T
<1>7. /\ Append(observables, {}) \in [Objects' -> SUBSET Objects']
      /\ \A p \in Objects' : Append(observables, {})[p] =
           IF p = o THEN {} ELSE observables[p]
  <2> DEFINE T == SUBSET Objects'
             b == Append(observables, {})
  <2>1. {} \in T /\ observables \in [Objects -> T]
    BY <1>5 DEF TypeOK, GraphTypes
  <2> HIDE DEF T
  <2>3. observables \in Seq(T) /\ Len(observables) = Len(signal)
    BY <1>4, <2>1, FunctionIsList
  <2>4. /\ b \in Seq(T) /\ Len(b) = Len(signal) + 1
        /\ \A p \in 1..Len(signal) : b[p] = observables[p]
        /\ b[Len(signal) + 1] = {}
    BY <2>1, <2>3, AppendProperties
  <2> HIDE DEF b
  <2>5. b \in [Objects' -> T]
    BY <1>4, <2>4, LenProperties
  <2>6. \A p \in Objects' : b[p] = IF p = o THEN {} ELSE observables[p]
    BY <1>4, <2>4
  <2> QED
    BY <2>5, <2>6 DEF b, T
<1>8. Map \subseteq Map'
  BY <1>5 DEF Map
<1>9. /\ source[s].signalsM \in Map' /\ map \in Map'
  <2>1. source[s].signalsM \in Map /\ source[s].newSignalsM \in Map
    BY SourceAt DEF TypeOK
  <2>2. /\ DOMAIN map \subseteq Id /\ map = [j \in DOMAIN map |-> map[j]]
        /\ \A j \in DOMAIN map : map[j] \in Objects'
    BY <1>1, <1>5, <2>1, MapIs DEF Extend
  <2> HIDE DEF map
  <2>3. map \in [DOMAIN map -> Objects']
    BY <2>2
  <2> QED
    BY <1>8, <2>1, <2>2, <2>3 DEF Map
<1> HIDE DEF map
<1>10. source' = [source EXCEPT ![s].signalsM = source[s].signalsM, ![s].newSignalsM = map]
  BY <1>2
<1>11. /\ source' \in Seq([uid: Uid \cup {SelfUid}, api: ApiSet,
                           signalsM: Map', newSignalsM: Map'])
       /\ DOMAIN source' = DOMAIN source
       /\ \A t \in DOMAIN source :
            /\ source'[t].uid = source[t].uid /\ source'[t].api = source[t].api
            /\ source'[t].signalsM = IF t = s THEN source[s].signalsM ELSE source[t].signalsM
            /\ source'[t].newSignalsM = IF t = s THEN map ELSE source[t].newSignalsM
  <2> DEFINE M == Map'
             k == source[s].signalsM
  <2>1. /\ Map \subseteq M /\ k \in M /\ map \in M /\ RegistryTypes
        /\ source' = ReplaceMaps(s, k, map)
    BY <1>8, <1>9, <1>10 DEF TypeOK, ReplaceMaps
  <2> HIDE DEF M, k
  <2>2. /\ source' \in Seq([uid: Uid \cup {SelfUid}, api: ApiSet, signalsM: M, newSignalsM: M])
        /\ DOMAIN source' = DOMAIN source
        /\ \A t \in DOMAIN source :
             /\ source'[t].uid = source[t].uid /\ source'[t].api = source[t].api
             /\ source'[t].signalsM = IF t = s THEN k ELSE source[t].signalsM
             /\ source'[t].newSignalsM = IF t = s THEN map ELSE source[t].newSignalsM
    BY <2>1, MapsReplaced
  <2> QED
    BY <2>2 DEF M, k
<1> QED
  BY <1>3, <1>4, <1>5, <1>6, <1>7, <1>8, <1>11, Zenon DEF R, r, map

\* What of the maps an acceptance changes (source.cpp:182).
LEMMA AcceptIs ==
  ASSUME TypeOK, Accept
  PROVE  LET s == Current
             i == Min(Rest)
         IN  /\ s \in DOMAIN source /\ s \in ToSet(sourcesListV)
             /\ i \in DOMAIN source[s].newSignalsM
             /\ At \in Objects /\ At = source[s].newSignalsM[i]
             /\ source' \in Seq([uid: Uid \cup {SelfUid}, api: ApiSet,
                                 signalsM: Map, newSignalsM: Map])
             /\ DOMAIN source' = DOMAIN source
             /\ \A t \in DOMAIN source :
                  /\ source'[t].uid = source[t].uid /\ source'[t].api = source[t].api
                  /\ source'[t].signalsM =
                       IF t = s THEN Extend(source[s].signalsM, i, At) ELSE source[t].signalsM
                  /\ source'[t].newSignalsM =
                       IF t = s THEN Without(source[s].newSignalsM, i) ELSE source[t].newSignalsM
<1> DEFINE s == Current
           i == Min(Rest)
           f == Extend(source[s].signalsM, i, At)
           h == Without(source[s].newSignalsM, i)
           M == Map
<1>1. /\ s \in DOMAIN source /\ s \in ToSet(sourcesListV) /\ i \in Id
      /\ i \in DOMAIN source[s].newSignalsM
      /\ At \in Objects /\ At = source[s].newSignalsM[i]
  BY AtIs DEF Accept, Turn, At
<1>2. f \in M /\ h \in M
  <2>1. source[s].signalsM \in Map /\ source[s].newSignalsM \in Map
    BY <1>1, SourceAt DEF TypeOK
  <2>2. /\ DOMAIN f \subseteq Id /\ f = [j \in DOMAIN f |-> f[j]]
        /\ \A j \in DOMAIN f : f[j] \in Objects
    BY <1>1, <2>1, MapIs DEF Extend
  <2>3. /\ DOMAIN h \subseteq Id /\ h = [j \in DOMAIN h |-> h[j]]
        /\ \A j \in DOMAIN h : h[j] \in Objects
    BY <1>1, <2>1, MapIs DEF Without, Restrict
  <2> HIDE DEF f, h
  <2>4. f \in [DOMAIN f -> Objects] /\ h \in [DOMAIN h -> Objects]
    BY <2>2, <2>3
  <2> QED
    BY <2>2, <2>3, <2>4 DEF Map
<1>3. source' = ReplaceMaps(s, f, h)
  BY DEF Accept, ReplaceMaps
<1>4. Map \subseteq M /\ RegistryTypes
  BY DEF TypeOK
<1> HIDE DEF s, f, h, M
<1>5. /\ source' \in Seq([uid: Uid \cup {SelfUid}, api: ApiSet, signalsM: M, newSignalsM: M])
      /\ DOMAIN source' = DOMAIN source
      /\ \A t \in DOMAIN source :
           /\ source'[t].uid = source[t].uid /\ source'[t].api = source[t].api
           /\ source'[t].signalsM = IF t = s THEN f ELSE source[t].signalsM
           /\ source'[t].newSignalsM = IF t = s THEN h ELSE source[t].newSignalsM
  BY <1>1, <1>2, <1>3, <1>4, MapsReplaced
<1> QED
  BY <1>1, <1>5 DEF s, f, h, M

\* The uid of which cleanNotSubscribedSignals erases the signal.
LEMMA NotSubscribedIs ==
  ASSUME TypeOK, Turn("clean"), NotSubscribed # {}
  PROVE  /\ Current \in DOMAIN source /\ todo \in DOMAIN sourcesListV
         /\ Min(NotSubscribed) \in NotSubscribed
         /\ Min(NotSubscribed) \in DOMAIN source[Current].signalsM
         /\ source[Current].signalsM[Min(NotSubscribed)] \in Objects
         /\ ~signal[source[Current].signalsM[Min(NotSubscribed)]].subscribed
<1>1. todo \in 1..Len(sourcesListV)
  BY LenProperties DEF TypeOK, RegistryTypes, ControlTypes, Turn
<1>2. Current \in DOMAIN source /\ todo \in DOMAIN sourcesListV
  BY <1>1, LenProperties, ElementOfSeq DEF Current, TypeOK, RegistryTypes
<1>3. source[Current].signalsM \in Map
  BY <1>2, SourceAt DEF TypeOK
<1>4. NotSubscribed \subseteq Id
  BY <1>3, MapIs DEF NotSubscribed
<1>5. Min(NotSubscribed) \in NotSubscribed
  BY <1>4, LeastExists, UidAssumption
<1>6. /\ Min(NotSubscribed) \in DOMAIN source[Current].signalsM
      /\ ~signal[source[Current].signalsM[Min(NotSubscribed)]].subscribed
  BY <1>5 DEF NotSubscribed
<1> QED
  BY <1>2, <1>3, <1>5, <1>6, MapIs

\* What of the maps the erasure of a signal changes (source.cpp:242).
LEMMA CleanIs ==
  ASSUME TypeOK, CleanNotSubscribed
  PROVE  LET s == Current
             i == Min(NotSubscribed)
         IN  /\ source' \in Seq([uid: Uid \cup {SelfUid}, api: ApiSet,
                                 signalsM: Map, newSignalsM: Map])
             /\ DOMAIN source' = DOMAIN source
             /\ \A t \in DOMAIN source :
                  /\ source'[t].uid = source[t].uid /\ source'[t].api = source[t].api
                  /\ source'[t].signalsM =
                       IF t = s THEN Without(source[s].signalsM, i) ELSE source[t].signalsM
                  /\ source'[t].newSignalsM = source[t].newSignalsM
<1> DEFINE s == Current
           i == Min(NotSubscribed)
           f == Without(source[s].signalsM, i)
           h == source[s].newSignalsM
           M == Map
<1>1. s \in DOMAIN source
  BY NotSubscribedIs DEF CleanNotSubscribed
<1>2. f \in M /\ h \in M
  <2>1. source[s].signalsM \in Map /\ source[s].newSignalsM \in Map
    BY <1>1, SourceAt DEF TypeOK
  <2>2. /\ DOMAIN f \subseteq Id /\ f = [j \in DOMAIN f |-> f[j]]
        /\ \A j \in DOMAIN f : f[j] \in Objects
    BY <1>1, <2>1, MapIs DEF Without, Restrict
  <2> HIDE DEF f
  <2>3. f \in [DOMAIN f -> Objects]
    BY <2>2
  <2> QED
    BY <2>1, <2>2, <2>3 DEF Map
<1>3. source' = ReplaceMaps(s, f, h)
  BY DEF CleanNotSubscribed, ReplaceMaps
<1>4. Map \subseteq M /\ RegistryTypes
  BY DEF TypeOK
<1> HIDE DEF s, f, h, M
<1>5. /\ source' \in Seq([uid: Uid \cup {SelfUid}, api: ApiSet, signalsM: M, newSignalsM: M])
      /\ DOMAIN source' = DOMAIN source
      /\ \A t \in DOMAIN source :
           /\ source'[t].uid = source[t].uid /\ source'[t].api = source[t].api
           /\ source'[t].signalsM = IF t = s THEN f ELSE source[t].signalsM
           /\ source'[t].newSignalsM = IF t = s THEN h ELSE source[t].newSignalsM
  BY <1>1, <1>2, <1>3, <1>4, MapsReplaced
<1> QED
  BY <1>1, <1>5 DEF s, f, h, M

\* The maps change, and what is left of them are signals of the right uids.
LEMMA RegistryTypesMaps ==
  ASSUME RegistryTypes,
         source' \in Seq([uid: Uid \cup {SelfUid}, api: ApiSet, signalsM: Map, newSignalsM: Map]),
         DOMAIN source' = DOMAIN source,
         \A s \in DOMAIN source : \A m \in SignalMap : \A i \in DOMAIN source'[s][m] :
           signal[source'[s][m][i]].id = i,
         UNCHANGED <<sourcesListV, newSourcesListV, initialising, handled, signal>>
  PROVE  RegistryTypes'
<1>1. Map' = Map
  BY DEF Map, Objects
<1> QED
  BY <1>1 DEF RegistryTypes, SignalMap

\* A signal goes from one map to the other, and the one it replaces is destroyed.
LEMMA AcceptTypes ==
  ASSUME TypeOK, Accept
  PROVE  TypeOK'
<1>1. /\ Current \in DOMAIN source /\ Min(Rest) \in DOMAIN source[Current].newSignalsM
      /\ At \in Objects /\ signal[At].id = Min(Rest)
  BY AtIs DEF Accept, Turn
<1>2. ASSUME NEW s \in DOMAIN source, NEW m \in SignalMap, NEW i \in DOMAIN source'[s][m]
      PROVE  signal[source'[s][m][i]].id = i
  <2>1. CASE m = "signalsM" /\ s = Current
    <3> DEFINE f == source[s].signalsM
    <3>1. source'[s][m] = Extend(f, Min(Rest), At)
      BY <2>1, AcceptIs
    <3>2. \A j \in DOMAIN f : signal[f[j]].id = j
      BY DEF TypeOK, RegistryTypes
    <3> HIDE DEF f
    <3>3. \A j \in DOMAIN f \cup {Min(Rest)} : signal[Extend(f, Min(Rest), At)[j]].id = j
      BY <1>1, <3>2 DEF Extend
    <3>4. i \in DOMAIN f \cup {Min(Rest)}
      BY <1>2, <3>1 DEF Extend
    <3> QED
      BY <3>1, <3>3, <3>4
  <2>2. CASE m = "newSignalsM" /\ s = Current
    <3> DEFINE f == source[s].newSignalsM
    <3>1. source'[s][m] = Without(f, Min(Rest))
      BY <2>2, AcceptIs
    <3>2. \A j \in DOMAIN f : signal[f[j]].id = j
      BY DEF TypeOK, RegistryTypes
    <3> HIDE DEF f
    <3> QED
      BY <1>2, <3>1, <3>2 DEF Without, Restrict
  <2>3. CASE s # Current
    <3>1. source'[s][m] = source[s][m]
      BY <2>3, AcceptIs DEF SignalMap
    <3> QED
      BY <1>2, <3>1 DEF TypeOK, RegistryTypes, SignalMap
  <2> QED
    BY <2>1, <2>2, <2>3 DEF SignalMap
<1>3. RegistryTypes'
  BY <1>2, AcceptIs, RegistryTypesMaps DEF Accept, TypeOK
<1>4. GraphTypes'
  <2>1. ASSUME NEW i, i \in DOMAIN source[Current].signalsM
        PROVE  source[Current].signalsM[i] \in Objects
    BY <1>1, <2>1, SourceAt, MapIs DEF TypeOK
  <2> DEFINE g == Discard(Graph, source[Current].signalsM, Min(Rest))
  <2>2. g.observers \in [Objects -> Seq(Objects)] /\ g.observables \in [Objects -> SUBSET Objects]
    BY <2>1, DiscardTypes DEF Graph, TypeOK, GraphTypes
  <2>3. observers' = g.observers /\ observables' = g.observables /\ UNCHANGED <<signal, verb>>
    BY DEF Accept, GraphIs
  <2> HIDE DEF g
  <2> QED
    BY <2>2, <2>3 DEF Objects, TypeOK, GraphTypes
<1>5. ControlTypes'
  BY DEF Accept, TypeOK, ControlTypes, loop
<1> QED
  BY <1>3, <1>4, <1>5 DEF TypeOK

\* A signal goes from its map, and is destroyed.
LEMMA CleanTypes ==
  ASSUME TypeOK, CleanNotSubscribed
  PROVE  TypeOK'
<1> DEFINE k == Min(NotSubscribed)
           o == source[Current].signalsM[k]
<1>1. o \in Objects
  BY NotSubscribedIs DEF CleanNotSubscribed
<1>2. ASSUME NEW s \in DOMAIN source, NEW m \in SignalMap, NEW i \in DOMAIN source'[s][m]
      PROVE  signal[source'[s][m][i]].id = i
  <2>1. CASE m = "signalsM" /\ s = Current
    <3> DEFINE f == source[s].signalsM
    <3>1. source'[s][m] = Without(f, k)
      BY <2>1, CleanIs
    <3>2. \A j \in DOMAIN f : signal[f[j]].id = j
      BY DEF TypeOK, RegistryTypes
    <3> HIDE DEF f, k
    <3> QED
      BY <1>2, <3>1, <3>2 DEF Without, Restrict
  <2>2. CASE ~(m = "signalsM" /\ s = Current)
    <3>1. source'[s][m] = source[s][m]
      BY <2>2, CleanIs DEF SignalMap
    <3> QED
      BY <1>2, <3>1 DEF TypeOK, RegistryTypes, SignalMap
  <2> QED
    BY <2>1, <2>2
<1>3. RegistryTypes'
  BY <1>2, CleanIs, RegistryTypesMaps DEF CleanNotSubscribed, TypeOK
<1>4. GraphTypes'
  <2> DEFINE g == Destroy(Graph, o)
  <2>1. g.observers \in [Objects -> Seq(Objects)] /\ g.observables \in [Objects -> SUBSET Objects]
    <3>1. /\ observers \in [Objects -> Seq(Objects)]
          /\ observables \in [Objects -> SUBSET Objects]
      BY DEF TypeOK, GraphTypes
    <3> HIDE DEF o
    <3> QED
      BY <1>1, <3>1, DestroyIs DEF Graph, Destroyed
  <2>2. observers' = g.observers /\ observables' = g.observables /\ UNCHANGED <<signal, verb>>
    BY DEF CleanNotSubscribed, GraphIs
  <2> HIDE DEF g
  <2> QED
    BY <2>1, <2>2 DEF Objects, TypeOK, GraphTypes
<1>5. ControlTypes'
  BY DEF CleanNotSubscribed, TypeOK, ControlTypes, loop
<1> QED
  BY <1>3, <1>4, <1>5 DEF TypeOK

\* A dependency is found, and is attached to.
LEMMA AttachTypes ==
  ASSUME TypeOK, Attach
  PROVE  TypeOK'
<1> DEFINE id == signal[At].depends[dep + 1]
           p  == SearchFirst(id)
<1>1. At \in Objects
  BY AtIs DEF Attach, Turn
<1>2. id \in Id
  <2>1. signal[At].depends \in Seq(Id) /\ dep \in Nat /\ dep < Len(signal[At].depends)
    BY <1>1, SignalAt DEF Attach, TypeOK, ControlTypes
  <2>2. dep + 1 \in 1..Len(signal[At].depends)
    BY <2>1, LenProperties
  <2> QED
    BY <2>1, <2>2, ElementOfSeq
<1>3. CASE p = 0
  <2>1. Die("unknownDependency")
    BY <1>3 DEF Attach
  <2> QED
    BY <2>1, DieTypes
<1>4. CASE p # 0
  <2> DEFINE g == AddObserver(Graph, p, At)
  <2>1. p \in Objects
    BY <1>2, <1>4, SearchFirstIs
  <2>2. /\ observers' = g.observers /\ observables' = g.observables /\ UNCHANGED <<signal, verb>>
        /\ dep' = dep + 1
        /\ UNCHANGED <<registry, boot, pc, todo, visited, err, reply, requests, fault>>
    BY <1>4 DEF Attach, GraphIs
  <2> HIDE DEF p
  <2>3. g.observers \in [Objects -> Seq(Objects)] /\ g.observables \in [Objects -> SUBSET Objects]
    BY <1>1, <2>1, AddObserverIs DEF Graph, TypeOK, GraphTypes
  <2> HIDE DEF g
  <2>4. GraphTypes'
    BY <2>2, <2>3 DEF Objects, TypeOK, GraphTypes
  <2>5. RegistryTypes'
    BY <2>2, RegistryTypesFrame DEF Objects, TypeOK
  <2>6. ControlTypes'
    BY <2>2 DEF TypeOK, ControlTypes, registry
  <2> QED
    BY <2>4, <2>5, <2>6 DEF TypeOK
<1> QED
  BY <1>3, <1>4

\* The getSignals action takes signals: nothing but subscribed_ of some of them changes.
LEMMA MakeSubscriptionIs ==
  ASSUME TypeOK, MakeSubscription
  PROVE  /\ signal' \in Seq([id: Id, depends: Seq(Id), subscribed: BOOLEAN])
         /\ Objects' = Objects
         /\ \A o \in Objects :
              /\ signal'[o].id = signal[o].id /\ signal'[o].depends = signal[o].depends
              /\ signal[o].subscribed => signal'[o].subscribed
<1> DEFINE R == [id: Id, depends: Seq(Id), subscribed: BOOLEAN]
<1>1. PICK taken : signal' = [o \in Objects |-> [signal[o] EXCEPT !.subscribed = @ \/ o \in taken]]
  BY DEF MakeSubscription
<1> DEFINE r(o) == [signal[o] EXCEPT !.subscribed = @ \/ o \in taken]
<1>2. ASSUME NEW o \in Objects
      PROVE  /\ r(o) \in R /\ r(o).id = signal[o].id /\ r(o).depends = signal[o].depends
             /\ signal[o].subscribed => r(o).subscribed
  <2> DEFINE b == signal[o].subscribed \/ o \in taken
  <2>1. signal[o] \in R /\ b \in BOOLEAN
    BY SignalAt DEF TypeOK
  <2>2. r(o) = [signal[o] EXCEPT !.subscribed = b]
    OBVIOUS
  <2>3. signal[o].subscribed => b
    OBVIOUS
  <2> HIDE DEF b, r
  <2>4. r(o) = [id |-> signal[o].id, depends |-> signal[o].depends, subscribed |-> b]
    BY <2>1, <2>2
  <2> QED
    BY <2>1, <2>3, <2>4
<1>3. signal' = [o \in Objects |-> r(o)]
  BY <1>1
<1>4. Len(signal) \in Nat /\ Objects = 1..Len(signal)
  <2>1. signal \in Seq(R)
    BY DEF TypeOK, GraphTypes
  <2> HIDE DEF R
  <2> QED
    BY <2>1, LenProperties DEF Objects
<1> HIDE DEF r, R
<1>5. signal' \in [1..Len(signal) -> R]
  BY <1>2, <1>3, <1>4
<1>6. signal' \in Seq(R) /\ Objects' = Objects
  BY <1>4, <1>5, FunctionIsList DEF Objects
<1> QED
  BY <1>2, <1>3, <1>6 DEF R

\* getSignals takes signals: only that they are subscribed changes.
LEMMA MakeSubscriptionTypes ==
  ASSUME TypeOK, MakeSubscription
  PROVE  TypeOK'
<1>1. UNCHANGED <<registry, observers, observables, verb, boot, loop, err, reply, requests, fault>>
      /\ pc' = "clean"
  BY DEF MakeSubscription
<1>2. RegistryTypes'
  BY <1>1, MakeSubscriptionIs, RegistryTypesFrame DEF TypeOK
<1>3. GraphTypes'
  BY <1>1, MakeSubscriptionIs DEF TypeOK, GraphTypes
<1>4. ControlTypes'
  BY <1>1 DEF TypeOK, ControlTypes, loop, registry
<1> QED
  BY <1>2, <1>3, <1>4 DEF TypeOK

\* A signal is filed among the new ones of its source.
LEMMA LoadOneSignalTypes ==
  ASSUME TypeOK, NEW d \in Definition, LoadOneSignal(d)
  PROVE  TypeOK'
<1> DEFINE s == GetSourceAPI(d.api)
           o == Len(signal) + 1
<1>1. /\ s \in DOMAIN source /\ AddSignal(s, d)
      /\ UNCHANGED <<sourcesListV, newSourcesListV, initialising, handled, control, fault>>
  BY GetSourceAPIIs DEF LoadOneSignal, TypeOK
<1> HIDE DEF s
<1>2. RegistryTypes'
  <2>1. ASSUME NEW t \in DOMAIN source, NEW m \in {"signalsM", "newSignalsM"},
               NEW i \in DOMAIN source'[t][m]
        PROVE  signal'[source'[t][m][i]].id = i
    <3>1. /\ source[t][m] \in Map /\ \A j \in DOMAIN source[t][m] : signal[source[t][m][j]].id = j
      BY SourceAt DEF TypeOK, RegistryTypes
    <3>2. \A j \in DOMAIN source[t][m] : signal'[source[t][m][j]].id = j
      <4>1. \A p \in Objects : signal'[p] = signal[p]
        BY <1>1, AddSignalIs
      <4>2. \A j \in DOMAIN source[t][m] : source[t][m][j] \in Objects
        BY <3>1, MapIs
      <4> QED
        BY <3>1, <4>1, <4>2
    <3>3. CASE m = "newSignalsM" /\ t = s
      <4>1. source'[t][m] = Extend(source[t][m], d.id, o)
        BY <1>1, <3>3, AddSignalIs
      <4>2. signal'[o].id = d.id
        <5>1. signal'[o] = [id |-> d.id, depends |-> d.depends, subscribed |-> FALSE]
          BY <1>1, AddSignalIs
        <5> QED
          BY <5>1
      <4> HIDE DEF o
      <4> QED
        BY <2>1, <3>2, <4>1, <4>2 DEF Extend
    <3>4. CASE ~(m = "newSignalsM" /\ t = s)
      <4>1. /\ source'[t].signalsM = source[t].signalsM
            /\ t # s => source'[t].newSignalsM = source[t].newSignalsM
        BY <1>1, AddSignalMaps
      <4>2. source'[t][m] = source[t][m]
        BY <3>4, <4>1
      <4> QED
        BY <2>1, <3>2, <4>2
    <3> QED
      BY <3>3, <3>4
  <2>2. /\ source' \in Seq([uid: Uid \cup {SelfUid}, api: ApiSet,
                            signalsM: Map', newSignalsM: Map'])
        /\ DOMAIN source' = DOMAIN source
    BY <1>1, AddSignalIs
  <2> QED
    BY <1>1, <2>1, <2>2 DEF TypeOK, RegistryTypes
<1>3. GraphTypes'
  <2> DEFINE a == Append(observers, << >>)
             b == Append(observables, {})
             g == Discard([observers |-> a, observables |-> b], source[s].newSignalsM, d.id)
             O == Objects'
  <2>1. a \in [O -> Seq(O)] /\ b \in [O -> SUBSET O]
    BY <1>1, AddSignalIs
  <2>2. d.id \in DOMAIN source[s].newSignalsM => source[s].newSignalsM[d.id] \in O
    <3>1. source[s].newSignalsM \in Map /\ Objects \subseteq O
      BY <1>1, SourceAt, AddSignalIs DEF TypeOK
    <3> QED
      BY <3>1, MapIs
  <2>3. observers' = g.observers /\ observables' = g.observables
    BY <1>1 DEF AddSignal, GraphIs
  <2> HIDE DEF a, b, O
  <2>4. g.observers \in [O -> Seq(O)] /\ g.observables \in [O -> SUBSET O]
    BY <2>1, <2>2, DiscardTypes
  <2> HIDE DEF g
  <2>5. verb' \in [Id -> O \cup {0}]
    <3>1. o \in O /\ Objects \subseteq O
      BY <1>1, AddSignalIs DEF O
    <3>2. verb' = [verb EXCEPT ![d.id] = IF @ = 0 THEN o ELSE @]
      BY <1>1 DEF AddSignal
    <3> HIDE DEF o
    <3> QED
      BY <3>1, <3>2 DEF TypeOK, GraphTypes
  <2> QED
    BY <1>1, <2>3, <2>4, <2>5, AddSignalIs DEF O, GraphTypes
<1>4. ControlTypes'
  BY <1>1 DEF TypeOK, ControlTypes, control, loop
<1> QED
  BY <1>2, <1>3, <1>4 DEF TypeOK

\* A source is loaded, or the own one added.
LEMMA LoadSourceTypes ==
  ASSUME TypeOK, (\E u \in Uid : LoadOneSourceAPI(u)) \/ EndSources
  PROVE  TypeOK'
<1>1. UNCHANGED <<graph, fault>>
  BY DEF LoadOneSourceAPI, EndSources
<1>2. RegistryTypes'
  <2>1. ASSUME NEW u \in Uid \cup {SelfUid}, NEW api \in ApiSet, AppendSource(u, api)
        PROVE  RegistryTypes'
    BY <1>1, <2>1, AppendSourceTypes DEF graph, TypeOK
  <2>2. CASE UNCHANGED registry
    BY <1>1, <2>2, RegistryTypesFrame, GraphTypesFrame DEF TypeOK
  <2> QED
    BY <2>1, <2>2 DEF LoadOneSourceAPI, EndSources, ApiSet
<1>3. GraphTypes'
  BY <1>1, GraphTypesFrame DEF TypeOK
<1>4. ControlTypes'
  <2>1. UNCHANGED sourcesListV
    BY DEF LoadOneSourceAPI, EndSources, AppendSource, registry
  <2>2. CASE \E u \in Uid : LoadOneSourceAPI(u)
    BY <2>1, <2>2 DEF LoadOneSourceAPI, TypeOK, ControlTypes, control, loop
  <2>3. CASE EndSources
    BY <2>1, <2>3 DEF EndSources, Goto, TypeOK, ControlTypes, loop
  <2> QED
    BY <2>2, <2>3
<1> QED
  BY <1>2, <1>3, <1>4 DEF TypeOK

\* The process dies in a step of these.
LEMMA DyingTypes ==
  ASSUME TypeOK,
         \/ \E d \in Definition : LoadVirtualSignal(d)
         \/ CheckForEver
         \/ \E api \in handled, id \in Id : SourceEvent(api, id)
  PROVE  TypeOK'
<1>1. \/ Die("noSource") \/ Die("endlessRecursion") \/ Die("nullSignal")
  BY DEF LoadVirtualSignal, CheckForEver, SourceEvent
<1> QED
  BY <1>1, DieTypes

\* The types hold at the start ...
LEMMA TypeInit ==
  ASSUME Init
  PROVE  TypeOK
<1> USE DEF Init
<1>1. /\ signal \in Seq([id: Id, depends: Seq(Id), subscribed: BOOLEAN])
      /\ source \in Seq([uid: Uid \cup {SelfUid}, api: ApiSet, signalsM: Map, newSignalsM: Map])
      /\ Len(sourcesListV) = 0 /\ DOMAIN signal = {} /\ DOMAIN source = {}
  BY EmptySeq
<1>2. sourcesListV \in Seq(DOMAIN source) /\ newSourcesListV \in Seq(DOMAIN source)
  BY EmptySeq
<1>3. RegistryTypes
  BY <1>1, <1>2 DEF RegistryTypes
<1>4. GraphTypes
  BY <1>1 DEF GraphTypes, Objects
<1>5. ControlTypes
  <2>1. todo \in 1..(Len(sourcesListV) + 1)
    BY <1>1
  <2>2. requests \in 0..MaxRequests
    BY RequestsAssumption
  <2> QED
    BY <2>1, <2>2 DEF ControlTypes
<1> QED
  BY <1>3, <1>4, <1>5 DEF TypeOK

\* The actions that lead to a state in which only control differs, those that die,
\* and the others.
LEMMA NextIs ==
  ASSUME Next
  PROVE  \/ ControlStep
         \/ (\E d \in Definition : LoadVirtualSignal(d)) \/ CheckForEver
            \/ \E api \in handled, id \in Id : SourceEvent(api, id)
         \/ (\E u \in Uid : LoadOneSourceAPI(u)) \/ EndSources
         \/ Init1 \/ HandleEvents \/ Init2
         \/ \E d \in Definition : LoadOneSignal(d)
         \/ Attach \/ Accept \/ MakeSubscription \/ CleanNotSubscribed
BY DEF Next, Load, ControlStep

\* ... and are kept by every step.
LEMMA TypeNext ==
  ASSUME TypeOK, [Next]_vars
  PROVE  TypeOK'
<1>1. CASE Next
  BY <1>1, NextIs, ControlStepTypes, DyingTypes, LoadSourceTypes, InitSourceTypes,
     LoadOneSignalTypes, AttachTypes, AcceptTypes, MakeSubscriptionTypes, CleanTypes
<1>2. CASE UNCHANGED vars
  <2>1. RegistryTypes' /\ GraphTypes'
    BY <1>2, RegistryTypesFrame, GraphTypesFrame DEF vars, TypeOK
  <2>2. ControlTypes'
    BY <1>2 DEF vars, control, loop, registry, TypeOK, ControlTypes
  <2> QED
    BY <2>1, <2>2 DEF TypeOK
<1> QED
  BY <1>1, <1>2

\* Whatever is configured, requested and refused, every map holds signals that were
\* created under the uid that they are found by, every list names sources that exist,
\* and a loop is at a source that exists.
THEOREM TypeCorrect == Spec => []TypeOK
<1>1. Init => TypeOK
  BY TypeInit
<1>2. TypeOK /\ [Next]_vars => TypeOK'
  BY TypeNext
<1> QED
  BY <1>1, <1>2, PTL DEF Spec

-----------------------------------------------------------------------------
(* The registry and the stages. *)

\* Of the steps, those that leave the maps and the lists of sources alone, and what
\* each of the others does of them.
LEMMA RegistryStep ==
  ASSUME TypeOK, Next
  PROVE  \/ UNCHANGED registry
         \/ /\ pc \in {"sources"} /\ UNCHANGED signal
            /\ \E u \in Uid \cup {SelfUid}, api \in ApiSet : AppendSource(u, api)
         \/ Init1 \/ HandleEvents \/ Init2
         \/ \E d \in Definition : LoadOneSignal(d)
         \/ Accept \/ CleanNotSubscribed
<1>1. CASE ControlStep
  BY <1>1, ControlStepIs
<1>2. CASE (\E d \in Definition : LoadVirtualSignal(d)) \/ CheckForEver
           \/ \E api \in handled, id \in Id : SourceEvent(api, id)
  BY <1>2 DEF LoadVirtualSignal, CheckForEver, SourceEvent, Die
<1>3. CASE (\E u \in Uid : LoadOneSourceAPI(u)) \/ EndSources
  BY <1>3 DEF LoadOneSourceAPI, EndSources, graph, ApiSet, Goto
<1>4. CASE Attach \/ MakeSubscription
  BY <1>4 DEF Attach, Die, MakeSubscription
<1> QED
  BY <1>1, <1>2, <1>3, <1>4, NextIs

\* The sources that are in a list, or are being initialised.
LEMMA PlacedNext ==
  ASSUME TypeOK, Placed, Next
  PROVE  Placed'
<1> USE DEF Placed
<1>0. /\ sourcesListV \in Seq(DOMAIN source) /\ newSourcesListV \in Seq(DOMAIN source)
      /\ ToSet(sourcesListV) \subseteq DOMAIN source
      /\ ToSet(newSourcesListV) \subseteq DOMAIN source
  BY LenProperties, ElementOfSeq DEF TypeOK, RegistryTypes, ToSet
<1>1. CASE UNCHANGED registry \/ HandleEvents
  BY <1>1 DEF registry, HandleEvents
<1>2. ASSUME NEW u \in Uid \cup {SelfUid}, NEW api \in ApiSet, AppendSource(u, api)
      PROVE  Placed'
  <2> DEFINE n == Len(source) + 1
  <2>1. /\ n \notin DOMAIN source /\ n # 0 /\ DOMAIN source' = DOMAIN source \cup {n}
        /\ newSourcesListV' = Append(newSourcesListV, n)
        /\ UNCHANGED <<sourcesListV, initialising>>
    BY <1>2, AppendSourceIs DEF AppendSource, TypeOK
  <2> HIDE DEF n
  <2>2. newSourcesListV \in Seq(DOMAIN source \cup {n})
    BY <1>0, SeqMonotonic
  <2>3. /\ ToSet(newSourcesListV') = ToSet(newSourcesListV) \cup {n}
        /\ IsInjective(newSourcesListV')
    BY <1>0, <2>1, <2>2, AppendList
  <2>4. initialising \in DOMAIN source \cup {0}
    BY DEF TypeOK, RegistryTypes
  <2> QED
    BY <1>0, <2>1, <2>3, <2>4
<1>3. CASE Init1
  <2>1. /\ ToSet(newSourcesListV') = ToSet(newSourcesListV) \ {initialising'}
        /\ IsInjective(newSourcesListV')
        /\ initialising' \in ToSet(newSourcesListV)
    BY <1>0, <1>3, FrontList DEF Init1
  <2> QED
    BY <1>0, <1>3, <2>1 DEF Init1, TypeOK, RegistryTypes
<1>4. CASE Init2
  <2>1. /\ ToSet(sourcesListV') = ToSet(sourcesListV) \cup {initialising}
        /\ IsInjective(sourcesListV')
    <3>1. initialising \in DOMAIN source /\ sourcesListV' = Append(sourcesListV, initialising)
      BY <1>4 DEF Init2, TypeOK, RegistryTypes
    <3> QED
      BY <1>0, <3>1, AppendList
  <2>2. 0 \notin DOMAIN source
    <3>1. DOMAIN source = 1..Len(source) /\ Len(source) \in Nat
      BY LenProperties DEF TypeOK, RegistryTypes
    <3> QED
      BY <3>1
  <2> QED
    BY <1>0, <1>4, <2>1, <2>2 DEF Init2
<1>5. CASE \E d \in Definition : LoadOneSignal(d)
  <2>1. DOMAIN source' = DOMAIN source /\ UNCHANGED <<sourcesListV, newSourcesListV, initialising>>
    BY <1>5, GetSourceAPIIs, AddSignalIs DEF LoadOneSignal, TypeOK
  <2> QED
    BY <2>1
<1>6. CASE Accept \/ CleanNotSubscribed
  <2>1. DOMAIN source' = DOMAIN source /\ UNCHANGED <<sourcesListV, newSourcesListV, initialising>>
    BY <1>6, AcceptIs, CleanIs DEF Accept, CleanNotSubscribed
  <2> QED
    BY <2>1
<1> QED
  BY <1>1, <1>2, <1>3, <1>4, <1>5, <1>6, RegistryStep

\* Only a source that is initialised accepts signals.
LEMMA UnlistedNext ==
  ASSUME TypeOK, Unlisted, Next
  PROVE  Unlisted'
<1> USE DEF Unlisted
<1>1. CASE UNCHANGED registry
  BY <1>1 DEF registry
<1>2. ASSUME NEW u \in Uid \cup {SelfUid}, NEW api \in ApiSet, AppendSource(u, api)
      PROVE  Unlisted'
  <2>1. UNCHANGED sourcesListV
    BY <1>2 DEF AppendSource
  <2> QED
    BY <1>2, <2>1, AppendSourceIs DEF TypeOK
<1>3. CASE Init1 \/ HandleEvents
  BY <1>3 DEF Init1, HandleEvents
<1>4. CASE Init2
  <2>1. initialising \in DOMAIN source /\ sourcesListV \in Seq(DOMAIN source)
    BY <1>4 DEF Init2, TypeOK, RegistryTypes
  <2>2. ToSet(sourcesListV') = ToSet(sourcesListV) \cup {initialising} /\ UNCHANGED source
    BY <1>4, <2>1, AppendList DEF Init2
  <2> QED
    BY <2>2
<1>5. CASE \E d \in Definition : LoadOneSignal(d)
  <2>1. PICK d \in Definition : LoadOneSignal(d)
    BY <1>5
  <2>2. /\ DOMAIN source' = DOMAIN source /\ UNCHANGED sourcesListV
        /\ \A t \in DOMAIN source : source'[t].signalsM = source[t].signalsM
    BY <2>1, GetSourceAPIIs, AddSignalIs DEF LoadOneSignal, TypeOK
  <2> QED
    BY <2>2
<1>6. CASE Accept
  <2>1. /\ DOMAIN source' = DOMAIN source /\ UNCHANGED sourcesListV
        /\ Current \in ToSet(sourcesListV)
        /\ \A t \in DOMAIN source : t # Current => source'[t].signalsM = source[t].signalsM
    BY <1>6, AcceptIs DEF Accept
  <2> QED
    BY <2>1
<1>7. CASE CleanNotSubscribed
  <2>1. todo \in DOMAIN sourcesListV
    BY <1>7, NotSubscribedIs DEF CleanNotSubscribed
  <2>2. /\ DOMAIN source' = DOMAIN source /\ UNCHANGED sourcesListV
        /\ \A t \in DOMAIN source : t # Current => source'[t].signalsM = source[t].signalsM
    BY <1>7, CleanIs DEF CleanNotSubscribed
  <2>3. Current \in ToSet(sourcesListV)
    BY <2>1 DEF Current, ToSet
  <2> QED
    BY <2>2, <2>3
<1> QED
  BY <1>1, <1>2, <1>3, <1>4, <1>5, <1>6, <1>7, RegistryStep

\* A signal is filed in one map of one source, and moves to another at most.
LEMMA KeptOnceNext ==
  ASSUME TypeOK, KeptOnce, Next
  PROVE  KeptOnce'
<1> DEFINE InMap(o, s, m) == \E i \in DOMAIN source[s][m] : source[s][m][i] = o
           InMapNext(o, s, m) == \E i \in DOMAIN source'[s][m] : source'[s][m][i] = o
<1>0. /\ \A s, t \in DOMAIN source : \A m, n \in SignalMap : \A o :
           InMap(o, s, m) /\ InMap(o, t, n) => s = t /\ m = n
      /\ \A s \in DOMAIN source : \A m \in SignalMap : \A o : InMap(o, s, m) => o \in Objects
  <2>1. \A s \in DOMAIN source : \A m \in SignalMap : source[s][m] \in Map
    BY SourceAt DEF TypeOK, SignalMap
  <2> QED
    BY <2>1, MapIs DEF KeptOnce
<1>1. SUFFICES \A s, t \in DOMAIN source' : \A m, n \in SignalMap : \A o :
                 InMapNext(o, s, m) /\ InMapNext(o, t, n) => s = t /\ m = n
  BY DEF KeptOnce
<1>2. CASE UNCHANGED registry \/ Init1 \/ HandleEvents \/ Init2
  <2>1. UNCHANGED source
    BY <1>2 DEF registry, Init1, HandleEvents, Init2
  <2> QED
    BY <1>0, <2>1
<1>3. ASSUME NEW u \in Uid \cup {SelfUid}, NEW api \in ApiSet, AppendSource(u, api)
      PROVE  \A s \in DOMAIN source' : \A m \in SignalMap : \A o :
               InMapNext(o, s, m) => s \in DOMAIN source /\ InMap(o, s, m)
  <2> DEFINE n == Len(source) + 1
  <2>1. /\ DOMAIN source' = DOMAIN source \cup {n}
        /\ \A s \in DOMAIN source : source'[s] = source[s]
        /\ \A m \in SignalMap : DOMAIN source'[n][m] = {}
    BY <1>3, AppendSourceIs DEF TypeOK, SignalMap
  <2> HIDE DEF n
  <2> QED
    BY <2>1
<1>4. ASSUME NEW d \in Definition, LoadOneSignal(d)
      PROVE  \A s, t \in DOMAIN source' : \A m, n \in SignalMap : \A o :
               InMapNext(o, s, m) /\ InMapNext(o, t, n) => s = t /\ m = n
  <2> DEFINE new == Len(signal) + 1
             r   == GetSourceAPI(d.api)
  <2>1. r \in DOMAIN source /\ AddSignal(r, d)
    BY <1>4, GetSourceAPIIs DEF LoadOneSignal, TypeOK
  <2>2. /\ DOMAIN source' = DOMAIN source /\ new \notin Objects
        /\ \A s \in DOMAIN source :
             /\ source'[s].signalsM = source[s].signalsM
             /\ source'[s].newSignalsM =
                  IF s = r THEN Extend(source[r].newSignalsM, d.id, new) ELSE source[s].newSignalsM
    BY <2>1, AddSignalMaps
  <2> HIDE DEF new, r
  <2>3. ASSUME NEW s \in DOMAIN source, NEW m \in SignalMap, NEW o, InMapNext(o, s, m)
        PROVE  InMap(o, s, m) \/ (o = new /\ s = r /\ m = "newSignalsM")
    <3>1. CASE s = r /\ m = "newSignalsM"
      <4>1. source'[s][m] = Extend(source[s][m], d.id, new)
        BY <2>2, <3>1
      <4> QED
        BY <2>3, <3>1, <4>1 DEF Extend
    <3>2. CASE ~(s = r /\ m = "newSignalsM")
      <4>1. source'[s][m] = source[s][m]
        BY <2>2, <3>2 DEF SignalMap
      <4> QED
        BY <2>3, <4>1
    <3> QED
      BY <3>1, <3>2
  <2> HIDE DEF InMap, InMapNext
  <2> QED
    BY <1>0, <2>2, <2>3
<1>5. CASE Accept
  <2> DEFINE r == Current
             k == Min(Rest)
  <2>1. /\ r \in DOMAIN source /\ k \in DOMAIN source[r].newSignalsM
        /\ At = source[r].newSignalsM[k]
        /\ DOMAIN source' = DOMAIN source
        /\ \A s \in DOMAIN source :
             /\ source'[s].signalsM =
                  IF s = r THEN Extend(source[r].signalsM, k, At) ELSE source[s].signalsM
             /\ source'[s].newSignalsM =
                  IF s = r THEN Without(source[r].newSignalsM, k) ELSE source[s].newSignalsM
    BY <1>5, AcceptIs
  <2>2. \A i \in DOMAIN source[r].newSignalsM : source[r].newSignalsM[i] = At => i = k
    <3>1. \A i \in DOMAIN source[r].newSignalsM : signal[source[r].newSignalsM[i]].id = i
      BY <2>1 DEF TypeOK, RegistryTypes
    <3> QED
      BY <2>1, <3>1
  <2>3. InMap(At, r, "newSignalsM")
    BY <2>1
  <2> HIDE DEF r, k
  <2>4. ASSUME NEW s \in DOMAIN source, NEW m \in SignalMap, NEW o, InMapNext(o, s, m)
        PROVE  IF o = At THEN s = r /\ m = "signalsM" ELSE InMap(o, s, m)
    <3>1. CASE s = r /\ m = "newSignalsM"
      <4>1. source'[s][m] = Without(source[s][m], k)
        BY <2>1, <3>1
      <4>2. PICK i \in DOMAIN source[s][m] \ {k} : source[s][m][i] = o
        BY <2>4, <4>1 DEF Without, Restrict
      <4> QED
        BY <2>2, <3>1, <4>2
    <3>2. CASE s = r /\ m = "signalsM"
      <4>1. source'[s][m] = Extend(source[s][m], k, At)
        BY <2>1, <3>2
      <4>2. InMap(o, s, m) \/ o = At
        BY <2>4, <4>1 DEF Extend
      <4> QED
        BY <3>2, <4>2
    <3>3. CASE s # r
      <4>1. source'[s][m] = source[s][m]
        BY <2>1, <3>3 DEF SignalMap
      <4>2. InMap(o, s, m)
        BY <2>4, <4>1
      <4>3. "newSignalsM" \in SignalMap
        BY DEF SignalMap
      <4> HIDE DEF InMap, InMapNext
      <4> QED
        BY <1>0, <2>1, <2>3, <3>3, <4>2, <4>3
    <3> QED
      BY <3>1, <3>2, <3>3 DEF SignalMap
  <2> HIDE DEF InMap, InMapNext
  <2> QED
    BY <1>0, <2>1, <2>4
<1>6. CASE CleanNotSubscribed
  <2>1. DOMAIN source' = DOMAIN source
    BY <1>6, CleanIs
  <2>2. ASSUME NEW s \in DOMAIN source, NEW m \in SignalMap, NEW o, InMapNext(o, s, m)
        PROVE  InMap(o, s, m)
    <3>1. \/ source'[s][m] = source[s][m]
          \/ source'[s][m] = Without(source[s][m], Min(NotSubscribed))
      BY <1>6, CleanIs DEF SignalMap
    <3> QED
      BY <2>2, <3>1 DEF Without, Restrict
  <2> HIDE DEF InMap, InMapNext
  <2> QED
    BY <1>0, <2>1, <2>2
<1> HIDE DEF InMap, InMapNext
<1> QED
  BY <1>0, <1>2, <1>3, <1>4, <1>5, <1>6, RegistryStep

\* Outside its stage a loop is where it begins.
LEMMA StagedNext ==
  ASSUME TypeOK, Staged, Next
  PROVE  Staged'
<1>0. /\ Len(sourcesListV) \in Nat /\ todo \in Nat /\ dep \in Nat
  BY LenProperties DEF TypeOK, RegistryTypes, ControlTypes
<1>1. CASE ControlStep
  <2>1. UNCHANGED <<source, sourcesListV, initialising>> /\ Rest' = DOMAIN source[Current'].newSignalsM \ visited'
        /\ (todo' = todo => Current' = Current)
    BY <1>1, ControlStepIs DEF registry, Rest, Current
  <2> USE <1>0, <2>1 DEF Staged, Turn, Goto, loop
  <2>2. CASE AddObjects
    BY <2>2 DEF AddObjects
  <2>3. CASE RejectSource \/ FailSignals \/ WithoutSignals \/ EndSubscribe
    <3>1. \E from \in {"sources", "signals", "subscribe"} :
            /\ pc = from /\ pc' \in {"failed", "idle"} /\ err' = FALSE /\ todo' = 1
            /\ UNCHANGED <<visited, dep>>
      BY <2>3 DEF RejectSource, FailSignals, WithoutSignals, EndSubscribe, Answer
    <3> QED
      BY <3>1
  <2>4. CASE EndInitSources \/ EndSignals
    BY <2>4 DEF EndInitSources, EndSignals
  <2>5. CASE RejectSignal
    BY <2>5 DEF RejectSignal
  <2>6. CASE Attached
    BY <2>6 DEF Attached
  <2>7. CASE EndAttach
    BY <2>7 DEF EndAttach
  <2>8. CASE Ignore
    BY <2>8 DEF Ignore
  <2>9. CASE EndCheck
    BY <2>9 DEF EndCheck
  <2>10. CASE EndInitSignals
    BY <2>10 DEF EndInitSignals
  <2>11. CASE PassOver
    BY <2>11 DEF PassOver
  <2>12. CASE EndClean
    BY <2>12 DEF EndClean
  <2> QED
    BY <1>1, <2>2, <2>3, <2>4, <2>5, <2>6, <2>7, <2>8, <2>9, <2>10, <2>11, <2>12 DEF ControlStep
<1>2. ASSUME UNCHANGED <<registry, control>>
      PROVE  Staged'
  BY <1>2 DEF Staged, Turn, Rest, Current, registry, control, loop
<1>3. CASE (\E d \in Definition : LoadVirtualSignal(d)) \/ CheckForEver
           \/ \E api \in handled, id \in Id : SourceEvent(api, id)
  BY <1>2, <1>3 DEF LoadVirtualSignal, CheckForEver, SourceEvent, Die
<1>4. CASE (\E u \in Uid : LoadOneSourceAPI(u)) \/ EndSources
  <2>1. pc = "sources" /\ UNCHANGED <<sourcesListV, initialising, loop, err>>
        /\ pc' \in {"sources", "signals", "initSources"}
    BY <1>4 DEF LoadOneSourceAPI, EndSources, AppendSource, control, registry, Goto
  <2> QED
    BY <1>0, <2>1 DEF Staged, Turn, loop
<1>5. CASE Init1 \/ HandleEvents \/ Init2
  <2>1. pc = "initSources"
    BY <1>5 DEF Init1, HandleEvents, Init2, Staged
  <2>2. UNCHANGED control
    BY <1>5 DEF Init1, HandleEvents, Init2
  <2> QED
    BY <1>0, <2>1, <2>2 DEF Staged, Turn, control, loop
<1>6. CASE \E d \in Definition : LoadOneSignal(d)
  <2>1. pc = "signals" /\ UNCHANGED <<sourcesListV, initialising, control>>
    BY <1>6 DEF LoadOneSignal
  <2> QED
    BY <1>0, <2>1 DEF Staged, Turn, control, loop
<1>7. CASE Attach
  <2>1. CASE Die("unknownDependency")
    BY <1>2, <2>1 DEF Die
  <2>2. CASE ~Die("unknownDependency")
    <3>1. /\ Turn("attach") /\ Rest # {}
          /\ UNCHANGED <<registry, boot, pc, todo, visited, err, reply, requests, fault>>
      BY <1>7, <2>2 DEF Attach
    <3> QED
      BY <1>0, <3>1 DEF Staged, Turn, Rest, Current, registry
  <2> QED
    BY <2>1, <2>2
<1>8. CASE Accept
  BY <1>0, <1>8 DEF Accept, Staged, Turn, loop
<1>9. CASE MakeSubscription
  BY <1>0, <1>9 DEF MakeSubscription, Staged, Turn, loop, registry
<1>10. CASE CleanNotSubscribed
  BY <1>0, <1>10 DEF CleanNotSubscribed, Staged, Turn, loop
<1> QED
  BY <1>1, <1>3, <1>4, <1>5, <1>6, <1>7, <1>8, <1>9, <1>10, NextIs

\* What a source has accepted stays, or goes in part, and a subscription is not undone.
LEMMA AllSubscribedFrame ==
  ASSUME TypeOK, NEW s \in DOMAIN source, AllSubscribed(s),
         source'[s].uid = source[s].uid, source'[s].api = source[s].api,
         \A i \in DOMAIN source'[s].signalsM :
           /\ i \in DOMAIN source[s].signalsM
           /\ source'[s].signalsM[i] = source[s].signalsM[i],
         \A o \in Objects : signal[o].subscribed => signal'[o].subscribed
  PROVE  AllSubscribed(s)'
<1>1. ASSUME Subscribes(s), NEW i \in DOMAIN source'[s].signalsM
      PROVE  signal'[source'[s].signalsM[i]].subscribed
  <2>1. source[s].signalsM \in Map
    BY SourceAt DEF TypeOK
  <2>2. source[s].signalsM[i] \in Objects
    BY <1>1, <2>1, MapIs
  <2>3. signal[source[s].signalsM[i]].subscribed
    BY <1>1 DEF AllSubscribed, Kept
  <2> QED
    BY <1>1, <2>2, <2>3
<1> QED
  BY <1>1 DEF AllSubscribed, Kept, Subscribes

\* From the acceptance of signals to their subscription.
LEMMA SubscribedNext ==
  ASSUME TypeOK, Unlisted, Staged, SubscribedSoFar, Next
  PROVE  SubscribedSoFar'
<1>0. /\ Len(sourcesListV) \in Nat /\ todo \in Nat \ {0} /\ todo <= Len(sourcesListV) + 1
      /\ DOMAIN sourcesListV = 1..Len(sourcesListV)
      /\ \A k \in 1..Len(sourcesListV) : sourcesListV[k] \in DOMAIN source
  BY LenProperties, ElementOfSeq DEF TypeOK, RegistryTypes, ControlTypes
<1> DEFINE Stage == {"attach", "check", "subscribe", "clean"}
<1>1. ASSUME UNCHANGED <<source, sourcesListV, signal, pc, todo>>
      PROVE  SubscribedSoFar'
  BY <1>1 DEF SubscribedSoFar, AllSubscribed, Subscribes, Kept
<1>2. ASSUME pc \notin Stage, UNCHANGED <<source, sourcesListV, signal>>, pc' \notin {"subscribe", "clean"}
      PROVE  SubscribedSoFar'
  BY <1>2 DEF SubscribedSoFar, AllSubscribed, Subscribes, Kept
<1>3. CASE ControlStep
  <2>1. UNCHANGED <<source, sourcesListV, signal>>
    BY <1>3, ControlStepIs DEF registry, graph
  <2> USE <1>0, <2>1 DEF Turn, Goto, loop
  <2>2. CASE AddObjects \/ EndInitSources \/ EndSignals \/ RejectSignal \/ RejectSource
             \/ FailSignals \/ WithoutSignals
    <3>1. \/ pc \notin Stage /\ pc' \notin {"subscribe", "clean"}
          \/ UNCHANGED <<pc, todo>>
      BY <2>2 DEF AddObjects, EndInitSources, EndSignals, RejectSignal, RejectSource,
                  FailSignals, WithoutSignals, Answer
    <3> QED
      BY <1>1, <1>2, <2>1, <3>1
  <2>3. CASE Attached \/ EndAttach \/ Ignore \/ EndCheck
    <3>1. pc' \in {"attach", "check"}
      BY <2>3 DEF Attached, EndAttach, Ignore, EndCheck
    <3> QED
      BY <3>1 DEF SubscribedSoFar
  <2>4. CASE EndInitSignals
    BY <2>4 DEF EndInitSignals, SubscribedSoFar
  <2>5. CASE PassOver \/ EndClean
    <3>1. /\ pc \in {"subscribe", "clean"} /\ todo <= Len(sourcesListV)
          /\ pc' = "subscribe" /\ todo' = todo + 1
          /\ ~Subscribes(Current) \/ NotSubscribed = {}
      BY <2>5 DEF PassOver, EndClean
    <3>2. AllSubscribed(Current)
      BY <3>1 DEF AllSubscribed, NotSubscribed, Kept
    <3>3. ASSUME NEW k \in 1..(todo' - 1)
          PROVE  AllSubscribed(sourcesListV[k])
      <4>1. CASE k = todo
        BY <3>2, <4>1 DEF Current
      <4>2. CASE k # todo
        <5>1. k \in 1..(todo - 1)
          BY <3>1, <3>3, <4>2
        <5> QED
          BY <3>1, <5>1 DEF SubscribedSoFar
      <4> QED
        BY <4>1, <4>2
    <3>4. \A k \in 1..(todo' - 1) : AllSubscribed(sourcesListV[k])'
      BY <3>3 DEF AllSubscribed, Subscribes, Kept
    <3> QED
      BY <3>1, <3>4 DEF SubscribedSoFar
  <2>6. CASE EndSubscribe
    <3>1. pc = "subscribe" /\ todo = Len(sourcesListV) + 1 /\ pc' \in {"failed", "idle"}
      BY <2>6 DEF EndSubscribe, Answer
    <3>2. \A k \in 1..Len(sourcesListV) : AllSubscribed(sourcesListV[k])
      BY <3>1 DEF SubscribedSoFar
    <3>3. ASSUME NEW s \in DOMAIN source
          PROVE  AllSubscribed(s)
      <4>1. CASE s \in ToSet(sourcesListV)
        BY <3>2, <4>1 DEF ToSet
      <4>2. CASE s \notin ToSet(sourcesListV)
        BY <4>2 DEF Unlisted, AllSubscribed, Kept
      <4> QED
        BY <4>1, <4>2
    <3>4. \A s \in DOMAIN source' : AllSubscribed(s)'
      BY <3>3 DEF AllSubscribed, Subscribes, Kept
    <3> QED
      BY <3>1, <3>4 DEF SubscribedSoFar
  <2> QED
    BY <1>3, <2>2, <2>3, <2>4, <2>5, <2>6 DEF ControlStep
<1>4. CASE (\E d \in Definition : LoadVirtualSignal(d)) \/ CheckForEver
           \/ \E api \in handled, id \in Id : SourceEvent(api, id)
  BY <1>1, <1>4 DEF LoadVirtualSignal, CheckForEver, SourceEvent, Die, registry, graph, control, loop
<1>5. CASE (\E u \in Uid : LoadOneSourceAPI(u)) \/ EndSources
  <2>1. pc = "sources" /\ pc' \in {"sources", "signals", "initSources"} /\ UNCHANGED signal
    BY <1>5 DEF LoadOneSourceAPI, EndSources, Goto, control, graph
  <2>2. \A s \in DOMAIN source : AllSubscribed(s)
    BY <2>1 DEF SubscribedSoFar
  <2>3. ASSUME NEW u \in Uid \cup {SelfUid}, NEW api \in ApiSet, AppendSource(u, api),
               NEW s \in DOMAIN source'
        PROVE  AllSubscribed(s)'
    <3>1. \/ s \in DOMAIN source /\ source'[s] = source[s]
          \/ DOMAIN source'[s].signalsM = {}
      BY <2>3, AppendSourceIs DEF TypeOK
    <3> QED
      BY <2>1, <2>2, <3>1 DEF AllSubscribed, Subscribes, Kept
  <2>4. ASSUME UNCHANGED registry, NEW s \in DOMAIN source'
        PROVE  AllSubscribed(s)'
    BY <2>1, <2>2, <2>4 DEF AllSubscribed, Subscribes, Kept, registry
  <2>5. \A s \in DOMAIN source' : AllSubscribed(s)'
    BY <1>5, <2>3, <2>4 DEF LoadOneSourceAPI, EndSources, ApiSet
  <2> QED
    BY <2>1, <2>5 DEF SubscribedSoFar
<1>6. CASE Init1 \/ HandleEvents \/ Init2
  <2>1. pc = "initSources" /\ UNCHANGED <<source, signal, control>>
    BY <1>6 DEF Init1, HandleEvents, Init2, graph, Staged
  <2> QED
    BY <2>1 DEF SubscribedSoFar, AllSubscribed, Subscribes, Kept, control
<1>7. CASE \E d \in Definition : LoadOneSignal(d)
  <2>1. PICK d \in Definition : LoadOneSignal(d)
    BY <1>7
  <2>2. pc = "signals" /\ pc' = "signals"
    BY <2>1 DEF LoadOneSignal, control
  <2>3. /\ DOMAIN source' = DOMAIN source
        /\ \A s \in DOMAIN source : /\ source'[s].uid = source[s].uid
                                    /\ source'[s].api = source[s].api
                                    /\ source'[s].signalsM = source[s].signalsM
        /\ \A o \in Objects : signal'[o] = signal[o]
    BY <2>1, GetSourceAPIIs, AddSignalIs DEF LoadOneSignal, TypeOK
  <2>4. \A s \in DOMAIN source : AllSubscribed(s)
    BY <2>2 DEF SubscribedSoFar
  <2>5. \A s \in DOMAIN source : AllSubscribed(s)'
    BY <2>3, <2>4, AllSubscribedFrame
  <2> QED
    BY <2>2, <2>3, <2>5 DEF SubscribedSoFar
<1>8. CASE Attach
  <2>1. UNCHANGED <<source, sourcesListV, signal, pc, todo>>
    BY <1>8 DEF Attach, Die, registry, graph, control, loop
  <2> QED
    BY <1>1, <2>1
<1>9. CASE Accept
  BY <1>9 DEF Accept, Turn, SubscribedSoFar
<1>10. CASE MakeSubscription \/ CleanNotSubscribed
  <2>1. /\ pc \in {"subscribe", "clean"} /\ pc' = "clean"
        /\ UNCHANGED <<sourcesListV, todo>> /\ todo <= Len(sourcesListV)
    BY <1>10 DEF MakeSubscription, CleanNotSubscribed, Turn, registry, loop
  <2>2. \A k \in 1..(todo - 1) : AllSubscribed(sourcesListV[k])
    BY <2>1 DEF SubscribedSoFar
  <2>3. ASSUME NEW s \in DOMAIN source
        PROVE  /\ source'[s].uid = source[s].uid /\ source'[s].api = source[s].api
               /\ \A i \in DOMAIN source'[s].signalsM :
                    /\ i \in DOMAIN source[s].signalsM
                    /\ source'[s].signalsM[i] = source[s].signalsM[i]
    <3>1. CASE MakeSubscription
      BY <3>1 DEF MakeSubscription, registry
    <3>2. CASE CleanNotSubscribed
      <4>1. /\ source'[s].uid = source[s].uid /\ source'[s].api = source[s].api
            /\ \/ source'[s].signalsM = Without(source[s].signalsM, Min(NotSubscribed))
               \/ source'[s].signalsM = source[s].signalsM
        BY <3>2, CleanIs
      <4> QED
        BY <4>1 DEF Without, Restrict
    <3> QED
      BY <1>10, <3>1, <3>2
  <2>4. \A o \in Objects : signal[o].subscribed => signal'[o].subscribed
    BY <1>10, MakeSubscriptionIs DEF CleanNotSubscribed
  <2>5. \A k \in 1..(todo - 1) : sourcesListV[k] \in DOMAIN source
    BY <1>0, <2>1
  <2>6. \A s \in DOMAIN source : AllSubscribed(s) => AllSubscribed(s)'
    BY <2>3, <2>4, AllSubscribedFrame
  <2>7. ASSUME NEW k \in 1..(todo' - 1)
        PROVE  AllSubscribed(sourcesListV[k])'
    <3> DEFINE s == sourcesListV[k]
    <3>1. s \in DOMAIN source /\ AllSubscribed(s) /\ s' = s
      BY <2>1, <2>2, <2>5
    <3>2. \A t : t = s => AllSubscribed(t)'
      BY <2>6, <3>1
    <3> QED
      BY <3>1, <3>2 DEF AllSubscribed, Subscribes, Kept
  <2> QED
    BY <2>1, <2>7 DEF SubscribedSoFar
<1> QED
  BY <1>3, <1>4, <1>5, <1>6, <1>7, <1>8, <1>9, <1>10, NextIs

\* The invariant of the registry holds at the start and is kept by every step.
LEMMA RegistryInit ==
  ASSUME Init
  PROVE  RegistryInv
<1> USE DEF Init
<1>1. DOMAIN source = {} /\ ToSet(sourcesListV) = {} /\ ToSet(newSourcesListV) = {}
  BY DEF ToSet
<1>2. KeptOnce /\ Unlisted /\ SubscribedSoFar
  BY <1>1 DEF KeptOnce, Unlisted, SubscribedSoFar
<1>3. Placed
  BY <1>1 DEF Placed, IsInjective
<1>4. Staged
  BY DEF Staged
<1> QED
  BY <1>2, <1>3, <1>4, TypeInit DEF RegistryInv

\* Every step keeps it.
LEMMA RegistryNext ==
  ASSUME RegistryInv, [Next]_vars
  PROVE  RegistryInv'
<1>1. CASE Next
  BY <1>1, TypeNext, KeptOnceNext, PlacedNext, UnlistedNext, StagedNext, SubscribedNext
     DEF RegistryInv
<1>2. CASE UNCHANGED vars
  <2>1. TypeOK'
    BY <1>2, TypeNext DEF RegistryInv
  <2>2. UNCHANGED <<source, sourcesListV, newSourcesListV, initialising, signal, pc, todo,
                    visited, dep, err>>
    BY <1>2 DEF vars, registry, graph, control, loop
  <2>3. KeptOnce' /\ Placed' /\ Unlisted'
    BY <2>2 DEF RegistryInv, KeptOnce, Placed, Unlisted
  <2>4. Staged'
    BY <2>2 DEF RegistryInv, Staged, Turn, Rest, Current
  <2>5. SubscribedSoFar'
    BY <2>2 DEF RegistryInv, SubscribedSoFar, AllSubscribed, Subscribes, Kept
  <2> QED
    BY <2>1, <2>3, <2>4, <2>5 DEF RegistryInv
<1> QED
  BY <1>1, <1>2

\* Each signal is in one map, each source in one list; only initialised sources accept,
\* and what a loop has done so far is what its position says.
THEOREM RegistryKept == Spec => []RegistryInv
<1>1. Init => RegistryInv
  BY RegistryInit
<1>2. RegistryInv /\ [Next]_vars => RegistryInv'
  BY RegistryNext
<1> QED
  BY <1>1, <1>2, PTL DEF Spec

\* Lists that have nothing in common.
LEMMA ConcatInjective ==
  ASSUME NEW S, NEW a \in Seq(S), NEW b \in Seq(S)
  PROVE  /\ ToSet(a \o b) = ToSet(a) \cup ToSet(b)
         /\ IsInjective(a) /\ IsInjective(b) /\ ToSet(a) \cap ToSet(b) = {} => IsInjective(a \o b)
<1> DEFINE c == a \o b
           m == Len(a)
           n == Len(b)
<1>1. /\ c \in Seq(S) /\ Len(c) = m + n
      /\ \A k \in 1..(m + n) : c[k] = IF k <= m THEN a[k] ELSE b[k - m]
  BY ConcatProperties
<1>2. /\ DOMAIN a = 1..m /\ DOMAIN b = 1..n /\ DOMAIN c = 1..(m + n) /\ m \in Nat /\ n \in Nat
  BY <1>1, LenProperties
<1> HIDE DEF c, m, n
<1>3. /\ \A k \in 1..m : k \in 1..(m + n) /\ c[k] = a[k]
      /\ \A k \in 1..n : m + k \in 1..(m + n) /\ c[m + k] = b[k]
      /\ \A k \in 1..(m + n) : \/ k \in 1..m /\ c[k] = a[k]
                              \/ \E j \in 1..n : k = m + j /\ c[k] = b[j]
  <2>1. \A k \in 1..m : k \in 1..(m + n) /\ k <= m
    BY <1>2
  <2>2. \A k \in 1..n : m + k \in 1..(m + n) /\ ~(m + k <= m) /\ (m + k) - m = k
    BY <1>2
  <2>3. ASSUME NEW k \in 1..(m + n), k \notin 1..m
        PROVE  \E j \in 1..n : k = m + j /\ c[k] = b[j]
    <3>1. k - m \in 1..n /\ k = m + (k - m) /\ ~(k <= m)
      BY <1>2, <2>3
    <3>2. c[k] = b[k - m]
      BY <1>1, <3>1
    <3> QED
      BY <3>1, <3>2
  <2> QED
    BY <1>1, <2>1, <2>2, <2>3
<1>4. ToSet(c) = ToSet(a) \cup ToSet(b)
  <2>1. \A k \in 1..m : a[k] \in ToSet(c)
    <3>1. \A k \in 1..m : k \in DOMAIN c /\ c[k] = a[k]
      BY <1>2, <1>3, Zenon
    <3> QED
      BY <3>1 DEF ToSet
  <2>3. \A k \in 1..n : b[k] \in ToSet(c)
    <3>1. \A k \in 1..n : m + k \in DOMAIN c /\ c[m + k] = b[k]
      BY <1>2, <1>3, Zenon
    <3> QED
      BY <3>1 DEF ToSet
  <2>2. ToSet(c) \subseteq ToSet(a) \cup ToSet(b)
    BY <1>2, <1>3, Zenon DEF ToSet
  <2> QED
    BY <1>2, <2>1, <2>2, <2>3 DEF ToSet
<1>5. ASSUME IsInjective(a), IsInjective(b), ToSet(a) \cap ToSet(b) = {}
      PROVE  IsInjective(c)
  <2>1. \A i, j \in 1..m : a[i] = a[j] => i = j
    BY <1>2, <1>5 DEF IsInjective
  <2>2. \A i, j \in 1..n : b[i] = b[j] => i = j
    BY <1>2, <1>5 DEF IsInjective
  <2>3. \A i \in 1..m, j \in 1..n : a[i] # b[j]
    BY <1>2, <1>5 DEF ToSet
  <2>4. ASSUME NEW i \in 1..(m + n), NEW j \in 1..(m + n), c[i] = c[j]
        PROVE  i = j
    <3>1. \/ i \in 1..m /\ c[i] = a[i]
          \/ \E k \in 1..n : i = m + k /\ c[i] = b[k]
      BY <1>3
    <3>2. \/ j \in 1..m /\ c[j] = a[j]
          \/ \E k \in 1..n : j = m + k /\ c[j] = b[k]
      BY <1>3
    <3> QED
      BY <2>1, <2>2, <2>3, <2>4, <3>1, <3>2
  <2> QED
    BY <1>2, <2>4, Zenon DEF IsInjective
<1> QED
  BY <1>4, <1>5 DEF c

\* What Placed says of each list is what SourceInOnePlace says of all of them.
LEMMA OnePlace ==
  ASSUME RegistryInv
  PROVE  SourceInOnePlace
<1> DEFINE a == sourcesListV
           b == newSourcesListV
           c == IF initialising = 0 THEN << >> ELSE <<initialising>>
           S == DOMAIN source
<1>1. /\ a \in Seq(S) /\ b \in Seq(S) /\ initialising \in S \cup {0} /\ 0 \notin S
  <2>1. DOMAIN source = 1..Len(source) /\ Len(source) \in Nat
    BY LenProperties DEF RegistryInv, TypeOK, RegistryTypes
  <2> QED
    BY <2>1 DEF RegistryInv, TypeOK, RegistryTypes
<1>2. /\ IsInjective(a) /\ IsInjective(b) /\ ToSet(a) \cap ToSet(b) = {}
      /\ initialising \notin ToSet(a) \cup ToSet(b)
      /\ S \subseteq ToSet(a) \cup ToSet(b) \cup {initialising}
      /\ ToSet(a) \subseteq S /\ ToSet(b) \subseteq S
  BY <1>1, LenProperties, ElementOfSeq DEF RegistryInv, Placed, ToSet
<1>3. /\ c \in Seq(S) /\ IsInjective(c)
      /\ ToSet(c) = {initialising} \ {0}
  <2>1. CASE initialising = 0
    BY <2>1, EmptySeq DEF ToSet, IsInjective
  <2>2. CASE initialising # 0
    <3> DEFINE e == <<initialising>>
    <3>1. e \in Seq(S) /\ DOMAIN e = {1} /\ e[1] = initialising
      BY <1>1, <2>2
    <3> HIDE DEF e
    <3>2. IsInjective(e) /\ ToSet(e) = {initialising}
      BY <3>1 DEF ToSet, IsInjective
    <3> QED
      BY <2>2, <3>1, <3>2 DEF e
  <2> QED
    BY <2>1, <2>2
<1> HIDE DEF a, b, c, S
<1>4. /\ a \o b \in Seq(S) /\ IsInjective(a \o b) /\ ToSet(a \o b) = ToSet(a) \cup ToSet(b)
  BY <1>1, <1>2, ConcatInjective, ConcatProperties
<1>5. /\ IsInjective(a \o b \o c) /\ ToSet(a \o b \o c) = ToSet(a) \cup ToSet(b) \cup ToSet(c)
  <2> DEFINE ab == a \o b
  <2>1. /\ ab \in Seq(S) /\ IsInjective(ab) /\ ToSet(ab) = ToSet(a) \cup ToSet(b)
        /\ ToSet(ab) \cap ToSet(c) = {}
    BY <1>2, <1>3, <1>4
  <2> HIDE DEF ab
  <2>2. IsInjective(ab \o c) /\ ToSet(ab \o c) = ToSet(ab) \cup ToSet(c)
    BY <1>3, <2>1, ConcatInjective
  <2> QED
    BY <2>1, <2>2 DEF ab
<1>6. ToSet(a \o b \o c) = S
  BY <1>1, <1>2, <1>3, <1>5
<1> QED
  BY <1>5, <1>6 DEF SourceInOnePlace, a, b, c, S

\* Whatever requests fail in between, no source is lost from the lists and none is in
\* two, so that init of a source is executed once (signal-composer.cpp:430).
THEOREM SourcesInOnePlace == Spec => []SourceInOnePlace
BY RegistryKept, OnePlace, PTL

\* Between requests every signal that a source with a getSignals action accepted has been
\* subscribed: the loop that cleans reaches every one that was refused (source.cpp:234).
THEOREM NoneUnsubscribedWhenIdle == Spec => []SubscribedWhenIdle
<1>1. RegistryInv => SubscribedWhenIdle
  <2> SUFFICES ASSUME RegistryInv, pc = "idle", NEW k \in DOMAIN sourcesListV
               PROVE  AllSubscribed(sourcesListV[k])
    BY DEF SubscribedWhenIdle, AllSubscribed
  <2>1. sourcesListV[k] \in DOMAIN source
    BY LenProperties, ElementOfSeq DEF RegistryInv, TypeOK, RegistryTypes
  <2> QED
    BY <2>1 DEF RegistryInv, SubscribedSoFar
<1> QED
  BY <1>1, RegistryKept, PTL

\* Of the steps that change the maps, those that take a subscribed signal from the
\* accepted ones put the new one of its uid in its place.
LEMMA SubscribedStayStep ==
  ASSUME RegistryInv, [Next]_vars,
         NEW s \in DOMAIN source, NEW i \in DOMAIN source[s].signalsM,
         signal[source[s].signalsM[i]].subscribed
  PROVE  /\ i \in DOMAIN source'[s].signalsM
         /\ \/ source'[s].signalsM[i] = source[s].signalsM[i]
            \/ /\ i \in DOMAIN source[s].newSignalsM
               /\ source'[s].signalsM[i] = source[s].newSignalsM[i]
<1> USE DEF RegistryInv
<1>1. CASE source'[s].signalsM = source[s].signalsM
  BY <1>1
<1>2. CASE Accept
  <2>1. CASE s = Current
    <3>1. /\ source'[s].signalsM = Extend(source[s].signalsM, Min(Rest), At)
          /\ Min(Rest) \in DOMAIN source[s].newSignalsM
          /\ At = source[s].newSignalsM[Min(Rest)]
      BY <1>2, <2>1, AcceptIs
    <3> QED
      BY <3>1 DEF Extend
  <2>2. CASE s # Current
    BY <1>1, <1>2, <2>2, AcceptIs
  <2> QED
    BY <2>1, <2>2
<1>3. CASE CleanNotSubscribed
  <2>1. CASE s = Current
    <3> DEFINE k == Min(NotSubscribed)
    <3>1. source'[s].signalsM = Without(source[s].signalsM, k)
      BY <1>3, <2>1, CleanIs
    <3>2. k # i
      BY <1>3, <2>1, NotSubscribedIs DEF CleanNotSubscribed
    <3> HIDE DEF k
    <3> QED
      BY <3>1, <3>2 DEF Without, Restrict
  <2>2. CASE s # Current
    BY <1>1, <1>3, <2>2, CleanIs
  <2> QED
    BY <2>1, <2>2
<1>4. CASE UNCHANGED source
  BY <1>1, <1>4
<1>5. ASSUME NEW u \in Uid \cup {SelfUid}, NEW api \in ApiSet, AppendSource(u, api)
      PROVE  source'[s].signalsM = source[s].signalsM
  BY <1>5, AppendSourceIs DEF TypeOK
<1>6. ASSUME NEW d \in Definition, LoadOneSignal(d)
      PROVE  source'[s].signalsM = source[s].signalsM
  BY <1>6, GetSourceAPIIs, AddSignalIs DEF LoadOneSignal, TypeOK
<1> QED
  BY <1>1, <1>2, <1>3, <1>4, <1>5, <1>6, RegistryStep DEF Init1, HandleEvents, Init2, registry, vars

\* No request, and no cleaning, takes away a signal that was subscribed: only a new
\* signal of its uid and source does, which takes its place.
THEOREM SubscribedAreKept == Spec => SubscribedStay
<1>1. RegistryInv /\ [Next]_vars =>
        [\A s \in DOMAIN source : \A i \in DOMAIN source[s].signalsM :
           signal[source[s].signalsM[i]].subscribed =>
             /\ i \in DOMAIN source'[s].signalsM
             /\ \/ source'[s].signalsM[i] = source[s].signalsM[i]
                \/ /\ i \in DOMAIN source[s].newSignalsM
                   /\ source'[s].signalsM[i] = source[s].newSignalsM[i]]_vars
  BY SubscribedStayStep
<1> QED
  BY <1>1, RegistryKept, PTL DEF Spec, SubscribedStay

=============================================================================
