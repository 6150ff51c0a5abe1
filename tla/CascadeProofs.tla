---------------------------- MODULE CascadeProofs ----------------------------
(***************************************************************************)
(* What holds of Cascade for every graph of signals, with loops or without,*)
(* any clients and any number of threads and values.  Inv is kept by every *)
(* action: first its structure (types, chains of locks), then what it says *)
(* of the values on their way.                                             *)
(***************************************************************************)
EXTENDS CascadeInv, TLAPS

USE NoneAssumption, KindAssumption, GraphAssumption, ClearAssumption, BoundAssumption
    DEF walk, values

-----------------------------------------------------------------------------
(* The structure. *)

\* A raw signal observes nothing (attachToSourceSignals, signal.cpp:478).
LEMMA Graph ==
  /\ \A s \in Raw : Observes[s] = {}
  /\ \A s \in Signal : Rank[s] \in Nat
BY DEF Raw

\* Set keeps the types and the chains (signal.cpp:329).
LEMMA SetStructure ==
  ASSUME Structure, NEW t \in Thread, NEW s \in Signal, Set(t, s)
  PROVE  Structure'
<1> USE DEF Structure, TypeOK, Set, Goto
<1>1. TypeOK'
  BY DEF NoValue, Observers
<1>2. Tops'
  BY Graph DEF Tops, Updating
<1>3. Chained'
  BY Graph DEF Tops, Chained, Updating
<1>4. Updating'
  BY Graph DEF Tops, Chained, Updating, Observers
<1>5. Climbs'
  BY Graph DEF Tops, Climbs, Updating
<1> QED
  BY <1>1, <1>2, <1>3, <1>4, <1>5

\* Lock keeps the types and the chains (observer-pattern.hpp:110).
LEMMA LockStructure ==
  ASSUME Structure, NEW t \in Thread, Lock(t)
  PROVE  Structure'
<1> USE DEF Structure, TypeOK, Lock, Goto
<1>1. TypeOK'
  BY DEF NoValue, Observers
<1>2. Tops'
  BY Graph DEF Tops, Updating
<1>3. Chained'
  BY Graph DEF Tops, Chained, Updating
<1>4. Updating'
  BY Graph DEF Tops, Chained, Updating, Observers
<1>5. Climbs'
  BY Graph DEF Tops, Climbs, Updating
<1> QED
  BY <1>1, <1>2, <1>3, <1>4, <1>5

\* Unlock keeps the types and the chains (observer-pattern.hpp:115).
LEMMA UnlockStructure ==
  ASSUME Structure, NEW t \in Thread, Unlock(t)
  PROVE  Structure'
<1> USE DEF Structure, TypeOK, Unlock, Goto
<1>1. TypeOK'
  BY DEF NoValue, Observers
<1>2. Tops'
  <2>1. top'[t] = caller[top[t]] /\ lock[top[t]] = t
    BY DEF Tops
  <2>2. top'[t] # None => lock'[top'[t]] = t
    BY <2>1, Graph DEF Chained
  <2>3. pc'[t] = "idle" => top'[t] = None
    BY <2>1
  <2>4. ASSUME NEW s \in Signal, lock'[s] = t
        PROVE  top'[t] \in Signal /\ (s = top'[t] \/ depth[s] < depth[top'[t]])
    <3>1. lock[s] = t /\ s # top[t]
      BY <2>4
    <3>2. depth[s] < depth[top[t]]
      BY <3>1 DEF Tops
    <3> QED
      BY <2>1, <3>1, <3>2 DEF Chained
  <2>5. ASSUME NEW u \in Thread, u # t
        PROVE  /\ top'[u] # None => lock'[top'[u]] = u
               /\ pc'[u] = "idle" => top'[u] = None
               /\ \A s \in Signal : lock'[s] = u =>
                    top'[u] \in Signal /\ (s = top'[u] \/ depth[s] < depth[top'[u]])
    BY <2>1, <2>5 DEF Tops
  <2> QED
    BY <2>2, <2>3, <2>4, <2>5 DEF Tops
<1>3. Chained'
  BY Graph DEF Tops, Chained, Updating
<1>4. Updating'
  BY Graph DEF Tops, Chained, Updating, Observers
<1>5. Climbs'
  BY Graph DEF Tops, Climbs, Updating
<1> QED
  BY <1>1, <1>2, <1>3, <1>4, <1>5

\* Render keeps the types and the chains (clientApp.cpp:27).
LEMMA RenderStructure ==
  ASSUME Structure, NEW t \in Thread, NEW c \in Client, Render(t, c)
  PROVE  Structure'
<1> USE DEF Structure, TypeOK, Render, Goto
<1>1. TypeOK'
  BY DEF NoValue, Observers
<1>2. Tops'
  BY Graph DEF Tops, Updating
<1>3. Chained'
  BY Graph DEF Tops, Chained, Updating
<1>4. Updating'
  BY Graph DEF Tops, Chained, Updating, Observers
<1>5. Climbs'
  BY Graph DEF Tops, Climbs, Updating
<1> QED
  BY <1>1, <1>2, <1>3, <1>4, <1>5

\* Push keeps the types and the chains (clientApp.cpp:30).
LEMMA PushStructure ==
  ASSUME Structure, NEW t \in Thread, Push(t)
  PROVE  Structure'
<1> USE DEF Structure, TypeOK, Push, Goto
<1>1. TypeOK'
  BY DEF NoValue, Observers
<1>2. Tops'
  BY Graph DEF Tops, Updating
<1>3. Chained'
  BY Graph DEF Tops, Chained, Updating
<1>4. Updating'
  BY Graph DEF Tops, Chained, Updating, Observers
<1>5. Climbs'
  BY Graph DEF Tops, Climbs, Updating
<1> QED
  BY <1>1, <1>2, <1>3, <1>4, <1>5

\* Visit keeps the types and the chains (signal.cpp:357).
LEMMA VisitStructure ==
  ASSUME Structure, NEW t \in Thread, NEW v \in Signal, Visit(t, v)
  PROVE  Structure'
<1> USE DEF Structure, TypeOK, Visit, Goto
<1>1. TypeOK'
  BY DEF NoValue, Observers
<1>2. Tops'
  BY Graph DEF Tops, Updating
<1>3. Chained'
  BY Graph DEF Tops, Chained, Updating
<1>4. Updating'
  BY Graph DEF Tops, Chained, Updating, Observers
<1>5. Climbs'
  BY Graph DEF Tops, Climbs, Updating
<1> QED
  BY <1>1, <1>2, <1>3, <1>4, <1>5

\* Read keeps the types and the chains (signal.cpp:371).
LEMMA ReadStructure ==
  ASSUME Structure, NEW t \in Thread, NEW d \in Signal, Read(t, d)
  PROVE  Structure'
<1> USE DEF Structure, TypeOK, Read
<1>1. TypeOK'
  BY DEF NoValue, Observers
<1>2. Tops'
  BY Graph DEF Tops, Updating
<1>3. Chained'
  BY Graph DEF Tops, Chained, Updating
<1>4. Updating'
  BY Graph DEF Tops, Chained, Updating, Observers
<1>5. Climbs'
  BY Graph DEF Tops, Climbs, Updating
<1> QED
  BY <1>1, <1>2, <1>3, <1>4, <1>5

\* ReadTrigger keeps the types and the chains (signal.cpp:376).
LEMMA ReadTriggerStructure ==
  ASSUME Structure, NEW t \in Thread, ReadTrigger(t)
  PROVE  Structure'
<1> USE DEF Structure, TypeOK, ReadTrigger, Goto
<1>1. TypeOK'
  BY DEF NoValue, Observers
<1>2. Tops'
  BY Graph DEF Tops, Updating
<1>3. Chained'
  BY Graph DEF Tops, Chained, Updating
<1>4. Updating'
  BY Graph DEF Tops, Chained, Updating, Observers
<1>5. Climbs'
  BY Graph DEF Tops, Climbs, Updating
<1> QED
  BY <1>1, <1>2, <1>3, <1>4, <1>5

\* Act keeps the types and the chains (signal.cpp:378).
LEMMA ActStructure ==
  ASSUME Structure, NEW t \in Thread, Act(t)
  PROVE  Structure'
<1> USE DEF Structure, TypeOK, Act, Goto
<1>1. TypeOK'
  <2>1. cur[t] \in Signal /\ top[t] \in Signal
    OBVIOUS
  <2>2. ver' \in [Signal -> Nat]
    <3>1. CASE ver' = ver
      BY <3>1
    <3>2. CASE ver' = [ver EXCEPT ![cur[t]] = @ + 1]
      <4>1. ver \in [Signal -> Nat] /\ ver[cur[t]] + 1 \in Nat
        BY <2>1
      <4> QED
        BY <2>1, <3>2, <4>1
    <3> QED
      BY <3>1, <3>2
  <2>3. basis' \in [Signal -> [Signal -> Nat]]
    <3>1. got[t] \in [Signal -> Nat]
      OBVIOUS
    <3> QED
      BY <2>1, <3>1
  <2>4. got' \in [Thread -> [Signal -> Nat]]
    BY DEF NoValue
  <2>5. pc' \in [Thread -> {"idle", "lock", "visit", "read", "act", "push"}]
    <3>1. PICK to \in {"lock", "visit"} : pc' = [pc EXCEPT ![t] = to]
      OBVIOUS
    <3>2. pc \in [Thread -> {"idle", "lock", "visit", "read", "act", "push"}]
      OBVIOUS
    <3> HIDE DEF Structure, TypeOK, Act, Goto
    <3> QED
      BY <3>1, <3>2
  <2> QED
    BY <2>1, <2>2, <2>3, <2>4, <2>5
<1>2. Tops'
  BY Graph DEF Tops, Updating
<1>3. Chained'
  BY Graph DEF Tops, Chained, Updating
<1>4. Updating'
  BY Graph DEF Tops, Chained, Updating, Observers
<1>5. Climbs'
  BY Graph DEF Tops, Climbs, Updating
<1> QED
  BY <1>1, <1>2, <1>3, <1>4, <1>5

-----------------------------------------------------------------------------
(* The values on their way: what a step leaves alone. *)

\* A walk under way tells and updates as before, if its lists, its locks and the
\* threads at them stay (observer-pattern.hpp:108).
LEMMA TellingFrame ==
  ASSUME Telling, UNCHANGED <<ver, seen>>,
         \A s \in Signal : Awaited(s) => Awaited(s)',
         \A s \in Signal, c \in Client : ToTell(s, c) => ToTell(s, c)'
  PROVE  Telling'
BY DEF Telling

\* The same of what virtual signals were computed from.
LEMMA ComputingFrame ==
  ASSUME Computing, UNCHANGED <<ver, basis>>,
         \A s \in Signal : Awaited(s) => Awaited(s)',
         \A d \in Signal, v \in Signal : ToUpdate(d, v) => ToUpdate(d, v)' \/ Updated(v)',
         \A v \in Signal : Updated(v) => Updated(v)'
  PROVE  Computing'
BY DEF Computing, Rooted

\* What an event sets is awaited until its walk begins (signal.cpp:329).
LEMMA SetValues ==
  ASSUME Inv, NEW t \in Thread, NEW s \in Signal, Set(t, s)
  PROVE  Inv'
<1> USE DEF Inv, Structure, TypeOK, Set, Goto
<1>1. Structure'
  BY SetStructure
<1>2. Pushing'
  BY DEF Pushing, Tops, Waits, Awaited
<1>3. Telling'
  BY DEF Telling, ToTell, Pushing, Tops, Waits, Awaited
<1>4. UnderRoot'
  BY RootAssumption DEF UnderRoot, Rooted, Updating, Tops, Chained
<1>5. Fresh'
  <2>1. \A x \in Signal : Awaited(x) => Awaited(x)'
    BY DEF Waits, Awaited
  <2>2. Awaited(s)' /\ \A x \in Signal \ {s} : ver'[x] = ver[x]
    BY DEF Waits, Awaited
  <2>3. ASSUME NEW u \in Thread, pc'[u] \in {"read", "act"}, cur'[u] \in Rooted,
               NEW d \in Depends[cur'[u]]
        PROVE  \/ pc'[u] = "read" /\ (d \in toRead'[u] \/ d = top'[u])
               \/ got'[u][d] = ver'[d]
               \/ Awaited(d)'
    <3>1. u # t /\ pc[u] = pc'[u] /\ cur[u] = cur'[u] /\ d \in Signal
      BY <2>3 DEF Rooted
    <3> QED
      BY <2>1, <2>2, <2>3, <3>1 DEF Fresh
  <2> QED
    BY <2>3 DEF Fresh
<1>6. Computing'
  <2>1. \A x \in Signal : Awaited(x) => Awaited(x)'
    BY DEF Waits, Awaited
  <2>2. Awaited(s)' /\ \A x \in Signal \ {s} : ver'[x] = ver[x]
    BY DEF Waits, Awaited
  <2>3. /\ \A d \in Signal, v \in Signal : ToUpdate(d, v) => ToUpdate(d, v)'
        /\ \A v \in Signal : Updated(v) => Updated(v)'
    BY DEF ToUpdate, Updated
  <2>4. \A v \in Rooted : v \in Signal /\ Depends[v] \subseteq Signal
    BY DEF Rooted
  <2> QED
    BY <2>1, <2>2, <2>3, <2>4 DEF Computing
<1> QED
  BY <1>1, <1>2, <1>3, <1>4, <1>5, <1>6

\* The walk that was awaited begins with all the observers,
\* and with what they were owed (observer-pattern.hpp:110).
LEMMA LockValues ==
  ASSUME Inv, NEW t \in Thread, Lock(t)
  PROVE  Inv'
<1> USE DEF Inv, Structure, TypeOK, Lock, Goto
<1>1. Structure'
  BY LockStructure
<1>2. Pushing'
  <2>1. ASSUME NEW s \in Signal, Awaited(s), s # cur[t] PROVE Awaited(s)'
    BY <2>1 DEF Waits, Awaited
  <2>2. ASSUME NEW u \in Thread, pc'[u] = "push"
        PROVE  /\ pc[u] = "push" /\ UNCHANGED <<held[u], top[u], cur[u], ver, seen>>
               /\ top[u] \in Signal /\ top[u] # cur[t]
    <3>1. u # t /\ pc[u] = "push" /\ UNCHANGED <<held[u], top[u], cur[u], ver, seen>>
      BY <2>2
    <3>2. top[u] \in Signal /\ lock[top[u]] = u
      BY <3>1 DEF Tops
    <3> QED
      BY <3>1, <3>2
  <2> QED
    BY <2>1, <2>2 DEF Pushing
<1>3. Telling'
  <2>1. ASSUME NEW s \in Signal, s # cur[t]
        PROVE  /\ Awaited(s) => Awaited(s)'
               /\ \A c \in Client : ToTell(s, c) => ToTell(s, c)'
    BY <2>1 DEF Waits, Awaited, ToTell
  <2>2. \A c \in Client : cur[t] \in Watches[c] => ToTell(cur[t], c)'
    BY DEF ToTell, Observers
  <2>3. \A c \in Client : Watches[c] \subseteq Signal
    OBVIOUS
  <2>4. ASSUME NEW c \in Client, NEW s \in Watches[c]
        PROVE  /\ seen'[s][c] <= ver'[s]
               /\ seen'[s][c] = ver'[s] \/ Awaited(s)' \/ ToTell(s, c)'
    <3>1. UNCHANGED <<seen, ver>> /\ s \in Signal
      BY <2>3
    <3>2. /\ seen[s][c] <= ver[s]
          /\ seen[s][c] = ver[s] \/ Awaited(s) \/ ToTell(s, c)
      BY DEF Telling
    <3> QED
      BY <2>1, <2>2, <3>1, <3>2
  <2> QED
    BY <2>4 DEF Telling
<1>4. UnderRoot'
  BY RootAssumption DEF UnderRoot, Rooted, Updating, Tops, Chained
<1>5. Fresh'
  <2>1. ASSUME NEW u \in Thread, pc'[u] \in {"read", "act"}, cur'[u] \in Rooted,
               NEW d \in Depends[cur'[u]]
        PROVE  \/ pc'[u] = "read" /\ (d \in toRead'[u] \/ d = top'[u])
               \/ got'[u][d] = ver'[d]
               \/ Awaited(d)'
    <3>1. u # t /\ UNCHANGED <<pc[u], cur[u], toRead[u], got[u], top[u], ver>>
      BY <2>1
    <3>2. d \in Signal /\ Root[d] = Root[cur[u]] /\ lock[Root[cur[u]]] = u
      BY <2>1, <3>1, RootAssumption DEF Rooted, UnderRoot
    <3>3. d # cur[t]
      <4>1. CASE d \in Raw
        BY <3>1, <3>2, <4>1, RootAssumption
      <4>2. CASE d \notin Raw
        <5>1. d \in Rooted
          BY <2>1, <3>1, <3>2, <4>2 DEF Rooted
        <5> QED
          BY <3>1, <3>2, <5>1 DEF UnderRoot
      <4> QED
        BY <4>1, <4>2
    <3>4. Awaited(d) => Awaited(d)'
      BY <3>3 DEF Waits, Awaited
    <3> QED
      BY <2>1, <3>1, <3>4 DEF Fresh
  <2> QED
    BY <2>1 DEF Fresh
<1>6. Computing'
  <2>1. ASSUME NEW s \in Signal, s # cur[t]
        PROVE  /\ Awaited(s) => Awaited(s)'
               /\ \A v \in Signal : ToUpdate(s, v) => ToUpdate(s, v)'
    BY <2>1 DEF Waits, Awaited, ToUpdate
  <2>2. \A v \in Signal : cur[t] \in Observes[v] => ToUpdate(cur[t], v)'
    BY DEF ToUpdate, Observers
  <2>3. \A v \in Signal : Updated(v) => Updated(v)'
    BY DEF Updated
  <2>4. \A v \in Rooted : v \in Signal /\ Depends[v] = Observes[v]
    BY RootAssumption DEF Rooted
  <2>5. ASSUME NEW v \in Rooted, NEW d \in Depends[v]
        PROVE  basis'[v][d] = ver'[d] \/ Awaited(d)' \/ ToUpdate(d, v)' \/ Updated(v)'
    <3>1. d \in Signal /\ v \in Signal
      BY <2>4
    <3>2. CASE d = cur[t]
      BY <2>2, <2>4, <3>1, <3>2
    <3>3. CASE d # cur[t]
      BY <2>1, <2>3, <3>1, <3>3 DEF Computing
    <3> QED
      BY <3>2, <3>3
  <2> QED
    BY <2>5 DEF Computing
<1> QED
  BY <1>1, <1>2, <1>3, <1>4, <1>5, <1>6

\* When a walk ends nobody is owed anything by it, and when it is that of the
\* root the thread is at no other signal (observer-pattern.hpp:115).
LEMMA UnlockValues ==
  ASSUME Inv, NEW t \in Thread, Unlock(t)
  PROVE  Inv'
<1> USE DEF Inv, Structure, TypeOK, Unlock, Goto
<1>1. Structure'
  BY UnlockStructure
<1>2. Pushing'
  <2>1. \A s \in Signal : Awaited(s) => Awaited(s)'
    BY DEF Waits, Awaited
  <2>2. ASSUME NEW u \in Thread, pc'[u] = "push"
        PROVE  /\ pc[u] = "push" /\ top[u] \in Signal
               /\ UNCHANGED <<held[u], top[u], cur[u], ver, seen>>
    BY <2>2
  <2> QED
    BY <2>1, <2>2 DEF Pushing
<1>3. Telling'
  <2>1. \A s \in Signal : Awaited(s) => Awaited(s)'
    BY DEF Waits, Awaited
  <2>2. \A s \in Signal, c \in Client : ToTell(s, c) => ToTell(s, c)'
    <3> SUFFICES ASSUME NEW s \in Signal, NEW c \in Client, ToTell(s, c) PROVE ToTell(s, c)'
      OBVIOUS
    <3>1. PICK u \in Thread :
            lock[s] = u /\ (c \in todo[s] \/ (pc[u] = "push" /\ top[u] = s /\ cur[u] = c))
      BY DEF ToTell
    <3>2. CASE s = top[t]
      <4>1. lock[s] = t /\ u = t
        BY <3>1, <3>2 DEF Tops
      <4> QED
        BY <3>1, <3>2, <4>1
    <3>3. CASE s # top[t]
      <4>1. lock'[s] = u /\ (c \in todo'[s] \/ (pc'[u] = "push" /\ top'[u] = s /\ cur'[u] = c))
        BY <3>1, <3>3
      <4> QED
        BY <4>1 DEF ToTell
    <3> QED
      BY <3>2, <3>3
  <2> QED
    BY <2>1, <2>2, TellingFrame
<1>4. UnderRoot'
  <2>1. lock[top[t]] = t
    BY DEF Tops
  <2>2. ASSUME NEW u \in Thread, NEW v \in Rooted,
               lock'[v] = u \/ (pc'[u] \in {"lock", "read", "act"} /\ cur'[u] = v)
        PROVE  lock'[Root[v]] = u
    <3>1. v \in Signal /\ Root[v] \in Raw /\ Root[v] \in Signal
      BY RootAssumption DEF Rooted, Raw
    <3>2. lock[v] = u \/ (pc[u] \in {"lock", "read", "act"} /\ cur[u] = v)
      BY <2>2
    <3>3. lock[Root[v]] = u
      BY <3>2 DEF UnderRoot
    <3>4. Root[v] # top[t]
      <4> SUFFICES ASSUME Root[v] = top[t] PROVE FALSE
        OBVIOUS
      <4>1. u = t
        BY <2>1, <3>3
      <4>2. lock[v] = t /\ v # top[t]
        BY <2>2, <3>1, <3>2, <4>1 DEF Rooted
      <4>3. depth[v] < depth[top[t]]
        BY <3>1, <4>2 DEF Tops
      <4>4. caller[top[t]] \in Signal /\ caller[top[t]] \in Observes[top[t]]
        BY <2>1, <3>1, <4>2, <4>3 DEF Chained
      <4> QED
        BY <3>1, <4>4, Graph
    <3> QED
      BY <3>1, <3>3, <3>4
  <2> QED
    BY <2>2 DEF UnderRoot
<1>5. Fresh'
  BY DEF Fresh, UnderRoot, Rooted, Waits, Awaited
<1>6. Computing'
  <2>1. \A s \in Signal : Awaited(s) => Awaited(s)'
    BY DEF Waits, Awaited
  <2>2. \A d \in Signal, v \in Signal : ToUpdate(d, v) => ToUpdate(d, v)' \/ Updated(v)'
    BY DEF ToUpdate, Updated
  <2>3. \A v \in Signal : Updated(v) => Updated(v)'
    BY DEF Updated
  <2> QED
    BY <2>1, <2>2, <2>3, ComputingFrame
<1> QED
  BY <1>1, <1>2, <1>3, <1>4, <1>5, <1>6

\* A client that is no longer in the walk is the one that is being pushed (clientApp.cpp:27).
LEMMA RenderValues ==
  ASSUME Inv, NEW t \in Thread, NEW c \in Client, Render(t, c)
  PROVE  Inv'
<1> USE DEF Inv, Structure, TypeOK, Render, Goto
<1>1. Structure'
  BY RenderStructure
<1>2. Pushing'
  <2>1. \A s \in Signal : Awaited(s) => Awaited(s)'
    <3>1. \A u \in Thread : u # t => pc'[u] = pc[u] /\ cur'[u] = cur[u]
      OBVIOUS
    <3>2. pc[t] = "visit"
      OBVIOUS
    <3> HIDE DEF Inv, Structure, TypeOK, Render, Goto
    <3> QED
      BY <3>1, <3>2 DEF Waits, Awaited
  <2>2. top[t] \in Watches[c] /\ top[t] \in Signal
    <3>1. top[t] \in Signal /\ c \in todo[top[t]]
      OBVIOUS
    <3>2. lock[top[t]] = t
      BY <3>1 DEF Tops
    <3>3. c \in Observers(top[t])
      BY <3>1, <3>2 DEF Chained
    <3> QED
      BY <3>1, <3>3 DEF Observers
  <2>3. ASSUME NEW u \in Thread, pc'[u] = "push", u # t
        PROVE  /\ pc[u] = "push" /\ top[u] \in Signal
               /\ UNCHANGED <<held[u], top[u], cur[u], ver, seen>>
    BY <2>3
  <2>4. held'[t] = ver'[top'[t]] /\ seen'[top'[t]][cur'[t]] <= ver'[top'[t]]
    BY <2>2 DEF Telling
  <2> QED
    BY <2>1, <2>3, <2>4 DEF Pushing
<1>3. Telling'
  <2>1. \A s \in Signal : Awaited(s) => Awaited(s)'
    BY DEF Waits, Awaited
  <2>2. \A s \in Signal, x \in Client : ToTell(s, x) => ToTell(s, x)'
    BY DEF ToTell, Tops
  <2> QED
    BY <2>1, <2>2, TellingFrame
<1>4. UnderRoot'
  BY RootAssumption DEF UnderRoot, Rooted, Updating, Tops, Chained
<1>5. Fresh'
  BY DEF Fresh, UnderRoot, Rooted, Waits, Awaited
<1>6. Computing'
  <2>1. \A s \in Signal : Awaited(s) => Awaited(s)'
    BY DEF Waits, Awaited
  <2>2. \A d \in Signal, v \in Signal : ToUpdate(d, v) => ToUpdate(d, v)' \/ Updated(v)'
    BY DEF ToUpdate, Updated
  <2>3. \A v \in Signal : Updated(v) => Updated(v)'
    BY DEF Updated
  <2> QED
    BY <2>1, <2>2, <2>3, ComputingFrame
<1> QED
  BY <1>1, <1>2, <1>3, <1>4, <1>5, <1>6

\* A client that was pushed a value that is not the last is awaited for the last (clientApp.cpp:30).
LEMMA PushValues ==
  ASSUME Inv, NEW t \in Thread, Push(t)
  PROVE  Inv'
<1> USE DEF Inv, Structure, TypeOK, Push, Goto
<1>1. Structure'
  BY PushStructure
<1>2. Pushing'
  <2>1. \A s \in Signal : Awaited(s) => Awaited(s)'
    BY DEF Waits, Awaited
  <2>2. ASSUME NEW u \in Thread, pc'[u] = "push"
        PROVE  /\ pc[u] = "push" /\ u # t /\ top[u] \in Signal /\ top[u] # top[t]
               /\ UNCHANGED <<held[u], top[u], cur[u], ver>> /\ seen'[top[u]] = seen[top[u]]
    <3>1. u # t /\ pc[u] = "push" /\ UNCHANGED <<held[u], top[u], cur[u], ver>>
      BY <2>2
    <3>2. /\ top[u] \in Signal /\ lock[top[u]] = u
          /\ top[t] \in Signal /\ lock[top[t]] = t
      BY <3>1 DEF Tops
    <3>3. top[u] # top[t]
      BY <3>1, <3>2
    <3> QED
      BY <3>1, <3>2, <3>3
  <2> QED
    BY <2>1, <2>2 DEF Pushing
<1>3. Telling'
  <2>1. \A s \in Signal : Awaited(s) => Awaited(s)'
    BY DEF Waits, Awaited
  <2>2. top[t] \in Signal /\ cur[t] \in Client /\ lock[top[t]] = t
    BY DEF Tops
  <2>3. ASSUME NEW s \in Signal, NEW c \in Client, ~(s = top[t] /\ c = cur[t])
        PROVE  seen'[s][c] = seen[s][c] /\ (ToTell(s, c) => ToTell(s, c)')
    BY <2>2, <2>3 DEF ToTell
  <2>4. /\ seen'[top[t]][cur[t]] = held[t]
        /\ held[t] <= ver[top[t]] /\ (held[t] = ver[top[t]] \/ Awaited(top[t]))
    BY <2>2 DEF Pushing
  <2>5. \A c \in Client : Watches[c] \subseteq Signal
    OBVIOUS
  <2> QED
    BY <2>1, <2>3, <2>4, <2>5 DEF Telling
<1>4. UnderRoot'
  BY RootAssumption DEF UnderRoot, Rooted, Updating, Tops, Chained
<1>5. Fresh'
  BY DEF Fresh, UnderRoot, Rooted, Waits, Awaited
<1>6. Computing'
  <2>1. \A s \in Signal : Awaited(s) => Awaited(s)'
    BY DEF Waits, Awaited
  <2>2. \A d \in Signal, v \in Signal : ToUpdate(d, v) => ToUpdate(d, v)' \/ Updated(v)'
    BY DEF ToUpdate, Updated
  <2>3. \A v \in Signal : Updated(v) => Updated(v)'
    BY DEF Updated
  <2> QED
    BY <2>1, <2>2, <2>3, ComputingFrame
<1> QED
  BY <1>1, <1>2, <1>3, <1>4, <1>5, <1>6

\* A signal that is no longer in the walk is being updated, and has
\* everything to read (signal.cpp:357).
LEMMA VisitValues ==
  ASSUME Inv, NEW t \in Thread, NEW v \in Signal, Visit(t, v)
  PROVE  Inv'
<1> USE DEF Inv, Structure, TypeOK, Visit, Goto
<1>1. Structure'
  BY VisitStructure
<1>2. Pushing'
  BY DEF Pushing, Tops, Waits, Awaited
<1>3. Telling'
  BY DEF Telling, ToTell, Pushing, Tops, Waits, Awaited
<1>4. UnderRoot'
  <2>1. top[t] \in Observes[v] /\ top[t] \in Signal /\ lock[top[t]] = t
    BY DEF Tops, Chained, Observers
  <2>2. v \in Rooted => lock[Root[v]] = t
    <3> SUFFICES ASSUME v \in Rooted PROVE lock[Root[v]] = t
      OBVIOUS
    <3>1. Root[top[t]] = Root[v] /\ Root[v] # None
      BY <2>1, RootAssumption DEF Rooted
    <3>2. CASE top[t] \in Raw
      BY <2>1, <3>1, <3>2, RootAssumption
    <3>3. CASE top[t] \notin Raw
      <4>1. top[t] \in Rooted
        BY <2>1, <3>1, <3>3 DEF Rooted
      <4> QED
        BY <2>1, <3>1, <4>1 DEF UnderRoot
    <3> QED
      BY <3>2, <3>3
  <2> QED
    BY <2>2 DEF UnderRoot
<1>5. Fresh'
  BY DEF Fresh, UnderRoot, Rooted, Waits, Awaited
<1>6. Computing'
  <2>1. \A s \in Signal : Awaited(s) => Awaited(s)'
    BY DEF Waits, Awaited
  <2>2. \A d \in Signal, u \in Signal : ToUpdate(d, u) => ToUpdate(d, u)' \/ Updated(u)'
    BY DEF ToUpdate, Updated
  <2>3. \A u \in Signal : Updated(u) => Updated(u)'
    BY DEF Updated
  <2> QED
    BY <2>1, <2>2, <2>3, ComputingFrame
<1> QED
  BY <1>1, <1>2, <1>3, <1>4, <1>5, <1>6

\* A dependency that has been read has the value that was read (signal.cpp:371).
LEMMA ReadValues ==
  ASSUME Inv, NEW t \in Thread, NEW d \in Signal, Read(t, d)
  PROVE  Inv'
<1> USE DEF Inv, Structure, TypeOK, Read
<1>1. Structure'
  BY ReadStructure
<1>2. Pushing'
  BY DEF Pushing, Tops, Waits, Awaited
<1>3. Telling'
  BY DEF Telling, ToTell, Pushing, Tops, Waits, Awaited
<1>4. UnderRoot'
  BY RootAssumption DEF UnderRoot, Rooted, Updating, Tops, Chained
<1>5. Fresh'
  BY DEF Fresh, UnderRoot, Rooted, Waits, Awaited
<1>6. Computing'
  <2>1. \A s \in Signal : Awaited(s) => Awaited(s)'
    BY DEF Waits, Awaited
  <2>2. \A x \in Signal, v \in Signal : ToUpdate(x, v) => ToUpdate(x, v)' \/ Updated(v)'
    BY DEF ToUpdate, Updated
  <2>3. \A v \in Signal : Updated(v) => Updated(v)'
    BY DEF Updated
  <2> QED
    BY <2>1, <2>2, <2>3, ComputingFrame
<1> QED
  BY <1>1, <1>2, <1>3, <1>4, <1>5, <1>6

\* The action is given every dependency (signal.cpp:376).
LEMMA ReadTriggerValues ==
  ASSUME Inv, NEW t \in Thread, ReadTrigger(t)
  PROVE  Inv'
<1> USE DEF Inv, Structure, TypeOK, ReadTrigger, Goto
<1>1. Structure'
  BY ReadTriggerStructure
<1>2. Pushing'
  BY DEF Pushing, Tops, Waits, Awaited
<1>3. Telling'
  BY DEF Telling, ToTell, Pushing, Tops, Waits, Awaited
<1>4. UnderRoot'
  BY RootAssumption DEF UnderRoot, Rooted, Updating, Tops, Chained
<1>5. Fresh'
  BY DEF Fresh, UnderRoot, Rooted, Waits, Awaited
<1>6. Computing'
  <2>1. \A s \in Signal : Awaited(s) => Awaited(s)'
    BY DEF Waits, Awaited
  <2>2. \A d \in Signal, v \in Signal : ToUpdate(d, v) => ToUpdate(d, v)' \/ Updated(v)'
    BY DEF ToUpdate, Updated
  <2>3. \A v \in Signal : Updated(v) => Updated(v)'
    BY DEF Updated
  <2> QED
    BY <2>1, <2>2, <2>3, ComputingFrame
<1> QED
  BY <1>1, <1>2, <1>3, <1>4, <1>5, <1>6

\* What the action sets is awaited, and computed from what its dependencies have (signal.cpp:378).
LEMMA ActValues ==
  ASSUME Inv, NEW t \in Thread, Act(t)
  PROVE  Inv'
<1> USE DEF Inv, Structure, TypeOK, Act, Goto
<1>1. Structure'
  BY ActStructure
<1>2. Pushing'
  <2>1. \A s \in Signal : Awaited(s) => Awaited(s)'
    BY DEF Waits, Awaited
  <2>2. \A s \in Signal : ver'[s] = ver[s] \/ (ver'[s] = ver[s] + 1 /\ Awaited(s)')
    BY DEF Waits, Awaited
  <2>3. ASSUME NEW u \in Thread, pc'[u] = "push"
        PROVE  /\ pc[u] = "push" /\ top[u] \in Signal
               /\ UNCHANGED <<held[u], top[u], cur[u], seen>>
    BY <2>3
  <2> QED
    BY <2>1, <2>2, <2>3 DEF Pushing
<1>3. Telling'
  <2>1. \A s \in Signal : Awaited(s) => Awaited(s)'
    BY DEF Waits, Awaited
  <2>2. \A s \in Signal : ver'[s] = ver[s] \/ (ver'[s] = ver[s] + 1 /\ Awaited(s)')
    BY DEF Waits, Awaited
  <2>3. \A s \in Signal, c \in Client : ToTell(s, c) => ToTell(s, c)'
    BY DEF ToTell
  <2>4. \A c \in Client : Watches[c] \subseteq Signal
    OBVIOUS
  <2> QED
    BY <2>1, <2>2, <2>3, <2>4 DEF Telling
<1>4. UnderRoot'
  BY RootAssumption DEF UnderRoot, Rooted, Updating, Tops, Chained
<1>5. Fresh'
  <2>1. \A s \in Signal : Awaited(s) => Awaited(s)'
    BY DEF Waits, Awaited
  <2>2. \A s \in Signal : ver'[s] = ver[s] \/ Awaited(s)'
    BY DEF Waits, Awaited
  <2>3. ASSUME NEW u \in Thread, pc'[u] \in {"read", "act"}, cur'[u] \in Rooted,
               NEW d \in Depends[cur'[u]]
        PROVE  \/ pc'[u] = "read" /\ (d \in toRead'[u] \/ d = top'[u])
               \/ got'[u][d] = ver'[d]
               \/ Awaited(d)'
    <3>1. u # t /\ UNCHANGED <<pc[u], cur[u], toRead[u], got[u], top[u]>> /\ d \in Signal
      BY <2>3 DEF Rooted
    <3> QED
      BY <2>1, <2>2, <2>3, <3>1 DEF Fresh
  <2> QED
    BY <2>3 DEF Fresh
<1>6. Computing'
  <2>1. \A s \in Signal : Awaited(s) => Awaited(s)'
    BY DEF Waits, Awaited
  <2>2. \A s \in Signal : ver'[s] = ver[s] \/ Awaited(s)'
    BY DEF Waits, Awaited
  <2>3. \A d \in Signal, v \in Signal : ToUpdate(d, v) => ToUpdate(d, v)'
    BY DEF ToUpdate
  <2>4. \A v \in Signal : v # cur[t] =>
          (Updated(v) => Updated(v)') /\ basis'[v] = basis[v]
    BY DEF Updated
  <2>5. ASSUME NEW v \in Rooted, NEW d \in Depends[v]
        PROVE  basis'[v][d] = ver'[d] \/ Awaited(d)' \/ ToUpdate(d, v)' \/ Updated(v)'
    <3>1. d \in Signal /\ v \in Signal
      BY DEF Rooted
    <3>2. CASE v = cur[t]
      <4>1. got[t][d] = ver[d] \/ Awaited(d)
        BY <3>2 DEF Fresh
      <4>2. basis'[v][d] = got[t][d]
        BY <3>1, <3>2
      <4> QED
        BY <2>1, <2>2, <3>1, <4>1, <4>2
    <3>3. CASE v # cur[t]
      BY <2>1, <2>2, <2>3, <2>4, <3>1, <3>3 DEF Computing
    <3> QED
      BY <3>2, <3>3
  <2> QED
    BY <2>5 DEF Computing
<1> QED
  BY <1>1, <1>2, <1>3, <1>4, <1>5, <1>6

-----------------------------------------------------------------------------
(* From the steps to the theorems. *)

\* Before the first event nothing has a value, and nobody holds a lock.
LEMMA InvInit == Init => Inv
<1> SUFFICES ASSUME Init PROVE Inv
  OBVIOUS
<1> USE DEF Init, NoValue
<1>1. TypeOK
  BY DEF TypeOK
<1>2. Tops /\ Chained /\ Climbs /\ Updating
  BY DEF Tops, Chained, Climbs, Updating
<1>3. Pushing /\ Telling
  BY DEF Pushing, Telling
<1>4. UnderRoot /\ Fresh
  BY DEF UnderRoot, Fresh, Rooted
<1>5. Computing
  BY DEF Computing, Rooted
<1> QED
  BY <1>1, <1>2, <1>3, <1>4, <1>5 DEF Inv, Structure

\* No step of a thread breaks it: there is one lemma for each action above.
LEMMA InvNext == Inv /\ [Next]_vars => Inv'
<1> SUFFICES ASSUME Inv, [Next]_vars PROVE Inv'
  OBVIOUS
<1>1. ASSUME NEW t \in Thread, Run(t) PROVE Inv'
  BY <1>1, LockValues, UnlockValues, RenderValues, PushValues, VisitValues, ReadValues,
     ReadTriggerValues, ActValues DEF Run
<1>2. ASSUME NEW t \in Thread, NEW s \in Signal, Set(t, s) PROVE Inv'
  BY <1>2, SetValues
<1>3. CASE UNCHANGED vars
  BY <1>3 DEF vars, Inv, Structure, TypeOK, Tops, Chained, Climbs, Updating, Pushing, Telling, ToTell,
              UnderRoot, Fresh, Computing, ToUpdate, Updated, Waits, Awaited
<1> QED
  BY <1>1, <1>2, <1>3 DEF Next

\* The inductive invariant holds for every graph of signals.
THEOREM CascadeInductive == Spec => []Inv
BY InvInit, InvNext, PTL DEF Spec

\* The variables keep their types, and a thread is at a signal where its place
\* says so (signal.cpp:329-380, observer-pattern.hpp:108).
THEOREM CascadeTypes == Spec => []TypeOK
<1>1. Inv => TypeOK
  BY DEF Inv, Structure
<1> QED
  BY CascadeInductive, <1>1, PTL

\* A thread that holds the lock of a signal from which no loop is reached waits
\* only for such signals, above it: no set of threads that waits in a circle holds
\* one, whatever loops the configuration has and however deep the cascade is
\* (notify keeps its lock while it updates, observer-pattern.hpp:110).
THEOREM Climbing == Spec => []LocksClimb
<1>1. Inv => LocksClimb
  <2> SUFFICES ASSUME Inv, NEW t \in Thread, NEW s \in Clear, pc[t] = "lock", lock[s] = t
               PROVE  cur[t] \in Clear /\ Rank[s] < Rank[cur[t]]
    BY DEF LocksClimb
  <2>1. top[t] \in Signal /\ lock[top[t]] = t /\ (s = top[t] \/ depth[s] < depth[top[t]])
    BY DEF Inv, Structure, Tops
  <2>2. top[t] \in Clear /\ (s = top[t] \/ Rank[s] < Rank[top[t]])
    BY <2>1 DEF Inv, Structure, Climbs
  <2>3. cur[t] \in Signal /\ top[t] \in Observes[cur[t]]
    BY <2>1 DEF Inv, Structure, TypeOK, Updating
  <2>4. cur[t] \in Clear /\ Rank[top[t]] < Rank[cur[t]]
    BY <2>2, <2>3
  <2> QED
    BY <2>1, <2>2, <2>3, <2>4
<1> QED
  BY CascadeInductive, <1>1, PTL

\* No client is left with a value that is not the last: whoever set the last one
\* still has to notify, or does (set writes before notify locks, signal.cpp:333).
THEOREM AllTold == Spec => []Told
<1>1. Inv => Told
  <2> SUFFICES ASSUME Inv, NEW c \in Client, NEW s \in Watches[c], seen[s][c] # ver[s]
               PROVE  \E t \in Thread : Notifies(t, s)
    BY DEF Told
  <2>1. Awaited(s) \/ ToTell(s, c)
    BY DEF Inv, Telling
  <2> QED
    BY <2>1 DEF ToTell, Awaited, Waits, Notifies
<1> QED
  BY CascadeInductive, <1>1, PTL

\* The values that a client is pushed never go back, whichever threads push them
\* (clientAppCtx::update is called under the lock of the signal).
THEOREM InOrder == Spec => PushesInOrder
<1> DEFINE Order == \A s \in Signal, c \in Client : seen'[s][c] >= seen[s][c]
<1>1. Inv /\ [Next]_vars => [Order]_vars
  <2> SUFFICES ASSUME Inv, Next PROVE Order
    OBVIOUS
  <2>1. \A s \in Signal, c \in Client : seen[s][c] \in Nat
    BY DEF Inv, Structure, TypeOK
  <2>2. ASSUME NEW t \in Thread, Push(t) PROVE Order
    <3>1. /\ top[t] \in Signal /\ cur[t] \in Client /\ held[t] \in Nat
          /\ seen[top[t]][cur[t]] <= held[t]
      BY <2>2 DEF Push, Goto, Inv, Structure, TypeOK, Pushing
    <3> QED
      BY <2>1, <2>2, <3>1 DEF Push, Inv, Structure, TypeOK
  <2>3. UNCHANGED seen \/ \E t \in Thread : Push(t)
    BY DEF Next, Run, Set, Lock, Unlock, Render, Visit, Read, ReadTrigger, Act
  <2> QED
    BY <2>1, <2>2, <2>3
<1> QED
  BY CascadeInductive, <1>1, PTL DEF Spec, PushesInOrder

\* A virtual signal with one root is computed from what its dependencies have,
\* but while a thread is at the root: the unlocked reads of update (signal.cpp:373)
\* are covered by the lock of the root.
THEOREM Current == Spec => []UpToDate
<1>1. Inv => UpToDate
  <2> SUFFICES ASSUME Inv, NEW v \in Signal, Root[v] # None, NEW d \in Depends[v],
                      basis[v][d] # ver[d]
               PROVE  \E t \in Thread : Notifies(t, Root[v])
    BY DEF UpToDate
  <2>1. v \in Rooted /\ d \in Signal
    BY DEF Rooted, Raw
  <2>2. Root[d] = Root[v] /\ v \in Signal \ Raw
    BY <2>1, RootAssumption DEF Rooted
  <2>3. Awaited(d) \/ ToUpdate(d, v) \/ Updated(v)
    BY <2>1 DEF Inv, Computing
  <2>4. ASSUME NEW t \in Thread, lock[d] = t \/ Waits(t, d) PROVE Notifies(t, Root[v])
    <3>1. CASE d \in Raw
      BY <2>2, <2>4, <3>1, RootAssumption DEF Notifies, Waits
    <3>2. CASE d \notin Raw
      <4>1. d \in Rooted
        BY <2>1, <2>2, <3>2 DEF Rooted
      <4> QED
        BY <2>2, <2>4, <4>1 DEF Inv, UnderRoot, Notifies, Waits
    <3> QED
      BY <3>1, <3>2
  <2>5. ASSUME NEW t \in Thread, pc[t] \in {"read", "act"}, cur[t] = v
        PROVE  Notifies(t, Root[v])
    BY <2>1, <2>5 DEF Inv, UnderRoot, Notifies
  <2> QED
    BY <2>3, <2>4, <2>5 DEF Awaited, ToUpdate, Updated
<1> QED
  BY CascadeInductive, <1>1, PTL

=============================================================================
