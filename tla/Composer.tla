------------------------------ MODULE Composer ------------------------------
(***************************************************************************)
(* The registry of the binding: class Composer, class SourceAPI, and the   *)
(* part of Signal that builds, attaches, checks and destroys signals.      *)
(*                                                                         *)
(* Configurations are loaded at start (loadConf, then execConf) and by the *)
(* verb addObjects.  Both go through the same stages, which pc names; only *)
(* the order differs: at start the sources are initialised after the       *)
(* signals are loaded.  What a configuration holds is chosen while it is   *)
(* loaded.  Requests that change the registry come one at a time.  The     *)
(* loops over the signals of a source take a step for each signal, and one *)
(* for each dependency; events come between any two steps.                 *)
(*                                                                         *)
(* A signal, like a source, is numbered in the order of creation.  A uid   *)
(* of a signal is a natural number whose order is the order of the maps.   *)
(***************************************************************************)
EXTENDS Naturals, Sequences, FiniteSets, Functions, SequencesExt

CONSTANTS
  Uid,         \* uids of the sources that configurations declare
  SelfUid,     \* "Signal-Composer-service", the source of the virtual signals
  SelfApi,     \* the API of the binding, and the one of its configuration
  ApiOf,       \* the API of each source that configurations declare
  WithInit,    \* the sources that have an init action
  Subscribing, \* the sources whose getSignals action could be loaded
  Id,          \* uids of signals
  Definition,  \* the signals that configurations declare
  MaxSources,  \* bound on the sources created
  MaxSignals,  \* bound on the signals created
  MaxRequests  \* bound on the requests of addObjects

ASSUME UidAssumption ==
  SelfUid \notin Uid /\ WithInit \cup Subscribing \subseteq Uid /\ Id \subseteq Nat
ASSUME RequestsAssumption == MaxRequests \in Nat
\* A raw signal depends on nothing and names the API of its event.
ASSUME DefinitionAssumption ==
  \A d \in Definition :
    /\ DOMAIN d = {"id", "api", "depends"}
    /\ d.id \in Id /\ d.depends \in Seq(Id)
    /\ d.depends # << >> => d.api = SelfApi

VARIABLES
  source,          \* the sources: uid_, api_, signalsM_ and newSignalsM_ of each
  sourcesListV,    \* the sources initialised
  newSourcesListV, \* the sources loaded, initialised from the back
  initialising,    \* the source that is in neither list while init runs, or 0
  handled,         \* the APIs whose events reach onSourceEvents
  signal,          \* the signals: id_, dependsSigV_ and subscribed_ of each
  observers,       \* observerList_ of each signal
  observables,     \* observableList_ of each signal
  verb,            \* the signal that the verb of a name was added for, or 0
  boot,            \* is the configuration being loaded that of the start
  pc,              \* the stage
  todo,            \* the position in sourcesListV of the source whose turn it is
  visited,         \* the uids that the loop over newSignalsM has gone over
  dep,             \* how many dependencies of the signal it is at are attached
  err,             \* has something failed in the stage
  reply,           \* the answer of the last addObjects
  requests,        \* how often addObjects has been asked
  fault            \* how the process died, or "none"

registry == <<source, sourcesListV, newSourcesListV, initialising, handled>>
graph    == <<signal, observers, observables, verb>>
loop     == <<todo, visited, dep>>
control  == <<boot, pc, loop, err, reply, requests>>
vars     == <<registry, graph, control, fault>>

Objects == DOMAIN signal

\* The signals that are in a map, which is what keeps them.
Kept(s, m) == {source[s][m][i] : i \in DOMAIN source[s][m]}
Live       == UNION {Kept(s, "signalsM") \cup Kept(s, "newSignalsM") : s \in DOMAIN source}
Accepted   == UNION {Kept(s, "signalsM") : s \in DOMAIN source}

\* A map of signals by their uids.
Map    == UNION {[I -> Objects] : I \in SUBSET Id}
ApiSet == {SelfApi} \cup {ApiOf[u] : u \in Uid}

RegistryTypes ==
  /\ source \in Seq([uid: Uid \cup {SelfUid}, api: ApiSet, signalsM: Map, newSignalsM: Map])
  /\ \A s \in DOMAIN source : \A m \in {"signalsM", "newSignalsM"} :
       \A i \in DOMAIN source[s][m] : signal[source[s][m][i]].id = i
  /\ sourcesListV \in Seq(DOMAIN source) /\ newSourcesListV \in Seq(DOMAIN source)
  /\ initialising \in DOMAIN source \cup {0}
  /\ handled \subseteq ApiSet

GraphTypes ==
  /\ signal \in Seq([id: Id, depends: Seq(Id), subscribed: BOOLEAN])
  /\ observers \in [Objects -> Seq(Objects)]
  /\ observables \in [Objects -> SUBSET Objects]
  /\ verb \in [Id -> Objects \cup {0}]

ControlTypes ==
  /\ pc \in {"idle", "sources", "initSources", "signals", "attach", "check", "subscribe",
             "clean", "failed"}
  /\ boot \in BOOLEAN /\ err \in BOOLEAN
  /\ todo \in 1..(Len(sourcesListV) + 1)
  /\ visited \subseteq Id /\ dep \in Nat
  /\ reply \in {"none", "success", "sources", "signals", "removed"}
  /\ requests \in 0..MaxRequests
  /\ fault \in {"none", "noSource", "unknownDependency", "endlessRecursion", "nullSignal"}

TypeOK == RegistryTypes /\ GraphTypes /\ ControlTypes

Init ==
  /\ source = << >> /\ sourcesListV = << >> /\ newSourcesListV = << >>
  /\ initialising = 0 /\ handled = {}
  /\ signal = << >> /\ observers = << >> /\ observables = << >>
  /\ verb = [i \in Id |-> 0]
  /\ boot = TRUE /\ pc \in {"sources", "signals"}
  /\ todo = 1 /\ visited = {} /\ dep = 0
  /\ err = FALSE /\ reply = "none" /\ requests = 0 /\ fault = "none"

Goto(from, to) == pc = from /\ pc' = to
Die(why) == fault' = why /\ UNCHANGED <<registry, graph, control>>

\* addObjects answers; a configuration of the start that fails stops the binding.
Answer(from, answer) ==
  /\ Goto(from, IF boot /\ answer # "success" THEN "failed" ELSE "idle")
  /\ reply' = answer /\ UNCHANGED requests
  /\ boot' = FALSE
  /\ err' = FALSE /\ todo' = 1 /\ UNCHANGED <<visited, dep>>

-----------------------------------------------------------------------------
(* Looking for sources and signals. *)

\* The first source of an API: the ones initialised, then the new ones.  0 if none.
GetSourceAPI(api) ==
  LET lists == sourcesListV \o newSourcesListV
      k     == SelectInSeq(lists, LAMBDA s : source[s].api = api)
  IN  IF k = 0 THEN 0 ELSE lists[k]

\* Composer::searchSignals of a uid, of which its callers use the first: the
\* sources initialised, in their order, and the accepted signals of each before
\* its new ones.  0 if none.
SearchFirst(id) ==
  LET k == SelectInSeq(sourcesListV, LAMBDA s :
             id \in DOMAIN source[s].signalsM \cup DOMAIN source[s].newSignalsM)
      s == source[sourcesListV[k]]
  IN  CASE k = 0                    -> 0
        [] k # 0 /\ id \in DOMAIN s.signalsM -> s.signalsM[id]
        [] OTHER                    -> s.newSignalsM[id]

-----------------------------------------------------------------------------
(* The graph g of the observers: addObserver and the destructors. *)

Graph == [observers |-> observers, observables |-> observables]

GraphIs(g) == observers' = g.observers /\ observables' = g.observables

\* Mutant: addObservable is not called.
AddObserverOneSided(g, p, o) == [g EXCEPT !.observers[p] = Append(@, o)]

\* addObserver appends, addObservable allows no duplicate.
AddObserver(g, p, o) ==
  [observers   |-> [g.observers EXCEPT ![p] = Append(@, o)],
   observables |-> [g.observables EXCEPT ![o] = @ \cup {p}]]

\* Mutant: ~Observer leaves nothing.
LeaveNothing(g, o) == g

\* ~Observer: every signal that o observes erases it once.
LeaveObservables(g, o) ==
  [g EXCEPT !.observers = [p \in DOMAIN @ |->
     IF p \in g.observables[o] THEN RemoveFirst(@[p], o) ELSE @[p]]]

\* ~Observable: every observer of o forgets it.
LeaveObservers(g, o) ==
  [g EXCEPT !.observables = [q \in DOMAIN @ |->
     IF q \in ToSet(g.observers[o]) THEN @[q] \ {o} ELSE @[q]]]

\* ~Signal runs the destructors of its bases, the last base first.
Destroy(g, o) ==
  LET left == LeaveObservers(LeaveObservables(g, o), o)
  IN  [observers   |-> [left.observers EXCEPT ![o] = << >>],
       observables |-> [left.observables EXCEPT ![o] = {}]]

\* A map is given a signal of uid i: the one it had is destroyed.
Discard(g, map, i) == IF i \in DOMAIN map THEN Destroy(g, map[i]) ELSE g

\* What the call of recursionCheck for o returns if those for its observers return
\* what result says: the first observer that has the uid of o, or whose own call
\* does not return 0, decides.
Deeper(result) ==
  [o \in Objects |->
     LET k == SelectInSeq(observers[o], LAMBDA q :
                signal[q].id = signal[o].id \/ result[q] # "none")
         q == observers[o][k]
     IN  CASE k = 0                                -> "none"
           [] k # 0 /\ signal[q].id = signal[o].id -> "loop"
           [] OTHER                                -> result[q]]

\* Calls that are nested more deeply than the signals are many go on for ever.
NestedCheck ==
  LET nested[n \in 0..Len(signal)] ==
        IF n = 0 THEN [o \in Objects |-> "endless"] ELSE Deeper(nested[n - 1])
  IN  nested[Len(signal)]

\* Mutant: the check does not call itself.
RecursionCheckShallow == Deeper([o \in Objects |-> "none"])

\* initialRecursionCheck looks for the signal itself instead of its uid.
RecursionCheck ==
  [o \in Objects |->
     LET k == SelectInSeq(observers[o], LAMBDA q : q = o \/ NestedCheck[q] # "none")
         q == observers[o][k]
     IN  CASE k = 0            -> "none"
           [] k # 0 /\ q = o   -> "loop"
           [] OTHER            -> NestedCheck[q]]

-----------------------------------------------------------------------------
(* Loading sources: loadSourcesAPI and loadOneSourceAPI. *)

\* addObjects begins, with or without a section "sources".
AddObjects ==
  /\ requests < MaxRequests
  /\ \E stage \in {"sources", "signals"} : Goto("idle", stage)
  /\ requests' = requests + 1
  /\ UNCHANGED <<registry, graph, boot, loop, err, reply, fault>>

Initialised(u) == \E k \in DOMAIN sourcesListV : source[sourcesListV[k]].uid = u

AppendSource(u, api) ==
  /\ source' = Append(source, [uid |-> u, api |-> api,
                               signalsM |-> << >>, newSignalsM |-> << >>])
  /\ newSourcesListV' = Append(newSourcesListV, Len(source) + 1)
  /\ UNCHANGED <<sourcesListV, initialising, handled>>

\* A duplicate of a source that has been initialised is ignored.
LoadOneSourceAPI(u) ==
  /\ pc = "sources" /\ Len(source) < MaxSources
  /\ ~Initialised(u)
  /\ AppendSource(u, ApiOf[u])
  /\ UNCHANGED <<graph, control, fault>>

\* The source of the binding itself comes last, unless it has been initialised.
EndSources ==
  /\ Goto("sources", IF boot THEN "signals" ELSE "initSources")
  /\ IF Initialised(SelfUid) THEN UNCHANGED registry ELSE AppendSource(SelfUid, SelfApi)
  /\ UNCHANGED <<graph, boot, loop, err, reply, requests, fault>>

\* A source with a missing or incorrect field ends the section.
RejectSource ==
  /\ Answer("sources", "sources")
  /\ UNCHANGED <<registry, graph, fault>>

-----------------------------------------------------------------------------
(* initSourcesAPI: each source is taken from the back of the new ones,      *)
(* initialised, and only then put among the others.                        *)

\* Mutant: the source is not removed from the new ones.
Init1Kept ==
  /\ pc = "initSources" /\ initialising = 0 /\ newSourcesListV # << >>
  /\ initialising' = Last(newSourcesListV)
  /\ UNCHANGED <<source, sourcesListV, newSourcesListV, handled, graph, control, fault>>

\* The source is taken out of its list; its init action, if it has one, is executed,
Init1 ==
  /\ pc = "initSources" /\ initialising = 0 /\ newSourcesListV # << >>
  /\ initialising' = Last(newSourcesListV)
  /\ newSourcesListV' = Front(newSourcesListV)
  /\ UNCHANGED <<source, sourcesListV, handled, graph, control, fault>>

\* then the events of its API get a handler ...
HandleEvents ==
  /\ initialising # 0
  /\ source[initialising].uid \in WithInit
  /\ source[initialising].api \notin handled
  /\ handled' = handled \cup {source[initialising].api}
  /\ UNCHANGED <<source, sourcesListV, newSourcesListV, initialising, graph, control, fault>>

\* ... and at last it is put among the others.
Init2 ==
  /\ initialising # 0
  /\ source[initialising].uid \in WithInit => source[initialising].api \in handled
  /\ sourcesListV' = Append(sourcesListV, initialising)
  /\ initialising' = 0
  /\ UNCHANGED <<source, newSourcesListV, handled, graph, control, fault>>

EndInitSources ==
  /\ Goto("initSources", IF boot THEN "attach" ELSE "signals")
  /\ initialising = 0 /\ newSourcesListV = << >>
  /\ UNCHANGED <<registry, graph, boot, loop, err, reply, requests, fault>>

-----------------------------------------------------------------------------
(* Loading signals: loadSignals, loadOneSignal and addSignal. *)

Extend(map, i, o) == [j \in DOMAIN map \cup {i} |-> IF j = i THEN o ELSE map[j]]

Without(map, i) == Restrict(map, DOMAIN map \ {i})

\* Mutant: the signal is filed under the API of its event.
AddSignalByApi(s, d) ==
  LET o == Len(signal) + 1
  IN  /\ signal' = Append(signal, [id |-> d.id, depends |-> d.depends, subscribed |-> FALSE])
      /\ observers' = Append(observers, << >>) /\ observables' = Append(observables, {})
      /\ source' = [source EXCEPT ![s].newSignalsM = Extend(@, d.api, o)]
      /\ verb' = [verb EXCEPT ![d.id] = IF @ = 0 THEN o ELSE @]

\* The signal replaces, and so destroys, a new one of the same uid and source.
\* Its verb is added unless the name has one.
AddSignal(s, d) ==
  LET o == Len(signal) + 1
      g == Discard([observers |-> Append(observers, << >>),
                    observables |-> Append(observables, {})], source[s].newSignalsM, d.id)
  IN  /\ signal' = Append(signal, [id |-> d.id, depends |-> d.depends, subscribed |-> FALSE])
      /\ GraphIs(g)
      /\ source' = [source EXCEPT ![s].newSignalsM = Extend(@, d.id, o)]
      /\ verb' = [verb EXCEPT ![d.id] = IF @ = 0 THEN o ELSE @]

\* A definition whose source is found.
LoadOneSignal(d) ==
  /\ pc = "signals" /\ Len(signal) < MaxSignals
  /\ GetSourceAPI(d.api) # 0
  /\ AddSignal(GetSourceAPI(d.api), d)
  /\ UNCHANGED <<sourcesListV, newSourcesListV, initialising, handled, control, fault>>

\* A definition that is malformed, or whose source is not found, is counted.
RejectSignal ==
  /\ pc = "signals"
  /\ err' = TRUE
  /\ UNCHANGED <<registry, graph, boot, pc, loop, reply, requests, fault>>

\* The source of a virtual signal is used without a look at the result.
LoadVirtualSignal(d) ==
  /\ pc = "signals"
  /\ d.depends # << >> /\ GetSourceAPI(SelfApi) = 0
  /\ sourcesListV # << >> \/ newSourcesListV # << >>
  /\ Die("noSource")

EndSignals ==
  /\ ~err
  /\ Goto("signals", IF boot THEN "initSources" ELSE "attach")
  /\ UNCHANGED <<registry, graph, boot, loop, err, reply, requests, fault>>

FailSignals ==
  /\ err
  /\ Answer("signals", "signals")
  /\ UNCHANGED <<registry, graph, fault>>

\* The request has no section "signals".
WithoutSignals ==
  /\ ~boot /\ ~err
  /\ Answer("signals", "success")
  /\ UNCHANGED <<registry, graph, fault>>

-----------------------------------------------------------------------------
(* initSignals of each source initialised: attach every new signal ...      *)

Turn(stage) == pc = stage /\ todo <= Len(sourcesListV)
Current     == sourcesListV[todo]

\* The new signals that the loop has still to go over, by their uids.
Rest == DOMAIN source[Current].newSignalsM \ visited
At   == source[Current].newSignalsM[Min(Rest)]

\* The next dependency of a signal.  An empty result is indexed all the same.
Attach ==
  /\ Turn("attach") /\ Rest # {}
  /\ dep < Len(signal[At].depends)
  /\ LET p == SearchFirst(signal[At].depends[dep + 1])
     IN  \/ /\ p = 0
            /\ Die("unknownDependency")
         \/ /\ p # 0
            /\ GraphIs(AddObserver(Graph, p, At))
            /\ dep' = dep + 1
            /\ UNCHANGED <<registry, signal, verb, boot, pc, todo, visited, err,
                           reply, requests, fault>>

\* The loop goes to the next signal ...
Attached ==
  /\ Turn("attach") /\ Rest # {}
  /\ dep = Len(signal[At].depends)
  /\ visited' = visited \cup {Min(Rest)} /\ dep' = 0
  /\ UNCHANGED <<registry, graph, boot, pc, todo, err, reply, requests, fault>>

\* ... until there is none left.
EndAttach ==
  /\ Turn("attach") /\ Rest = {}
  /\ pc' = "check" /\ visited' = {}
  /\ UNCHANGED <<registry, graph, boot, todo, dep, err, reply, requests, fault>>

-----------------------------------------------------------------------------
(* ... then check each one and accept it.  Errors add up, so that nothing is *)
(* accepted after the first one.                                            *)

\* The check of a signal does not return.
CheckForEver ==
  /\ Turn("check") /\ Rest # {}
  /\ RecursionCheck[At] = "endless"
  /\ Die("endlessRecursion")

\* A signal on a loop, or after one: it stays among the new ones.
Ignore ==
  /\ Turn("check") /\ Rest # {}
  /\ RecursionCheck[At] # "endless"
  /\ err \/ RecursionCheck[At] # "none"
  /\ err' = TRUE
  /\ visited' = visited \cup {Min(Rest)}
  /\ UNCHANGED <<registry, graph, boot, pc, todo, dep, reply, requests, fault>>

\* A signal is accepted, and replaces the one of its uid.
Accept ==
  /\ Turn("check") /\ Rest # {}
  /\ ~err /\ RecursionCheck[At] = "none"
  /\ source' = [source EXCEPT ![Current].signalsM = Extend(@, Min(Rest), At),
                              ![Current].newSignalsM = Without(@, Min(Rest))]
  /\ GraphIs(Discard(Graph, source[Current].signalsM, Min(Rest)))
  /\ UNCHANGED <<sourcesListV, newSourcesListV, initialising, handled, signal, verb,
                 boot, pc, loop, err, reply, requests, fault>>

\* Mutant: the errors of a source count for the next one.
EndCheckErrKept ==
  /\ Turn("check") /\ Rest = {}
  /\ pc' = "attach" /\ todo' = todo + 1 /\ visited' = {}
  /\ UNCHANGED <<registry, graph, boot, dep, err, reply, requests, fault>>

\* The next source.
EndCheck ==
  /\ Turn("check") /\ Rest = {}
  /\ pc' = "attach" /\ todo' = todo + 1 /\ visited' = {} /\ err' = FALSE
  /\ UNCHANGED <<registry, graph, boot, dep, reply, requests, fault>>

EndInitSignals ==
  /\ Goto("attach", "subscribe")
  /\ todo = Len(sourcesListV) + 1
  /\ todo' = 1
  /\ UNCHANGED <<registry, graph, boot, visited, dep, err, reply, requests, fault>>

-----------------------------------------------------------------------------
(* execSignalsSubscription: makeSubscription of every source but the own one. *)

Subscribes(s) == source[s].api # SelfApi /\ source[s].uid \in Subscribing

\* A source that is the own one, or that has no getSignals action.
PassOver ==
  /\ Turn("subscribe") /\ ~Subscribes(Current)
  /\ todo' = todo + 1
  /\ UNCHANGED <<registry, graph, boot, pc, visited, dep, err, reply, requests, fault>>

\* The getSignals action takes or refuses each signal that is not subscribed.
MakeSubscription ==
  /\ Turn("subscribe") /\ Subscribes(Current)
  /\ pc' = "clean"
  /\ \E taken \in SUBSET {o \in Kept(Current, "signalsM") : ~signal[o].subscribed} :
       signal' = [o \in Objects |-> [signal[o] EXCEPT !.subscribed = @ \/ o \in taken]]
  /\ UNCHANGED <<registry, observers, observables, verb, boot, loop, err, reply,
                 requests, fault>>

\* Mutant: whether a signal is subscribed is not looked at.
NotSubscribedAny == DOMAIN source[Current].signalsM

\* The accepted signals that are not subscribed, by their uids.
NotSubscribed ==
  {i \in DOMAIN source[Current].signalsM : ~signal[source[Current].signalsM[i]].subscribed}

\* Mutant: the loop ends after the first one.
EndCleanEarly ==
  /\ Turn("clean")
  /\ pc' = "subscribe" /\ todo' = todo + 1
  /\ UNCHANGED <<registry, graph, boot, visited, dep, err, reply, requests, fault>>

\* cleanNotSubscribedSignals erases them one by one ...
CleanNotSubscribed ==
  /\ Turn("clean") /\ NotSubscribed # {}
  /\ LET i == Min(NotSubscribed)
     IN  /\ source' = [source EXCEPT ![Current].signalsM = Without(@, i)]
         /\ GraphIs(Destroy(Graph, source[Current].signalsM[i]))
  /\ err' = TRUE
  /\ UNCHANGED <<sourcesListV, newSourcesListV, initialising, handled, signal, verb,
                 boot, pc, loop, reply, requests, fault>>

\* ... and the next source has its turn.
EndClean ==
  /\ Turn("clean") /\ NotSubscribed = {}
  /\ pc' = "subscribe" /\ todo' = todo + 1
  /\ UNCHANGED <<registry, graph, boot, visited, dep, err, reply, requests, fault>>

\* At start loadSignals does not look at the result of initSignals.
EndSubscribe ==
  /\ todo = Len(sourcesListV) + 1
  /\ Answer("subscribe", IF err /\ ~boot THEN "removed" ELSE "success")
  /\ UNCHANGED <<registry, graph, fault>>

-----------------------------------------------------------------------------
(* onSourceEvents: an event of an API comes, named like some signal or not. *)

\* Neither the source of the event nor a signal just found by its name, looked
\* up in the other map, is there.
SourceEvent(api, id) ==
  /\ api \in handled
  /\ LET s == GetSourceAPI(api)
     IN  \/ s = 0 /\ Die("noSource")
         \/ /\ s # 0
            /\ id \in DOMAIN source[s].newSignalsM \ DOMAIN source[s].signalsM
            /\ Die("nullSignal")

-----------------------------------------------------------------------------
Load ==
  \/ AddObjects
  \/ \E u \in Uid : LoadOneSourceAPI(u)
  \/ EndSources \/ RejectSource
  \/ Init1 \/ HandleEvents \/ Init2 \/ EndInitSources
  \/ \E d \in Definition : LoadOneSignal(d) \/ LoadVirtualSignal(d)
  \/ RejectSignal \/ EndSignals \/ FailSignals \/ WithoutSignals
  \/ Attach \/ Attached \/ EndAttach
  \/ CheckForEver \/ Ignore \/ Accept \/ EndCheck \/ EndInitSignals
  \/ PassOver \/ MakeSubscription \/ CleanNotSubscribed \/ EndClean \/ EndSubscribe

Next ==
  /\ fault = "none"
  /\ \/ Load
     \/ \E api \in handled, id \in Id : SourceEvent(api, id)

Spec == Init /\ [][Next]_vars

-----------------------------------------------------------------------------
(* Properties. *)

\* No list of a kept signal names a signal that has been destroyed, whatever was
\* redefined, refused or removed: update and ~Observable follow raw pointers.
NoDanglingEdge ==
  \A o \in Live : ToSet(observers[o]) \cup observables[o] \subseteq Live

\* The two sides of an edge agree, and an edge is there once.
EdgesMatch ==
  \A o, p \in Live :
    Cardinality({k \in DOMAIN observers[p] : observers[p][k] = o}) =
      (IF p \in observables[o] THEN 1 ELSE 0)

\* A source is in one list, once, or is being initialised: none is lost, none is
\* initialised twice.
SourceInOnePlace ==
  LET places == sourcesListV \o newSourcesListV
                \o (IF initialising = 0 THEN << >> ELSE <<initialising>>)
  IN  IsInjective(places) /\ ToSet(places) = DOMAIN source

\* Between requests every accepted signal of another API has been subscribed,
\* whatever requests failed half-way before (cleanNotSubscribedSignals).  A source
\* without a getSignals action keeps its signals and never subscribes them.
SubscribedWhenIdle ==
  pc = "idle" => \A k \in DOMAIN sourcesListV :
    LET s == sourcesListV[k]
    IN  Subscribes(s) =>
          \A o \in Kept(s, "signalsM") : signal[o].subscribed

\* A signal that was subscribed stays among the accepted ones, unless a signal of
\* the same uid and source replaces it: the cleaning of a later request spares it.
SubscribedStay ==
  [][\A s \in DOMAIN source : \A i \in DOMAIN source[s].signalsM :
       signal[source[s].signalsM[i]].subscribed =>
         /\ i \in DOMAIN source'[s].signalsM
         /\ \/ source'[s].signalsM[i] = source[s].signalsM[i]
            \/ /\ i \in DOMAIN source[s].newSignalsM
               /\ source'[s].signalsM[i] = source[s].newSignalsM[i]]_vars

\* "ensure that there is no infinite loop in the Observers/Observables structure"
\* (signal.cpp:648): the accepted signals have none, so that a chain of updates
\* among them ends.
LoopFree ==
  \A ring \in (SUBSET Accepted) \ {{}} : \E o \in ring : ToSet(observers[o]) \cap ring = {}

\* initSignals ignores signals only of a source in which one is on a loop or leads
\* to one, although errors add up: what is ignored is never all innocent.
IgnoredForALoop ==
  pc = "subscribe" /\ todo = 1 => \A k \in DOMAIN sourcesListV :
    LET ignored == Kept(sourcesListV[k], "newSignalsM")
    IN  ignored # {} => \E o \in ignored : RecursionCheck[o] # "none"

-----------------------------------------------------------------------------
(* What the documentation and the messages say, and the code does not. *)

\* "depends: specify others signals id that compose it" (2-Configuration.md:85):
\* between requests a virtual signal observes the signals of those uids that
\* have been accepted.
Listening ==
  pc = "idle" => \A o \in Accepted : \A k \in DOMAIN signal[o].depends :
    LET of == {p \in Accepted : signal[p].id = signal[o].depends[k]}
    IN  of # {} => \E p \in of : o \in ToSet(observers[p])

\* "@return 0 if no infinite loop detected, -1 if not." (signal.cpp:653): the check
\* returns.
RecursionCheckReturns == fault # "endlessRecursion"

\* "%d signal(s) removed because invalid" (source.cpp:290): no verb leads to a
\* signal that has been removed.
RemovedUnreachable ==
  pc = "idle" => \A i \in Id : verb[i] = 0 \/ verb[i] \in Live

=============================================================================
