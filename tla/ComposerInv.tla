----------------------------- MODULE ComposerInv -----------------------------
(***************************************************************************)
(* The invariants of Composer that a step keeps by itself.  IInv holds of  *)
(* every configuration; RankedInv of those in which no signal is ignored,  *)
(* because nothing depends on itself and no dependency is named twice.     *)
(***************************************************************************)
EXTENDS Composer

SignalMap == {"signalsM", "newSignalsM"}

\* A signal is in one map of one source only: make_shared gives a new one to
\* addSignal, and initSignals moves it (source.cpp:182).
KeptOnce ==
  \A s, t \in DOMAIN source : \A m, n \in SignalMap :
    \A i \in DOMAIN source[s][m], j \in DOMAIN source[t][n] :
      source[s][m][i] = source[t][n][j] => s = t /\ m = n

\* SourceInOnePlace, list by list.
Placed ==
  /\ IsInjective(sourcesListV) /\ IsInjective(newSourcesListV)
  /\ ToSet(sourcesListV) \cap ToSet(newSourcesListV) = {}
  /\ initialising \notin ToSet(sourcesListV) \cup ToSet(newSourcesListV)
  /\ DOMAIN source \subseteq ToSet(sourcesListV) \cup ToSet(newSourcesListV) \cup {initialising}

\* A source that is not yet among the initialised ones has accepted nothing.
Unlisted ==
  \A s \in DOMAIN source \ ToSet(sourcesListV) : DOMAIN source[s].signalsM = {}

\* In which stages the state of a loop is not the initial one.
Staged ==
  /\ initialising # 0 => pc = "initSources"
  /\ todo # 1 => pc \in {"attach", "check", "subscribe", "clean"}
  /\ pc \in {"check", "clean"} => todo <= Len(sourcesListV)
  /\ visited # {} => pc \in {"attach", "check"} /\ todo <= Len(sourcesListV)
  /\ dep # 0 => Turn("attach") /\ Rest # {}
  /\ err => pc \in {"signals", "check", "subscribe", "clean"}

\* Every accepted signal of the source has been subscribed, if it subscribes any.
AllSubscribed(s) ==
  Subscribes(s) => \A o \in Kept(s, "signalsM") : signal[o].subscribed

\* From the acceptance of signals to their subscription some are not subscribed:
\* those of the sources whose turn is still to come.
SubscribedSoFar ==
  /\ pc \notin {"attach", "check", "subscribe", "clean"} =>
       \A s \in DOMAIN source : AllSubscribed(s)
  /\ pc \in {"subscribe", "clean"} => \A k \in 1..(todo - 1) : AllSubscribed(sourcesListV[k])

\* The inductive invariant of the registry: what TypeOK, SourceInOnePlace,
\* SubscribedWhenIdle and SubscribedStay need to be kept by every step.
RegistryInv ==
  TypeOK /\ KeptOnce /\ Placed /\ Unlisted /\ Staged /\ SubscribedSoFar

\* With LoopFree, which rests on it.
IInv == RegistryInv /\ LoopFree

-----------------------------------------------------------------------------
\* Definitions in which nothing depends on itself, through others either, and no
\* dependency is named twice: what is depended on has the lower rank.
Ranked(rank) ==
  /\ rank \in [Id -> Nat]
  /\ \A d \in Definition :
       /\ IsInjective(d.depends)
       /\ \A k \in DOMAIN d.depends : rank[d.depends[k]] < rank[d.id]

\* What a configuration declared the signal as.
Declared(o) ==
  \E d \in Definition : d.id = signal[o].id /\ d.depends = signal[o].depends

\* An edge leads from a dependency to the signal that named it, both are kept,
\* it is there once and both ends know of it.
Edges ==
  \A p \in Objects :
    /\ IsInjective(observers[p])
    /\ \A o \in Objects :
         /\ o \in ToSet(observers[p]) <=> p \in observables[o]
         /\ o \in ToSet(observers[p]) =>
              o \in Live /\ p \in Live /\ signal[p].id \in ToSet(signal[o].depends)

\* The uids that a new signal may already have been attached to: until its source
\* has its turn there are none, then those that attachToSourceSignals went over.
AttachedTo(s, i) ==
  LET depends == signal[source[s].newSignalsM[i]].depends
      turn    == todo <= Len(sourcesListV) /\ s = Current
  IN  CASE pc = "check" /\ turn                                 -> ToSet(depends)
        [] pc = "attach" /\ turn /\ i \in visited               -> ToSet(depends)
        [] pc = "attach" /\ turn /\ i \notin visited /\ i = Min(Rest) ->
             {depends[k] : k \in 1..dep}
        [] OTHER                                                -> {}

NewEdges ==
  \A s \in DOMAIN source : \A i \in DOMAIN source[s].newSignalsM :
    \A p \in observables[source[s].newSignalsM[i]] : signal[p].id \in AttachedTo(s, i)

\* Nothing is ignored.
NothingIgnored == pc = "check" => ~err /\ visited = {}

\* The inductive invariant of the graph, of which NoDanglingEdge and EdgesMatch
\* are a part.
EdgeInv ==
  (\A o \in Objects : Declared(o)) /\ Edges /\ NewEdges /\ NothingIgnored

\* With the registry, on whose maps it rests.
RankedInv == RegistryInv /\ EdgeInv

-----------------------------------------------------------------------------
IsVirtual(o) == signal[o].depends # << >>

\* Only virtual signals observe, and they are in sources of the API of the binding.
VirtualObserve ==
  /\ \A p \in Objects : \A o \in ToSet(observers[p]) : IsVirtual(o)
  /\ \A s \in DOMAIN source : \A m \in SignalMap : \A i \in DOMAIN source[s][m] :
       IsVirtual(source[s][m][i]) => source[s].api = SelfApi

\* The source of the binding comes last in the section, and so is the first one that
\* is initialised: it is the one in which getSourceAPI finds the virtual signals.
OwnFirst ==
  /\ sourcesListV # << >> => source[sourcesListV[1]].api = SelfApi
  /\ sourcesListV = << >> /\ initialising # 0 => source[initialising].api = SelfApi
  /\ /\ sourcesListV = << >> /\ initialising = 0 /\ newSourcesListV # << >>
     /\ pc = "initSources" \/ (boot /\ pc = "signals")
     => source[Last(newSourcesListV)].api = SelfApi
  /\ boot => pc # "idle"

\* A source that has its API but is not the first gets no signal that would replace
\* one it has accepted.
NeverReplaces ==
  \A s \in DOMAIN source : source[s].api = SelfApi =>
    \/ sourcesListV # << >> /\ s = sourcesListV[1]
    \/ DOMAIN source[s].signalsM \cap DOMAIN source[s].newSignalsM = {}

\* A signal that the check of the source refuses is among its new ones.
Guilty(s) == \E o \in Kept(s, "newSignalsM") : RecursionCheck[o] # "none"

\* Of the sources whose turn in initSignals is over, each one that has new signals has
\* a guilty one; before the first guilty one of a source nothing is ignored.
GuiltySoFar ==
  /\ pc \in {"attach", "check"} \/ (pc = "subscribe" /\ todo = 1) =>
       \A k \in DOMAIN sourcesListV :
         k < todo \/ pc = "subscribe" =>
           (Kept(sourcesListV[k], "newSignalsM") # {} => Guilty(sourcesListV[k]))
  /\ pc = "check" => IF err THEN Guilty(Current) ELSE visited = {}

\* The inductive invariant of the guilt of what is ignored, of which IgnoredForALoop is
\* a part: no acceptance and no cleaning takes a signal from the chain that leads to
\* the guilty one of an earlier source.
GuiltInv ==
  RegistryInv /\ VirtualObserve /\ OwnFirst /\ NeverReplaces /\ GuiltySoFar
=============================================================================
