# Signal composer: specifications, checks and proofs

The signal composer is a binding of the AGL application framework. It takes
events of other bindings (*sources*), keeps their values as *raw signals*,
computes *virtual signals* from them, and serves each signal by a verb of its
own: clients get statistics of its values, change its settings, and subscribe
to its changes. The code is `src/signal-composer-binding/`, about 2100 lines of
C++; everything below refers to it by file name alone.

## 1. The system

| Component | State | Operations | Interacts with |
|---|---|---|---|
| Observer pattern (`observer-pattern.hpp`) | `observerList_` and its mutex in each observable, `observableList_` and its mutex in each observer | addObserver, delObserver, addObservable, delObservable, notify, both destructors | signals are both sides, clients are observers |
| Client context (`clientApp.cpp`) | `subscribedSignals_`, `event_`, one object for each session | appendSignals, subtractSignals, makeSubscription, makeUnsubscription, update | the verb of a signal, the framework |
| Signal (`signal.cpp`) | value, timestamp, history, settings, dependencies | set, update, onReceivedCB, change, config, average, minimum, maximum, attach, recursion check | sources call it, it notifies observers |
| Source (`source.cpp`) | `signalsM_` (accepted) and `newSignalsM_` | init, addSignal, initSignals, searchSignals, makeSubscription, cleanNotSubscribedSignals, onSourceEvents | Composer, controller actions |
| Composer (`signal-composer.cpp`) | `sourcesListV_`, `newSourcesListV_` | loadSourcesAPI, loadSignals, initSourcesAPI, initSignals, searches, getSignalValue | everything |
| Entry points (`signal-composer-binding.cpp`) | none | addObjects, list, info, loadConf, execConf | Composer |
| Controller library, plugins, Lua, framework | external | actions with a result; threads, sessions, events, verbs | called by all |

What is hard here:

* The framework runs requests, events and the end of sessions on several
  threads. Only the observer lists have locks; two of them nest, in both
  orders, and `notify` calls back under one of them.
* Raw pointers go from lists, verbs and event handlers to objects whose life is
  that of an entry of a map or of a session.
* A value travels from the signal an event sets through virtual signals to their
  clients in one call, which takes the lock of every signal on its way; two
  events meet in it, and what an update reads of other signals no lock protects.
* The signals of an event are given one JSON object, which the conversion for Lua
  changes while it, and its caller, iterate over it.
* A configuration is loaded in stages, each of which may fail half-way, and
  `addObjects` loads more of them while events come.
* The history mixes `int` and `uint64_t`, negative numbers included, and
  timestamps need not come in order.

What makes each part correct: a client is in exactly the observer lists of the
signals it holds, and in none when it is gone; nothing waits for ever; the
history is what the retention says; every subscriber has the latest value and
never goes back to an older one; a virtual signal is computed from the values
its dependencies have; the signals an event names are called; the registry, its
graph of observers and its subscriptions agree; no loop among signals is
accepted.

## 2. The modules

| Module | Models | Used by |
|---|---|---|
| `Subscription` | what subscribing promises: a client holds signals and is told of their values | `SubscriptionRefinement` |
| `Subscriptions` | observer lists with clients as observers, subscribe, unsubscribe, notify, end of session | `MCSubscriptions`, `SubscriptionsInv` |
| `SubscriptionsInv` | the inductive invariants `LockInv`, of the locks, and `IInv` | `SubscriptionsProofs`, `SubscriptionRefinement` |
| `SubscriptionRefinement` | the mapping under which `Subscriptions` implements `Subscription` | `RefinementProofs`, `MCSubscriptions` |
| `SubscriptionsProofs`, `RefinementProofs` | theorems about `Subscriptions` and the refinement | |
| `Cascade` | a value on its way through virtual signals to the clients | `CascadeInv` |
| `CascadeInv` | the inductive invariant `Inv` | `CascadeProofs`, `MCCascade` |
| `CascadeProofs` | theorems about `Cascade` | |
| `Reception` | an event of a source: the choice of signals, the conversion for Lua, the callbacks | `MCReception` |
| `ReceptionInv` | the inductive invariant of `Reception` | |
| `ReceptionProofs` | theorems about `Reception` | |
| `SignalHistory` | set, its purge loop, statistics, change | `MCSignalHistory` |
| `SignalHistoryProofs` | theorems about `SignalHistory` | |
| `Composer` | sources and signals from the configuration to the subscription, the graph between signals | `ComposerInv` |
| `ComposerInv` | the inductive invariants `RegistryInv`, `IInv`, `RankedInv` and `GuiltInv` | `ComposerProofs`, `MCComposer` |
| `ComposerProofs` | theorems about the registry, and about the operations on lists, maps and the graph | `ComposerGraphProofs` |
| `ComposerGraphProofs` | theorems about the recursion check, the edges and what is ignored | |
| `LeastElement` | least and greatest elements of sets of numbers, least subsets | `SignalHistoryProofs`, `ComposerProofs` |

How they fit: `Composer` finds the source of an event and makes the graph of
signals. What it accepts has no loop (`LoopFree`), but what the recursion check
refuses stays attached, so that `Cascade` takes any graph, and a set `Clear` of
signals from which the observers lead into no loop. `Reception` is what happens
between the event and an action; `Cascade` follows the value an action sets, and
`SignalHistory` what set does with it inside the signal; `Subscriptions` is the
last step of the cascade, with clients that come and go. They are separate
because each has a state of its own; where one needs the result of another it is
an assumption on a constant or the choice of a value.

An operator called `...Blindly`, `...Unlocked`, `...Once` and the like, under a
comment that begins with "Mutant", is a plausible bug of the definition that
follows it: no specification uses it, and putting it in place of that
definition must break the property `PROJECT.json` names with it.

### Subscriptions

A thread is idle or at a place of a request, a notification or the destruction
of a context; `pc` names the place, `sig` and `cli` the objects it works on.

| Code | Actions |
|---|---|
| subscribe: appendSignals, addObserver, addObservable, makeSubscription | `Subscribe`, `Attach`, `Link`, `Record`, `MakeEvent`, `Watch` |
| unsubscribe: subtractSignals, delObserver, makeUnsubscription | `Unsubscribe`, `DelObserver`, `Unwatch` |
| `Signal::set` ... notify, `clientAppCtx::update` | `Set`, `NotifyLock`, `Update`, `DelObserver`, `NotifyEnd` |
| destroyContext, `~Observer` | `Close`, `CloseLock`, `Leave`, `DelObserver`, `CloseEnd` |
| update of an object past its destructor | `Crash` |

`Subscription` has no threads, locks or lists. Under the mapping a client holds
the signals in whose lists it is (`holdsBar`): addObserver and delObserver are
the steps that change it, and `subscribedSignals_`, the event and the requests
are details of the implementation. A signal is being delivered while a thread
walks its list, and the clients the walk has still to visit are the ones owed.
That a list does not change during a walk, that a walk visits everybody once and
nobody else, and that a context is freed only when it is nowhere, are guards of
the abstract actions.

Abstractions. A list is the bag of its elements: notify visits them in any
order. The signals live for ever: a client holds a `shared_ptr` to each signal
whose list it is in. `clientAppCtx` has no lock of its own; each of its accesses
is one step. Assumed of the framework: a context is not destroyed while a
request of its session is processed (`Close`), and a push reaches exactly the
clients that watch the event. `Pipelined` says whether requests of one session
may be processed in parallel, `Faults` whether connections are lost and
subscriptions refused.

### Cascade

| Code | Actions |
|---|---|
| `Signal::set` up to notify | `Set` for an event, `Act` for an action |
| notify: the lock, the walk, the return | `Lock`, `Unlock` |
| `clientAppCtx::update`: toJSON, the push | `Render`, `Push` |
| `Signal::update`: each dependency, the trigger, the action | `Visit`, `Read`, `ReadTrigger`, `Act` |

A value is the number of times its signal was set, and a virtual value knows the
numbers it was computed from (`basis`). `caller` is the chain of the locks that
a thread holds, from the signal an event set to the innermost one. `Depends` and
`Observes` differ as in the code: a signal that is defined again takes the name
of the old one, and is read by those who depend on the name and observed by none
of them (`ComposerListening`). A dependency is one signal: a pattern that
matches several is left out. `depth` is the length of the chain when a lock was
taken; no action depends on it. An action sets its signal once, with what it was
given, or, for those in `Filtering`, leaves it alone; actions that set other
signals, or keep values of their own, are outside the model. The graph may have
loops: a signal that is "ignored" because it observes itself stays in the
observer lists, is updated, and locks itself out (`CascadeIgnored`). `Clear` and
its `Rank` are no restriction, every finite graph has them; they name the
signals about which `LocksClimb` and `Completes` speak, those that a recursion
check made now would accept. The graph and the clients stand still; that they
may not is in `Subscriptions` and `Composer`. The push reaches the client (the
other branch of update is in `Subscriptions`).

### Reception

| Code | Actions |
|---|---|
| onSourceEvents, onSignalEvents | `Receive`, `Scan`, `ScanNext`, `ScanEnd`, `Handled` |
| onReceivedCB: the conversion, the action | `Call`, `Convert`, `ConvertEnd`, `Act` |
| defaultReceivedCB | `Default`, `DefaultFails` |
| json_object_iter_begin of an array or of nothing | `ScanFails`, `ConvertFails`, `DefaultFails` |

One event, whose entries are integers or strings, in their order. The iterators
of json-c are the keys they stand on: an entry that is deleted is unlinked, and an
iterator of it has no next one; an entry that is added is the last one. Which
signals a string names (fnmatch of their identifier or event) is a choice
(`Answer`). The action is external. `Flag` and `Nano` are scaled down; an integer
divided once is not above the flag, as in the code, where the largest `int64_t`
of nanoseconds is about nine thousand million seconds and the flag is above a
thousand million million.

### SignalHistory

One signal. `history` is a function from the timestamps recorded to their
values, as the map is. The purge is one step for each iteration, for its
termination to be a question. An `int` product or sum out of range is undefined
in C++: `IntResults` gives what wrapping and a wider computation give. The
constants scale the widths down so that 2 seconds fit an `int` in nanoseconds
and 3 do not, as in the code. The reference counts of values and the access of
several threads to the history are left out.

### Composer

`pc` names the stage of loading. The configuration of the start and those of
`addObjects` go through the same stages; at start the sources are initialised
after the signals are loaded. What a configuration holds is chosen while it is
loaded, so that a run covers every configuration of the signals in
`Definition`. Objects are numbered as they are created. A fault (`fault`) is
what would end the process: a null pointer that is used, an empty vector that is
indexed, a recursion without end. Events come between any two steps, which finds
those that a half-loaded registry does not stand.

| Code | Actions |
|---|---|
| addObjects, its answers | `AddObjects`, `RejectSource`, `FailSignals`, `WithoutSignals`, `EndSubscribe` |
| loadSourcesAPI, loadOneSourceAPI | `LoadOneSourceAPI`, `EndSources`, `RejectSource` |
| initSourcesAPI, `SourceAPI::init` | `Init1`, `HandleEvents`, `Init2`, `EndInitSources` |
| loadSignals, loadOneSignal, addSignal | `LoadOneSignal`, `LoadVirtualSignal`, `RejectSignal`, `EndSignals` |
| initSignals: the first loop, attachToSourceSignals | `Attach`, `Attached`, `EndAttach` |
| initSignals: the second loop, the recursion check | `CheckForEver`, `Ignore`, `Accept`, `EndCheck`, `EndInitSignals` |
| execSignalsSubscription, makeSubscription | `PassOver`, `MakeSubscription` |
| cleanNotSubscribedSignals | `CleanNotSubscribed`, `EndClean` |
| onSourceEvents | `SourceEvent` |

`todo` is the position in `sourcesListV_` of the source whose turn it is. The two
loops over `newSignalsM_`, and the one that cleans, take one step for each signal,
in the order of the map: `visited` are the uids an iterator has passed, `Rest` the
ones before it, `At` the signal it stands on, and `dep` counts the dependencies
that attachToSourceSignals has gone over. The recursion check is one step: it
changes nothing. It is a function of the depth of its calls (`NestedCheck`), of
which those deeper than the signals are many go on for ever.

Abstractions. Names match exactly (the code uses fnmatch). The API of the
binding and of its configuration are the same (`SelfApi`). Requests of
addObjects come one after the other. The clients that observe a signal, and keep
it alive, are left to the composition with `Subscriptions`. Actions of the
controller (`init`, `getSignals`) are modelled by the choice of their result.

## 3. The checks

Runs that pass (`CHECK_DEADLOCK FALSE` in all of them: threads may lock
themselves out or crash in `Subscriptions`, and lock themselves out in a signal
that observes itself in `Cascade`, an event is handled once in
`Reception`, the others end at their bounds; that no other thread of `Cascade`
is stuck is `Completes`):

| Run | Instance | Shows |
|---|---|---|
| `Subscriptions` | 2 signals, 2 clients, 2 threads, one request of a session at a time, all faults (226 thousand states) | no stale observer, no list changed while somebody walks it, no lock cycle, no late push, the event given back, and `IInv`; the code implements `Subscription`; what has begun completes, except behind the self-lock of update |
| `Cascade` | 2 raw signals, 4 virtual ones of which one has both roots and one observes itself, 1 client, 2 threads, 3 events (954 thousand states) | above the signals without a loop locks are waited for upwards only, and their events are processed to the end, also when the other thread has locked itself out; everybody is told, in order, of the latest values, and a signal of one root is up to date |
| `Reception` | every event of up to 3 entries, 3 signals, 2 of them with Lua actions | the signals an event names are called, once for each mention, nothing is converted twice, the handler returns |
| `SignalHistory` | 4 timestamps in any order, 2 numbers, a text and null, retentions -2, -1, 0, 1 and the largest int | the purge drops exactly what is too old and ends, last value and history agree, the statistics agree |
| `Composer` | 2 sources and the own one, 4 signals, 2 requests (1.6 million states) | the graph has no dangling or one-sided edge, no source is lost, subscription and maps agree, and `RankedInv` |
| `ComposerLoops` | 1 source and the own one, loops of 1, 2 and 3 signals (2.5 million states) | no loop among accepted signals, none ignored without one |

Why these bounds: the interactions of `Subscriptions` are between two threads
that share a client, a signal or both, and two of each give every sharing and
every non-sharing. What does not depend on the order of the requests of a
session (`NoLockCycle`, `WalkedListStable`) is proved for requests that are
processed at once, too; the other proofs of section 4 cover all other sizes. For
the `Cascade`, two threads are enough to meet at a raw signal, at a virtual one
of two roots, and at a client; two values of one root follow each other while
one of the other root comes between; `b` is reached twice over, by two ways, and
`c` reads a signal that it does not observe, because it was defined again. `v`
is made of `r2` and of itself: the thread that sets `r2` may lock itself out in
it, with `r2` locked, while the other one is in the cascade of `r1`, or waits
for `r2`. For `Reception`, two integers and a string in any order put the
converted entry before, between and after the others, and two Lua signals
convert one after the other. For the history, a value can be too old, at the
limit, within it or late, and the timestamps give two of each distance in a
scaled second. `Composer` needs two requests to redefine and to come back after
a rejection, three uids for a chain, for the ring of three and for the loop of
two that passes by a third, four signals for one of them to be redefined.

Runs that end in a violation, each a disagreement between the code and what its
documentation or comments say (quoted in `PROJECT.json`):

| Run | The code |
|---|---|
| `CascadeIgnored` | an ignored signal that observes itself is updated and waits for its own lock |
| `SubscriptionsDuplicate` | two requests of a session that are processed at once put its client twice into a list |
| `SubscriptionsDelivery` | update calls delObserver under the lock of notify: the thread waits for itself |
| `ComposerListening` | a redefined signal loses its virtual signals |
| `ComposerRecursionCheckReturns` | the recursion check does not return from a loop of two |
| `ComposerRemovedUnreachable` | the verb of a removed signal stays |

Other disagreements, met while modelling, that the models reproduce or leave out
and no run is kept for: the default callback sets no signal from an event that
is an object (`signal.cpp:431`, against `:466`); the average, minimum and
maximum of a number of seconds begin at the oldest value (`signal.cpp:503`,
against `4-SignalComposerAPI.md:43`); change wants all four attributes
(`signal.cpp:302`, against the examples of `4-SignalComposerAPI.md:60`); a
conversion for Lua stops at the first integer (`signal.cpp:453`), and the
signals that share the event with a Lua one see its seconds (`:452`); a virtual
signal of two raw ones can stay out of date when two threads set them at once
(`:373`); an ignored signal is attached again by each addObjects
(`source.cpp:171`); the recursion check takes clients for signals
(`signal.cpp:660`); `seconds*NANO` overflows an `int` (`signal.cpp:505`); a
negative period is refused only of an empty history (`:558`); the maximum of
negative values is 0 (`:602`); metadata are shown only if there are none
(`:219`, `:274`); duplicate sources are looked for among the initialised ones
only (`signal-composer.cpp:108`); two sources may share a uid of a signal
(`source.cpp:163`); an unknown dependency indexes an empty vector
(`signal.cpp:485`); a signal is ignored because another one is on a loop
(`source.cpp:176`); a new signal is looked up in the wrong map
(`source.cpp:216`); an unknown string action is never answered
(`signal.cpp:81`).

Fairness. `Subscriptions!Fairness` is weak fairness of each thread: the binder's
threads are scheduled. Nothing obliges a request or a value to come. A mutex is
not fair, so `Completes` asks that new work ends some time.
`SignalHistory!FairSpec` runs a call of set to its end, `Cascade!FairSpec` is
weak fairness of each thread, as in `Subscriptions`, and needs no fairness of
the mutexes because the number of events is bounded (its `Completes` is about
events of signals in `Clear`: one of `r2` need not end, as `CascadeIgnored`
shows); `Reception!FairSpec` runs the handler of one event.

## 4. The proofs

`SubscriptionsProofs`, for any sets of signals, clients and threads (finite or
not), assumes only that `None` is none of them. What is said of
types, locks and walks (`TypeCorrect`, `LockInductive`, `LocksOrdered`,
`WalkStable`) needs nothing else: it holds however the requests of a session are
processed, and `Pipelined` may be either. The rest assumes `~Pipelined`, one
request of a session at a time, which nothing in the binding sees to: without
it a client is twice in a list, as the run `SubscriptionsDuplicate` shows.

`LockInv` has a weaker notion of a session than `IInv`: its end excludes its
requests, which the framework sees to (`Sessions`), and it ends once
(`OneCloser`). With it `Locks` is inductive: at every place of a thread, who
holds which mutex. A step that changes a list is made under the mutex of that
list, and a thread that walks it has that mutex; `WalkStable` puts the two
together for the steps of every thread, the visits of the walk itself and their
delObserver included. `LocksOrdered` rests on `Sessions`: whoever holds the lock
of a client is ending its session, so that no addObserver waits for it.

`ListsAgree` and the others are not inductive: while a thread is between
addObserver and the record of the signal the lists do not agree, and what makes
them agree again is that no other thread touches that client meanwhile. `IInv`
says so for each place of a thread: who holds which lock (`Locks`), that a
client has one request or its own end under way (`OneAtATime`, `Sessions`), what
has been done so far (`InProgress`), which lists `~Observer` has still to leave
(`Leaving`), that a walk visits only clients that are in the list (`Walking`),
and that everything else agrees (`Joined`). There is one lemma for each action
and the types, one for each action and `IInv`, then `InvInit`, `InvNext` and the
theorems: `Inductive`, `Detached`, `Agreement` and `Silence`. `GivenBack` has
one more invariant, `Events`: whoever watches an event holds a signal, or a
thread is on its way to see that it does not.

`Silence` rests on the lock that delObserver waits for: a walk holds it, so an
unsubscription is answered after the walk, or the client is out of the list the
walk began with. `Detached` rests on `Leaving`: `observableList_`, which
delObserver never updates, is always large enough.

`RefinementProofs` shows that every step of a state of `IInv` is a step of
`Subscription` under the mapping or leaves its variables alone (`Implementation`).
`Attach` is the subscription and delObserver its end, and their guards hold
because a walk has the lock (`Walking`, `Locks`); `Update` tells a client because
a walk owes only what the list held when it began. What follows from the promise
is proved of the abstract service, where it takes a page less, and carried over
(`TellsHolders`).

`CascadeProofs` covers every graph of signals, with loops or without, clients and
threads. Its assumptions: `ClearAssumption`, that from a signal in `Clear` the
observers climb and stay in `Clear`, which names a set and excludes no graph; and
`RootAssumption`, for the signals about which `UpToDate` speaks, that they observe
everything they depend on and have one raw signal below them. `LocksClimb` needs
that the locks of a thread are a chain: `Tops` says that the innermost signal was
locked last (`depth`), `Chained` that each one was called from the next one below,
and `Climbs` that the ranks grow along the chain from the first signal of `Clear`
on. So a thread that has locked itself out holds the lock of no such signal.
`Told` and `PushesInOrder` are not inductive because set writes the value before
it has the lock: `Pushing` says that a push that is late has a thread waiting
behind it with a newer value, `Telling` that a client without the latest value is
still in a walk, or somebody waits to begin one. `Current` rests on `UnderRoot`:
whoever is at a signal of one root holds the lock of that root, so that the reads
of an update, which nothing protects, are of one set only; `Fresh` and `Computing`
say which thread will make up for each value that is not yet read.

`SignalHistoryProofs` covers every width of the integers in which a negative
`int` becomes a `uint64_t` above all differences of timestamps in seconds
(`WidthAssumption`, true of 32 and 64 bits). The value just recorded is never
erased because its own difference is 0 (`LastKept`); what is erased is out of
the retention counted without a width, because a difference that wrapped, or a
negative retention, is excluded (`TooOldIsOld`, `NothingLost`); and when the
loop ends the least timestamp is not too old, so that none is (`NothingKept`,
which needs that a set of natural numbers has a least element).
`AllAnswersAgree` speaks of sums: the fold over a set picks one element after
the other, and it is shown that such sums exist for every finite history
(`SumsExist`: otherwise there would be a least set without one) and that a sum
of n values is between n times the least and n times the greatest of them
(`SumBetween`). It assumes that the error answer is no number and no record of a
sum and a count (`ErrorAssumption`).

`ReceptionProofs` covers every object, any number of entries and signals; it
assumes that both are finite, as they are in the code. `NoneTwice` rests on
`ToLuaTwice`, a converted number is left alone by the next conversion, and on
`Moved`, the entry goes to the end and the others stay. `AllReached` has to
follow a loop whose object is changed by the calls it makes. `Counted` says that
in the loop a signal has been called once for each value that names it and is
not behind the iterator any more, and `Places` that during a call the iterator
stands on a value that names somebody. An integer names nobody, so that a
conversion never moves the entry the loop stands on, and keeps every value that
names somebody on the side of the iterator where it was (`MovedKeys`,
`ConvertMovesKeepsInv`); integers may be met twice by the loop, which calls
nobody for them.

`ComposerProofs` covers any uids, APIs, definitions and bounds; its assumptions
are those `Composer` states of its constants. `RegistryInv` is what a step keeps
by itself: a signal is in one map of one source (`KeptOnce`), a source in one
list or being initialised (`Placed`), a source that is not initialised yet has
accepted nothing (`Unlisted`), the state of a loop is the initial one outside
its stage (`Staged`), and of the sources whose turn is over all accepted signals
have been subscribed (`SubscribedSoFar`). `NoneUnsubscribedWhenIdle` needs all
of that: a request that fails leaves early, in a stage in which every source
still has what the last request left (`SubscribedSoFar`), and the sources are
gone through once each because the list names each once (`Placed`).
`SubscribedAreKept` rests on it too: only the cleaning erases, and only what is
not subscribed. `SourcesInOnePlace` puts the two lists and the source between
them together.

`ComposerGraphProofs` begins with the recursion check. What a recursive function
of the depth computes is an induction; the form it takes here is the least depth
at which the claim would fail (`LeastElement`), which shows that the function is
well-defined (`LevelsExist`), that the check of a signal on a ring never returns
0 (`RingIsFound`), whatever hangs on the ring, and so that nothing accepted
completes a ring (`LoopFreeAccept`). Attaching happens before the check: an edge
that is added leads to a new signal, which is not among the accepted ones
(`AtIsNew`). This needs no hypothesis on the configurations
(`AcceptedAreLoopFree`).

What is said of edges is proved of configurations that are `Ranked`: some
numbering of the uids, which the theorem takes as it comes, is higher for a
definition than for each of its dependencies, and no definition names one twice.
It is what the documentation asks of them, and what the definitions of
`Composer.cfg` are (`AcyclicIsRanked`, which TLC evaluates). Without it the code
does not keep the edges: a signal that is ignored stays among the new ones and
is attached once more by each addObjects, so that it is twice in a list that
erases it once. `Edges` is inductive only with `NewEdges`, the uids that a new
signal may have been attached to so far: an edge that is added was not there,
because the dependencies before it are other ones (`EdgeAttach`), and the
signals that the loop has yet to come to have none. From there follow
`EdgesNeverDangle`, `EdgesAreMatched`, and that the check returns
(`CheckReturnsWhenRanked`): a call at depth n has n signals ranked above it, and
no signal has as many as there are (`NeverEndless`). So the run
`ComposerRecursionCheckReturns` fails for its loop and for nothing else.

`NoneIgnoredWithoutALoop` needs no hypothesis on the configurations. While the
sources are checked one after the other, the graph changes: each signal that is
accepted destroys the one it replaces, with its edges. What was the reason to
refuse a signal of an earlier source must still be there when the request ends.
The result of the check only grows with the graph (`StaysGuilty`): a signal that
is refused is refused as long as the chain of observers below it is there. Those
observers are virtual signals, and virtual signals are in sources of the
binding's own API (`VirtualObserve`). Several sources may have that API; the one
that getSourceAPI finds is the first, because the binding's own source, the last
of its section, is initialised first (`OwnFirst`), and the others never replace
a signal (`NeverReplaces`). So, after the first source, an acceptance destroys
raw signals only, which no chain goes through (`AcceptSpares`). `GuiltySoFar`
says it of the sources whose turn is over; `GuiltInv` is all of it together.

Model-checked only: liveness (`Completes`, `PurgeTerminates`, `Returns`), which is
out of the prover's reach.

## 5. Not modelled

* Formatting: list, info, setInfo, getVerbInfo, getVerbSample, the API
  description, the keys under which a "get" is answered. Build and packaging.
* The dispatch of signal_verb as such: what each branch does is modelled where its
  state is, and the branch that is missing is listed among the hazards.
* Actions of the controller, plugins, Lua, the framework: external.
* Data races on the history, the value and the registry between threads: their
  outcomes are those of a damaged container.
* Reference counts of JSON values and the ownership of actions and
  configurations (planned).

## 6. Plan

1. `Values`: references to JSON values through set, purge, toJSON and
   last_value; ownership of actions shared by the signals of a source.
2. `Registry`: composition of `Composer` and client observers, which keep
   removed signals alive and are met by the recursion check as if they were
   signals.
