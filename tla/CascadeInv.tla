----------------------------- MODULE CascadeInv -----------------------------
(***************************************************************************)
(* The inductive invariant of Cascade: what a thread holds is a chain that *)
(* goes up from a raw signal, and whatever is not yet told or computed is  *)
(* the business of a thread at a known place.                              *)
(***************************************************************************)
EXTENDS Cascade

\* The innermost signal that a thread walks is locked, the others that it holds
\* are below; a thread that works for no event walks none.
Tops ==
  \A t \in Thread :
    /\ top[t] # None => lock[top[t]] = t
    /\ pc[t] = "idle" => top[t] = None
    /\ \A s \in Signal : lock[s] = t =>
         top[t] \in Signal /\ (s = top[t] \/ depth[s] < depth[top[t]])

\* The caller of a signal is the next one below of those the thread holds, and
\* the walk begins at a raw signal.
Chained ==
  \A t \in Thread, s \in Signal : lock[s] = t =>
    /\ todo[s] \subseteq Observers(s)
    /\ caller[s] = None => s \in Raw
    /\ caller[s] # None =>
         lock[caller[s]] = t /\ caller[s] \in Observes[s] /\ depth[caller[s]] < depth[s]
    /\ \A u \in Signal : lock[u] = t /\ depth[u] < depth[s] =>
         caller[s] \in Signal /\ (u = caller[s] \/ depth[u] < depth[caller[s]])

\* Above a signal from which no loop is reached, the chain climbs.
Climbs ==
  \A t \in Thread, s \in Signal, u \in Clear :
    lock[s] = t /\ lock[u] = t /\ depth[u] < depth[s] => s \in Clear /\ Rank[u] < Rank[s]

\* A signal is updated, or set, in the walk of one that it observes.
Updating ==
  \A t \in Thread :
    /\ pc[t] \in {"read", "act"} => top[t] \in Observes[cur[t]]
    /\ pc[t] = "lock" /\ top[t] # None => top[t] \in Observes[cur[t]]
    /\ pc[t] = "lock" /\ top[t] = None => cur[t] \in Raw
    /\ pc[t] = "push" => top[t] \in Watches[cur[t]]

Waits(t, s) == pc[t] = "lock" /\ cur[t] = s
Awaited(s)  == \E t \in Thread : Waits(t, s)

\* What is pushed is the value of the signal, or somebody waits to push a newer.
Pushing ==
  \A t \in Thread : pc[t] = "push" =>
    /\ held[t] = ver[top[t]] \/ Awaited(top[t])
    /\ seen[top[t]][cur[t]] <= held[t] /\ held[t] <= ver[top[t]]

ToTell(s, c) ==
  \E t \in Thread :
    lock[s] = t /\ (c \in todo[s] \/ (pc[t] = "push" /\ top[t] = s /\ cur[t] = c))

Telling ==
  \A c \in Client : \A s \in Watches[c] :
    /\ seen[s][c] <= ver[s]
    /\ seen[s][c] = ver[s] \/ Awaited(s) \/ ToTell(s, c)

Structure == TypeOK /\ Tops /\ Chained /\ Climbs /\ Updating

-----------------------------------------------------------------------------
(* Of the signals that have one root. *)

Rooted == {v \in Signal \ Raw : Root[v] # None}

\* Whoever is at such a signal holds the lock of its root.
UnderRoot ==
  \A t \in Thread, v \in Rooted :
    lock[v] = t \/ (pc[t] \in {"lock", "read", "act"} /\ cur[t] = v) => lock[Root[v]] = t

\* What an update has read is what the dependencies have, but for those that a
\* thread is about to notify.
Fresh ==
  \A t \in Thread : pc[t] \in {"read", "act"} /\ cur[t] \in Rooted =>
    \A d \in Depends[cur[t]] :
      \/ pc[t] = "read" /\ (d \in toRead[t] \/ d = top[t])
      \/ got[t][d] = ver[d]
      \/ Awaited(d)

ToUpdate(d, v) == \E t \in Thread : lock[d] = t /\ v \in todo[d]
Updated(v)     == \E t \in Thread : pc[t] \in {"read", "act"} /\ cur[t] = v

Computing ==
  \A v \in Rooted : \A d \in Depends[v] :
    basis[v][d] = ver[d] \/ Awaited(d) \/ ToUpdate(d, v) \/ Updated(v)

Inv == Structure /\ Pushing /\ Telling /\ UnderRoot /\ Fresh /\ Computing

=============================================================================
