----------------------------- MODULE MCCascade -----------------------------
(* Two raw signals.  The speed r1 alone makes a and b, a twice over; c is  *)
(* made of both and reads b without observing it: b was defined again after*)
(* c.  v is made of r2 and of itself: the recursion check has ignored it.  *)
EXTENDS CascadeInv

CONSTANTS r1, r2, a, b, c, v, k

MCDepends ==
  [s \in Signal |-> CASE s = a -> {r1} [] s = b -> {r1, a} [] s = c -> {a, b, r2}
                      [] s = v -> {r2, v} [] OTHER -> {}]
MCObserves == [s \in Signal |-> IF s = c THEN {a, r2} ELSE MCDepends[s]]
MCWatches  == [x \in Client |-> {b, c}]
MCClear    == {r1, a, b, c}
MCRank     == [s \in Signal |-> CASE s = a -> 1 [] s = b -> 2 [] s = c -> 2 [] OTHER -> 0]
MCMaxSets  == [s \in Signal |-> IF s = r1 THEN 2 ELSE 1]
MCRoot     == [s \in Signal |-> CASE s \in {r1, a, b} -> r1 [] s \in {r2, v} -> r2 [] OTHER -> None]

=============================================================================
