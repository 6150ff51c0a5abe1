----------------------------- MODULE MCComposer -----------------------------
(* Composer for TLC: one or two sources of other APIs; raw signals 1 and 2 and *)
(* virtual signals made of them.  Acyclic definitions depend on smaller uids.  *)
EXTENDS ComposerInv

CONSTANTS self, can, gps                     \* uids of sources
CONSTANTS selfApi, canApi, gpsApi            \* APIs

MCApiOf == [u \in {can, gps} |-> IF u = can THEN canApi ELSE gpsApi]

Raw(i, api)       == [id |-> i, api |-> api, depends |-> << >>]
Virtual(i, other) == [id |-> i, api |-> selfApi, depends |-> other]

Acyclic == {Raw(1, canApi), Raw(1, gpsApi), Virtual(2, <<1>>), Virtual(3, <<2, 1>>)}
Looping ==
  {Raw(1, canApi), Virtual(1, <<1>>), Virtual(1, <<3>>), Virtual(2, <<2>>),
   Virtual(2, <<1, 3>>), Virtual(3, <<1>>), Virtual(3, <<2>>)}

\* The hypothesis of the theorems about edges: dependencies rank by their uids.
ASSUME AcyclicIsRanked == Definition = Acyclic => Ranked([i \in Id |-> i])
=============================================================================
