--------------------------- MODULE SignalHistory ---------------------------
(***************************************************************************)
(* The values a Signal keeps: set, which records a value and purges those  *)
(* that are out of the retention; average, minimum, maximum and last_value,*)
(* which the "get" action of the signal's verb reads; and change, which     *)
(* writes its settings.                                                    *)
(*                                                                         *)
(* Integers keep their width: int is -IntMax-1 .. IntMax and uint64_t is   *)
(* 0 .. U64-1.  The purge loop of set is one step for each iteration.      *)
(***************************************************************************)
EXTENDS Integers, FiniteSets, FiniteSetsExt, Functions

CONSTANTS
  Nano,        \* nanoseconds in a second, NANO in signal.hpp
  IntMax,      \* the largest int
  U64,         \* the number of uint64_t values
  Time,        \* timestamps that signals come with
  Number,      \* numeric JSON values
  Text,        \* a JSON value that is no number
  Null,        \* no JSON value
  DblMax,      \* DBL_MAX
  Retention,   \* retentions that a configuration or a change gives
  Frequency,   \* frequencies that a change gives, in tenths
  Unit,        \* units
  Metadata,    \* metadata objects
  Error,       \* an error message
  Absent,      \* an attribute that a change leaves out or gives the wrong type
  Seconds      \* periods that a "get" asks for; 0 asks for nothing (processOptions)

Int32 == (-IntMax - 1) .. IntMax
Value == Number \cup {Text, Null}

ASSUME WidthAssumption ==
  /\ Nano \in Nat \ {0} /\ IntMax \in Nat /\ U64 \in Nat \ {0}
  \* A negative int is, as a uint64_t, more than the seconds that one holds.
  /\ (U64 - 1) \div Nano < U64 - IntMax
  /\ Time \subseteq 0 .. (U64 - 1)
  /\ Retention \subseteq Int32
  /\ Seconds \subseteq Int32 \ {0}
\* An error message is told from an answer.
ASSUME ErrorAssumption == Error \notin Int \cup [sum: Int, count: Nat]
ASSUME SettingsAssumption == Frequency \subseteq Nat
ASSUME ValueAssumption == Number \subseteq Int /\ DblMax \in Int /\ \A n \in Number : n < DblMax

VARIABLES
  history,     \* history_, the values recorded, by their timestamps
  timestamp,   \* timestamp_, of the last value received
  value,       \* value_, the last value received
  settings,    \* retention_, frequency_, unit_ and metadata_
  pc,          \* "idle", or "purge" in the loop of set
  answer       \* what the last change was answered

vars == <<history, timestamp, value, settings, pc, answer>>

Attribute == {"retention", "frequency", "unit", "metadata"}
Settings  == [retention: Int32, frequency: Nat, unit: Unit, metadata: Metadata \cup {Null}]

Recorded == DOMAIN history

TypeOK ==
  /\ Recorded \subseteq Time
  /\ history \in [Recorded -> Value]
  /\ timestamp \in Time \cup {0}
  /\ value \in Value
  /\ settings \in Settings
  /\ pc \in {"idle", "purge"}
  /\ answer \in {"none", "success", "fail"}

\* A conversion of an int to uint64_t, and the values that an int operation
\* with the exact result n may give: the overflow is undefined, and a build
\* wraps the result or computes it in 64 bits.
ToU64(n) == n % U64
IntResults(n) ==
  IF n \in Int32 THEN {n}
  ELSE {n, ((n + IntMax + 1) % (2 * (IntMax + 1))) - IntMax - 1}

Init ==
  /\ history = << >>
  /\ timestamp = 0
  /\ value = Null
  /\ settings \in [retention: Retention \ {0}, frequency: {0}, unit: Unit, metadata: {Null}]
  /\ pc = "idle"
  /\ answer = "none"

-----------------------------------------------------------------------------
(* Signal::set *)

Oldest == Min(Recorded)

\* Mutants: the limit is itself too old; the difference is not in seconds.
TooOldAtLimit(t) == (timestamp - t) \div Nano >= ToU64(settings.retention)
TooOldInNano(t)  == timestamp - t > ToU64(settings.retention)

\* (timestamp_ - first) / NANO > retention_, in uint64_t.  The key just written
\* is in the map, so that the first one is not above it.
TooOld(t) == (timestamp - t) \div Nano > ToU64(settings.retention)

\* Mutant: the value is recorded under its second.
SetBySecond(t, v) ==
  /\ pc = "idle"
  /\ value' = v
  /\ timestamp' = t
  /\ history' = [u \in Recorded \cup {t \div Nano} |-> IF u = t \div Nano THEN v ELSE history[u]]
  /\ UNCHANGED <<pc, settings, answer>>

\* A value arrives.  The loop is entered unless retention_ + 1 wraps to 0.
Set(t, v) ==
  /\ pc = "idle"
  /\ value' = v
  /\ timestamp' = t
  /\ history' = [u \in Recorded \cup {t} |-> IF u = t THEN v ELSE history[u]]
  /\ \E next \in IntResults(settings.retention + 1) :
       pc' = IF ToU64(next) > ToU64(settings.retention) THEN "purge" ELSE "idle"
  /\ UNCHANGED <<settings, answer>>

\* Mutants: nothing is erased; the loop is but a test.
PurgeNothing ==
  /\ pc = "purge"
  /\ TooOld(Oldest)
  /\ UNCHANGED vars

PurgeOnce ==
  /\ pc = "purge"
  /\ TooOld(Oldest)
  /\ history' = Restrict(history, Recorded \ {Oldest})
  /\ pc' = "idle"
  /\ UNCHANGED <<timestamp, value, settings, answer>>

\* An iteration erases the oldest value ...
Purge ==
  /\ pc = "purge"
  /\ TooOld(Oldest)
  /\ history' = Restrict(history, Recorded \ {Oldest})
  /\ UNCHANGED <<timestamp, value, settings, pc, answer>>

\* ... until it is not too old.
PurgeEnd ==
  /\ pc = "purge"
  /\ ~TooOld(Oldest)
  /\ pc' = "idle"
  /\ UNCHANGED <<history, timestamp, value, settings, answer>>

-----------------------------------------------------------------------------
(* Signal::change *)

\* The attributes in the order in which change looks for them.
Before(a) ==
  CASE a = "retention" -> {}
    [] a = "frequency" -> {"retention"}
    [] a = "unit"      -> {"retention", "frequency"}
    [] a = "metadata"  -> {"retention", "frequency", "unit"}

\* The frequency is read with json_object_get_int, without its decimals.
Read(a, x) == IF a = "frequency" THEN (x \div 10) * 10 ELSE x

\* What change assigns: it returns at the first attribute it does not find.
Assigned(config) ==
  {a \in Attribute : \A b \in Before(a) \cup {a} : config[b] # Absent}

Change(config) ==
  /\ pc = "idle"
  /\ settings' = [a \in Attribute |->
                    IF a \in Assigned(config) THEN Read(a, config[a]) ELSE settings[a]]
  /\ answer' = IF Assigned(config) = Attribute THEN "success" ELSE "fail"
  /\ UNCHANGED <<history, timestamp, value, pc>>

-----------------------------------------------------------------------------
(* Signal::average, minimum, maximum and last_value *)

\* The end of the period: "begin" is the oldest timestamp, and seconds*NANO is
\* an int product.  Without seconds the period ends at the latest timestamp.
PeriodEnds(seconds) ==
  IF seconds = 0 THEN {Max(Recorded)}
  ELSE {ToU64(Oldest + ToU64(span)) : span \in IntResults(seconds * Nano)}

\* The values the loops reach before the end.
Period(end) == {t \in Recorded : t < end /\ history[t] # Null}

\* Mutant: the null values are counted too.
AverageOfAll(end) ==
  LET P == Period(end)
  IN  IF \E t \in P : history[t] = Text THEN Error
      ELSE [sum   |-> MapThenSumSet(LAMBDA t : history[t], P),
            count |-> Cardinality({t \in Recorded : t < end})]

\* The quotient, of which only the terms are kept.
Average(end) ==
  LET P == Period(end)
  IN  IF \E t \in P : history[t] = Text THEN Error
      ELSE [sum   |-> MapThenSumSet(LAMBDA t : history[t], P),
            count |-> Cardinality(P)]

Minimum(end) ==
  LET P == Period(end)
  IN  IF \E t \in P : history[t] = Text THEN Error
      ELSE Min({history[t] : t \in P} \cup {DblMax})

Maximum(end) ==
  LET P == Period(end)
  IN  IF \E t \in P : history[t] = Text THEN Error
      ELSE Max({history[t] : t \in P} \cup {0})

\* What a "get" is answered.  An empty history is refused only if the seconds are
\* negative as well; otherwise no value is reached, whatever "begin" is.
Ends(seconds) == IF Recorded = {} THEN {0} ELSE PeriodEnds(seconds)

Answer(result, seconds) == IF Recorded = {} /\ seconds < 0 THEN Error ELSE result

-----------------------------------------------------------------------------
Configs ==
  [retention: Retention \cup {Absent}, frequency: Frequency \cup {Absent},
   unit: Unit \cup {Absent}, metadata: Metadata \cup {Absent}]

Next ==
  \/ \E t \in Time, v \in Value : Set(t, v)
  \/ Purge
  \/ PurgeEnd
  \/ \E config \in Configs : Change(config)

Spec == Init /\ [][Next]_vars

\* A call of set runs to its end.
FairSpec == Spec /\ WF_vars(Purge \/ PurgeEnd)

-----------------------------------------------------------------------------
(* Properties. *)

\* last_value and the history agree: the purge that follows a set never drops
\* the value just recorded, whatever the retention, its width and the order in
\* which the timestamps come (set, signal.cpp:329).
LastHistorized ==
  IF Recorded = {} THEN value = Null
  ELSE timestamp \in Recorded /\ history[timestamp] = value

\* The inductive invariant: moreover, the loop of set always finds a first value.
Inv == TypeOK /\ LastHistorized /\ (pc = "purge" => Recorded # {})

\* The purge drops nothing that is within the retention, counted in seconds
\* without any width, and nothing at all if the retention is negative.
RetentionKept ==
  [][\A t \in Recorded \ DOMAIN history' :
       /\ settings.retention >= 0
       /\ timestamp >= t + (settings.retention + 1) * Nano]_vars

\* When set is through, the history is the retention's: everything older than
\* the last value by more seconds than the retention is gone, late values included.
\* A negative retention keeps everything.
HistoryBounded ==
  [][pc = "purge" /\ pc' = "idle" /\ settings.retention >= 0 =>
       \A t \in DOMAIN history' : timestamp < t + (settings.retention + 1) * Nano]_vars

\* average, minimum and maximum agree about the same period: they fail together,
\* and an average of some values lies between the two others.
AnswersAgree ==
  \A seconds \in Seconds : \A end \in Ends(seconds) :
    LET avg == Answer(Average(end), seconds)
        min == Answer(Minimum(end), seconds)
        max == Answer(Maximum(end), seconds)
    IN  /\ avg = Error <=> min = Error
        /\ avg = Error <=> max = Error
        /\ avg # Error /\ avg.count > 0 =>
             min * avg.count <= avg.sum /\ avg.sum <= max * avg.count

\* The loop of set comes to an end.
PurgeTerminates == pc = "purge" ~> pc = "idle"

=============================================================================
