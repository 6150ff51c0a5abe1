------------------------ MODULE SignalHistoryProofs ------------------------
(***************************************************************************)
(* The purge of Signal::set for every width of the integers, every         *)
(* retention and every order of the timestamps: it never drops the value   *)
(* just recorded, never one that is within the retention, and leaves none  *)
(* that is out of it.  What is answered about a period agrees, whatever    *)
(* has been recorded in it.                                                *)
(***************************************************************************)
EXTENDS SignalHistory, LeastElement

-----------------------------------------------------------------------------
(* Integers. *)

\* The quotient is the whole number of seconds in d.
LEMMA WholeSeconds ==
  ASSUME NEW d \in Nat, NEW n \in Nat \ {0}, NEW r \in Nat
  PROVE  (d \div n > r) <=> (d >= (r + 1) * n)
<1> DEFINE q == d \div n
<1>1. q \in Nat /\ d % n \in 0 .. n - 1 /\ d = n * q + (d % n)
  BY SMT
<1> HIDE DEF q
<1>2. CASE q > r
  <2>1. n * q >= n * (r + 1)
    BY <1>1, <1>2, SMT
  <2> QED
    BY <1>1, <1>2, <2>1, SMT DEF q
<1>3. CASE q <= r
  <2>1. n * q <= n * r
    BY <1>1, <1>3, SMT
  <2>2. n * (r + 1) = n * r + n
    BY SMT
  <2> QED
    BY <1>1, <1>3, <2>1, <2>2, SMT DEF q
<1> QED
  BY <1>1, <1>2, <1>3, SMT

\* The conversion to uint64_t.
LEMMA Converted ==
  /\ \A n \in Int : ToU64(n) \in Nat
  /\ \A n \in Int32 : n >= 0 => ToU64(n) = n
  /\ \A n \in Int32 : n < 0 => ToU64(n) = U64 + n
<1>1. IntMax < U64
  BY WidthAssumption, SMT
<1> QED
  BY <1>1, WidthAssumption, SMT DEF ToU64, Int32

-----------------------------------------------------------------------------
(* The inductive invariant. *)

USE DEF Recorded

\* Nothing is recorded at first, and the settings are the default ones.
LEMMA InvInit == Init => Inv
<1> SUFFICES ASSUME Init PROVE Inv
  OBVIOUS
<1>1. Recorded = {}
  BY DEF Init
<1>2. history \in [Recorded -> Value]
  BY <1>1 DEF Init
<1>3. settings \in Settings
  BY WidthAssumption, SMT DEF Init, Settings
<1> QED
  BY <1>1, <1>2, <1>3 DEF Init, Inv, TypeOK, LastHistorized, Value

\* A new value is recorded under its timestamp.
LEMMA SetKeepsInv ==
  ASSUME Inv, NEW t \in Time, NEW v \in Value, Set(t, v)
  PROVE  Inv'
<1>1. Recorded' = Recorded \cup {t} /\ history'[t] = v /\ timestamp' = t /\ value' = v
  BY DEF Set
<1>2. history' \in [Recorded' -> Value]
  BY <1>1 DEF Set, Inv, TypeOK
<1>3. pc' \in {"idle", "purge"}
  BY DEF Set
<1> QED
  BY <1>1, <1>2, <1>3 DEF Set, Inv, TypeOK, LastHistorized

\* The value just recorded is never too old, so that it is never the one erased.
LEMMA LastNotTooOld ==
  ASSUME TypeOK, TooOld(Oldest)
  PROVE  Oldest # timestamp
<1>1. timestamp \in Nat /\ settings.retention \in Int
  BY WidthAssumption, SMT DEF TypeOK, Settings, Int32
<1>2. ToU64(settings.retention) \in Nat
  BY <1>1, Converted
<1>3. (timestamp - timestamp) \div Nano = 0
  BY <1>1, WidthAssumption, SMT
<1> QED
  BY <1>2, <1>3, SMT DEF TooOld

\* The purge erases what is too old, which the last value is not.
LEMMA PurgeKeepsInv ==
  ASSUME Inv, Purge
  PROVE  Inv'
<1>1. timestamp \in Recorded /\ history[timestamp] = value
  BY DEF Inv, LastHistorized, Purge
<1>2. Oldest # timestamp
  BY LastNotTooOld DEF Inv, Purge
<1>3. Recorded' = Recorded \ {Oldest} /\ \A t \in Recorded' : history'[t] = history[t]
  BY DEF Purge, Restrict
<1>4. history' \in [Recorded' -> Value]
  BY <1>3 DEF Purge, Inv, TypeOK, Restrict
<1> QED
  BY <1>1, <1>2, <1>3, <1>4 DEF Purge, Inv, TypeOK, LastHistorized

\* What a request assigns, as it is read, is in the range of its attribute.
LEMMA ChangeKeepsInv ==
  ASSUME Inv, NEW config \in Configs, Change(config)
  PROVE  Inv'
<1>1. settings' \in Settings
  <2>1. settings.retention \in Int32 /\ settings.frequency \in Nat
        /\ settings.unit \in Unit /\ settings.metadata \in Metadata \cup {Null}
    BY DEF Inv, TypeOK, Settings
  <2> DEFINE new(a) == IF a \in Assigned(config) THEN Read(a, config[a]) ELSE settings[a]
  <2>2. \A a \in Attribute : a \in Assigned(config) => config[a] # Absent
    BY DEF Assigned
  <2>3. new("retention") \in Int32
    BY <2>1, <2>2, WidthAssumption DEF Configs, Read, Attribute
  <2>4. new("frequency") \in Nat
    <3>1. ASSUME NEW x \in Nat PROVE (x \div 10) * 10 \in Nat
      BY <3>1, SMT
    <3>2. "frequency" \in Assigned(config) => config["frequency"] \in Nat
      BY <2>2, SettingsAssumption DEF Configs, Attribute
    <3> QED
      BY <2>1, <3>1, <3>2 DEF Read
  <2>5. new("unit") \in Unit
    BY <2>1, <2>2 DEF Configs, Read, Attribute
  <2>6. new("metadata") \in Metadata \cup {Null}
    BY <2>1, <2>2 DEF Configs, Read, Attribute
  <2>7. settings' = [a \in Attribute |-> new(a)]
    BY DEF Change
  <2> HIDE DEF new
  <2>8. settings' = [retention |-> new("retention"), frequency |-> new("frequency"),
                     unit |-> new("unit"), metadata |-> new("metadata")]
    BY <2>7, SMT DEF Attribute
  <2> QED
    BY <2>3, <2>4, <2>5, <2>6, <2>8 DEF Settings
<1> QED
  BY <1>1 DEF Change, Inv, TypeOK, LastHistorized

\* The history and the last value fit together in every state that is reached.
THEOREM Inductive == Spec => []Inv
<1>1. Init => Inv
  BY InvInit
<1>2. Inv /\ [Next]_vars => Inv'
  <2> SUFFICES ASSUME Inv, [Next]_vars PROVE Inv'
    OBVIOUS
  <2>1. ASSUME NEW t \in Time, NEW v \in Value, Set(t, v) PROVE Inv'
    BY <2>1, SetKeepsInv
  <2>2. CASE Purge
    BY <2>2, PurgeKeepsInv
  <2>3. CASE PurgeEnd
    BY <2>3 DEF PurgeEnd, Inv, TypeOK, LastHistorized
  <2>4. ASSUME NEW config \in Configs, Change(config) PROVE Inv'
    BY <2>4, ChangeKeepsInv
  <2>5. CASE UNCHANGED vars
    BY <2>5 DEF vars, Inv, TypeOK, LastHistorized
  <2> QED
    BY <2>1, <2>2, <2>3, <2>4, <2>5 DEF Next
<1> QED
  BY <1>1, <1>2, PTL DEF Spec

-----------------------------------------------------------------------------
(* What the purge does. *)

\* The variables keep their types, whatever the width of the integers.
THEOREM TypeCorrect == Spec => []TypeOK
<1>1. Inv => TypeOK
  BY DEF Inv
<1> QED
  BY <1>1, Inductive, PTL

\* The purge that follows a set never drops the value just recorded.
THEOREM LastKept == Spec => []LastHistorized
<1>1. Inv => LastHistorized
  BY DEF Inv
<1> QED
  BY <1>1, Inductive, PTL

-----------------------------------------------------------------------------
(* The retention. *)

\* A value that comes late is not above the difference that is computed.
LEMMA TypesOfPurge ==
  ASSUME Inv
  PROVE  /\ timestamp \in Nat /\ Recorded \subseteq Nat
         /\ \A t \in Recorded : timestamp - t <= U64 - 1
         /\ timestamp <= U64 - 1
         /\ settings.retention \in Int32 /\ settings.retention \in Int
         /\ Nano \in Nat \ {0}
BY WidthAssumption, SMT DEF Inv, TypeOK, Settings, Int32

\* What is too old is so in seconds counted without any width, and a negative
\* retention makes nothing too old.
LEMMA TooOldIsOld ==
  ASSUME Inv, NEW t \in Recorded, TooOld(t)
  PROVE  settings.retention >= 0 /\ timestamp >= t + (settings.retention + 1) * Nano
<1> DEFINE d == timestamp - t
           r == settings.retention
<1>1. d \in Int /\ d <= U64 - 1 /\ r \in Int32 /\ Nano \in Nat \ {0}
  BY TypesOfPurge, SMT
<1>2. d \div Nano > ToU64(r)
  BY DEF TooOld
<1>3. ToU64(r) \in Nat
  BY <1>1, TypesOfPurge, Converted
<1> HIDE DEF d, r
<1>4. d \in Nat
  <2>1. d < 0 => d \div Nano < 0
    BY <1>1, SMT
  <2> QED
    BY <1>1, <1>2, <1>3, <2>1, SMT
<1>5. r >= 0
  <2> SUFFICES ASSUME r < 0 PROVE FALSE
    BY <1>1, SMT DEF Int32
  <2>1. ToU64(r) = U64 + r /\ r >= -IntMax - 1
    BY <1>1, Converted, WidthAssumption, SMT DEF Int32
  <2>2. \A x, y \in Nat, n \in Nat \ {0} : x <= y => x \div n <= y \div n
    BY SMT
  <2>3. d \div Nano <= (U64 - 1) \div Nano
    BY <1>1, <1>4, <2>2, WidthAssumption, SMT
  <2> QED
    BY <1>1, <1>2, <1>4, <2>1, <2>3, WidthAssumption, SMT DEF Int32
<1>6. ToU64(r) = r /\ r \in Nat
  BY <1>1, <1>5, Converted DEF Int32
<1>7. d >= (r + 1) * Nano
  BY <1>1, <1>2, <1>4, <1>6, WholeSeconds
<1>8. timestamp \in Int /\ t \in Int /\ (r + 1) * Nano \in Int
  BY <1>1, <1>6, TypesOfPurge, SMT
<1> QED
  BY <1>5, <1>7, <1>8, SMT DEF d, r

\* The purge drops nothing that is within the retention, and nothing at all if
\* the retention is negative.
THEOREM NothingLost == Spec => RetentionKept
<1>1. ASSUME Inv, [Next]_vars, NEW t \in Recorded \ DOMAIN history'
      PROVE  settings.retention >= 0 /\ timestamp >= t + (settings.retention + 1) * Nano
  <2>1. ASSUME NEW u \in Time, NEW v \in Value, Set(u, v) PROVE FALSE
    BY <1>1, <2>1 DEF Set
  <2>2. CASE Purge
    BY <1>1, <2>2, TooOldIsOld DEF Purge, Restrict
  <2>3. CASE PurgeEnd
    BY <1>1, <2>3 DEF PurgeEnd
  <2>4. ASSUME NEW config \in Configs, Change(config) PROVE FALSE
    BY <1>1, <2>4 DEF Change
  <2>5. CASE UNCHANGED vars
    BY <1>1, <2>5 DEF vars
  <2> QED
    BY <1>1, <2>1, <2>2, <2>3, <2>4, <2>5 DEF Next
<1>2. Inv /\ [Next]_vars =>
        [\A t \in Recorded \ DOMAIN history' :
           /\ settings.retention >= 0
           /\ timestamp >= t + (settings.retention + 1) * Nano]_vars
  BY <1>1
<1> QED
  BY <1>2, Inductive, PTL DEF Spec, RetentionKept

\* When set is through, nothing is left that is out of the retention.
THEOREM NothingKept == Spec => HistoryBounded
<1>1. ASSUME Inv, [Next]_vars, pc = "purge", pc' = "idle", settings.retention >= 0,
             NEW t \in DOMAIN history'
      PROVE  timestamp < t + (settings.retention + 1) * Nano
  <2>1. PurgeEnd
    BY <1>1 DEF Next, Set, Purge, Change, vars
  <2>2. t \in Recorded /\ ~TooOld(Oldest)
    BY <1>1, <2>1 DEF PurgeEnd
  <2>3. Oldest \in Nat /\ t \in Nat /\ Oldest <= t
    BY <1>1, <2>2, TypesOfPurge, LeastExists DEF Oldest
  <2> DEFINE d == timestamp - Oldest
             r == settings.retention
  <2>4. r \in Nat /\ ToU64(r) = r /\ timestamp \in Nat /\ Nano \in Nat \ {0}
    BY <1>1, TypesOfPurge, Converted, SMT
  <2>5. ~(d \div Nano > r)
    BY <2>2, <2>4 DEF TooOld
  <2>6. d \in Int /\ (r + 1) * Nano \in Nat
    BY <2>3, <2>4, SMT
  <2>7. d < (r + 1) * Nano
    <3> HIDE DEF d, r
    <3>1. CASE d < 0
      BY <2>6, <3>1, SMT
    <3>2. CASE d \in Nat
      BY <2>4, <2>5, <2>6, <3>2, WholeSeconds, SMT
    <3> QED
      BY <2>6, <3>1, <3>2
  <2> QED
    BY <2>3, <2>4, <2>6, <2>7, SMT
<1>2. Inv /\ [Next]_vars =>
        [pc = "purge" /\ pc' = "idle" /\ settings.retention >= 0 =>
           \A t \in DOMAIN history' : timestamp < t + (settings.retention + 1) * Nano]_vars
  BY <1>1
<1> QED
  BY <1>2, Inductive, PTL DEF Spec, HistoryBounded

-----------------------------------------------------------------------------
(* The sum of what is recorded in a period. *)

\* The sums over the sets in B, each from the sum over the same set without one element.
Sums(B, f) ==
  [s \in B |-> IF s = {} THEN 0 ELSE LET t == CHOOSE t \in s : TRUE IN history[t] + f[s \ {t}]]

\* Those sums are well-defined for the subsets of a finite set: there are those over the
\* sets of at most n elements, because there are those over the sets of fewer.
LEMMA SumsExist ==
  ASSUME NEW P, IsFiniteSet(P)
  PROVE  \E f : f = Sums(SUBSET P, f)
<1> DEFINE UpTo(n) == {s \in SUBSET P : Cardinality(s) <= n}
           Undefined == {n \in Nat : ~\E f : f = Sums(UpTo(n), f)}
           m == Min(Undefined)
<1>1. \A s \in SUBSET P : /\ IsFiniteSet(s) /\ Cardinality(s) \in 0 .. Cardinality(P)
                          /\ Cardinality(s) = 0 <=> s = {}
                          /\ \A t \in s : Cardinality(s \ {t}) = Cardinality(s) - 1
  BY FS_Subset, FS_CardinalityType, FS_EmptySet, FS_RemoveElement
<1>2. UpTo(Cardinality(P)) = SUBSET P /\ Cardinality(P) \in Nat
  BY <1>1, FS_CardinalityType
<1>3. ASSUME Undefined # {} PROVE FALSE
  <2>1. m \in Undefined /\ \A n \in Undefined : m <= n
    BY <1>3, LeastExists
  <2>2. m \in Nat /\ ~\E f : f = Sums(UpTo(m), f)
    BY <2>1
  <2>3. \A n \in Nat : n < m => \E f : f = Sums(UpTo(n), f)
    <3> HIDE DEF m
    <3> QED
      BY <2>1, <2>2
  <2> HIDE DEF m, Undefined
  <2>4. CASE m = 0
    <3> DEFINE f == [s \in UpTo(0) |-> 0]
    <3>1. \A s \in UpTo(0) : s = {}
      BY <1>1
    <3>2. f = Sums(UpTo(0), f)
      BY <3>1, Zenon DEF Sums
    <3> QED
      BY <2>2, <2>4, <3>2
  <2>5. CASE m # 0
    <3>1. m - 1 \in Nat /\ m - 1 < m
      BY <2>2, <2>5
    <3>2. PICK f : f = Sums(UpTo(m - 1), f)
      BY <2>3, <3>1
    <3> DEFINE g == Sums(UpTo(m), f)
    <3>3. UpTo(m - 1) \subseteq UpTo(m)
      BY <1>1, <2>2
    <3>4. \A s \in UpTo(m - 1) : g[s] = f[s]
      BY <3>2, <3>3, Zenon DEF Sums
    <3>5. ASSUME NEW s \in UpTo(m), NEW t \in s PROVE s \ {t} \in UpTo(m - 1)
      <4>1. Cardinality(s) \in Nat /\ Cardinality(s \ {t}) = Cardinality(s) - 1
        BY <1>1, <1>2
      <4>2. Cardinality(s) <= m
        OBVIOUS
      <4>3. Cardinality(s \ {t}) <= m - 1
        BY <2>2, <4>1, <4>2
      <4> QED
        BY <4>3
    <3> HIDE DEF g, UpTo
    <3>6. \A s \in UpTo(m) : s # {} =>
             LET t == CHOOSE t \in s : TRUE IN g[s \ {t}] = f[s \ {t}]
      BY <3>4, <3>5
    <3>7. Sums(UpTo(m), f) = Sums(UpTo(m), g)
      BY <3>6 DEF Sums
    <3> QED
      BY <2>2, <3>7 DEF g
  <2> QED
    BY <2>4, <2>5
<1> QED
  BY <1>2, <1>3

\* MapThenSumSet is that sum.
LEMMA SumIs ==
  ASSUME NEW P, IsFiniteSet(P)
  PROVE  \E f : MapThenSumSet(LAMBDA t : history[t], P) = f[P] /\ f = Sums(SUBSET P, f)
<1> DEFINE iter[s \in SUBSET P] ==
      IF s = {} THEN 0 ELSE LET t == CHOOSE t \in s : TRUE IN history[t] + iter[s \ {t}]
<1>1. MapThenSumSet(LAMBDA t : history[t], P) = iter[P]
  BY DEF MapThenSumSet, MapThenFoldSet
<1>2. iter = CHOOSE f : f = Sums(SUBSET P, f)
  BY DEF Sums
<1> HIDE DEF iter
<1> QED
  BY <1>1, <1>2, SumsExist

\* A sum of n numbers is between n times a lower bound and n times an upper one.
LEMMA SumBetween ==
  ASSUME NEW P, IsFiniteSet(P), NEW lo \in Int, NEW hi \in Int,
         \A t \in P : history[t] \in Int /\ lo <= history[t] /\ history[t] <= hi,
         NEW f, f = Sums(SUBSET P, f)
  PROVE  /\ f[P] \in Int
         /\ lo * Cardinality(P) <= f[P] /\ f[P] <= hi * Cardinality(P)
<1> DEFINE Fits(s) == /\ f[s] \in Int
                      /\ lo * Cardinality(s) <= f[s] /\ f[s] <= hi * Cardinality(s)
           B == {s \in SUBSET P : ~Fits(s)}
<1>1. B = {}
  <2> SUFFICES ASSUME B # {} PROVE FALSE
    OBVIOUS
  <2>1. PICK s \in B : \A t \in s : s \ {t} \notin B
    BY LeastSubset
  <2>2. CASE s = {}
    <3>1. f[s] = 0 /\ Cardinality(s) = 0
      BY <2>2, FS_EmptySet DEF Sums
    <3> QED
      BY <2>1, <3>1
  <2>3. CASE s # {}
    <3> DEFINE t == CHOOSE t \in s : TRUE
               r == s \ {t}
    <3>1. t \in s /\ t \in P /\ r \in SUBSET P
      BY <2>3
    <3>2. Fits(r)
      BY <2>1, <3>1
    <3>3. f[s] = history[t] + f[r]
      BY <2>3, Zenon DEF Sums
    <3>4. Cardinality(s) = Cardinality(r) + 1 /\ Cardinality(r) \in Nat
      <4>1. IsFiniteSet(s) /\ IsFiniteSet(r)
        BY FS_Subset, <3>1
      <4>2. Cardinality(r) = Cardinality(s) - 1 /\ Cardinality(s) \in Nat /\ Cardinality(r) \in Nat
        BY <3>1, <4>1, FS_RemoveElement, FS_CardinalityType
      <4> QED
        BY <4>2
    <3>5. history[t] \in Int /\ lo <= history[t] /\ history[t] <= hi
      BY <3>1
    <3> HIDE DEF t, r
    <3>6. /\ f[s] \in Int
          /\ lo * (Cardinality(r) + 1) <= f[s] /\ f[s] <= hi * (Cardinality(r) + 1)
      <4>1. \A a, b, c \in Int : a * (b + 1) = a * b + a
        BY SMT
      <4>2. lo * (Cardinality(r) + 1) = lo * Cardinality(r) + lo
        BY <3>4, <4>1
      <4>3. hi * (Cardinality(r) + 1) = hi * Cardinality(r) + hi
        BY <3>4, <4>1
      <4>4. lo * Cardinality(r) \in Int /\ hi * Cardinality(r) \in Int
        BY <3>4
      <4> QED
        BY <3>2, <3>3, <3>5, <4>2, <4>3, <4>4
    <3> QED
      BY <2>1, <3>4, <3>6
  <2> QED
    BY <2>2, <2>3
<1> QED
  BY <1>1

\* What a "get" is answered is an answer or an error for all three at once, and the
\* average is between the minimum and the maximum: the least and the greatest of the
\* numbers that the sum is made of, with DBL_MAX and 0.
LEMMA AnswersOfPeriod ==
  ASSUME TypeOK, NEW end
  PROVE  LET avg == Average(end)
         IN  /\ avg = Error <=> Minimum(end) = Error
             /\ avg = Error <=> Maximum(end) = Error
             /\ avg # Error => /\ Minimum(end) * avg.count <= avg.sum
                              /\ avg.sum <= Maximum(end) * avg.count
<1> DEFINE P == Period(end)
           lows == {history[t] : t \in P} \cup {DblMax}
           highs == {history[t] : t \in P} \cup {0}
<1>1. CASE \E t \in P : history[t] = Text
  BY <1>1 DEF Average, Minimum, Maximum
<1>2. CASE ~\E t \in P : history[t] = Text
  <2>1. IsFiniteSet(Recorded)
    <3>1. IsFiniteSet(0 .. (U64 - 1))
      BY WidthAssumption, FS_Interval
    <3>2. Recorded \subseteq 0 .. (U64 - 1)
      BY WidthAssumption DEF TypeOK
    <3> QED
      BY <3>1, <3>2, FS_Subset
  <2>2. IsFiniteSet(P)
    BY <2>1, FS_Subset DEF Period
  <2>3. \A t \in P : history[t] \in Int
    <3>1. \A t \in P : history[t] \in Value \ {Null, Text}
      BY <1>2 DEF Period, TypeOK
    <3> QED
      BY <3>1, ValueAssumption DEF Value
  <2> HIDE DEF P
  <2>4. IsFiniteSet({history[t] : t \in P})
    <3> DEFINE T == {history[t] : t \in P}
               f == [t \in P |-> history[t]]
    <3>1. f \in Surjection(P, T)
      BY DEF Surjection
    <3> QED
      BY <2>2, <3>1, FS_Surjection
  <2>5. IsFiniteSet(lows) /\ IsFiniteSet(highs)
    BY <2>4, FS_AddElement
  <2>6. lows \subseteq Int /\ highs \subseteq Int /\ lows # {} /\ highs # {}
    BY <2>3, ValueAssumption
  <2>7. Min(lows) \in Int /\ Max(highs) \in Int
    BY <2>5, <2>6, LeastAndGreatest
  <2>8. \A t \in P : Min(lows) <= history[t] /\ history[t] <= Max(highs)
    <3>1. \A x \in lows : Min(lows) <= x
      BY <2>5, <2>6, LeastAndGreatest
    <3>2. \A x \in highs : Max(highs) >= x
      BY <2>5, <2>6, LeastAndGreatest
    <3>3. \A t \in P : history[t] \in lows /\ history[t] \in highs
      OBVIOUS
    <3> HIDE DEF lows, highs
    <3> QED
      BY <2>3, <2>7, <3>1, <3>2, <3>3
  <2>9. Minimum(end) = Min(lows) /\ Maximum(end) = Max(highs)
    BY <1>2 DEF Minimum, Maximum, P
  <2> HIDE DEF lows, highs
  <2> DEFINE sum == MapThenSumSet(LAMBDA t : history[t], P)
  <2>10. /\ sum \in Int /\ Cardinality(P) \in Nat
         /\ Min(lows) * Cardinality(P) <= sum /\ sum <= Max(highs) * Cardinality(P)
    <3>1. PICK f : sum = f[P] /\ f = Sums(SUBSET P, f)
      BY <2>2, SumIs
    <3>2. /\ f[P] \in Int
          /\ Min(lows) * Cardinality(P) <= f[P] /\ f[P] <= Max(highs) * Cardinality(P)
      BY <2>2, <2>3, <2>7, <2>8, <3>1, SumBetween
    <3> QED
      BY <2>2, <3>1, <3>2, FS_CardinalityType
  <2>11. Average(end) = [sum |-> sum, count |-> Cardinality(P)]
    BY <1>2 DEF Average, P
  <2> HIDE DEF sum
  <2>12. Average(end) # Error /\ Min(lows) # Error /\ Max(highs) # Error
    BY <2>7, <2>10, <2>11, ErrorAssumption
  <2> QED
    BY <2>9, <2>10, <2>11, <2>12
<1> QED
  BY <1>1, <1>2

\* Average, minimum and maximum agree about every period that a "get" may ask for, those
\* that overflow included.
THEOREM AllAnswersAgree == Spec => []AnswersAgree
<1>1. Inv => AnswersAgree
  <2> SUFFICES ASSUME Inv, NEW seconds \in Seconds, NEW end \in Ends(seconds)
               PROVE  LET avg == Answer(Average(end), seconds)
                          min == Answer(Minimum(end), seconds)
                          max == Answer(Maximum(end), seconds)
                      IN  /\ avg = Error <=> min = Error
                          /\ avg = Error <=> max = Error
                          /\ avg # Error /\ avg.count > 0 =>
                               min * avg.count <= avg.sum /\ avg.sum <= max * avg.count
    BY DEF AnswersAgree
  <2> QED
    BY AnswersOfPeriod DEF Inv, Answer
<1> QED
  BY <1>1, Inductive, PTL

=============================================================================
