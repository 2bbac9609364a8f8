-------------------------- MODULE CacheExpiryProofs --------------------------
(***************************************************************************)
(* Proofs about CacheExpiry, for every length of a second in ticks, every  *)
(* lifetime and every range of the clock.                                  *)
(***************************************************************************)
EXTENDS CacheExpiry, TLAPS

USE SMTT(30), ZenonT(30)

\* Rounding down to seconds loses less than a second.
LEMMA SecsBounds ==
    ASSUME NEW x \in Nat
    PROVE  /\ Secs(x) \in Nat
           /\ Secs(x) * Unit <= x
           /\ x < Secs(x) * Unit + Unit
BY UnitAssumption DEF Secs

\* A later time is in the same second or a later one.
LEMMA SecsMonotone ==
    ASSUME NEW x \in Nat, NEW y \in Nat, x <= y
    PROVE  Secs(x) <= Secs(y)
BY UnitAssumption DEF Secs

\* The stamp of a saved deadline is a natural number.
LEMMA StampType ==
    ASSUME NEW t \in Nat, NEW d \in Int
    PROVE  Stamp(t, d) \in Nat
<1>1. CASE d > t
  BY <1>1, d - t \in Nat, SecsBounds, UnitAssumption DEF Stamp
<1>2. CASE d <= t
  BY <1>2, t - d \in Nat, SecsBounds, UnitAssumption DEF Stamp
<1> QED BY <1>1, <1>2

\* A deadline read back is an integer.
LEMMA DeadlineType ==
    ASSUME NEW t \in Nat, NEW s \in Nat
    PROVE  Age(t, s) \in Int /\ Deadline(t, s) \in Int
<1>1. Secs(t) \in Nat
  BY SecsBounds
<1>2. Age(t, s) \in Int
  BY <1>1, UnitAssumption DEF Age
<1> QED BY <1>1, <1>2, UnitAssumption DEF Deadline

\* The stamp in a file of this program is that of the deadline that was saved,
\* earlier.
FileCoherent ==
    file # Null /\ ~file.relative => file.stamp = Stamp(file.at, file.until) /\ file.at <= wall

\* The inductive invariant.
Inv == ExpiryTypeOK /\ FileCoherent

\* A new entry is not saved yet, and a file of an older program is well formed.
LEMMA InitInv == ExpiryInit => Inv
<1> SUFFICES ASSUME ExpiryInit PROVE Inv
  OBVIOUS
<1>1. wall \in Nat /\ until \in Int /\ until - wall \in Nat
  BY UnitAssumption DEF ExpiryInit
<1>2. Secs(until - wall) \in Nat
  BY <1>1, SecsBounds
<1>3. up \in BOOLEAN
  BY Zenon DEF ExpiryInit
<1>4. CASE file = Null
  BY <1>1, <1>3, <1>4 DEF Inv, ExpiryTypeOK, FileCoherent
<1>5. CASE file = Saved(TRUE, Secs(until - wall))
  <2>1. file \in [relative : BOOLEAN, stamp : Nat, until : Int, at : Nat] /\ file.relative
    BY <1>1, <1>2, <1>5, Zenon DEF Saved
  <2> QED BY <1>1, <1>3, <2>1 DEF Inv, ExpiryTypeOK, FileCoherent
<1> QED BY <1>4, <1>5 DEF ExpiryInit

\* Saves, stops and loads keep the invariant.
LEMMA NextInv == Inv /\ [ExpiryNext]_expiryVars => Inv'
<1> SUFFICES ASSUME Inv, [ExpiryNext]_expiryVars PROVE Inv'
  OBVIOUS
<1> USE DEF Inv, ExpiryTypeOK, FileCoherent
<1>1. CASE ExpiryTick
  BY <1>1 DEF ExpiryTick
<1>2. CASE Save
  <2>1. Stamp(wall, until) \in Nat
    BY StampType
  <2> QED BY <1>2, <2>1 DEF Save, Saved
<1>3. CASE Stop
  BY <1>3, ZenonT(30) DEF Stop
<1>4. CASE Load
  <2>1. file.stamp \in Nat
    BY <1>4, UnitAssumption DEF Load
  <2>2. Deadline(wall, file.stamp) \in Int
    BY <2>1, DeadlineType
  <2>3. Remaining(wall, file.stamp) \in Int
    BY <2>1, UnitAssumption DEF Remaining
  <2> QED BY <1>4, <2>2, <2>3 DEF Load
<1>5. CASE UNCHANGED expiryVars
  BY <1>5 DEF expiryVars
<1> QED BY <1>1, <1>2, <1>3, <1>4, <1>5 DEF ExpiryNext

\* Every state of CacheExpiry is well typed and its file is coherent.
THEOREM ExpiryInvariant == ExpirySpec => []Inv
BY InitInv, NextInv, PTL DEF ExpirySpec

\* The variables keep their types; no stamp that emit writes is negative.
THEOREM ExpiryTypeCorrect == ExpirySpec => []ExpiryTypeOK
<1>1. Inv => ExpiryTypeOK
  BY DEF Inv
<1> QED BY ExpiryInvariant, <1>1, PTL

\* The step that brings the entry back is Load.
LEMMA ReloadIsLoad ==
    ASSUME Inv, [ExpiryNext]_expiryVars, Reloaded
    PROVE  /\ file # Null /\ file \in [relative : BOOLEAN, stamp : Nat, until : Int, at : Nat]
           /\ file.stamp = Stamp(file.at, file.until) /\ file.at <= wall
           /\ wall \in Nat
           /\ until' = Deadline(wall, file.stamp)
BY ZenonT(30) DEF Inv, ExpiryTypeOK, FileCoherent, Reloaded, ExpiryNext, expiryVars, ExpiryTick, Save, Stop, Load

\* read never gives an entry that emit found expired a deadline in the future.
LEMMA ExpiredDeadline ==
    ASSUME NEW at \in Nat, NEW t \in Nat, NEW d \in Int, at <= t, d <= at
    PROVE  Deadline(t, Stamp(at, d)) <= t
<1> DEFINE s == Stamp(at, d)
<1>1. s \in Nat /\ Secs(at) \in Nat /\ Secs(t) \in Nat /\ Secs(at - d) \in Nat
  BY StampType, SecsBounds, at - d \in Nat
<1>2. s <= Secs(at)
  BY <1>1 DEF Stamp
<1>3. s <= Secs(t)
  BY <1>1, <1>2, SecsMonotone
<1> HIDE DEF s
<1>4. Age(t, s) >= 0
  BY <1>1, <1>3, UnitAssumption DEF Age
<1>5. Age(t, s) \in Int
  BY <1>1, DeadlineType
<1>6. Deadline(t, s) <= t
  BY <1>1, <1>3, <1>4, <1>5, UnitAssumption DEF Deadline
<1> QED BY <1>6 DEF s

\* A restart never turns an expired answer into a valid one.
THEOREM ExpiredStays == ExpirySpec => ExpiredStaysExpired
<1>1. Inv /\ [ExpiryNext]_expiryVars
      => [Reloaded /\ file.until <= file.at => until' <= wall]_expiryVars
  <2> SUFFICES ASSUME Inv, [ExpiryNext]_expiryVars, Reloaded, file.until <= file.at
               PROVE  until' <= wall
    OBVIOUS
  <2> QED BY ReloadIsLoad, ExpiredDeadline
<1> QED BY <1>1, ExpiryInvariant, PTL DEF ExpirySpec, ExpiredStaysExpired

\* How far a save and a load may move a deadline.
LEMMA RoundTrip ==
    ASSUME NEW at \in Nat, NEW t \in Nat, NEW d \in Int, at <= t,
           Secs(at - d) <= Secs(at),
           Stamp(at, d) <= Secs(t) => t - Age(t, Stamp(at, d)) >= Earliest
    PROVE  /\ Deadline(t, Stamp(at, d)) > d - 2 * Unit
           /\ Deadline(t, Stamp(at, d)) < d + 2 * Unit
           /\ d > at => Deadline(t, Stamp(at, d)) < d + Unit
<1> DEFINE s == Stamp(at, d)
<1>1. s \in Nat /\ Secs(at) \in Nat /\ Secs(t) \in Nat /\ Unit \in Nat \ {0}
  BY StampType, SecsBounds, UnitAssumption, ZenonT(30)
<1>2. Deadline(t, s) = t - Secs(t) * Unit + s * Unit
  BY <1>1 DEF Deadline, Age
<1>3. /\ Secs(t) * Unit <= t /\ t < Secs(t) * Unit + Unit
      /\ Secs(at) * Unit <= at /\ at < Secs(at) * Unit + Unit
  BY SecsBounds
<1>4. CASE d > at
  <2>1. /\ Secs(d - at) \in Nat
        /\ Secs(d - at) * Unit <= d - at /\ d - at < Secs(d - at) * Unit + Unit
    BY <1>4, d - at \in Nat, SecsBounds
  <2>2. s * Unit = Secs(at) * Unit + Secs(d - at) * Unit
    BY <1>1, <1>4, <2>1 DEF Stamp
  <2> QED BY <1>1, <1>2, <1>3, <1>4, <2>1, <2>2
<1>5. CASE d <= at
  <2>1. /\ Secs(at - d) \in Nat
        /\ Secs(at - d) * Unit <= at - d /\ at - d < Secs(at - d) * Unit + Unit
    BY <1>5, at - d \in Nat, SecsBounds
  <2>2. s * Unit = Secs(at) * Unit - Secs(at - d) * Unit
    BY <1>1, <1>5, <2>1 DEF Stamp
  <2> QED BY <1>1, <1>2, <1>3, <1>5, <2>1, <2>2
<1> QED BY <1>4, <1>5

\* A save and a load move a deadline by less than two seconds, and put off that
\* of a valid answer by less than one.
THEOREM RoundTripIsBounded == ExpirySpec => RoundTripBounded
<1> DEFINE A == Reloaded
                /\ Secs(file.at - file.until) <= Secs(file.at)
                /\ (file.stamp <= Secs(wall) => wall - Age(wall, file.stamp) >= Earliest)
                => /\ until' > file.until - 2 * Unit
                   /\ until' < file.until + 2 * Unit
                   /\ file.until > file.at => until' < file.until + Unit
<1>1. Inv /\ [ExpiryNext]_expiryVars => [A]_expiryVars
  <2> SUFFICES ASSUME Inv, [ExpiryNext]_expiryVars, Reloaded,
                      Secs(file.at - file.until) <= Secs(file.at),
                      file.stamp <= Secs(wall) => wall - Age(wall, file.stamp) >= Earliest
               PROVE  /\ until' > file.until - 2 * Unit
                      /\ until' < file.until + 2 * Unit
                      /\ file.until > file.at => until' < file.until + Unit
    OBVIOUS
  <2> QED BY ReloadIsLoad, RoundTrip
<1> QED BY <1>1, ExpiryInvariant, PTL DEF ExpirySpec, RoundTripBounded
=============================================================================
