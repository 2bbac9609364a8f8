----------------------------- MODULE CacheExpiry -----------------------------
(***************************************************************************)
(* How the deadline of a cache entry survives a restart (the valid_until   *)
(* field in the emit and read functions of DnsCacheEntry, dns_mw_cache.rs).*)
(*                                                                         *)
(* The deadline is an Instant, which means nothing to another process, so  *)
(* the file has the wall clock second at which it is reached.  Instants    *)
(* and the wall clock are finer than a second; every conversion to seconds *)
(* rounds down, at the save and again at the load.  Times are counted in   *)
(* ticks, Unit of them to a second, on the axis of the wall clock, which   *)
(* is not adjusted here.  A file that an older version of the program has  *)
(* left holds the seconds that remained instead.                           *)
(***************************************************************************)
EXTENDS Integers, Absent

CONSTANTS
    Unit,         \* ticks in a second
    Earliest,     \* the earliest time an Instant can represent
    Life,         \* lifetimes of an answer, in ticks
    MaxWall       \* bound on the clock

ASSUME UnitAssumption ==
    /\ Unit \in Nat \ {0} /\ Earliest \in Int
    /\ Life \subseteq Nat /\ MaxWall \in Nat
    /\ Null \notin [relative : BOOLEAN, stamp : Nat, until : Int, at : Nat]

VARIABLES
    wall,     \* the wall clock
    up,       \* the process runs and has the entry
    until,    \* valid_until
    file      \* the saved entry: its format and its stamp; until and at when it
              \* was saved are remembered for the properties

expiryVars == <<wall, up, until, file>>

Secs(ticks) == ticks \div Unit

\* emit: the second at which the deadline is reached.
StampRoundedUp(t, deadline) ==
    IF deadline > t THEN Secs(t) + Secs(deadline - t)
    ELSE IF Secs(t - deadline) <= Secs(t) THEN Secs(t) - Secs(t - deadline) + 1 ELSE 0
Stamp(t, deadline) ==
    IF deadline > t THEN Secs(t) + Secs(deadline - t)
    ELSE IF Secs(t - deadline) <= Secs(t) THEN Secs(t) - Secs(t - deadline) ELSE 0

Saved(format, stamp) == [relative |-> format, stamp |-> stamp, until |-> until, at |-> wall]

\* read: the deadline as an Instant of the new process, in the two formats.
Remaining(t, stamp) == t + stamp * Unit
Age(t, stamp) == (Secs(t) - stamp) * Unit
Deadline(t, stamp) ==
    IF stamp > Secs(t) THEN t + (stamp - Secs(t)) * Unit
    ELSE IF t - Age(t, stamp) >= Earliest THEN t - Age(t, stamp) ELSE t

-----------------------------------------------------------------------------
ExpiryInit ==
    /\ wall \in 0..MaxWall
    /\ until \in {wall + life : life \in Life}
    /\ \/ up = TRUE /\ file = Null
       \/ up = FALSE /\ file = Saved(TRUE, Secs(until - wall))

ExpiryTick ==
    /\ wall < MaxWall
    /\ wall' = wall + 1
    /\ UNCHANGED <<up, until, file>>

Save ==
    /\ up
    /\ file' = Saved(FALSE, Stamp(wall, until))
    /\ UNCHANGED <<wall, up, until>>

Stop ==
    /\ up
    /\ up' = FALSE
    /\ UNCHANGED <<wall, until, file>>

Load ==
    /\ ~up
    /\ file # Null
    /\ up' = TRUE
    /\ until' = IF file.relative THEN Remaining(wall, file.stamp) ELSE Deadline(wall, file.stamp)
    /\ UNCHANGED <<wall, file>>

ExpiryNext == ExpiryTick \/ Save \/ Stop \/ Load

ExpirySpec == ExpiryInit /\ [][ExpiryNext]_expiryVars

-----------------------------------------------------------------------------
(* Properties.                                                             *)

\* The variables have their types; a stamp is an unsigned number.
ExpiryTypeOK ==
    /\ wall \in Nat
    /\ up \in BOOLEAN
    /\ until \in Int
    /\ file \in [relative : BOOLEAN, stamp : Nat, until : Int, at : Nat] \cup {Null}

Reloaded == ~up /\ up' /\ ~file.relative

\* An entry that had expired when this program saved it is not made valid again: the
\* deadline it is loaded with is not in the future, however the roundings of
\* emit and read fall.
ExpiredStaysExpired ==
    [][ Reloaded /\ file.until <= file.at => until' <= wall ]_expiryVars

\* A save and a load move a deadline by less than two seconds, and never put
\* that of a valid entry off by a second or more, unless the stamp lies before
\* the epoch or the deadline before the earliest Instant.
RoundTripBounded ==
    [][ Reloaded
        /\ Secs(file.at - file.until) <= Secs(file.at)
        /\ (file.stamp <= Secs(wall) => wall - Age(wall, file.stamp) >= Earliest)
        => /\ until' > file.until - 2 * Unit
           /\ until' < file.until + 2 * Unit
           /\ file.until > file.at => until' < file.until + Unit ]_expiryVars
=============================================================================
