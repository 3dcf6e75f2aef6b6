-------------------------------- MODULE Feed --------------------------------
(***************************************************************************)
(* What the daemon and the handlers bring to a user day by day: the ticks  *)
(* of the exchange (Collector), the watch-list digest (Push) and the       *)
(* history of a portfolio (Holdings), side by side.  No part reads a       *)
(* variable of another.                                                    *)
(***************************************************************************)
EXTENDS Collector

CONSTANTS
  Users, Devices, Allowed, Fans, LastUTCDay, MaxEdits, MaxFaults,   \* Push
  Windows, Editors, Readers, MaxVersion, CallsMayFail               \* Holdings

ASSUME FeedAssumption ==
  /\ Allowed \subseteq Devices
  /\ IsFiniteSet(Fans) /\ LastUTCDay \in Nat \ {0}
  /\ MaxEdits \in Nat /\ MaxFaults \in Nat
  /\ MaxVersion \in Nat /\ CallsMayFail \in BOOLEAN

VARIABLES
  day, wants, subs, alive, marks, fan, edits, faults, got, unmarked, let,        \* Push
  version, owns, edit, answered, cache, flight, stores, read, excused            \* Holdings

P == INSTANCE Push WITH LastDay <- LastUTCDay, trouble <- let
H == INSTANCE Holdings

-----------------------------------------------------------------------------
(* The properties of the parts, by their names there.                      *)

FeedTypeOK == TypeOK /\ P!TypeOK /\ H!TypeOK

\* One digest of the day reaches a device, and one more for each failure of Redis that let a fan-out through.
OneDigestADay == P!OneDigestADay

\* The digest of a subscribed user that a fan-out has listed arrives.
DigestArrives == P!DigestArrives

\* A history without an answered edit was on its way when the edit was made, or its invalidation failed.
StaleHistoryIsExplained == H!StaleHistoryIsExplained

\* Whoever waits for a history is answered.
ReaderIsAnswered == H!ReaderIsAnswered
=============================================================================
