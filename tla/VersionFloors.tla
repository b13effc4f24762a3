------------------------------ MODULE VersionFloors ------------------------------
(***************************************************************************)
(* What a TUF client promises about versions, without saying how: between  *)
(* two changes of its root, the timestamp version it trusts and the version *)
(* it requires of every targets role only go up (-1: none yet).  The        *)
(* snapshot version it requires changes only with a newer timestamp, and    *)
(* goes up too, but a timestamp that requires none gives up that floor.     *)
(* The root moves one version at a time, and moving it gives up every floor. *)
(***************************************************************************)
EXTENDS Integers

CONSTANT Role

VARIABLES rootVersion, timestampVersion, snapshotVersion, pinned

vars == <<rootVersion, timestampVersion, snapshotVersion, pinned>>

Open ==
  /\ timestampVersion = -1 /\ snapshotVersion = -1
  /\ pinned = [r \in Role |-> -1]

Init == rootVersion \in Nat /\ Open

SucceedRoot == rootVersion' = rootVersion + 1 /\ Open'

Raise ==
  /\ UNCHANGED rootVersion
  /\ timestampVersion' >= timestampVersion
  /\ snapshotVersion' \in Int
  /\ snapshotVersion' # snapshotVersion => timestampVersion' > timestampVersion
  /\ snapshotVersion # -1 /\ snapshotVersion' # -1 => snapshotVersion' >= snapshotVersion
  /\ pinned' \in [Role -> Int]
  /\ \A r \in Role : pinned'[r] >= pinned[r]

Next == SucceedRoot \/ Raise

Spec == Init /\ [][Next]_vars
===============================================================================
