--------------------------- MODULE TrustedMetadataSet ---------------------------
(***************************************************************************)
(* The public TrustedMetadataSet of crates/sigstore-tuf/src/trusted.rs as a *)
(* state machine: any sequence of calls, each with any candidate document  *)
(* and any `now`.  A call that returns an error changes nothing and is a   *)
(* stuttering step.  The Updater of client.rs is one particular caller;    *)
(* TufUpdater shows that it only ever takes these steps.                   *)
(***************************************************************************)
EXTENDS TufTrusted

CONSTANT Time  \* the instants a caller may pass as `now`

ASSUME TimeAssumption == Time \subseteq Int

VARIABLE trusted

\* from_root: any self-signed root may be pinned; its expiry is not looked at.
Init == \E root \in RootDoc : SelfSigned(root) /\ trusted = FromRoot(root)

UpdateRoot(new) ==
  /\ RootAccepts(trusted, new)
  /\ trusted' = AfterRoot(trusted, new)

UpdateTimestamp(new, now) ==
  /\ TimestampAccepts(trusted, new, now)
  /\ trusted' = AfterTimestamp(trusted, new)

UpdateSnapshot(new, now) ==
  /\ SnapshotAccepts(trusted, new, now)
  /\ trusted' = AfterSnapshot(trusted, new)

UpdateTargets(new, now) ==
  /\ TargetsAccepts(trusted, new, now)
  /\ trusted' = AfterTargets(trusted, new, "targets")

UpdateDelegatedTargets(new, role, delegator, now) ==
  /\ DelegatedAccepts(trusted, new, role, delegator, now)
  /\ trusted' = AfterTargets(trusted, new, role)

Next ==
  \/ \E new \in RootDoc : UpdateRoot(new)
  \/ \E new \in TimestampDoc, now \in Time : UpdateTimestamp(new, now)
  \/ \E new \in SnapshotDoc, now \in Time : UpdateSnapshot(new, now)
  \/ \E new \in TargetsDoc, now \in Time : UpdateTargets(new, now)
  \/ \E new \in TargetsDoc, role \in RoleName, delegator \in TargetsRole, now \in Time :
       UpdateDelegatedTargets(new, role, delegator, now)

Spec == Init /\ [][Next]_trusted

-----------------------------------------------------------------------------
(* Properties.                                                             *)

\* Every slot holds a document of its role, and the roles were loaded in order: a
\* snapshot is there only with the timestamp that it needed (trusted.rs
\* update_snapshot, "Requires a trusted timestamp first"; update_root, which clears
\* both at once).
TypeOK ==
  /\ trusted \in TrustedSet
  /\ trusted.snapshot # NoDoc => trusted.timestamp # NoDoc

\* Every lower role in the set is signed to threshold by the root that is
\* trusted NOW: update_root may rotate any key, so what an earlier root vouched
\* for must not survive it (trusted.rs update_root drops the lower roles).
VerifiedUnderRoot ==
  /\ SelfSigned(trusted.root)
  /\ trusted.timestamp # NoDoc =>
       VerifyWithRoot(trusted.timestamp, trusted.root, "timestamp")
  /\ trusted.snapshot # NoDoc =>
       VerifyWithRoot(trusted.snapshot, trusted.root, "snapshot")
  /\ trusted.targets["targets"] # NoDoc =>
       VerifyWithRoot(trusted.targets["targets"], trusted.root, "targets")

\* Every targets role in the set, delegated ones included, is the file the
\* trusted snapshot pins, whatever snapshots came and went before it
\* (trusted.rs update_snapshot clears the targets).
PinnedBySnapshot ==
  \A r \in TargetsRole : trusted.targets[r] # NoDoc =>
    /\ trusted.snapshot # NoDoc
    /\ trusted.snapshot.meta[r] # NoPin
    /\ MatchesPin(trusted.targets[r], trusted.snapshot.meta[r])

DigestPinned ==
  trusted.snapshot # NoDoc /\
    \A r \in TargetsRole : trusted.snapshot.meta[r] # NoPin =>
                             trusted.snapshot.meta[r].digest # NoDigest

\* With a snapshot whose pins carry hashes, every delegated role in the set is
\* signed to the threshold that some targets role trusted NOW declares for it:
\* replacing a delegator never leaves a role behind that only the replaced one
\* authorized (trusted.rs update_targets, update_delegated_targets).
DelegationAuthorized ==
  DigestPinned =>
    \A r \in DelegatedName : trusted.targets[r] # NoDoc =>
      \E d \in TargetsRole :
        /\ trusted.targets[d] # NoDoc
        /\ VerifyThreshold(trusted.targets[r], trusted.targets[d].delegations[r])

-----------------------------------------------------------------------------
(* What the set promises a caller: version floors (module VersionFloors).  *)

Floors == INSTANCE VersionFloors WITH
  Role <- TargetsRole,
  rootVersion <- trusted.root.version,
  timestampVersion <-
    IF trusted.timestamp = NoDoc THEN -1 ELSE trusted.timestamp.version,
  snapshotVersion <-
    IF trusted.timestamp = NoDoc \/ trusted.timestamp.snap = NoPin
      THEN -1 ELSE trusted.timestamp.snap.version,
  pinned <- [r \in TargetsRole |->
               IF trusted.snapshot = NoDoc \/ trusted.snapshot.meta[r] = NoPin
                 THEN -1 ELSE trusted.snapshot.meta[r].version]

\* Until a new root is adopted, neither the version of the timestamp nor one that
\* the snapshot pins for a targets role goes down, and no pinned role disappears,
\* whatever documents of whatever age the calls are given; the version of the
\* snapshot itself goes down only through a newer timestamp that pins none; a new
\* root is always the direct successor (trusted.rs update_timestamp,
\* update_snapshot, update_root refine VersionFloors).
NeverBelowFloor == Floors!Spec
===============================================================================
