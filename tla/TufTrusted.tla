------------------------------ MODULE TufTrusted ------------------------------
(***************************************************************************)
(* What crates/sigstore-tuf/src/trusted.rs decides about a candidate       *)
(* metadata document, as operators on a trusted set `t`: when the document *)
(* is accepted, and the set that results.  The modules that hold a trusted *)
(* set as a variable (TrustedMetadataSet, TufUpdater) build their actions  *)
(* from these operators, so that every verification rule is stated once.   *)
(*                                                                         *)
(* A document is a record of what the checks look at.  `signers` are the   *)
(* keys whose signature over the document verifies, `repeated` the keys    *)
(* that sign it more than once, `digest` stands for the bytes (equal       *)
(* digests are equal bytes, so a digest also fixes the length).  A root    *)
(* without a binding for a role, and a delegator that does not delegate to *)
(* a role, bind it to threshold 0: both are refused, as threshold 0 is.    *)
(***************************************************************************)
EXTENDS Integers, FiniteSets

CONSTANTS
  Key,            \* signing keys, by declared key ID
  Digest,         \* digests of metadata files
  DelegatedName,  \* names of targets roles other than "targets"
  RootDoc, TimestampDoc, SnapshotDoc, TargetsDoc,  \* documents anyone ever signed
  NoDoc,          \* a role that is not loaded, a file that is not there
  NoPin,          \* a metadata file the parent does not list
  NoDigest        \* a pin that carries neither length nor hashes

TopLevelRole == {"root", "timestamp", "snapshot", "targets"}
RoleName == TopLevelRole \cup DelegatedName
TargetsRole == {"targets"} \cup DelegatedName

Authority == [keyids : SUBSET Key, threshold : Nat]
Pin == [version : Nat, digest : Digest \cup {NoDigest}]

Root == [version : Nat, expires : Int, consistent : BOOLEAN,
         roles : [TopLevelRole -> Authority],
         signers : SUBSET Key, repeated : SUBSET Key]
Timestamp == [version : Nat, expires : Int, snap : Pin \cup {NoPin},
              signers : SUBSET Key, repeated : SUBSET Key]
Snapshot == [version : Nat, expires : Int, digest : Digest,
             meta : [TargetsRole -> Pin \cup {NoPin}],
             signers : SUBSET Key, repeated : SUBSET Key]
Targets == [version : Nat, expires : Int, digest : Digest,
            delegations : [RoleName -> Authority],
            signers : SUBSET Key, repeated : SUBSET Key]

ASSUME DocumentAssumption ==
  /\ RootDoc \subseteq Root
  /\ TimestampDoc \subseteq Timestamp
  /\ SnapshotDoc \subseteq Snapshot
  /\ TargetsDoc \subseteq Targets

\* No collision: files with the same digest are the same file.
ASSUME DigestAssumption ==
  \A d, e \in TargetsDoc : d.digest = e.digest => d = e

ASSUME NameAssumption ==
  /\ NoDoc \notin RootDoc \cup TimestampDoc \cup SnapshotDoc \cup TargetsDoc
  /\ NoPin \notin Pin
  /\ NoDigest \notin Digest
  /\ DelegatedName \cap TopLevelRole = {}

-----------------------------------------------------------------------------
(* Signatures, expiry and pins.                                            *)

\* A repeated signature by an authorized key is an error whatever the count.
VerifyThreshold(doc, authority) ==
  /\ authority.threshold > 0
  /\ doc.repeated \cap authority.keyids = {}
  /\ Cardinality(doc.signers \cap authority.keyids) >= authority.threshold

VerifyWithRoot(doc, root, role) == VerifyThreshold(doc, root.roles[role])

Expired(doc, now) == doc.expires < now

\* Mutant: the hashes in a pin are not compared.
CheckNothing(doc, pin) == TRUE

CheckIntegrity(doc, pin) == pin.digest \in {NoDigest, doc.digest}

MatchesPin(doc, pin) == CheckIntegrity(doc, pin) /\ doc.version = pin.version

-----------------------------------------------------------------------------
(* The trusted set and the operations on it.  `Accepts` is the condition   *)
(* under which the operation returns Ok; on any error the set is unchanged. *)

TrustedSet == [root : RootDoc,
               timestamp : TimestampDoc \cup {NoDoc},
               snapshot : SnapshotDoc \cup {NoDoc},
               targets : [TargetsRole -> TargetsDoc \cup {NoDoc}]]

NoTargets == [r \in TargetsRole |-> NoDoc]

SelfSigned(root) == VerifyWithRoot(root, root, "root")

FromRoot(root) == [root |-> root, timestamp |-> NoDoc, snapshot |-> NoDoc,
                   targets |-> NoTargets]

RootAccepts(t, new) ==
  /\ new \in RootDoc
  /\ new.version = t.root.version + 1
  /\ VerifyWithRoot(new, t.root, "root")
  /\ SelfSigned(new)

\* Mutant: lower roles survive a root rotation.
AfterRootKeepingRoles(t, new) == [t EXCEPT !.root = new]

\* Mutant: update_root forgets to clear the snapshot.
AfterRootKeepingSnapshot(t, new) == [FromRoot(new) EXCEPT !.snapshot = t.snapshot]

\* Every lower role goes, whether or not the new root rotates a key.
AfterRoot(t, new) == FromRoot(new)

TimestampVerified(t, new) ==
  new \in TimestampDoc /\ VerifyWithRoot(new, t.root, "timestamp")

\* Error::EqualVersion, the signal that the trusted timestamp is kept.
TimestampUnchanged(t, new) ==
  /\ TimestampVerified(t, new)
  /\ t.timestamp # NoDoc
  /\ new.version = t.timestamp.version

\* Mutant: the snapshot that a newer timestamp pins is not compared.
TimestampAcceptsAnyPin(t, new, now) ==
  /\ TimestampVerified(t, new)
  /\ t.timestamp # NoDoc => new.version > t.timestamp.version
  /\ ~Expired(new, now)

TimestampAccepts(t, new, now) ==
  /\ TimestampVerified(t, new)
  /\ t.timestamp # NoDoc =>
       /\ new.version > t.timestamp.version
       /\ new.snap # NoPin /\ t.timestamp.snap # NoPin =>
            new.snap.version >= t.timestamp.snap.version
  /\ ~Expired(new, now)

AfterTimestamp(t, new) == [t EXCEPT !.timestamp = new]

SnapshotAccepts(t, new, now) ==
  /\ t.timestamp # NoDoc
  /\ ~Expired(t.timestamp, now)
  /\ t.timestamp.snap # NoPin
  /\ new \in SnapshotDoc
  /\ VerifyWithRoot(new, t.root, "snapshot")
  /\ MatchesPin(new, t.timestamp.snap)
  /\ t.snapshot # NoDoc =>
       \A r \in TargetsRole : t.snapshot.meta[r] # NoPin =>
         /\ new.meta[r] # NoPin
         /\ new.meta[r].version >= t.snapshot.meta[r].version
  /\ ~Expired(new, now)

\* Mutant: the targets of the replaced snapshot stay.
AfterSnapshotKeepingTargets(t, new) == [t EXCEPT !.snapshot = new]

AfterSnapshot(t, new) == [t EXCEPT !.snapshot = new, !.targets = NoTargets]

\* verify_targets_pin: the part common to both kinds of targets role.
TargetsPinned(t, new, role, now) ==
  /\ t.snapshot # NoDoc
  /\ ~Expired(t.snapshot, now)
  /\ t.snapshot.meta[role] # NoPin
  /\ new \in TargetsDoc
  /\ MatchesPin(new, t.snapshot.meta[role])

TargetsAccepts(t, new, now) ==
  /\ TargetsPinned(t, new, "targets", now)
  /\ VerifyWithRoot(new, t.root, "targets")
  /\ ~Expired(new, now)

DelegatedAccepts(t, new, role, delegator, now) ==
  /\ role \notin TopLevelRole
  /\ t.targets[delegator] # NoDoc
  /\ TargetsPinned(t, new, role, now)
  /\ VerifyThreshold(new, t.targets[delegator].delegations[role])
  /\ ~Expired(new, now)

AfterTargets(t, new, role) == [t EXCEPT !.targets[role] = new]
===============================================================================
