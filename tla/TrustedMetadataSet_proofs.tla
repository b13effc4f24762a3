------------------------ MODULE TrustedMetadataSet_proofs ------------------------
(***************************************************************************)
(* Proofs about TrustedMetadataSet, for any documents, any keys, any        *)
(* delegated names and any instants.  The safety properties need only the   *)
(* type invariant as strengthening, except DelegationAuthorized, which      *)
(* also needs PinnedBySnapshot: two files with the pinned digest are one.   *)
(***************************************************************************)
EXTENDS TrustedMetadataSet, TLAPS

\* The five ways a call changes the trusted set, as a case list for the proofs.
LEMMA StepCases ==
  ASSUME Next
  PROVE  \/ \E new \in RootDoc : UpdateRoot(new)
         \/ \E new \in TimestampDoc, now \in Time : UpdateTimestamp(new, now)
         \/ \E new \in SnapshotDoc, now \in Time : UpdateSnapshot(new, now)
         \/ \E new \in TargetsDoc, role \in TargetsRole :
              /\ trusted' = AfterTargets(trusted, new, role)
              /\ \E now \in Time :
                   \/ role = "targets" /\ TargetsAccepts(trusted, new, now)
                   \/ \E delegator \in TargetsRole :
                        DelegatedAccepts(trusted, new, role, delegator, now)
<1>1. ASSUME NEW new \in TargetsDoc, NEW now \in Time, UpdateTargets(new, now)
      PROVE  /\ trusted' = AfterTargets(trusted, new, "targets")
             /\ TargetsAccepts(trusted, new, now)
             /\ "targets" \in TargetsRole
  BY <1>1 DEF UpdateTargets, TargetsRole
<1>2. ASSUME NEW new \in TargetsDoc, NEW role \in RoleName,
             NEW delegator \in TargetsRole, NEW now \in Time,
             UpdateDelegatedTargets(new, role, delegator, now)
      PROVE  /\ trusted' = AfterTargets(trusted, new, role)
             /\ DelegatedAccepts(trusted, new, role, delegator, now)
             /\ role \in TargetsRole
  BY <1>2 DEF UpdateDelegatedTargets, DelegatedAccepts, RoleName, TargetsRole
<1> QED
  BY <1>1, <1>2 DEF Next

\* Every call leaves a well-formed set, with no snapshot but under a timestamp
\* (trusted.rs TrustedMetadataSet).
THEOREM TypeCorrect == Spec => []TypeOK
<1>1. Init => TypeOK
  BY DEF Init, TypeOK, FromRoot, TrustedSet, NoTargets
<1>2. TypeOK /\ [Next]_trusted => TypeOK'
  <2> SUFFICES ASSUME TypeOK, Next PROVE TypeOK'
    BY DEF TypeOK
  <2>1. ASSUME NEW new \in RootDoc, UpdateRoot(new) PROVE TypeOK'
    BY <2>1 DEF UpdateRoot, AfterRoot, FromRoot, TypeOK, TrustedSet, NoTargets
  <2>2. ASSUME NEW new \in TimestampDoc, NEW now \in Time, UpdateTimestamp(new, now)
        PROVE  TypeOK'
    BY <2>2, NameAssumption DEF UpdateTimestamp, AfterTimestamp, TypeOK, TrustedSet
  <2>3. ASSUME NEW new \in SnapshotDoc, NEW now \in Time, UpdateSnapshot(new, now)
        PROVE  TypeOK'
    BY <2>3 DEF UpdateSnapshot, SnapshotAccepts, AfterSnapshot, TypeOK, TrustedSet,
                NoTargets
  <2>4. ASSUME NEW new \in TargetsDoc, NEW role \in TargetsRole,
               trusted' = AfterTargets(trusted, new, role)
        PROVE  TypeOK'
    BY <2>4 DEF AfterTargets, TypeOK, TrustedSet
  <2> QED
    BY <2>1, <2>2, <2>3, <2>4, StepCases
<1> QED
  BY <1>1, <1>2, PTL DEF Spec

\* What any lower role in the set is signed by is the root trusted now
\* (trusted.rs update_root drops the lower roles, so no step is left in which
\* an older root's signatures count).
THEOREM VerifiedUnderRootHolds == Spec => []VerifiedUnderRoot
<1>1. Init => VerifiedUnderRoot
  BY DEF Init, VerifiedUnderRoot, FromRoot, NoTargets, TargetsRole
<1>2. TypeOK /\ VerifiedUnderRoot /\ [Next]_trusted => VerifiedUnderRoot'
  <2> SUFFICES ASSUME TypeOK, VerifiedUnderRoot, Next PROVE VerifiedUnderRoot'
    BY DEF VerifiedUnderRoot
  <2> USE DEF TypeOK, TrustedSet
  <2>1. ASSUME NEW new \in RootDoc, UpdateRoot(new) PROVE VerifiedUnderRoot'
    BY <2>1 DEF UpdateRoot, RootAccepts, AfterRoot, FromRoot, NoTargets,
                TargetsRole, VerifiedUnderRoot
  <2>2. ASSUME NEW new \in TimestampDoc, NEW now \in Time, UpdateTimestamp(new, now)
        PROVE  VerifiedUnderRoot'
    BY <2>2 DEF UpdateTimestamp, TimestampAccepts, TimestampVerified,
                AfterTimestamp, VerifiedUnderRoot
  <2>3. ASSUME NEW new \in SnapshotDoc, NEW now \in Time, UpdateSnapshot(new, now)
        PROVE  VerifiedUnderRoot'
    BY <2>3 DEF UpdateSnapshot, SnapshotAccepts, AfterSnapshot, NoTargets,
                TargetsRole, VerifiedUnderRoot
  <2>4. ASSUME NEW new \in TargetsDoc, NEW now \in Time, UpdateTargets(new, now)
        PROVE  VerifiedUnderRoot'
    BY <2>4 DEF UpdateTargets, TargetsAccepts, AfterTargets, TargetsRole,
                VerifiedUnderRoot
  <2>5. ASSUME NEW new \in TargetsDoc, NEW role \in RoleName,
               NEW delegator \in TargetsRole, NEW now \in Time,
               UpdateDelegatedTargets(new, role, delegator, now)
        PROVE  VerifiedUnderRoot'
    <3>1. role # "targets"
      BY <2>5 DEF UpdateDelegatedTargets, DelegatedAccepts, TopLevelRole
    <3> QED
      BY <2>5, <3>1 DEF UpdateDelegatedTargets, AfterTargets, TargetsRole,
                        VerifiedUnderRoot
  <2> QED
    BY <2>1, <2>2, <2>3, <2>4, <2>5 DEF Next
<1> QED
  BY <1>1, <1>2, TypeCorrect, PTL DEF Spec

\* Both kinds of targets role are accepted only against the trusted snapshot.
LEMMA TargetsPinnedOnAccept ==
  ASSUME NEW new \in TargetsDoc, NEW role \in TargetsRole, NEW now \in Time,
         \/ role = "targets" /\ TargetsAccepts(trusted, new, now)
         \/ \E delegator \in TargetsRole :
              DelegatedAccepts(trusted, new, role, delegator, now)
  PROVE  /\ trusted.snapshot # NoDoc
         /\ trusted.snapshot.meta[role] # NoPin
         /\ MatchesPin(new, trusted.snapshot.meta[role])
BY DEF TargetsAccepts, DelegatedAccepts, TargetsPinned

\* No targets role outlives the snapshot that pins it (trusted.rs
\* update_snapshot, update_root).
THEOREM PinnedBySnapshotHolds == Spec => []PinnedBySnapshot
<1>1. Init => PinnedBySnapshot
  BY DEF Init, PinnedBySnapshot, FromRoot, NoTargets
<1>2. TypeOK /\ PinnedBySnapshot /\ [Next]_trusted => PinnedBySnapshot'
  <2> SUFFICES ASSUME TypeOK, PinnedBySnapshot, Next PROVE PinnedBySnapshot'
    BY DEF PinnedBySnapshot
  <2> USE DEF TypeOK, TrustedSet
  <2>1. ASSUME NEW new \in RootDoc, UpdateRoot(new) PROVE PinnedBySnapshot'
    BY <2>1 DEF UpdateRoot, AfterRoot, FromRoot, NoTargets, PinnedBySnapshot
  <2>2. ASSUME NEW new \in TimestampDoc, NEW now \in Time, UpdateTimestamp(new, now)
        PROVE  PinnedBySnapshot'
    BY <2>2 DEF UpdateTimestamp, AfterTimestamp, PinnedBySnapshot
  <2>3. ASSUME NEW new \in SnapshotDoc, NEW now \in Time, UpdateSnapshot(new, now)
        PROVE  PinnedBySnapshot'
    BY <2>3 DEF UpdateSnapshot, AfterSnapshot, NoTargets, PinnedBySnapshot
  <2>4. ASSUME NEW new \in TargetsDoc, NEW role \in TargetsRole,
               trusted' = AfterTargets(trusted, new, role),
               NEW now \in Time,
               \/ role = "targets" /\ TargetsAccepts(trusted, new, now)
               \/ \E delegator \in TargetsRole :
                    DelegatedAccepts(trusted, new, role, delegator, now)
        PROVE  PinnedBySnapshot'
    <3>1. /\ trusted.snapshot # NoDoc
          /\ trusted.snapshot.meta[role] # NoPin
          /\ MatchesPin(new, trusted.snapshot.meta[role])
      BY <2>4, TargetsPinnedOnAccept
    <3>2. /\ trusted'.snapshot = trusted.snapshot
          /\ \A r \in TargetsRole :
               trusted'.targets[r] = IF r = role THEN new ELSE trusted.targets[r]
      BY <2>4 DEF AfterTargets
    <3> QED
      BY <3>1, <3>2 DEF PinnedBySnapshot
  <2> QED
    BY <2>1, <2>2, <2>3, <2>4, StepCases
<1> QED
  BY <1>1, <1>2, TypeCorrect, PTL DEF Spec

\* When every pin carries a digest, loading a role that is already there loads
\* the same file again.
LEMMA SameFile ==
  ASSUME PinnedBySnapshot, DigestPinned,
         NEW new \in TargetsDoc, NEW role \in TargetsRole,
         trusted.targets[role] \in TargetsDoc,
         trusted.targets[role] # NoDoc,
         trusted.snapshot.meta[role] # NoPin,
         MatchesPin(new, trusted.snapshot.meta[role])
  PROVE  new = trusted.targets[role]
<1> DEFINE pin == trusted.snapshot.meta[role]
<1>1. pin.digest # NoDigest
  BY DEF DigestPinned
<1>2. new.digest = pin.digest
  BY <1>1 DEF MatchesPin, CheckIntegrity
<1>3. trusted.targets[role].digest = pin.digest
  BY <1>1 DEF PinnedBySnapshot, MatchesPin, CheckIntegrity
<1> QED
  BY <1>2, <1>3, DigestAssumption

\* No delegated role outlives the delegator that authorized it, as long as the
\* pins carry digests (trusted.rs update_targets and update_delegated_targets
\* replace a role without looking at the roles below it).
THEOREM DelegationAuthorizedHolds == Spec => []DelegationAuthorized
<1>1. Init => DelegationAuthorized
  BY DEF Init, DelegationAuthorized, FromRoot, NoTargets, TargetsRole
<1>2. TypeOK /\ PinnedBySnapshot /\ DelegationAuthorized /\ [Next]_trusted
        => DelegationAuthorized'
  <2> SUFFICES ASSUME TypeOK, PinnedBySnapshot, DelegationAuthorized, Next
               PROVE  DelegationAuthorized'
    BY DEF DelegationAuthorized, DigestPinned
  <2> USE DEF TypeOK, TrustedSet
  <2>1. ASSUME NEW new \in RootDoc, UpdateRoot(new) PROVE DelegationAuthorized'
    BY <2>1 DEF UpdateRoot, AfterRoot, FromRoot, NoTargets, TargetsRole,
                DelegationAuthorized
  <2>2. ASSUME NEW new \in TimestampDoc, NEW now \in Time, UpdateTimestamp(new, now)
        PROVE  DelegationAuthorized'
    BY <2>2 DEF UpdateTimestamp, AfterTimestamp, DelegationAuthorized, DigestPinned
  <2>3. ASSUME NEW new \in SnapshotDoc, NEW now \in Time, UpdateSnapshot(new, now)
        PROVE  DelegationAuthorized'
    BY <2>3 DEF UpdateSnapshot, AfterSnapshot, NoTargets, TargetsRole,
                DelegationAuthorized
  <2>4. ASSUME NEW new \in TargetsDoc, NEW role \in TargetsRole,
               trusted' = AfterTargets(trusted, new, role),
               NEW now \in Time,
               \/ role = "targets" /\ TargetsAccepts(trusted, new, now)
               \/ \E delegator \in TargetsRole :
                    DelegatedAccepts(trusted, new, role, delegator, now),
               DigestPinned',
               NEW r \in DelegatedName, trusted'.targets[r] # NoDoc
        PROVE  \E d \in TargetsRole :
                 /\ trusted'.targets[d] # NoDoc
                 /\ VerifyThreshold(trusted'.targets[r],
                                    trusted'.targets[d].delegations[r])
    <3>1. /\ trusted'.snapshot = trusted.snapshot
          /\ \A x \in TargetsRole :
               trusted'.targets[x] = IF x = role THEN new ELSE trusted.targets[x]
      BY <2>4 DEF AfterTargets
    <3>2. DigestPinned
      BY <2>4, <3>1 DEF DigestPinned
    <3>3. trusted.snapshot.meta[role] # NoPin /\ MatchesPin(new, trusted.snapshot.meta[role])
      BY <2>4, TargetsPinnedOnAccept
    <3>4. trusted.targets[role] # NoDoc => new = trusted.targets[role]
      BY <3>2, <3>3, SameFile
    <3>5. \A x \in TargetsRole :
            trusted.targets[x] # NoDoc => trusted'.targets[x] = trusted.targets[x]
      BY <3>1, <3>4
    <3>6. r \in TargetsRole /\ new # NoDoc
      BY NameAssumption DEF TargetsRole
    <3>7. CASE trusted.targets[r] # NoDoc
      <4>1. PICK d \in TargetsRole :
              /\ trusted.targets[d] # NoDoc
              /\ VerifyThreshold(trusted.targets[r], trusted.targets[d].delegations[r])
        BY <3>2, <3>7 DEF DelegationAuthorized
      <4> QED
        BY <4>1, <3>5, <3>6, <3>7
    <3>8. CASE trusted.targets[r] = NoDoc
      <4>1. r = role
        BY <2>4, <3>1, <3>6, <3>8
      <4>2. role # "targets"
        BY <4>1, NameAssumption DEF TopLevelRole
      <4>3. PICK d \in TargetsRole : DelegatedAccepts(trusted, new, role, d, now)
        BY <2>4, <4>2
      <4>4. /\ trusted.targets[d] # NoDoc
            /\ VerifyThreshold(new, trusted.targets[d].delegations[role])
        BY <4>3 DEF DelegatedAccepts
      <4> QED
        BY <4>1, <4>4, <3>1, <3>5
    <3> QED
      BY <3>7, <3>8
  <2>5. ASSUME NEW new \in TargetsDoc, NEW role \in TargetsRole,
               trusted' = AfterTargets(trusted, new, role),
               NEW now \in Time,
               \/ role = "targets" /\ TargetsAccepts(trusted, new, now)
               \/ \E delegator \in TargetsRole :
                    DelegatedAccepts(trusted, new, role, delegator, now)
        PROVE  DelegationAuthorized'
    BY <2>4, <2>5 DEF DelegationAuthorized
  <2> QED
    BY <2>1, <2>2, <2>3, <2>5, StepCases
<1> QED
  BY <1>1, <1>2, TypeCorrect, PinnedBySnapshotHolds, PTL DEF Spec

-----------------------------------------------------------------------------
(* TrustedMetadataSet implements VersionFloors.                            *)

Floor(t, role) ==
  IF t.snapshot = NoDoc \/ t.snapshot.meta[role] = NoPin
    THEN -1 ELSE t.snapshot.meta[role].version

LEMMA FloorType ==
  ASSUME NEW t \in TrustedSet, NEW role \in TargetsRole
  PROVE  /\ Floor(t, role) \in Int
         /\ Floor(t, role) >= -1
BY DocumentAssumption DEF Floor, TrustedSet, Snapshot, Pin

\* A replacing snapshot keeps every pin of the one it replaces and lowers none.
LEMMA SnapshotKeepsFloors ==
  ASSUME TypeOK, NEW new \in SnapshotDoc, NEW now \in Time,
         SnapshotAccepts(trusted, new, now),
         NEW role \in TargetsRole
  PROVE  Floor(AfterSnapshot(trusted, new), role) >= Floor(trusted, role)
<1>1. AfterSnapshot(trusted, new) \in TrustedSet
  BY DEF AfterSnapshot, TypeOK, TrustedSet, NoTargets
<1>2. AfterSnapshot(trusted, new).snapshot = new /\ new # NoDoc
  BY NameAssumption DEF AfterSnapshot, TypeOK, TrustedSet
<1>3. CASE Floor(trusted, role) = -1
  BY <1>1, <1>3, FloorType
<1>4. CASE Floor(trusted, role) # -1
  <2>1. trusted.snapshot # NoDoc /\ trusted.snapshot.meta[role] # NoPin
    BY <1>4 DEF Floor
  <2>2. /\ new.meta[role] # NoPin
        /\ new.meta[role].version >= trusted.snapshot.meta[role].version
    BY <2>1 DEF SnapshotAccepts
  <2> QED
    BY <1>2, <2>1, <2>2 DEF Floor
<1> QED
  BY <1>3, <1>4

\* An accepted timestamp is not older than the one it replaces.
LEMMA TimestampKeepsFloor ==
  ASSUME NEW new \in TimestampDoc, NEW now \in Time,
         TimestampAccepts(trusted, new, now),
         trusted.timestamp \in TimestampDoc, trusted.timestamp # NoDoc
  PROVE  new.version >= trusted.timestamp.version
BY DocumentAssumption DEF TimestampAccepts, Timestamp

\* The snapshot version that the timestamp requires.
SnapshotVersion(t) ==
  IF t.timestamp = NoDoc \/ t.timestamp.snap = NoPin THEN -1 ELSE t.timestamp.snap.version

LEMMA SnapshotVersionType ==
  ASSUME NEW t \in TrustedSet
  PROVE  SnapshotVersion(t) \in Int
BY DocumentAssumption DEF SnapshotVersion, TrustedSet, Timestamp, Pin

\* Between two root changes the versions of the timestamp and of the targets roles
\* never go down, that of the snapshot only through a newer timestamp that pins
\* none, and the root moves to its direct successor (trusted.rs update_root,
\* update_timestamp, update_snapshot implement VersionFloors).
THEOREM ImplementsVersionFloors == Spec => NeverBelowFloor
<1>1. Init => Floors!Init
  <2> SUFFICES ASSUME Init PROVE Floors!Init
    OBVIOUS
  <2>1. PICK root \in RootDoc : trusted = FromRoot(root)
    BY DEF Init
  <2>2. root.version \in Nat
    BY DocumentAssumption DEF Root
  <2> QED
    BY <2>1, <2>2 DEF Floors!Init, Floors!Open, FromRoot
<1>2. TypeOK /\ TypeOK' /\ [Next]_trusted => [Floors!Next]_Floors!vars
  <2> SUFFICES ASSUME TypeOK, TypeOK', [Next]_trusted
               PROVE  [Floors!Next]_Floors!vars
    OBVIOUS
  <2> DEFINE ts(t) == IF t.timestamp = NoDoc THEN -1 ELSE t.timestamp.version
             pins(t) == [r \in TargetsRole |-> Floor(t, r)]
             SnapshotStep ==
               /\ SnapshotVersion(trusted') # SnapshotVersion(trusted) =>
                    ts(trusted') > ts(trusted)
               /\ SnapshotVersion(trusted) # -1 /\ SnapshotVersion(trusted') # -1 =>
                    SnapshotVersion(trusted') >= SnapshotVersion(trusted)
  <2>0. /\ trusted \in TrustedSet /\ trusted' \in TrustedSet
        /\ pins(trusted)' = pins(trusted')
        /\ SnapshotVersion(trusted)' = SnapshotVersion(trusted')
        /\ SnapshotVersion(trusted) \in Int /\ SnapshotVersion(trusted') \in Int
    BY SnapshotVersionType DEF TypeOK, Floor, SnapshotVersion
  <2>1. /\ ts(trusted) \in Int /\ ts(trusted) >= -1
        /\ ts(trusted') \in Int /\ ts(trusted') >= -1
    BY <2>0, DocumentAssumption DEF TrustedSet, Timestamp
  <2>2. pins(trusted) \in [TargetsRole -> Int] /\ pins(trusted') \in [TargetsRole -> Int]
    BY <2>0, FloorType
  <2>3. SUFFICES \/ /\ trusted'.root.version = trusted.root.version + 1
                    /\ ts(trusted') = -1 /\ SnapshotVersion(trusted') = -1
                    /\ \A r \in TargetsRole : Floor(trusted', r) = -1
                 \/ /\ trusted'.root = trusted.root
                    /\ ts(trusted') >= ts(trusted) /\ SnapshotStep
                    /\ \A r \in TargetsRole : Floor(trusted', r) >= Floor(trusted, r)
    <3>1. ASSUME trusted'.root.version = trusted.root.version + 1,
                 ts(trusted') = -1, SnapshotVersion(trusted') = -1,
                 \A r \in TargetsRole : Floor(trusted', r) = -1
          PROVE  Floors!SucceedRoot
      BY <3>1 DEF Floors!SucceedRoot, Floors!Open, Floor, SnapshotVersion
    <3>2. ASSUME trusted'.root = trusted.root,
                 ts(trusted') >= ts(trusted), SnapshotStep,
                 \A r \in TargetsRole : Floor(trusted', r) >= Floor(trusted, r)
          PROVE  Floors!Raise
      BY <3>2, <2>0, <2>2 DEF Floors!Raise, Floor, SnapshotVersion
    <3> QED
      BY <2>3, <3>1, <3>2 DEF Floors!Next
  <2>4. ASSUME UNCHANGED trusted
        PROVE  /\ trusted'.root = trusted.root
               /\ ts(trusted') >= ts(trusted) /\ SnapshotStep
               /\ \A r \in TargetsRole : Floor(trusted', r) >= Floor(trusted, r)
    <3>1. trusted' = trusted
      BY <2>4
    <3>2. \A r \in TargetsRole : Floor(trusted, r) \in Int
      BY <2>0, FloorType
    <3> QED
      BY <3>1, <3>2, <2>0, <2>1
  <2>5. ASSUME NEW new \in RootDoc, UpdateRoot(new)
        PROVE  /\ trusted'.root.version = trusted.root.version + 1
               /\ ts(trusted') = -1 /\ SnapshotVersion(trusted') = -1
               /\ \A r \in TargetsRole : Floor(trusted', r) = -1
    BY <2>5 DEF UpdateRoot, RootAccepts, AfterRoot, FromRoot, Floor,
                SnapshotVersion
  <2>6. ASSUME NEW new \in TimestampDoc, NEW now \in Time, UpdateTimestamp(new, now)
        PROVE  /\ trusted'.root = trusted.root
               /\ ts(trusted') >= ts(trusted) /\ SnapshotStep
               /\ \A r \in TargetsRole : Floor(trusted', r) >= Floor(trusted, r)
    <3>1. /\ trusted'.root = trusted.root
          /\ trusted'.timestamp = new /\ new # NoDoc
          /\ trusted'.snapshot = trusted.snapshot
      BY <2>0, <2>6, NameAssumption DEF UpdateTimestamp, AfterTimestamp, TrustedSet
    <3>2. ts(trusted') >= ts(trusted)
      <4>1. CASE trusted.timestamp = NoDoc
        BY <2>1, <4>1
      <4>2. CASE trusted.timestamp # NoDoc
        BY <2>0, <2>6, <3>1, <4>2, TimestampKeepsFloor DEF UpdateTimestamp, TrustedSet
      <4> QED
        BY <4>1, <4>2
    <3>3. SnapshotStep
      <4>1. CASE trusted.timestamp = NoDoc
        <5>1. new.version \in Nat /\ SnapshotVersion(trusted) = -1
          BY <4>1, DocumentAssumption DEF SnapshotVersion, Timestamp
        <5> QED
          BY <3>1, <4>1, <5>1
      <4>2. CASE trusted.timestamp # NoDoc
        <5>1. /\ new.version > trusted.timestamp.version
              /\ new.snap # NoPin /\ trusted.timestamp.snap # NoPin =>
                   new.snap.version >= trusted.timestamp.snap.version
          BY <2>6, <4>2 DEF UpdateTimestamp, TimestampAccepts
        <5> QED
          BY <3>1, <4>2, <5>1 DEF SnapshotVersion
      <4> QED
        BY <4>1, <4>2
    <3>4. \A r \in TargetsRole : Floor(trusted', r) = Floor(trusted, r)
      BY <3>1 DEF Floor
    <3> QED
      BY <2>0, <3>1, <3>2, <3>3, <3>4, FloorType
  <2>7. ASSUME NEW new \in SnapshotDoc, NEW now \in Time, UpdateSnapshot(new, now)
        PROVE  /\ trusted'.root = trusted.root
               /\ ts(trusted') >= ts(trusted) /\ SnapshotStep
               /\ \A r \in TargetsRole : Floor(trusted', r) >= Floor(trusted, r)
    <3>1. trusted' = AfterSnapshot(trusted, new) /\ SnapshotAccepts(trusted, new, now)
      BY <2>7 DEF UpdateSnapshot
    <3>2. trusted'.root = trusted.root /\ trusted'.timestamp = trusted.timestamp
      BY <2>0, <3>1 DEF AfterSnapshot, TrustedSet
    <3>3. \A r \in TargetsRole : Floor(trusted', r) >= Floor(trusted, r)
      BY <3>1, SnapshotKeepsFloors
    <3>4. SnapshotVersion(trusted') = SnapshotVersion(trusted)
      BY <3>2 DEF SnapshotVersion
    <3> QED
      BY <2>0, <2>1, <3>2, <3>3, <3>4
  <2>8. ASSUME NEW new \in TargetsDoc, NEW role \in TargetsRole,
               trusted' = AfterTargets(trusted, new, role)
        PROVE  /\ trusted'.root = trusted.root
               /\ ts(trusted') >= ts(trusted) /\ SnapshotStep
               /\ \A r \in TargetsRole : Floor(trusted', r) >= Floor(trusted, r)
    <3>1. /\ trusted'.root = trusted.root
          /\ trusted'.timestamp = trusted.timestamp
          /\ trusted'.snapshot = trusted.snapshot
      BY <2>0, <2>8 DEF AfterTargets, TrustedSet
    <3>2. /\ \A r \in TargetsRole : Floor(trusted', r) = Floor(trusted, r)
          /\ SnapshotVersion(trusted') = SnapshotVersion(trusted)
      BY <3>1 DEF Floor, SnapshotVersion
    <3> QED
      BY <2>0, <2>1, <3>1, <3>2, FloorType
  <2> HIDE DEF ts, pins, SnapshotStep
  <2> QED
    BY <2>4, <2>5, <2>6, <2>7, <2>8, StepCases
<1> QED
  BY <1>1, <1>2, TypeCorrect, PTL DEF Spec, NeverBelowFloor, Floors!Spec
===============================================================================
