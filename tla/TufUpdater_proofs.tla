--------------------------- MODULE TufUpdater_proofs ---------------------------
(***************************************************************************)
(* Proofs about TufUpdater, for any number of processes over one store, any *)
(* mirror, any documents and any initial store: the state is well formed,   *)
(* a refresh that returned Ok is current, a trusted set only changes by the *)
(* operations of TrustedMetadataSet, and the cached root history is a chain; *)
(* for one client over its own store and an orderly publisher, the versions  *)
(* a refresh completes with never go down.                                   *)
(*                                                                         *)
(* What a completed refresh promises is gathered stage by stage: the root   *)
(* is looked at when its chain ends, the timestamp and the snapshot when    *)
(* the snapshot is taken, the targets last, and every later stage keeps     *)
(* what the earlier ones found (Reached).                                   *)
(***************************************************************************)
EXTENDS TufUpdater, TLAPS

\* What holds of a trusted set t when a refresh at time n has come to a stage.
Reached(t, stage, n) ==
  /\ stage \in {"seed timestamp", "seed snapshot", "seed targets", "timestamp", "snapshot",
                "targets", "ok"} => ~Expired(t.root, n)
  /\ stage \in {"targets", "ok"} =>
       /\ t.timestamp # NoDoc /\ t.timestamp.snap # NoPin /\ ~Expired(t.timestamp, n)
       /\ t.snapshot # NoDoc /\ t.snapshot.version = t.timestamp.snap.version
       /\ ~Expired(t.snapshot, n)
  /\ stage = "ok" =>
       /\ t.snapshot.meta["targets"] # NoPin
       /\ t.targets["targets"] # NoDoc
       /\ t.targets["targets"].version = t.snapshot.meta["targets"].version
       /\ ~Expired(t.targets["targets"], n)

AllReached == \A u \in Updater : Reached(trusted[u], pc[u], now[u])

IInv == TypeOK /\ AllReached

-----------------------------------------------------------------------------
(* The operations keep a trusted set well formed (trusted.rs).              *)

LEMMA FromRootType ==
  ASSUME NEW root \in RootDoc
  PROVE  FromRoot(root) \in TrustedSet /\ FromRoot(root).root = root
BY DEF FromRoot, TrustedSet, NoTargets

LEMMA AfterTimestampType ==
  ASSUME NEW t \in TrustedSet, NEW new \in TimestampDoc
  PROVE  /\ AfterTimestamp(t, new) \in TrustedSet
         /\ AfterTimestamp(t, new).root = t.root
BY DEF AfterTimestamp, TrustedSet

LEMMA AfterSnapshotType ==
  ASSUME NEW t \in TrustedSet, NEW new \in SnapshotDoc
  PROVE  /\ AfterSnapshot(t, new) \in TrustedSet
         /\ AfterSnapshot(t, new).root = t.root
         /\ AfterSnapshot(t, new).timestamp = t.timestamp
         /\ AfterSnapshot(t, new).snapshot = new
BY DEF AfterSnapshot, TrustedSet, NoTargets

LEMMA AfterTargetsType ==
  ASSUME NEW t \in TrustedSet, NEW new \in TargetsDoc, NEW role \in TargetsRole
  PROVE  /\ AfterTargets(t, new, role) \in TrustedSet
         /\ AfterTargets(t, new, role).root = t.root
         /\ AfterTargets(t, new, role).timestamp = t.timestamp
         /\ AfterTargets(t, new, role).snapshot = t.snapshot
         /\ AfterTargets(t, new, role).targets[role] = new
         /\ \A r \in TargetsRole \ {role} : AfterTargets(t, new, role).targets[r] = t.targets[r]
BY DEF AfterTargets, TrustedSet

\* Whatever is written, files stay documents.
LEMMA CachePutType ==
  ASSUME StoreOK, NEW u, NEW files, NEW doc \in Doc, CachePut(u, files, doc)
  PROVE  StoreOK'
BY DEF StoreOK, CachePut, Write

LEMMA AdoptType ==
  ASSUME TypeOK, NEW u \in Updater, NEW set \in TrustedSet, Adopt(u, set)
  PROVE  /\ trusted' \in [Updater -> TrustedSet] /\ trusted'[u] = set
         /\ \A w \in Updater \ {u} : trusted'[w] = trusted[w]
BY DEF TypeOK, Adopt

LEMMA GotoType ==
  ASSUME TypeOK, NEW u \in Updater, NEW stage \in Control, Goto(u, stage)
  PROVE  /\ pc' \in [Updater -> Control] /\ pc'[u] = stage
         /\ \A w \in Updater \ {u} : pc'[w] = pc[w]
BY DEF TypeOK, Goto

\* A step is one process's: what the others have reached stays.
LEMMA OneReaches ==
  ASSUME AllReached, NEW u \in Updater,
         \A w \in Updater \ {u} : trusted'[w] = trusted[w] /\ pc'[w] = pc[w] /\ now'[w] = now[w],
         Reached(trusted'[u], pc'[u], now'[u])
  PROVE  AllReached'
BY DEF AllReached

\* A step that only moves a process, to a stage of which the same is known or nothing.
LEMMA GotoKeeps ==
  ASSUME IInv, NEW u \in Updater, NEW stage \in Control, Goto(u, stage),
         UNCHANGED <<clock, store, trusted, now, rotations, completed>>,
         Reached(trusted[u], stage, now[u])
  PROVE  IInv'
<1>1. TypeOK'
  BY GotoType DEF IInv, TypeOK, StoreOK
<1>2. AllReached'
  BY GotoType, OneReaches DEF IInv
<1> QED
  BY <1>1, <1>2 DEF IInv

\* Nothing is asked of a refresh that failed, or of a process that starts one.
LEMMA NothingReached ==
  ASSUME NEW t, NEW n, NEW stage \in {"boot", "idle", "failed", "root"}
  PROVE  Reached(t, stage, n)
BY DEF Reached

LEMMA FailKeeps ==
  ASSUME IInv, NEW u \in Updater, Fail(u)
  PROVE  IInv'
BY GotoKeeps, NothingReached DEF Fail, Control

-----------------------------------------------------------------------------
LEMMA InitIInv == Init => IInv
<1> SUFFICES ASSUME Init PROVE IInv
  OBVIOUS
<1>1. PinnedRoot \in RootDoc /\ PinnedRoot \in Root
  BY UpdaterAssumption, DocumentAssumption
<1>2. NothingCompleted \in [keepers : Authority \X Authority,
                            timestamp : Nat \cup {-1}, targets : Nat \cup {-1}]
  BY <1>1 DEF NothingCompleted, FloorKeepers, Root, TopLevelRole
<1>3. 0 \in Time /\ 0 \in 0 .. MaxRotations
  BY UpdaterAssumption DEF Time
<1>4. StoreOK
  BY UpdaterAssumption DEF Init, StoreOK
<1>5. trusted \in [Updater -> TrustedSet]
  BY <1>1, FromRootType DEF Init
<1>6. TypeOK
  BY <1>2, <1>3, <1>4, <1>5 DEF Init, TypeOK, Control
<1>7. AllReached
  BY NothingReached DEF Init, AllReached
<1> QED
  BY <1>6, <1>7 DEF IInv

LEMMA TickKeeps ==
  ASSUME IInv, Tick
  PROVE  IInv'
<1>1. clock' \in Time
  BY UpdaterAssumption DEF IInv, TypeOK, Tick, Time
<1>2. TypeOK'
  BY <1>1 DEF IInv, TypeOK, StoreOK, Tick
<1>3. AllReached'
  BY DEF IInv, AllReached, Tick
<1> QED
  BY <1>2, <1>3 DEF IInv

LEMMA CrashKeeps ==
  ASSUME IInv, NEW u \in Updater, Crash(u)
  PROVE  IInv'
<1>1. FromRoot(PinnedRoot) \in TrustedSet
  BY UpdaterAssumption, FromRootType
<1>2. 0 \in Time /\ 0 \in 0 .. MaxRotations /\ "boot" \in Control
  BY UpdaterAssumption DEF Time, Control
<1>3. TypeOK'
  BY <1>1, <1>2, AdoptType, GotoType DEF IInv, TypeOK, StoreOK, Crash
<1>4. AllReached'
  <2>1. \A w \in Updater \ {u} : trusted'[w] = trusted[w] /\ pc'[w] = pc[w] /\ now'[w] = now[w]
    BY <1>1, <1>2, AdoptType, GotoType DEF IInv, TypeOK, Crash
  <2>2. pc'[u] = "boot"
    BY <1>2, GotoType DEF IInv, Crash
  <2>3. QED
    BY <2>1, <2>2, NothingReached, OneReaches DEF IInv
<1> QED
  BY <1>3, <1>4 DEF IInv

-----------------------------------------------------------------------------
(* with_store and the root chain.                                           *)

LEMMA AdoptCachedRootKeeps ==
  ASSUME IInv, NEW u \in Updater, AdoptCachedRoot(u)
  PROVE  IInv'
<1> DEFINE new == CachedSuccessor(u)
<1>1. new \in RootDoc
  BY DEF AdoptCachedRoot, Succeeds, RootAccepts
<1>2. FromRoot(new) \in TrustedSet /\ Adopt(u, FromRoot(new))
  BY <1>1, FromRootType DEF AdoptCachedRoot, AfterRoot
<1> HIDE DEF new
<1>3. TypeOK'
  BY <1>2, AdoptType DEF IInv, TypeOK, StoreOK, AdoptCachedRoot
<1>4. AllReached'
  <2>1. pc'[u] = "boot" /\ \A w \in Updater \ {u} : trusted'[w] = trusted[w]
    BY <1>2, AdoptType DEF IInv, AdoptCachedRoot
  <2>2. QED
    BY <2>1, NothingReached, OneReaches DEF IInv, AdoptCachedRoot
<1> QED
  BY <1>3, <1>4 DEF IInv

LEMMA BootDoneKeeps ==
  ASSUME IInv, NEW u \in Updater, BootDone(u)
  PROVE  IInv'
BY GotoKeeps, NothingReached DEF BootDone, Control

LEMMA RefreshKeeps ==
  ASSUME IInv, NEW u \in Updater, Refresh(u)
  PROVE  IInv'
<1>1. "root" \in Control /\ clock \in Time /\ 0 \in 0 .. MaxRotations
  <2>1. 0 \in 0 .. MaxRotations
    BY UpdaterAssumption
  <2>2. "root" \in Control
    BY DEF Control, Stage
  <2>3. QED
    BY <2>1, <2>2 DEF IInv, TypeOK
<1>2. TypeOK'
  BY <1>1, GotoType DEF IInv, TypeOK, StoreOK, Refresh
<1>3. AllReached'
  <2>1. pc'[u] = "root" /\ \A w \in Updater \ {u} : pc'[w] = pc[w] /\ now'[w] = now[w]
    BY <1>1, GotoType DEF IInv, TypeOK, Refresh
  <2>2. QED
    BY <2>1, NothingReached, OneReaches DEF IInv, Refresh
<1> QED
  BY <1>2, <1>3 DEF IInv

LEMMA RootUpdatedKeeps ==
  ASSUME IInv, NEW u \in Updater, RootUpdated(u)
  PROVE  IInv'
<1>1. PICK new \in RootDoc :
        /\ Adopt(u, FromRoot(new))
        /\ CachePut(u, {HistoryFile(new.version), PlainFile("root")}, new)
  BY DEF RootUpdated, Succeeds, RootAccepts, AfterRoot
<1>2. FromRoot(new) \in TrustedSet /\ new \in Doc
  BY FromRootType DEF Doc
<1>3. StoreOK'
  BY <1>1, <1>2, CachePutType DEF IInv, TypeOK
<1>4. rotations' \in [Updater -> 0 .. MaxRotations]
  BY UpdaterAssumption DEF IInv, TypeOK, RootUpdated, MayRotate
<1>5. TypeOK'
  BY <1>1, <1>2, <1>3, <1>4, AdoptType DEF IInv, TypeOK, RootUpdated
<1>6. AllReached'
  <2>1. pc'[u] = "root" /\ \A w \in Updater \ {u} : trusted'[w] = trusted[w]
    BY <1>1, <1>2, AdoptType DEF IInv, RootUpdated
  <2>2. QED
    BY <2>1, NothingReached, OneReaches DEF IInv, RootUpdated
<1> QED
  BY <1>5, <1>6 DEF IInv

\* Here the root is found not to have expired.
LEMMA RootChainEndsKeeps ==
  ASSUME IInv, NEW u \in Updater, RootChainEnds(u)
  PROVE  IInv'
<1>1. CASE Expired(trusted[u].root, now[u])
  BY <1>1, GotoKeeps, NothingReached DEF RootChainEnds, Control
<1>2. CASE ~Expired(trusted[u].root, now[u])
  <2>1. PICK stage \in {"seed timestamp", "timestamp"} : Goto(u, stage)
    BY <1>2 DEF RootChainEnds
  <2>2. Reached(trusted[u], stage, now[u])
    BY <1>2, <2>1 DEF Reached
  <2>3. QED
    BY <2>1, <2>2, GotoKeeps DEF RootChainEnds, Control, Stage
<1> QED
  BY <1>1, <1>2

LEMMA RootEndsKeeps ==
  ASSUME IInv, NEW u \in Updater, RootRejected(u) \/ RotationsExceeded(u)
  PROVE  IInv'
BY FailKeeps DEF RootRejected, RotationsExceeded

-----------------------------------------------------------------------------
(* Seeding from the store keeps the root.                                   *)

LEMMA SeedKeeps ==
  ASSUME IInv, NEW u \in Updater, NEW stage, NEW accepted, NEW set, NEW next,
         accepted => set \in TrustedSet /\ set.root = trusted[u].root,
         stage \in {"seed timestamp", "seed snapshot", "seed targets"},
         next \in {"seed snapshot", "seed targets", "timestamp"},
         Seed(u, stage, accepted, set, next)
  PROVE  IInv'
<1> DEFINE after == IF accepted THEN set ELSE trusted[u]
<1>1. after \in TrustedSet /\ after.root = trusted[u].root /\ Adopt(u, after)
  BY DEF IInv, TypeOK, Seed
<1> HIDE DEF after
<1>2. next \in Control /\ Goto(u, next)
  BY DEF Seed, Control, Stage
<1>3. TypeOK'
  BY <1>1, <1>2, AdoptType, GotoType DEF IInv, TypeOK, StoreOK, Seed
<1>4. AllReached'
  <2>1. /\ \A w \in Updater \ {u} : trusted'[w] = trusted[w] /\ pc'[w] = pc[w]
        /\ trusted'[u] = after /\ pc'[u] = next /\ now' = now
    BY <1>1, <1>2, AdoptType, GotoType DEF IInv, Seed
  <2>2. ~Expired(after.root, now[u])
    BY <1>1 DEF IInv, AllReached, Reached, Seed
  <2>3. Reached(after, next, now[u])
    BY <2>2 DEF Reached
  <2>4. QED
    BY <2>1, <2>3, OneReaches DEF IInv
<1> QED
  BY <1>3, <1>4 DEF IInv

LEMMA SeedingKeeps ==
  ASSUME IInv, NEW u \in Updater, SeedTimestamp(u) \/ SeedSnapshot(u) \/ SeedTargets(u)
  PROVE  IInv'
<1>1. trusted[u] \in TrustedSet
  BY DEF IInv, TypeOK
<1>2. CASE SeedTimestamp(u)
  BY <1>1, <1>2, SeedKeeps, AfterTimestampType
     DEF SeedTimestamp, TimestampAccepts, TimestampVerified
<1>3. CASE SeedSnapshot(u)
  BY <1>1, <1>3, SeedKeeps, AfterSnapshotType DEF SeedSnapshot, SnapshotAccepts
<1>4. CASE SeedTargets(u)
  <2> DEFINE new == Cached(u, PlainFile("targets"))
             set == AfterTargets(trusted[u], new, "targets")
  <2>1. TargetsAccepts(trusted[u], new, now[u]) =>
          set \in TrustedSet /\ set.root = trusted[u].root
    BY <1>1, AfterTargetsType DEF TargetsAccepts, TargetsPinned, TargetsRole
  <2>2. Seed(u, "seed targets", TargetsAccepts(trusted[u], new, now[u]), set, "timestamp")
    BY <1>4 DEF SeedTargets
  <2>3. QED
    BY <2>1, <2>2, SeedKeeps
<1> QED
  BY <1>2, <1>3, <1>4

-----------------------------------------------------------------------------
(* The lower roles.                                                         *)

LEMMA TimestampKeeps ==
  ASSUME IInv, NEW u \in Updater,
         TimestampUpdated(u) \/ TimestampKept(u) \/ TimestampRejected(u)
  PROVE  IInv'
<1>1. trusted[u] \in TrustedSet /\ "snapshot" \in Control
  BY DEF IInv, TypeOK, Control, Stage
<1>2. pc[u] = "timestamp" => ~Expired(trusted[u].root, now[u])
  BY DEF IInv, AllReached, Reached
<1>3. CASE TimestampUpdated(u)
  <2>1. PICK new \in TimestampDoc :
          /\ Adopt(u, AfterTimestamp(trusted[u], new))
          /\ CachePut(u, {PlainFile("timestamp")}, new)
    BY <1>3 DEF TimestampUpdated, TimestampAccepts, TimestampVerified
  <2> DEFINE after == AfterTimestamp(trusted[u], new)
  <2>2. after \in TrustedSet /\ after.root = trusted[u].root
    BY <1>1, AfterTimestampType
  <2>3. StoreOK'
    BY <2>1, CachePutType DEF IInv, TypeOK, Doc
  <2>4. TypeOK'
    BY <1>1, <1>3, <2>1, <2>2, <2>3, AdoptType, GotoType DEF IInv, TypeOK, TimestampUpdated
  <2>5. /\ \A w \in Updater \ {u} : trusted'[w] = trusted[w] /\ pc'[w] = pc[w]
        /\ trusted'[u] = after /\ pc'[u] = "snapshot" /\ now' = now
    BY <1>1, <1>3, <2>1, <2>2, AdoptType, GotoType DEF IInv, TimestampUpdated
  <2> HIDE DEF after
  <2>6. Reached(after, "snapshot", now[u])
    BY <1>2, <1>3, <2>2 DEF TimestampUpdated, Reached
  <2>7. QED
    BY <2>4, <2>5, <2>6, OneReaches DEF IInv
<1>4. CASE TimestampKept(u)
  <2>1. Reached(trusted[u], "snapshot", now[u])
    BY <1>2, <1>4 DEF TimestampKept, Reached
  <2>2. QED
    BY <1>1, <1>4, <2>1, GotoKeeps DEF TimestampKept
<1>5. CASE TimestampRejected(u)
  BY <1>5, FailKeeps DEF TimestampRejected
<1> QED
  BY <1>3, <1>4, <1>5

\* The snapshot is the pinned one and neither it nor the timestamp has expired,
\* whether it was trusted already or is new.
LEMMA SnapshotKeeps ==
  ASSUME IInv, NEW u \in Updater,
         SnapshotReused(u) \/ SnapshotUpdated(u) \/ SnapshotRejected(u)
  PROVE  IInv'
<1>1. trusted[u] \in TrustedSet /\ "targets" \in Control
  BY DEF IInv, TypeOK, Control, Stage
<1>2. pc[u] = "snapshot" => ~Expired(trusted[u].root, now[u])
  BY DEF IInv, AllReached, Reached
<1>3. CASE SnapshotReused(u)
  <2>1. Reached(trusted[u], "targets", now[u])
    BY <1>2, <1>3 DEF SnapshotReused, SnapshotWanted, SnapshotReusable, Reached
  <2>2. QED
    BY <1>1, <1>3, <2>1, GotoKeeps DEF SnapshotReused
<1>4. CASE SnapshotUpdated(u)
  <2>1. PICK new \in SnapshotDoc :
          /\ SnapshotAccepts(trusted[u], new, now[u])
          /\ Adopt(u, AfterSnapshot(trusted[u], new))
          /\ CachePut(u, {MetadataFile(trusted[u].root, "snapshot", new.version),
                          PlainFile("snapshot")}, new)
    BY <1>4 DEF SnapshotUpdated, SnapshotAccepts
  <2> DEFINE after == AfterSnapshot(trusted[u], new)
  <2>2. /\ after \in TrustedSet /\ after.root = trusted[u].root
        /\ after.timestamp = trusted[u].timestamp /\ after.snapshot = new
    BY <1>1, AfterSnapshotType
  <2>3. StoreOK'
    BY <2>1, CachePutType DEF IInv, TypeOK, Doc
  <2>4. TypeOK'
    BY <1>1, <1>4, <2>1, <2>2, <2>3, AdoptType, GotoType DEF IInv, TypeOK, SnapshotUpdated
  <2>5. /\ \A w \in Updater \ {u} : trusted'[w] = trusted[w] /\ pc'[w] = pc[w]
        /\ trusted'[u] = after /\ pc'[u] = "targets" /\ now' = now
    BY <1>1, <1>4, <2>1, <2>2, AdoptType, GotoType DEF IInv, SnapshotUpdated
  <2> HIDE DEF after
  <2>6. /\ new # NoDoc /\ ~Expired(new, now[u])
        /\ new.version = trusted[u].timestamp.snap.version
    BY <2>1, NameAssumption DEF SnapshotAccepts, MatchesPin
  <2>7. Reached(after, "targets", now[u])
    BY <1>2, <1>4, <2>2, <2>6 DEF SnapshotUpdated, SnapshotWanted, Reached
  <2>8. QED
    BY <2>4, <2>5, <2>7, OneReaches DEF IInv
<1>5. CASE SnapshotRejected(u)
  BY <1>5, FailKeeps DEF SnapshotRejected
<1> QED
  BY <1>3, <1>4, <1>5

\* What a completed refresh leaves has versions to remember.
LEMMA CompleteType ==
  ASSUME TypeOK, NEW u \in Updater, trusted' \in [Updater -> TrustedSet], Complete(u),
         trusted'[u].timestamp # NoDoc, trusted'[u].targets["targets"] # NoDoc
  PROVE  /\ completed' \in [Updater -> [keepers : Authority \X Authority,
                                        timestamp : Nat \cup {-1}, targets : Nat \cup {-1}]]
         /\ pc' \in [Updater -> Control] /\ pc'[u] = "ok"
         /\ \A w \in Updater \ {u} : pc'[w] = pc[w]
<1> DEFINE t == trusted'[u]
<1>1. /\ t.root \in Root /\ t.timestamp \in Timestamp
      /\ t.targets["targets"] \in Targets
  BY DocumentAssumption DEF TrustedSet, TargetsRole
<1>2. FloorKeepers(t.root) \in Authority \X Authority
  BY <1>1 DEF FloorKeepers, Root, TopLevelRole
<1>3. t.timestamp.version \in Nat /\ t.targets["targets"].version \in Nat
  BY <1>1 DEF Timestamp, Targets
<1> HIDE DEF t
<1>4. completed' = [completed EXCEPT ![u] =
                      [keepers |-> FloorKeepers(t.root), timestamp |-> t.timestamp.version,
                       targets |-> t.targets["targets"].version]]
  BY DEF Complete, t
<1>5. completed' \in [Updater -> [keepers : Authority \X Authority,
                                  timestamp : Nat \cup {-1}, targets : Nat \cup {-1}]]
  BY <1>2, <1>3, <1>4 DEF TypeOK
<1> QED
  BY <1>5, GotoType DEF Complete, Control

LEMMA TargetsKeeps ==
  ASSUME IInv, NEW u \in Updater,
         TargetsReused(u) \/ TargetsUpdated(u) \/ TargetsRejected(u)
  PROVE  IInv'
<1>1. trusted[u] \in TrustedSet /\ trusted \in [Updater -> TrustedSet] /\ "targets" \in TargetsRole
  BY DEF IInv, TypeOK, TargetsRole
<1>2. pc[u] = "targets" => Reached(trusted[u], "targets", now[u])
  BY DEF IInv, AllReached
<1>3. CASE TargetsReused(u)
  <2>1. /\ trusted' = trusted /\ UNCHANGED <<clock, store, now, rotations>> /\ Complete(u)
        /\ Reached(trusted[u], "ok", now[u])
    BY <1>2, <1>3 DEF TargetsReused, TargetsReusable, RolePinned, Reached
  <2>2. trusted[u].timestamp # NoDoc /\ trusted[u].targets["targets"] # NoDoc
    BY <2>1 DEF Reached
  <2>3. TypeOK'
    BY <1>1, <2>1, <2>2, CompleteType DEF IInv, TypeOK, StoreOK
  <2>4. AllReached'
    BY <1>1, <2>1, <2>2, CompleteType, OneReaches DEF IInv
  <2>5. QED
    BY <2>3, <2>4 DEF IInv
<1>4. CASE TargetsUpdated(u)
  <2>1. PICK new \in TargetsDoc :
          /\ TargetsAccepts(trusted[u], new, now[u])
          /\ Adopt(u, AfterTargets(trusted[u], new, "targets"))
          /\ CachePut(u, {PlainFile("targets")}, new)
    BY <1>4 DEF TargetsUpdated, TargetsAccepts, TargetsPinned
  <2> DEFINE after == AfterTargets(trusted[u], new, "targets")
  <2>2. /\ after \in TrustedSet /\ after.root = trusted[u].root
        /\ after.timestamp = trusted[u].timestamp /\ after.snapshot = trusted[u].snapshot
        /\ after.targets["targets"] = new
    BY <1>1, AfterTargetsType
  <2> HIDE DEF after
  <2>3. StoreOK'
    BY <2>1, CachePutType DEF IInv, TypeOK, Doc
  <2>4. /\ trusted' \in [Updater -> TrustedSet] /\ trusted'[u] = after
        /\ \A w \in Updater \ {u} : trusted'[w] = trusted[w]
    BY <2>1, <2>2, AdoptType DEF IInv, after
  <2>5. new # NoDoc /\ ~Expired(new, now[u])
    BY <2>1, NameAssumption DEF TargetsAccepts
  <2>6. /\ trusted[u].snapshot.meta["targets"] # NoPin
        /\ new.version = trusted[u].snapshot.meta["targets"].version
    BY <2>1 DEF TargetsAccepts, TargetsPinned, MatchesPin
  <2>7. Reached(after, "ok", now[u])
    BY <1>2, <1>4, <2>2, <2>5, <2>6 DEF TargetsUpdated, Reached
  <2>8. after.timestamp # NoDoc /\ after.targets["targets"] # NoDoc
    BY <2>7 DEF Reached
  <2>9. Complete(u) /\ UNCHANGED <<clock, now, rotations>>
    BY <1>4 DEF TargetsUpdated
  <2>10. TypeOK'
    BY <2>3, <2>4, <2>8, <2>9, CompleteType DEF IInv, TypeOK
  <2>11. AllReached'
    BY <2>4, <2>7, <2>8, <2>9, CompleteType, OneReaches DEF IInv
  <2>12. QED
    BY <2>10, <2>11 DEF IInv
<1>5. CASE TargetsRejected(u)
  BY <1>5, FailKeeps DEF TargetsRejected
<1> QED
  BY <1>3, <1>4, <1>5

\* A delegated role does not get in the place of the top-level targets.
LEMMA LoadDelegatedKeeps ==
  ASSUME IInv, NEW u \in Updater, NEW role \in DelegatedName, NEW delegator \in TargetsRole,
         LoadDelegated(u, role, delegator)
  PROVE  IInv'
<1>1. /\ trusted[u] \in TrustedSet /\ role \in TargetsRole
      /\ "targets" \in TargetsRole \ {role}
  BY NameAssumption DEF IInv, TypeOK, TargetsRole, TopLevelRole
<1>2. PICK new \in TargetsDoc :
        /\ Adopt(u, AfterTargets(trusted[u], new, role))
        /\ CachePut(u, {PlainFile(role)}, new)
  BY DEF LoadDelegated, DelegatedAccepts, TargetsPinned
<1> DEFINE after == AfterTargets(trusted[u], new, role)
<1>3. /\ after \in TrustedSet /\ after.root = trusted[u].root
      /\ after.timestamp = trusted[u].timestamp /\ after.snapshot = trusted[u].snapshot
      /\ after.targets["targets"] = trusted[u].targets["targets"]
  BY <1>1, AfterTargetsType
<1>4. StoreOK'
  BY <1>2, CachePutType DEF IInv, TypeOK, Doc
<1>5. TypeOK'
  BY <1>2, <1>3, <1>4, AdoptType DEF IInv, TypeOK, LoadDelegated
<1>6. trusted'[u] = after /\ \A w \in Updater \ {u} : trusted'[w] = trusted[w]
  BY <1>2, <1>3, AdoptType DEF IInv
<1> HIDE DEF after
<1>7. Reached(trusted[u], pc[u], now[u])
  BY DEF IInv, AllReached
<1>8. Reached(after, pc[u], now[u])
  BY <1>3, <1>7 DEF Reached
<1>9. AllReached'
  BY <1>6, <1>8, OneReaches DEF IInv, LoadDelegated
<1> QED
  BY <1>5, <1>9 DEF IInv

-----------------------------------------------------------------------------
LEMMA NextIInv == IInv /\ [Next]_vars => IInv'
<1>1. ASSUME IInv, UNCHANGED vars
      PROVE  IInv'
  BY <1>1 DEF IInv, TypeOK, StoreOK, AllReached, vars
<1>2. ASSUME IInv, NEW u \in Updater, Boot(u) \/ Refreshing(u)
      PROVE  IInv'
  BY <1>2, AdoptCachedRootKeeps, BootDoneKeeps, RootUpdatedKeeps, RootChainEndsKeeps,
     RootEndsKeeps, SeedingKeeps, TimestampKeeps, SnapshotKeeps, TargetsKeeps
     DEF Boot, Refreshing
<1>3. ASSUME IInv, Next
      PROVE  IInv'
  BY <1>2, <1>3, TickKeeps, CrashKeeps, RefreshKeeps, LoadDelegatedKeeps DEF Next
<1> QED
  BY <1>1, <1>3

\* Every state of the clients and of the store they share is well formed.
THEOREM TypeCorrect == Spec => []TypeOK
<1>1. IInv => TypeOK
  BY DEF IInv
<1> QED
  BY <1>1, InitIInv, NextIInv, PTL DEF Spec

\* A refresh that returned Ok left one chain of versions, none of whose roles was
\* expired at its `now`, whatever of it was fetched, seeded or reused (client.rs
\* refresh).
THEOREM CompletedIsCurrentHolds == Spec => []CompletedIsCurrent
<1>1. IInv => CompletedIsCurrent
  BY DEF IInv, AllReached, Reached, CompletedIsCurrent, Chained
<1> QED
  BY <1>1, InitIInv, NextIInv, PTL DEF Spec

-----------------------------------------------------------------------------
(* The steps of a trusted set.                                              *)

\* One operation of TrustedMetadataSet takes t to s.
Operation(t, s) ==
  \/ \E new \in RootDoc : RootAccepts(t, new) /\ s = AfterRoot(t, new)
  \/ \E new \in TimestampDoc, n \in Time :
       TimestampAccepts(t, new, n) /\ s = AfterTimestamp(t, new)
  \/ \E new \in SnapshotDoc, n \in Time :
       SnapshotAccepts(t, new, n) /\ s = AfterSnapshot(t, new)
  \/ \E new \in TargetsDoc, n \in Time :
       TargetsAccepts(t, new, n) /\ s = AfterTargets(t, new, "targets")
  \/ \E new \in TargetsDoc, role \in DelegatedName, delegator \in TargetsRole, n \in Time :
       DelegatedAccepts(t, new, role, delegator, n) /\ s = AfterTargets(t, new, role)

StepVerified(u) ==
  trusted'[u] # trusted[u] =>
    Operation(trusted[u], trusted'[u]) \/ trusted'[u] = FromRoot(PinnedRoot)

LEMMA AdoptsOperation ==
  ASSUME TypeOK, NEW u \in Updater, NEW set \in TrustedSet, Adopt(u, set),
         set = trusted[u] \/ Operation(trusted[u], set) \/ set = FromRoot(PinnedRoot)
  PROVE  \A w \in Updater : StepVerified(w)
BY AdoptType DEF StepVerified

LEMMA RootStepVerified ==
  ASSUME TypeOK, NEW u \in Updater, AdoptCachedRoot(u) \/ RootUpdated(u) \/ Crash(u)
  PROVE  \A w \in Updater : StepVerified(w)
<1>1. CASE AdoptCachedRoot(u) \/ RootUpdated(u)
  <2>1. PICK new \in RootDoc :
          RootAccepts(trusted[u], new) /\ Adopt(u, AfterRoot(trusted[u], new))
    BY <1>1 DEF AdoptCachedRoot, RootUpdated, Succeeds, RootAccepts
  <2>2. AfterRoot(trusted[u], new) \in TrustedSet
    BY FromRootType DEF AfterRoot
  <2>3. Operation(trusted[u], AfterRoot(trusted[u], new))
    BY <2>1 DEF Operation
  <2>4. QED
    BY <2>1, <2>2, <2>3, AdoptsOperation
<1>2. CASE Crash(u)
  BY <1>2, AdoptsOperation, FromRootType, UpdaterAssumption DEF Crash
<1> QED
  BY <1>1, <1>2

LEMMA TimestampStepVerified ==
  ASSUME TypeOK, NEW u \in Updater, SeedTimestamp(u) \/ TimestampUpdated(u)
  PROVE  \A w \in Updater : StepVerified(w)
<1>1. trusted[u] \in TrustedSet /\ now[u] \in Time
  BY DEF TypeOK
<1>2. ASSUME NEW new, TimestampAccepts(trusted[u], new, now[u])
      PROVE  /\ AfterTimestamp(trusted[u], new) \in TrustedSet
             /\ Operation(trusted[u], AfterTimestamp(trusted[u], new))
  <2>1. new \in TimestampDoc
    BY <1>2 DEF TimestampAccepts, TimestampVerified
  <2>2. QED
    BY <1>1, <1>2, <2>1, AfterTimestampType DEF Operation
<1>3. CASE SeedTimestamp(u)
  BY <1>1, <1>2, <1>3, AdoptsOperation DEF SeedTimestamp, Seed
<1>4. CASE TimestampUpdated(u)
  BY <1>2, <1>4, AdoptsOperation DEF TimestampUpdated
<1> QED
  BY <1>3, <1>4

LEMMA SnapshotStepVerified ==
  ASSUME TypeOK, NEW u \in Updater, SeedSnapshot(u) \/ SnapshotUpdated(u)
  PROVE  \A w \in Updater : StepVerified(w)
<1>1. trusted[u] \in TrustedSet /\ now[u] \in Time
  BY DEF TypeOK
<1>2. ASSUME NEW new, SnapshotAccepts(trusted[u], new, now[u])
      PROVE  /\ AfterSnapshot(trusted[u], new) \in TrustedSet
             /\ Operation(trusted[u], AfterSnapshot(trusted[u], new))
  <2>1. new \in SnapshotDoc
    BY <1>2 DEF SnapshotAccepts
  <2>2. QED
    BY <1>1, <1>2, <2>1, AfterSnapshotType DEF Operation
<1>3. CASE SeedSnapshot(u)
  BY <1>1, <1>2, <1>3, AdoptsOperation DEF SeedSnapshot, Seed
<1>4. CASE SnapshotUpdated(u)
  BY <1>2, <1>4, AdoptsOperation DEF SnapshotUpdated
<1> QED
  BY <1>3, <1>4

LEMMA TargetsStepVerified ==
  ASSUME TypeOK, NEW u \in Updater, SeedTargets(u) \/ TargetsUpdated(u)
  PROVE  \A w \in Updater : StepVerified(w)
<1>1. trusted[u] \in TrustedSet /\ now[u] \in Time /\ "targets" \in TargetsRole
  BY DEF TypeOK, TargetsRole
<1>2. ASSUME NEW new, TargetsAccepts(trusted[u], new, now[u])
      PROVE  /\ AfterTargets(trusted[u], new, "targets") \in TrustedSet
             /\ Operation(trusted[u], AfterTargets(trusted[u], new, "targets"))
  <2>1. new \in TargetsDoc
    BY <1>2 DEF TargetsAccepts, TargetsPinned
  <2>2. QED
    BY <1>1, <1>2, <2>1, AfterTargetsType DEF Operation
<1>3. CASE SeedTargets(u)
  BY <1>1, <1>2, <1>3, AdoptsOperation DEF SeedTargets, Seed
<1>4. CASE TargetsUpdated(u)
  BY <1>2, <1>4, AdoptsOperation DEF TargetsUpdated
<1> QED
  BY <1>3, <1>4

LEMMA DelegatedStepVerified ==
  ASSUME TypeOK, NEW u \in Updater, NEW role \in DelegatedName, NEW delegator \in TargetsRole,
         LoadDelegated(u, role, delegator)
  PROVE  \A w \in Updater : StepVerified(w)
<1>1. trusted[u] \in TrustedSet /\ role \in TargetsRole /\ clock \in Time
  BY DEF TypeOK, TargetsRole
<1>2. PICK new \in TargetsDoc :
        /\ DelegatedAccepts(trusted[u], new, role, delegator, clock)
        /\ Adopt(u, AfterTargets(trusted[u], new, role))
  BY DEF LoadDelegated, DelegatedAccepts, TargetsPinned
<1>3. Operation(trusted[u], AfterTargets(trusted[u], new, role))
  BY <1>1, <1>2 DEF Operation
<1> QED
  BY <1>1, <1>2, <1>3, AfterTargetsType, AdoptsOperation

LEMMA NextVerified ==
  ASSUME IInv, Next
  PROVE  \A u \in Updater : StepVerified(u)
<1>1. TypeOK
  BY DEF IInv
<1>2. CASE trusted' = trusted
  BY <1>2 DEF StepVerified
<1>3. ASSUME NEW u \in Updater, Boot(u) \/ Refreshing(u) \/ Crash(u) \/ Refresh(u)
      PROVE  \/ trusted' = trusted
             \/ \A w \in Updater : StepVerified(w)
  <2>1. CASE Boot(u) \/ Crash(u) \/ Refresh(u)
    BY <1>1, <2>1, RootStepVerified DEF Boot, BootDone, Refresh
  <2>2. CASE Refreshing(u)
    BY <1>1, <2>2, RootStepVerified, TimestampStepVerified, SnapshotStepVerified,
       TargetsStepVerified
       DEF Refreshing, RootChainEnds, RootRejected, RotationsExceeded, TimestampKept,
           TimestampRejected, SnapshotReused, SnapshotRejected, TargetsReused,
           TargetsRejected, Fail
  <2>3. QED
    BY <1>3, <2>1, <2>2
<1>4. QED
  BY <1>1, <1>2, <1>3, DelegatedStepVerified DEF Next, Tick

\* However many processes share a store, whatever it holds and whatever a mirror
\* answers, a trusted set changes only by a verified operation, or with a new
\* process to what the pinned root gives (client.rs; cache.rs, "re-runs every
\* signature/version/expiry check").  What TrustedMetadataSet_proofs shows of all
\* sequences of operations therefore holds of every client.
THEOREM OnlyVerifiedOperations == Spec => [][\A u \in Updater : StepVerified(u)]_vars
<1>1. IInv /\ [Next]_vars => [\A u \in Updater : StepVerified(u)]_vars
  BY NextVerified
<1> QED
  BY <1>1, InitIInv, NextIInv, PTL DEF Spec

-----------------------------------------------------------------------------
(* The root history.  A publisher's roots form a lineage if whatever a root  *)
(* of it accepts belongs to it and no two of them have one version.          *)

Lineage(L) ==
  /\ L \subseteq RootDoc /\ PinnedRoot \in L
  /\ \A r \in L, s \in RootDoc : RootAccepts(FromRoot(r), s) => s \in L
  /\ \A r, s \in L : r.version = s.version => r = s

IsHistory(f) == f[1] = "root_history/N.root.json"

\* Each file of the history is the root of its number and was accepted after one
\* of the lineage.
HistoryOf(s, L) ==
  \A f \in DOMAIN s : IsHistory(f) =>
    /\ s[f] \in L /\ s[f].version = f[2]
    /\ \E r \in L : RootAccepts(FromRoot(r), s[f])

RootsOf(L) == \A u \in Updater : trusted[u].root \in L

HistoryInv(L) == IInv /\ RootsOf(L) /\ HistoryOf(store, L)

LEMMA OperationRoot ==
  ASSUME NEW t \in TrustedSet, NEW s, Operation(t, s)
  PROVE  s.root = t.root \/ (s.root \in RootDoc /\ RootAccepts(FromRoot(t.root), s.root))
<1>1. CASE \E new \in RootDoc : RootAccepts(t, new) /\ s = AfterRoot(t, new)
  BY <1>1 DEF AfterRoot, FromRoot, RootAccepts
<1>2. CASE \E new \in TimestampDoc : s = AfterTimestamp(t, new)
  BY <1>2, AfterTimestampType
<1>3. CASE \E new \in SnapshotDoc : s = AfterSnapshot(t, new)
  BY <1>3, AfterSnapshotType
<1>4. CASE \E new \in TargetsDoc, role \in TargetsRole : s = AfterTargets(t, new, role)
  BY <1>4, AfterTargetsType
<1> QED
  BY <1>1, <1>2, <1>3, <1>4 DEF Operation, TargetsRole

\* Where a step writes: a verified successor into the history and root.json, or
\* other files only.
LEMMA WhatIsWritten ==
  ASSUME Next, "root_history/N.root.json" \notin DelegatedName
  PROVE  \/ store' = store
         \/ \E u \in Updater, new \in RootDoc :
              /\ RootAccepts(trusted[u], new)
              /\ CachePut(u, {HistoryFile(new.version), PlainFile("root")}, new)
         \/ \E u \in Updater : \E files, doc :
              CachePut(u, files, doc) /\ \A f \in files : ~IsHistory(f)
<1>1. ASSUME NEW u \in Updater, RootUpdated(u)
      PROVE  \E new \in RootDoc :
               /\ RootAccepts(trusted[u], new)
               /\ CachePut(u, {HistoryFile(new.version), PlainFile("root")}, new)
  BY <1>1 DEF RootUpdated, Succeeds, RootAccepts
<1>2. ASSUME NEW u \in Updater, TimestampUpdated(u) \/ SnapshotUpdated(u) \/ TargetsUpdated(u)
      PROVE  \E files, doc : CachePut(u, files, doc) /\ \A f \in files : ~IsHistory(f)
  <2>1. CASE TimestampUpdated(u)
    <3>1. PICK doc : CachePut(u, {PlainFile("timestamp")}, doc)
      BY <2>1 DEF TimestampUpdated
    <3>2. ~IsHistory(PlainFile("timestamp"))
      BY DEF IsHistory, PlainFile
    <3>3. QED
      BY <3>1, <3>2
  <2>2. CASE SnapshotUpdated(u)
    <3>1. PICK doc : CachePut(u, {MetadataFile(trusted[u].root, "snapshot", doc.version),
                                  PlainFile("snapshot")}, doc)
      BY <2>2 DEF SnapshotUpdated
    <3>2. /\ ~IsHistory(MetadataFile(trusted[u].root, "snapshot", doc.version))
          /\ ~IsHistory(PlainFile("snapshot"))
      BY DEF IsHistory, PlainFile, MetadataFile
    <3>3. QED
      BY <3>1, <3>2
  <2>3. CASE TargetsUpdated(u)
    <3>1. PICK doc : CachePut(u, {PlainFile("targets")}, doc)
      BY <2>3 DEF TargetsUpdated
    <3>2. ~IsHistory(PlainFile("targets"))
      BY DEF IsHistory, PlainFile
    <3>3. QED
      BY <3>1, <3>2
  <2>4. QED
    BY <1>2, <2>1, <2>2, <2>3
<1>3. ASSUME NEW u \in Updater, NEW role \in DelegatedName, NEW delegator \in TargetsRole,
             LoadDelegated(u, role, delegator)
      PROVE  \E files, doc : CachePut(u, files, doc) /\ \A f \in files : ~IsHistory(f)
  <2>1. PICK doc : CachePut(u, {PlainFile(role)}, doc)
    BY <1>3 DEF LoadDelegated
  <2>2. ~IsHistory(PlainFile(role))
    BY DEF IsHistory, PlainFile
  <2>3. QED
    BY <2>1, <2>2
<1>4. ASSUME NEW u \in Updater, Crash(u) \/ Boot(u) \/ Refresh(u)
      PROVE  store' = store
  BY <1>4 DEF Crash, Boot, AdoptCachedRoot, BootDone, Refresh
<1>5. ASSUME NEW u \in Updater, Refreshing(u)
      PROVE  \/ store' = store \/ RootUpdated(u)
             \/ TimestampUpdated(u) \/ SnapshotUpdated(u) \/ TargetsUpdated(u)
  BY <1>5 DEF Refreshing, RootChainEnds, RootRejected, RotationsExceeded, SeedTimestamp,
     SeedSnapshot, SeedTargets, Seed, TimestampKept, TimestampRejected, SnapshotReused,
     SnapshotRejected, TargetsReused, TargetsRejected, Fail
<1>6. Tick => store' = store
  BY DEF Tick
<1> QED
  BY <1>1, <1>2, <1>3, <1>4, <1>5, <1>6 DEF Next

LEMMA WriteKeepsHistory ==
  ASSUME NEW L, Lineage(L), HistoryInv(L), NEW u \in Updater, NEW new \in RootDoc,
         RootAccepts(trusted[u], new),
         CachePut(u, {HistoryFile(new.version), PlainFile("root")}, new)
  PROVE  HistoryOf(store', L)
<1>1. /\ trusted[u].root \in L
      /\ RootAccepts(FromRoot(trusted[u].root), new)
  BY DEF HistoryInv, RootsOf, RootAccepts, FromRoot
<1>2. new \in L
  BY <1>1 DEF Lineage
<1>3. SUFFICES ASSUME NEW f \in DOMAIN store', IsHistory(f)
               PROVE  /\ store'[f] \in L /\ store'[f].version = f[2]
                      /\ \E r \in L : RootAccepts(FromRoot(r), store'[f])
  BY DEF HistoryOf
<1>4. \/ f \in DOMAIN store /\ store'[f] = store[f]
      \/ f \in {HistoryFile(new.version), PlainFile("root")} /\ store'[f] = new
  BY DEF CachePut, Write
<1>5. f # PlainFile("root")
  BY <1>3 DEF IsHistory, PlainFile
<1>6. f = HistoryFile(new.version) => f[2] = new.version
  BY DEF HistoryFile
<1> QED
  BY <1>1, <1>2, <1>3, <1>4, <1>5, <1>6 DEF HistoryInv, HistoryOf

LEMMA NextHistory ==
  ASSUME NEW L, Lineage(L), "root_history/N.root.json" \notin DelegatedName,
         HistoryInv(L), [Next]_vars
  PROVE  HistoryInv(L)'
<1>1. IInv'
  BY NextIInv DEF HistoryInv
<1>2. RootsOf(L)'
  <2>1. ASSUME NEW u \in Updater
        PROVE  trusted'[u].root \in L
    <3>1. trusted[u].root \in L /\ trusted[u] \in TrustedSet
      BY DEF HistoryInv, RootsOf, IInv, TypeOK
    <3>2. StepVerified(u)
      BY NextVerified DEF HistoryInv, vars, StepVerified
    <3>3. FromRoot(PinnedRoot).root \in L
      BY DEF FromRoot, Lineage
    <3>4. QED
      BY <3>1, <3>2, <3>3, OperationRoot DEF StepVerified, Lineage
  <2>2. QED
    BY <2>1 DEF RootsOf
<1>3. HistoryOf(store', L)
  <2>1. CASE store' = store
    BY <2>1 DEF HistoryInv, HistoryOf
  <2>2. ASSUME NEW u \in Updater, NEW files, NEW doc, CachePut(u, files, doc),
               \A f \in files : ~IsHistory(f)
        PROVE  HistoryOf(store', L)
    <3>1. \A f \in DOMAIN store' :
            IsHistory(f) => f \in DOMAIN store /\ store'[f] = store[f]
      BY <2>2 DEF CachePut, Write
    <3>2. QED
      BY <3>1 DEF HistoryInv, HistoryOf
  <2>3. UNCHANGED vars => store' = store
    BY DEF vars
  <2>4. QED
    BY <2>1, <2>2, <2>3, WhatIsWritten, WriteKeepsHistory
<1> QED
  BY <1>1, <1>2, <1>3 DEF HistoryInv

LEMMA HistoryIsChain ==
  ASSUME NEW L, Lineage(L), HistoryInv(L)
  PROVE  HistoryChains
<1>1. SUFFICES ASSUME NEW f \in DOMAIN store, NEW g \in DOMAIN store,
                      IsHistory(f), IsHistory(g), g[2] = f[2] + 1
               PROVE  RootAccepts(FromRoot(store[f]), store[g])
  BY DEF HistoryChains, IsHistory
<1>2. PICK r \in L : RootAccepts(FromRoot(r), store[g])
  BY <1>1 DEF HistoryInv, HistoryOf
<1>3. /\ store[f] \in L /\ store[f].version = f[2]
      /\ store[g] \in L /\ store[g].version = g[2]
  BY <1>1 DEF HistoryInv, HistoryOf
<1>4. r.version \in Nat /\ store[f].version \in Nat
  BY <1>3, DocumentAssumption DEF Lineage, Root
<1>5. store[g].version = r.version + 1
  BY <1>2 DEF RootAccepts, FromRoot
<1>6. r.version = store[f].version
  BY <1>1, <1>3, <1>4, <1>5
<1> QED
  BY <1>2, <1>3, <1>6 DEF Lineage

\* Whatever writes are lost and however many processes at different roots write
\* side by side, consecutive roots of the cached history accept one another
\* (client.rs refresh_root, with_store), if the publisher never signs two roots of
\* one version and no delegated role has the name of a history file: percent
\* encoding of role names sees to that (client.rs encode_role).
THEOREM HistoryChainsHolds ==
  ASSUME NEW L, Lineage(L), "root_history/N.root.json" \notin DelegatedName,
         \A s \in InitialStore : HistoryOf(s, L)
  PROVE  Spec => []HistoryChains
<1>1. Init => HistoryInv(L)
  BY InitIInv DEF Init, HistoryInv, RootsOf, FromRoot, Lineage
<1>2. HistoryInv(L) /\ [Next]_vars => HistoryInv(L)'
  BY NextHistory
<1>3. HistoryInv(L) => HistoryChains
  BY HistoryIsChain
<1> QED
  BY <1>1, <1>2, <1>3, PTL DEF Spec

-----------------------------------------------------------------------------
(* Version floors across runs.  A publisher is orderly if the keys of the    *)
(* roles that carry the versions, once replaced, do not come back, and what  *)
(* they sign later neither expires earlier nor pins lower versions.          *)

Orderly(keepers) ==
  /\ \A a, b \in TimestampDoc :
       VerifyThreshold(a, keepers[1]) /\ VerifyThreshold(b, keepers[1]) /\ a.version <= b.version
       => /\ a.expires <= b.expires
          /\ a.snap # NoPin /\ b.snap # NoPin => a.snap.version <= b.snap.version
  /\ \A a, b \in SnapshotDoc :
       VerifyThreshold(a, keepers[2]) /\ VerifyThreshold(b, keepers[2]) /\ a.version <= b.version
       => (a.meta["targets"] # NoPin /\ b.meta["targets"] # NoPin
             => a.meta["targets"].version <= b.meta["targets"].version)

KeepersChangeOnce(L) ==
  \A a, b, c \in L :
    a.version <= b.version /\ b.version <= c.version /\ FloorKeepers(a) = FloorKeepers(c)
    => FloorKeepers(b) = FloorKeepers(a)

OrderlyPublisher(L) ==
  Lineage(L) /\ KeepersChangeOnce(L) /\ \A r \in L : Orderly(FloorKeepers(r))

\* The timestamp that a client finds when it starts.
OnDisk == Load(store, PlainFile("timestamp"))

\* What is trusted is signed by the root's keys, and the timestamp is the one on disk.
Vouched(u) ==
  LET t == trusted[u]
  IN /\ t.timestamp # NoDoc =>
          VerifyWithRoot(t.timestamp, t.root, "timestamp") /\ OnDisk = t.timestamp
     /\ t.snapshot # NoDoc => VerifyWithRoot(t.snapshot, t.root, "snapshot")

\* The one on disk was not seeded only because it has expired.
Missed(u) ==
  /\ pc[u] \in {"seed snapshot", "seed targets", "timestamp"}
  /\ trusted[u].timestamp = NoDoc
  /\ TimestampVerified(trusted[u], OnDisk)
  => Expired(OnDisk, now[u])

\* c's versions are the least that its keepers can still lead to, from the timestamp on.
Covers(c) ==
  \A a \in TimestampDoc, b \in SnapshotDoc :
    /\ VerifyThreshold(a, c.keepers[1]) /\ VerifyThreshold(b, c.keepers[2])
    /\ c.timestamp <= a.version /\ a.snap # NoPin /\ b.version = a.snap.version
    /\ b.meta["targets"] # NoPin
    => c.targets <= b.meta["targets"].version

Floored(c) ==
  \/ c.timestamp = -1 /\ c.targets = -1
  \/ /\ OnDisk \in TimestampDoc /\ VerifyThreshold(OnDisk, c.keepers[1])
     /\ c.timestamp <= OnDisk.version
     /\ Covers(c)

\* The newest root that the client has, now or after a restart: the floors hold under
\* it, or its keepers are others and so are all to come.
Top(u, L, top) ==
  /\ \A v \in PinnedRoot.version + 1 .. top.version : HistoryFile(v) \in DOMAIN store
  /\ PinnedRoot.version <= trusted[u].root.version
  /\ trusted[u].root.version <= top.version
  /\ pc[u] # "boot" => trusted[u].root = top
  /\ \/ \A r \in L : top.version <= r.version => FloorKeepers(r) # completed[u].keepers
     \/ FloorKeepers(top) = completed[u].keepers /\ Floored(completed[u])

FloorInv(u, L) == Vouched(u) /\ Missed(u) /\ \E top \in L : Top(u, L, top)

-----------------------------------------------------------------------------
(* One client and its store: its name, and the files that must not be lost.   *)

OneClient(u) ==
  /\ Updater = {u} /\ u \in WithStore
  /\ {"timestamp", "root_history/N.root.json"} \cap MayBeLost = {}
  /\ "root_history/N.root.json" \notin DelegatedName

\* What is written is one document under the files that are not lost.
LEMMA CachePutWrites ==
  ASSUME NEW u, NEW files, NEW doc, CachePut(u, files, doc), u \in WithStore
  PROVE  /\ DOMAIN store \subseteq DOMAIN store'
         /\ \A f \in files : f[1] \notin MayBeLost => f \in DOMAIN store' /\ store'[f] = doc
         /\ \A f : f \notin files => Load(store', f) = Load(store, f)
<1>1. PICK lost \in SUBSET {f \in files : f[1] \in MayBeLost} :
        store' = Write(store, files \ lost, doc)
  BY DEF CachePut
<1>2. \A f : f \notin files => (f \in DOMAIN store' <=> f \in DOMAIN store)
  BY <1>1 DEF Write
<1> QED
  BY <1>1, <1>2 DEF Write, Load

\* The file of the timestamp is no other file.
LEMMA TimestampFile ==
  /\ \A v : HistoryFile(v) # PlainFile("timestamp")
  /\ \A r \in {"root", "snapshot", "targets"} : PlainFile(r) # PlainFile("timestamp")
  /\ \A root, v : MetadataFile(root, "snapshot", v) # PlainFile("timestamp")
  /\ \A role \in DelegatedName : PlainFile(role) # PlainFile("timestamp")
BY NameAssumption DEF HistoryFile, PlainFile, MetadataFile, TopLevelRole

\* Two roots of the lineage of one version are one.
LEMMA SameVersion ==
  ASSUME NEW L, Lineage(L), NEW r \in L, NEW s \in L, r.version <= s.version, s.version <= r.version
  PROVE  r = s
<1>1. r.version \in Nat /\ s.version \in Nat
  BY DocumentAssumption DEF Lineage, Root
<1> QED
  BY <1>1 DEF Lineage

\* A step that leaves the root, the timestamp and its file alone.
Calm(u) ==
  /\ trusted'[u].root = trusted[u].root /\ trusted'[u].timestamp = trusted[u].timestamp
  /\ trusted'[u].snapshot # NoDoc =>
       VerifyWithRoot(trusted'[u].snapshot, trusted[u].root, "snapshot")
  /\ DOMAIN store \subseteq DOMAIN store' /\ OnDisk' = OnDisk
  /\ completed' = completed
  /\ pc'[u] # "boot" => pc[u] # "boot"
  /\ pc'[u] \in {"seed snapshot", "seed targets", "timestamp"} =>
       pc[u] \in {"seed snapshot", "seed targets", "timestamp"} /\ now'[u] = now[u]

LEMMA CalmKeeps ==
  ASSUME NEW L, NEW u, FloorInv(u, L), Calm(u)
  PROVE  FloorInv(u, L)'
<1>1. Vouched(u)'
  BY DEF FloorInv, Vouched, Calm
<1>2. Missed(u)'
  BY DEF FloorInv, Missed, Calm, TimestampVerified
<1>3. PICK top \in L : Top(u, L, top)
  BY DEF FloorInv
<1>4. Floored(completed[u]) => Floored(completed[u])'
  BY DEF Floored, Calm, Covers
<1>5. Top(u, L, top)'
  BY <1>3, <1>4 DEF Top, Calm
<1> QED
  BY <1>1, <1>2, <1>5 DEF FloorInv

\* Most steps are calm.
LEMMA TickIsCalm ==
  ASSUME NEW L, NEW u, FloorInv(u, L), Tick
  PROVE  Calm(u)
BY DEF Tick, Calm, FloorInv, Vouched, OnDisk

LEMMA GotoIsCalm ==
  ASSUME IInv, NEW L, NEW u \in Updater, FloorInv(u, L), NEW stage \in Control, Goto(u, stage),
         UNCHANGED <<store, trusted, completed>>,
         stage # "boot" => pc[u] # "boot",
         stage \in {"seed snapshot", "seed targets", "timestamp"} =>
           pc[u] \in {"seed snapshot", "seed targets", "timestamp"} /\ now'[u] = now[u]
  PROVE  Calm(u)
<1>1. pc'[u] = stage
  BY GotoType DEF IInv
<1> QED
  BY <1>1 DEF Calm, FloorInv, Vouched, OnDisk

LEMMA FailIsCalm ==
  ASSUME IInv, NEW L, NEW u \in Updater, FloorInv(u, L), Fail(u), pc[u] # "boot"
  PROVE  Calm(u)
BY GotoIsCalm DEF Fail, Control

LEMMA RefreshIsCalm ==
  ASSUME IInv, NEW L, NEW u \in Updater, FloorInv(u, L), Refresh(u)
  PROVE  Calm(u)
BY GotoIsCalm DEF Refresh, Control, Stage

LEMMA RootEndsIsCalm ==
  ASSUME IInv, NEW L, NEW u \in Updater, OneClient(u), FloorInv(u, L),
         RootChainEnds(u) \/ RootRejected(u) \/ RotationsExceeded(u)
  PROVE  Calm(u)
<1>1. CASE RootChainEnds(u)
  <2>1. PICK stage \in {"failed", "seed timestamp"} : Goto(u, stage)
    BY <1>1 DEF RootChainEnds, OneClient
  <2> QED
    BY <1>1, <2>1, GotoIsCalm DEF RootChainEnds, Control, Stage
<1>2. CASE RootRejected(u) \/ RotationsExceeded(u)
  BY <1>2, FailIsCalm DEF RootRejected, RotationsExceeded
<1> QED
  BY <1>1, <1>2

LEMMA SeedIsCalm ==
  ASSUME IInv, NEW L, NEW u \in Updater, FloorInv(u, L), SeedSnapshot(u) \/ SeedTargets(u)
  PROVE  Calm(u)
<1>1. trusted[u] \in TrustedSet
  BY DEF IInv, TypeOK
<1>2. ASSUME NEW set \in TrustedSet, Adopt(u, set),
             set.root = trusted[u].root, set.timestamp = trusted[u].timestamp,
             set.snapshot # NoDoc => VerifyWithRoot(set.snapshot, set.root, "snapshot"),
             NEW stage \in {"seed targets", "timestamp"}, Goto(u, stage),
             pc[u] \in {"seed snapshot", "seed targets"},
             UNCHANGED <<store, now, completed>>
      PROVE  Calm(u)
  <2>1. trusted'[u] = set /\ pc'[u] = stage
    BY <1>2, AdoptType, GotoType DEF IInv, Control, Stage
  <2> QED
    BY <1>2, <2>1 DEF Calm, OnDisk
<1>3. trusted[u].snapshot # NoDoc =>
        VerifyWithRoot(trusted[u].snapshot, trusted[u].root, "snapshot")
  BY DEF FloorInv, Vouched
<1>4. CASE SeedSnapshot(u)
  <2> DEFINE new == Cached(u, PlainFile("snapshot"))
             accepted == SnapshotAccepts(trusted[u], new, now[u])
             set == IF accepted THEN AfterSnapshot(trusted[u], new) ELSE trusted[u]
  <2>1. /\ Adopt(u, set) /\ Goto(u, "seed targets") /\ pc[u] = "seed snapshot"
        /\ UNCHANGED <<store, now, completed>>
    BY <1>4 DEF SeedSnapshot, Seed
  <2>2. CASE accepted
    <3>1. new \in SnapshotDoc /\ VerifyWithRoot(new, trusted[u].root, "snapshot")
      BY <2>2 DEF SnapshotAccepts
    <3> HIDE DEF new
    <3>2. /\ set \in TrustedSet /\ set.root = trusted[u].root
          /\ set.timestamp = trusted[u].timestamp /\ set.snapshot = new
      BY <1>1, <2>2, <3>1, AfterSnapshotType
    <3> HIDE DEF set
    <3> QED
      BY <1>2, <2>1, <3>1, <3>2
  <2>3. CASE ~accepted
    <3>1. set = trusted[u]
      BY <2>3
    <3> HIDE DEF set
    <3> QED
      BY <1>1, <1>2, <1>3, <2>1, <3>1
  <2> QED
    BY <2>2, <2>3
<1>5. CASE SeedTargets(u)
  <2> DEFINE new == Cached(u, PlainFile("targets"))
             accepted == TargetsAccepts(trusted[u], new, now[u])
             set == IF accepted THEN AfterTargets(trusted[u], new, "targets") ELSE trusted[u]
  <2>1. /\ Adopt(u, set) /\ Goto(u, "timestamp") /\ pc[u] = "seed targets"
        /\ UNCHANGED <<store, now, completed>>
    BY <1>5 DEF SeedTargets, Seed
  <2>2. accepted => new \in TargetsDoc
    BY DEF TargetsAccepts, TargetsPinned
  <2>3. "targets" \in TargetsRole
    BY DEF TargetsRole
  <2> HIDE DEF new, accepted
  <2>4. /\ set \in TrustedSet /\ set.root = trusted[u].root
        /\ set.timestamp = trusted[u].timestamp /\ set.snapshot = trusted[u].snapshot
    BY <1>1, <2>2, <2>3, AfterTargetsType
  <2> HIDE DEF set
  <2> QED
    BY <1>2, <1>3, <2>1, <2>4
<1> QED
  BY <1>4, <1>5

LEMMA TimestampKeptIsCalm ==
  ASSUME IInv, NEW L, NEW u \in Updater, FloorInv(u, L),
         TimestampKept(u) \/ TimestampRejected(u)
  PROVE  Calm(u)
BY GotoIsCalm, FailIsCalm DEF TimestampKept, TimestampRejected, Control, Stage

LEMMA SnapshotIsCalm ==
  ASSUME IInv, NEW L, NEW u \in Updater, OneClient(u), FloorInv(u, L),
         SnapshotReused(u) \/ SnapshotUpdated(u) \/ SnapshotRejected(u)
  PROVE  Calm(u)
<1>1. CASE SnapshotReused(u) \/ SnapshotRejected(u)
  BY <1>1, GotoIsCalm, FailIsCalm DEF SnapshotReused, SnapshotRejected, Control, Stage
<1>2. CASE SnapshotUpdated(u)
  <2>1. PICK new \in SnapshotDoc :
          /\ SnapshotAccepts(trusted[u], new, now[u])
          /\ Adopt(u, AfterSnapshot(trusted[u], new))
          /\ CachePut(u, {MetadataFile(trusted[u].root, "snapshot", new.version),
                          PlainFile("snapshot")}, new)
    BY <1>2 DEF SnapshotUpdated, SnapshotAccepts
  <2> DEFINE after == AfterSnapshot(trusted[u], new)
             files == {MetadataFile(trusted[u].root, "snapshot", new.version),
                       PlainFile("snapshot")}
  <2>2. /\ after \in TrustedSet /\ after.root = trusted[u].root
        /\ after.timestamp = trusted[u].timestamp /\ after.snapshot = new
    BY AfterSnapshotType DEF IInv, TypeOK
  <2> HIDE DEF after
  <2>3. trusted'[u] = after /\ pc'[u] = "targets"
    BY <1>2, <2>1, <2>2, AdoptType, GotoType
       DEF IInv, SnapshotUpdated, Control, Stage, after
  <2>4. PlainFile("timestamp") \notin files
    BY TimestampFile
  <2>5. CachePut(u, files, new)
    BY <2>1
  <2> HIDE DEF files
  <2>6. DOMAIN store \subseteq DOMAIN store' /\ OnDisk' = OnDisk
    BY <2>4, <2>5, CachePutWrites DEF OneClient, OnDisk
  <2>7. VerifyWithRoot(new, trusted[u].root, "snapshot")
    BY <2>1 DEF SnapshotAccepts
  <2>8. completed' = completed /\ pc[u] # "boot"
    BY <1>2 DEF SnapshotUpdated
  <2> QED
    BY <2>2, <2>3, <2>6, <2>7, <2>8 DEF Calm
<1> QED
  BY <1>1, <1>2

LEMMA LoadDelegatedIsCalm ==
  ASSUME IInv, NEW L, NEW u \in Updater, OneClient(u), FloorInv(u, L),
         NEW role \in DelegatedName, NEW delegator \in TargetsRole,
         LoadDelegated(u, role, delegator)
  PROVE  Calm(u)
<1>1. PICK new \in TargetsDoc :
        /\ Adopt(u, AfterTargets(trusted[u], new, role))
        /\ CachePut(u, {PlainFile(role)}, new)
  BY DEF LoadDelegated, DelegatedAccepts, TargetsPinned
<1> DEFINE after == AfterTargets(trusted[u], new, role)
<1>2. /\ after \in TrustedSet /\ after.root = trusted[u].root
      /\ after.timestamp = trusted[u].timestamp /\ after.snapshot = trusted[u].snapshot
  BY AfterTargetsType DEF IInv, TypeOK, TargetsRole
<1> HIDE DEF after
<1>3. trusted'[u] = after
  BY <1>1, <1>2, AdoptType DEF IInv, after
<1>4. DOMAIN store \subseteq DOMAIN store' /\ OnDisk' = OnDisk
  <2>1. PlainFile("timestamp") \notin {PlainFile(role)}
    BY TimestampFile
  <2> QED
    BY <1>1, <2>1, CachePutWrites DEF OneClient, OnDisk
<1>5. completed' = completed /\ pc' = pc /\ now' = now
  BY DEF LoadDelegated
<1> QED
  BY <1>2, <1>3, <1>4, <1>5 DEF Calm, FloorInv, Vouched

\* The next root is adopted: it is the newest, and the floors go on or are given up.
LEMMA TopMoves ==
  ASSUME NEW L, OrderlyPublisher(L), HistoryInv(L), NEW u \in Updater,
         NEW top \in L, NEW new \in L, Top(u, L, top),
         new.version = top.version + 1, trusted'[u].root = new,
         HistoryFile(new.version) \in DOMAIN store', DOMAIN store \subseteq DOMAIN store',
         OnDisk' = OnDisk, completed' = completed
  PROVE  Top(u, L, new)'
<1>0. trusted[u].root.version \in Nat
  BY DocumentAssumption DEF HistoryInv, RootsOf, OrderlyPublisher, Lineage, Root
<1>1. new.version \in Nat /\ top.version \in Nat /\ PinnedRoot.version \in Nat
  BY UpdaterAssumption, DocumentAssumption DEF OrderlyPublisher, Lineage, Root
<1>2. \A v \in PinnedRoot.version + 1 .. new.version : HistoryFile(v) \in DOMAIN store'
  BY <1>1 DEF Top
<1>3. PinnedRoot.version <= new.version /\ trusted[u].root.version <= top.version
  <2>1. trusted[u].root.version <= top.version /\ PinnedRoot.version <= trusted[u].root.version
    BY DEF Top
  <2> QED
    BY <1>0, <1>1, <2>1
<1>4. \/ \A r \in L : new.version <= r.version => FloorKeepers(r) # completed[u].keepers
      \/ FloorKeepers(new) = completed[u].keepers /\ Floored(completed[u])'
  <2>1. \A r \in L : r.version \in Nat
    BY DocumentAssumption DEF OrderlyPublisher, Lineage, Root
  <2>2. Floored(completed[u]) => Floored(completed[u])'
    BY DEF Floored, Covers
  <2>3. CASE \A r \in L : top.version <= r.version => FloorKeepers(r) # completed[u].keepers
    BY <1>1, <2>1, <2>3
  <2>4. CASE FloorKeepers(top) = completed[u].keepers /\ Floored(completed[u])
    <3>1. CASE FloorKeepers(new) = completed[u].keepers
      BY <2>2, <2>4, <3>1
    <3>2. CASE FloorKeepers(new) # completed[u].keepers
      <4> SUFFICES ASSUME NEW r \in L, new.version <= r.version,
                          FloorKeepers(r) = completed[u].keepers
                   PROVE  FALSE
        OBVIOUS
      <4>1. top.version <= new.version
        BY <1>1
      <4> QED
        BY <2>4, <3>2, <4>1 DEF OrderlyPublisher, KeepersChangeOnce
    <3> QED
      BY <3>1, <3>2
  <2> QED
    BY <2>3, <2>4 DEF Top
<1> QED
  BY <1>1, <1>2, <1>3, <1>4 DEF Top

\* Nothing but the root is trusted after a step to another root.
LEMMA RootAlone ==
  ASSUME NEW u, NEW root, trusted'[u] = FromRoot(root), pc'[u] \in {"boot", "root"}
  PROVE  Vouched(u)' /\ Missed(u)'
<1>1. trusted'[u].timestamp = NoDoc /\ trusted'[u].snapshot = NoDoc
  BY DEF FromRoot
<1>2. Vouched(u)'
  BY <1>1, Zenon DEF Vouched
<1>3. Missed(u)'
  BY DEF Missed
<1> QED
  BY <1>2, <1>3

LEMMA CrashKeepsFloor ==
  ASSUME IInv, NEW L, OrderlyPublisher(L), NEW u \in Updater, FloorInv(u, L), Crash(u)
  PROVE  FloorInv(u, L)'
<1>1. trusted'[u] = FromRoot(PinnedRoot) /\ pc'[u] = "boot"
  BY UpdaterAssumption, FromRootType, AdoptType, GotoType DEF IInv, Crash, Control
<1>2. store' = store /\ completed' = completed
  BY DEF Crash
<1>3. PICK top \in L : Top(u, L, top)
  BY DEF FloorInv
<1>4. trusted'[u].root = PinnedRoot
  BY <1>1 DEF FromRoot
<1>5. Floored(completed[u]) => Floored(completed[u])'
  BY <1>2 DEF Floored, Covers, OnDisk
<1>6. PinnedRoot.version <= PinnedRoot.version /\ PinnedRoot.version <= top.version
  <2>1. PinnedRoot.version \in Nat /\ top.version \in Nat /\ trusted[u].root.version \in Nat
    BY UpdaterAssumption, DocumentAssumption
       DEF OrderlyPublisher, Lineage, Root, IInv, TypeOK, TrustedSet
  <2> QED
    BY <1>3, <2>1 DEF Top
<1>7. Top(u, L, top)'
  BY <1>1, <1>2, <1>3, <1>4, <1>5, <1>6 DEF Top
<1> QED
  BY <1>1, <1>7, RootAlone DEF FloorInv

\* The cached roots lead to the newest one.
LEMMA SuccessorIsCached ==
  ASSUME NEW L, OrderlyPublisher(L), HistoryInv(L), NEW u \in Updater, OneClient(u),
         NEW top \in L, Top(u, L, top), trusted[u].root.version < top.version
  PROVE  Succeeds(u, CachedSuccessor(u))
<1> DEFINE root == trusted[u].root
           f == HistoryFile(root.version + 1)
<1>1. root \in L
  BY DEF HistoryInv, RootsOf
<1>2. root.version \in Nat /\ top.version \in Nat /\ PinnedRoot.version \in Nat
  BY <1>1, UpdaterAssumption, DocumentAssumption DEF OrderlyPublisher, Lineage, Root
<1>3. f \in DOMAIN store
  BY <1>2 DEF Top
<1>4. IsHistory(f) /\ f[2] = root.version + 1
  BY DEF IsHistory, HistoryFile
<1> HIDE DEF f
<1>5. store[f] \in L /\ store[f].version = root.version + 1
      /\ \E r \in L : RootAccepts(FromRoot(r), store[f])
  BY <1>3, <1>4 DEF HistoryInv, HistoryOf
<1>6. PICK r \in L : RootAccepts(FromRoot(r), store[f])
  BY <1>5
<1>7. r.version + 1 = root.version + 1 /\ r.version \in Nat
  BY <1>5, <1>6, DocumentAssumption DEF RootAccepts, FromRoot, OrderlyPublisher, Lineage, Root
<1>8. r = root
  BY <1>1, <1>2, <1>7 DEF OrderlyPublisher, Lineage
<1>9. CachedSuccessor(u) = store[f]
  BY <1>3 DEF CachedSuccessor, Cached, Load, OneClient, f
<1> QED
  BY <1>6, <1>8, <1>9 DEF Succeeds, RootAccepts, FromRoot

LEMMA AdoptCachedRootKeepsFloor ==
  ASSUME NEW L, OrderlyPublisher(L), HistoryInv(L), NEW u \in Updater, OneClient(u),
         FloorInv(u, L), AdoptCachedRoot(u)
  PROVE  FloorInv(u, L)'
<1> DEFINE root == trusted[u].root
<1>1. PICK new \in RootDoc :
        new = CachedSuccessor(u) /\ RootAccepts(trusted[u], new) /\ Adopt(u, FromRoot(new))
  BY DEF AdoptCachedRoot, Succeeds, RootAccepts, AfterRoot
<1>2. trusted'[u] = FromRoot(new) /\ trusted'[u].root = new
  BY <1>1, FromRootType, AdoptType DEF HistoryInv, IInv
<1>3. pc'[u] = "boot" /\ pc[u] = "boot" /\ store' = store /\ completed' = completed
  BY DEF AdoptCachedRoot
<1>4. root \in L /\ new \in L /\ new.version = root.version + 1
  BY <1>1 DEF HistoryInv, RootsOf, OrderlyPublisher, Lineage, RootAccepts, FromRoot
<1>5. HistoryFile(new.version) \in DOMAIN store
  <2>1. NoDoc \notin RootDoc
    BY NameAssumption
  <2> QED
    BY <1>1, <1>4, <2>1 DEF CachedSuccessor, Cached, Load, OneClient
<1>6. PICK top \in L : Top(u, L, top)
  BY DEF FloorInv
<1>7. /\ root.version \in Nat /\ top.version \in Nat /\ new.version \in Nat
      /\ PinnedRoot.version \in Nat
  BY <1>4, UpdaterAssumption, DocumentAssumption DEF OrderlyPublisher, Lineage, Root
<1>8. OnDisk' = OnDisk
  BY <1>3 DEF OnDisk
<1>9. \E newest \in L : Top(u, L, newest)'
  <2>1. CASE root.version < top.version
    <3>1. Floored(completed[u]) => Floored(completed[u])'
      BY <1>3, <1>8 DEF Floored, Covers
    <3>2. PinnedRoot.version <= new.version /\ new.version <= top.version
      BY <1>4, <1>6, <1>7, <2>1 DEF Top
    <3>3. Top(u, L, top)'
      BY <1>2, <1>3, <1>6, <3>1, <3>2 DEF Top
    <3> QED
      BY <3>3
  <2>2. CASE root.version = top.version
    <3>1. new.version = top.version + 1
      BY <1>4, <2>2
    <3>2. Top(u, L, new)'
      BY <1>2, <1>3, <1>4, <1>5, <1>6, <1>8, <3>1, TopMoves
    <3> QED
      BY <1>4, <3>2
  <2> QED
    BY <1>6, <1>7, <2>1, <2>2 DEF Top
<1> QED
  BY <1>2, <1>3, <1>9, RootAlone DEF FloorInv

LEMMA BootDoneKeepsFloor ==
  ASSUME NEW L, OrderlyPublisher(L), HistoryInv(L), NEW u \in Updater, OneClient(u),
         FloorInv(u, L), BootDone(u)
  PROVE  FloorInv(u, L)'
<1>1. pc'[u] = "idle" /\ UNCHANGED <<store, trusted, completed>>
  BY GotoType DEF HistoryInv, IInv, BootDone, Control
<1>2. PICK top \in L : Top(u, L, top)
  BY DEF FloorInv
<1>3. ~(trusted[u].root.version < top.version)
  BY <1>2, SuccessorIsCached DEF BootDone
<1>4. trusted[u].root \in L /\ trusted[u].root.version \in Nat /\ top.version \in Nat
  BY DocumentAssumption DEF HistoryInv, RootsOf, OrderlyPublisher, Lineage, Root
<1>5. trusted[u].root = top
  BY <1>2, <1>3, <1>4, SameVersion DEF Top, OrderlyPublisher
<1>6. Floored(completed[u]) => Floored(completed[u])'
  BY <1>1 DEF Floored, Covers, OnDisk
<1>7. Top(u, L, top)'
  BY <1>1, <1>2, <1>5, <1>6 DEF Top
<1>8. Vouched(u)' /\ Missed(u)'
  BY <1>1 DEF FloorInv, Vouched, Missed, OnDisk
<1> QED
  BY <1>7, <1>8 DEF FloorInv

LEMMA RootUpdatedKeepsFloor ==
  ASSUME NEW L, OrderlyPublisher(L), HistoryInv(L), NEW u \in Updater, OneClient(u),
         FloorInv(u, L), RootUpdated(u)
  PROVE  FloorInv(u, L)'
<1>1. PICK new \in RootDoc :
        /\ RootAccepts(trusted[u], new) /\ Adopt(u, FromRoot(new))
        /\ CachePut(u, {HistoryFile(new.version), PlainFile("root")}, new)
  BY DEF RootUpdated, Succeeds, RootAccepts, AfterRoot
<1>2. trusted'[u] = FromRoot(new) /\ trusted'[u].root = new
  BY <1>1, FromRootType, AdoptType DEF HistoryInv, IInv
<1>3. pc[u] = "root" /\ pc'[u] = "root" /\ completed' = completed
  BY DEF RootUpdated
<1> DEFINE root == trusted[u].root
           files == {HistoryFile(new.version), PlainFile("root")}
<1>4. root \in L /\ new \in L /\ new.version = root.version + 1
  BY <1>1 DEF HistoryInv, RootsOf, OrderlyPublisher, Lineage, RootAccepts, FromRoot
<1>5. /\ HistoryFile(new.version) \in files /\ HistoryFile(new.version)[1] \notin MayBeLost
      /\ PlainFile("timestamp") \notin files /\ CachePut(u, files, new)
  BY <1>1, TimestampFile DEF OneClient, HistoryFile
<1> HIDE DEF files
<1>6. /\ DOMAIN store \subseteq DOMAIN store' /\ HistoryFile(new.version) \in DOMAIN store'
      /\ OnDisk' = OnDisk
  BY <1>5, CachePutWrites DEF OneClient, OnDisk
<1>7. PICK top \in L : Top(u, L, top)
  BY DEF FloorInv
<1>8. root = top
  BY <1>3, <1>7 DEF Top
<1>9. Top(u, L, new)'
  BY <1>2, <1>3, <1>4, <1>6, <1>7, <1>8, TopMoves
<1> QED
  BY <1>2, <1>3, <1>4, <1>9, RootAlone DEF FloorInv

\* A trusted timestamp, or one that was just adopted and saved, bounds what comes next.
LEMMA SeedTimestampKeepsFloor ==
  ASSUME NEW L, HistoryInv(L), NEW u \in Updater, OneClient(u), FloorInv(u, L),
         SeedTimestamp(u)
  PROVE  FloorInv(u, L)'
<1> DEFINE accepted == TimestampAccepts(trusted[u], OnDisk, now[u])
           set == IF accepted THEN AfterTimestamp(trusted[u], OnDisk) ELSE trusted[u]
<1>1. /\ Adopt(u, set) /\ Goto(u, "seed snapshot") /\ pc[u] = "seed timestamp"
      /\ UNCHANGED <<store, now, completed>>
  BY DEF SeedTimestamp, Seed, Cached, OnDisk, OneClient
<1>2. trusted[u] \in TrustedSet
  BY DEF HistoryInv, IInv, TypeOK
<1>3. /\ set \in TrustedSet /\ set.root = trusted[u].root
      /\ set.snapshot = trusted[u].snapshot
      /\ set.timestamp = IF accepted THEN OnDisk ELSE trusted[u].timestamp
      /\ accepted => OnDisk \in TimestampDoc /\ VerifyWithRoot(OnDisk, trusted[u].root, "timestamp")
  BY <1>2 DEF TrustedSet, AfterTimestamp, TimestampAccepts, TimestampVerified
<1>4. accepted \/ trusted[u].timestamp # NoDoc \/ ~TimestampVerified(trusted[u], OnDisk)
      \/ Expired(OnDisk, now[u])
  BY DEF TimestampAccepts
<1> HIDE DEF accepted, set
<1>5. trusted'[u] = set /\ pc'[u] = "seed snapshot"
  BY <1>1, <1>3, AdoptType, GotoType DEF HistoryInv, IInv, Control, Stage
<1>6. OnDisk' = OnDisk
  BY <1>1 DEF OnDisk
<1>7. Vouched(u)'
  BY <1>3, <1>5, <1>6 DEF FloorInv, Vouched
<1>8. Missed(u)'
  <2>1. accepted => OnDisk # NoDoc
    BY <1>3, NameAssumption
  <2> QED
    BY <1>1, <1>3, <1>4, <1>5, <1>6, <2>1 DEF Missed, TimestampVerified
<1>9. PICK top \in L : Top(u, L, top)
  BY DEF FloorInv
<1>10. Floored(completed[u]) => Floored(completed[u])'
  BY <1>1, <1>6 DEF Floored, Covers
<1>11. Top(u, L, top)'
  BY <1>1, <1>3, <1>5, <1>9, <1>10 DEF Top
<1> QED
  BY <1>7, <1>8, <1>11 DEF FloorInv

\* A new timestamp is of a later version than the one on disk, which is trusted or has
\* expired.
LEMMA TimestampUpdatedKeepsFloor ==
  ASSUME NEW L, OrderlyPublisher(L), HistoryInv(L), NEW u \in Updater, OneClient(u),
         FloorInv(u, L), TimestampUpdated(u)
  PROVE  FloorInv(u, L)'
<1>1. PICK new \in TimestampDoc :
        /\ TimestampAccepts(trusted[u], new, now[u])
        /\ Adopt(u, AfterTimestamp(trusted[u], new))
        /\ CachePut(u, {PlainFile("timestamp")}, new)
  BY DEF TimestampUpdated, TimestampAccepts, TimestampVerified
<1> DEFINE after == AfterTimestamp(trusted[u], new)
<1>2. /\ after \in TrustedSet /\ after.root = trusted[u].root /\ after.timestamp = new
      /\ after.snapshot = trusted[u].snapshot
  BY DEF HistoryInv, IInv, TypeOK, AfterTimestamp, TrustedSet
<1> HIDE DEF after
<1>3. trusted'[u] = after /\ pc'[u] = "snapshot"
  BY <1>1, <1>2, AdoptType, GotoType DEF HistoryInv, IInv, TimestampUpdated, Control, Stage, after
<1>4. pc[u] = "timestamp" /\ completed' = completed
  BY DEF TimestampUpdated
<1>5. DOMAIN store \subseteq DOMAIN store' /\ OnDisk' = new
  <2> DEFINE f == PlainFile("timestamp")
  <2>1. f \in {f} /\ f[1] \notin MayBeLost
    BY DEF OneClient, PlainFile
  <2>2. CachePut(u, {f}, new) /\ u \in WithStore
    BY <1>1 DEF OneClient
  <2> HIDE DEF f
  <2>3. f \in DOMAIN store' /\ store'[f] = new /\ DOMAIN store \subseteq DOMAIN store'
    BY <2>1, <2>2, CachePutWrites
  <2> QED
    BY <2>3 DEF OnDisk, Load, f
<1>6. /\ VerifyWithRoot(new, trusted[u].root, "timestamp") /\ ~Expired(new, now[u])
      /\ trusted[u].timestamp # NoDoc => trusted[u].timestamp.version < new.version
  <2>1. trusted[u].timestamp # NoDoc => new.version > trusted[u].timestamp.version
    BY <1>1 DEF TimestampAccepts
  <2>2. trusted[u].timestamp # NoDoc =>
          trusted[u].timestamp.version \in Nat /\ new.version \in Nat
    BY DocumentAssumption DEF HistoryInv, IInv, TypeOK, TrustedSet, Timestamp
  <2> QED
    BY <1>1, <2>1, <2>2 DEF TimestampAccepts, TimestampVerified
<1>7. Vouched(u)' /\ Missed(u)'
  BY <1>2, <1>3, <1>5, <1>6 DEF FloorInv, Vouched, Missed
<1>8. PICK top \in L : Top(u, L, top)
  BY DEF FloorInv
<1>9. trusted[u].root = top
  BY <1>4, <1>8 DEF Top
<1> DEFINE c == completed[u]
<1>10. ASSUME FloorKeepers(top) = c.keepers, Floored(c)
       PROVE  Floored(c)'
  <2>1. CASE c.timestamp = -1 /\ c.targets = -1
    BY <1>4, <2>1 DEF Floored
  <2>2. CASE /\ OnDisk \in TimestampDoc /\ VerifyThreshold(OnDisk, c.keepers[1])
             /\ c.timestamp <= OnDisk.version /\ Covers(c)
    <3>1. VerifyThreshold(new, c.keepers[1]) /\ c.keepers[1] = top.roles["timestamp"]
      BY <1>6, <1>9, <1>10 DEF VerifyWithRoot, FloorKeepers
    <3>2. /\ OnDisk.version \in Nat /\ new.version \in Nat
          /\ OnDisk.expires \in Int /\ new.expires \in Int /\ now[u] \in Int
      BY <2>2, DocumentAssumption DEF Timestamp, HistoryInv, IInv, TypeOK, Time
    <3>3. OnDisk.version <= new.version
      <4>1. CASE trusted[u].timestamp # NoDoc
        BY <1>6, <3>2, <4>1 DEF FloorInv, Vouched
      <4>2. CASE trusted[u].timestamp = NoDoc
        <5>1. TimestampVerified(trusted[u], OnDisk)
          BY <1>9, <2>2, <3>1 DEF TimestampVerified, VerifyWithRoot
        <5>2. Expired(OnDisk, now[u])
          BY <1>4, <4>2, <5>1 DEF FloorInv, Missed
        <5>3. ~(new.expires <= OnDisk.expires)
          BY <1>6, <3>2, <5>2 DEF Expired
        <5>4. Orderly(c.keepers)
          BY <1>10 DEF OrderlyPublisher
        <5>5. ~(new.version <= OnDisk.version)
          BY <2>2, <3>1, <5>3, <5>4 DEF Orderly
        <5> QED
          BY <3>2, <5>5
      <4> QED
        BY <4>1, <4>2
    <3>4. c.timestamp <= new.version
      <4>1. c.timestamp \in Int
        BY DEF HistoryInv, IInv, TypeOK
      <4> QED
        BY <2>2, <3>2, <3>3, <4>1
    <3>5. Covers(c)' <=> Covers(c)
      BY <1>4 DEF Covers
    <3> HIDE DEF c
    <3>6. c' = c
      BY <1>4 DEF c
    <3> QED
      BY <1>5, <2>2, <3>1, <3>4, <3>5, <3>6 DEF Floored
  <2> QED
    BY <1>10, <2>1, <2>2 DEF Floored
<1>11. Top(u, L, top)'
  BY <1>2, <1>3, <1>4, <1>5, <1>8, <1>9, <1>10 DEF Top
<1> QED
  BY <1>7, <1>11 DEF FloorInv

-----------------------------------------------------------------------------
(* A refresh completes: what it holds is above the floors, and the next one. *)

NotBelow(u) ==
  completed'[u].keepers = completed[u].keepers =>
    /\ completed'[u].timestamp >= completed[u].timestamp
    /\ completed'[u].targets >= completed[u].targets

LEMMA CompletionLeaves ==
  ASSUME IInv, NEW u \in Updater, OneClient(u), TargetsReused(u) \/ TargetsUpdated(u)
  PROVE  /\ trusted'[u].root = trusted[u].root /\ trusted'[u].timestamp = trusted[u].timestamp
         /\ trusted'[u].snapshot = trusted[u].snapshot
         /\ DOMAIN store \subseteq DOMAIN store' /\ OnDisk' = OnDisk
         /\ pc[u] = "targets" /\ pc'[u] = "ok"
         /\ completed'[u] = [keepers |-> FloorKeepers(trusted'[u].root),
                             timestamp |-> trusted'[u].timestamp.version,
                             targets |-> trusted'[u].targets["targets"].version]
<1>1. /\ pc[u] = "targets" /\ pc'[u] = "ok"
      /\ completed'[u] = [keepers |-> FloorKeepers(trusted'[u].root),
                          timestamp |-> trusted'[u].timestamp.version,
                          targets |-> trusted'[u].targets["targets"].version]
  BY GotoType DEF TargetsReused, TargetsUpdated, Complete, Control, IInv, TypeOK
<1>2. CASE TargetsReused(u)
  BY <1>1, <1>2 DEF TargetsReused, OnDisk
<1>3. CASE TargetsUpdated(u)
  <2> DEFINE files == {PlainFile("targets")}
  <2>1. PICK new \in TargetsDoc :
          Adopt(u, AfterTargets(trusted[u], new, "targets")) /\ CachePut(u, files, new)
    BY <1>3 DEF TargetsUpdated, TargetsAccepts, TargetsPinned
  <2>2. trusted[u] \in TrustedSet /\ "targets" \in TargetsRole
    BY DEF IInv, TypeOK, TargetsRole
  <2>3. trusted'[u] = AfterTargets(trusted[u], new, "targets")
    BY <2>1, <2>2, AfterTargetsType, AdoptType DEF IInv
  <2>4. PlainFile("timestamp") \notin files
    BY TimestampFile
  <2> HIDE DEF files
  <2>5. DOMAIN store \subseteq DOMAIN store' /\ OnDisk' = OnDisk
    BY <2>1, <2>4, CachePutWrites DEF OneClient, OnDisk
  <2> QED
    BY <1>1, <2>2, <2>3, <2>5, AfterTargetsType
<1> QED
  BY <1>2, <1>3

LEMMA CompletionKeepsFloor ==
  ASSUME NEW L, OrderlyPublisher(L), HistoryInv(L), IInv', NEW u \in Updater, OneClient(u),
         FloorInv(u, L), TargetsReused(u) \/ TargetsUpdated(u)
  PROVE  NotBelow(u) /\ FloorInv(u, L)'
<1>1. PICK top \in L : Top(u, L, top)
  BY DEF FloorInv
<1>2. PICK T, S, G, c, d :
        /\ T = trusted'[u].timestamp /\ S = trusted'[u].snapshot
        /\ G = trusted'[u].targets["targets"] /\ c = completed[u] /\ d = completed'[u]
  OBVIOUS
<1>3. /\ trusted[u].root = top /\ trusted'[u].root = top
      /\ trusted[u].timestamp = T /\ trusted[u].snapshot = S /\ OnDisk' = OnDisk
      /\ DOMAIN store \subseteq DOMAIN store' /\ pc'[u] = "ok"
      /\ d = [keepers |-> FloorKeepers(top), timestamp |-> T.version, targets |-> G.version]
  BY <1>1, <1>2, CompletionLeaves DEF HistoryInv, Top
<1>4. /\ T # NoDoc /\ T.snap # NoPin /\ S # NoDoc /\ S.version = T.snap.version
      /\ S.meta["targets"] # NoPin /\ G # NoDoc /\ G.version = S.meta["targets"].version
  BY <1>2, <1>3 DEF IInv, AllReached, Reached
<1>5. T \in TimestampDoc /\ S \in SnapshotDoc /\ G \in TargetsDoc
  <2>1. trusted'[u] \in TrustedSet /\ "targets" \in TargetsRole
    BY DEF IInv, TypeOK, TargetsRole
  <2> QED
    BY <1>2, <1>4, <2>1 DEF TrustedSet
<1>6. /\ OnDisk = T /\ VerifyWithRoot(T, top, "timestamp")
      /\ VerifyWithRoot(S, top, "snapshot")
  BY <1>3, <1>4 DEF FloorInv, Vouched
<1>7. /\ VerifyThreshold(T, d.keepers[1]) /\ VerifyThreshold(S, d.keepers[2])
      /\ d.keepers = FloorKeepers(top)
  BY <1>3, <1>6 DEF VerifyWithRoot, FloorKeepers
<1>8. /\ T.version \in Nat /\ G.version \in Nat
      /\ c.timestamp \in Int /\ c.targets \in Int
  BY <1>2, <1>5, DocumentAssumption DEF Timestamp, Targets, HistoryInv, IInv, TypeOK
<1>9. NotBelow(u)
  <2> SUFFICES ASSUME d.keepers = c.keepers
               PROVE  d.timestamp >= c.timestamp /\ d.targets >= c.targets
    BY <1>2 DEF NotBelow
  <2>1. Floored(c)
    <3>1. top.version <= top.version
      BY DocumentAssumption DEF OrderlyPublisher, Lineage, Root
    <3> QED
      BY <1>1, <1>2, <1>7, <3>1 DEF Top
  <2>2. CASE c.timestamp = -1 /\ c.targets = -1
    BY <1>3, <1>8, <2>2
  <2>3. CASE c.timestamp <= OnDisk.version /\ Covers(c)
    <3>1. c.targets <= S.meta["targets"].version
      BY <1>4, <1>5, <1>6, <1>7, <2>3 DEF Covers
    <3>2. c.timestamp <= T.version /\ c.targets <= G.version
      BY <1>4, <1>6, <2>3, <3>1
    <3> QED
      BY <1>3, <1>8, <3>2
  <2> QED
    BY <2>1, <2>2, <2>3 DEF Floored
<1>10. Covers(d)
  <2> SUFFICES ASSUME NEW a \in TimestampDoc, NEW b \in SnapshotDoc,
                      VerifyThreshold(a, d.keepers[1]), VerifyThreshold(b, d.keepers[2]),
                      d.timestamp <= a.version, a.snap # NoPin, b.version = a.snap.version,
                      b.meta["targets"] # NoPin
               PROVE  d.targets <= b.meta["targets"].version
    BY DEF Covers
  <2>1. Orderly(d.keepers)
    BY <1>7 DEF OrderlyPublisher
  <2>2. T.version <= a.version
    BY <1>3
  <2>3. T.snap.version <= a.snap.version
    BY <1>4, <1>5, <1>7, <2>1, <2>2 DEF Orderly
  <2>4. S.version <= b.version
    BY <1>4, <2>3
  <2>5. S.meta["targets"].version <= b.meta["targets"].version
    BY <1>4, <1>5, <1>7, <2>1, <2>4 DEF Orderly
  <2> QED
    BY <1>3, <1>4, <2>5
<1>11. Floored(completed[u])'
  <2>1. d.timestamp <= T.version
    BY <1>3, <1>8
  <2>2. Covers(completed[u])'
    BY <1>2, <1>10 DEF Covers
  <2> QED
    BY <1>2, <1>3, <1>5, <1>6, <1>7, <2>1, <2>2 DEF Floored
<1>12. Top(u, L, top)'
  BY <1>1, <1>2, <1>3, <1>7, <1>11 DEF Top
<1>13. Vouched(u)' /\ Missed(u)'
  BY <1>2, <1>3, <1>6 DEF Vouched, Missed
<1> QED
  BY <1>9, <1>12, <1>13 DEF FloorInv

-----------------------------------------------------------------------------
\* A new client, whatever its store holds, has completed nothing.
LEMMA InitFloor ==
  ASSUME NEW L, OrderlyPublisher(L), NEW u \in Updater, Init
  PROVE  FloorInv(u, L)
<1>1. trusted[u] = FromRoot(PinnedRoot) /\ pc[u] = "boot" /\ completed[u] = NothingCompleted
  BY DEF Init
<1>2. Floored(completed[u]) /\ FloorKeepers(PinnedRoot) = completed[u].keepers
  BY <1>1 DEF Floored, NothingCompleted
<1>3. PinnedRoot \in L /\ PinnedRoot.version \in Nat
  BY UpdaterAssumption, DocumentAssumption DEF OrderlyPublisher, Lineage, Root
<1>4. Top(u, L, PinnedRoot)
  BY <1>1, <1>2, <1>3 DEF Top, FromRoot
<1>5. Vouched(u) /\ Missed(u)
  BY <1>1 DEF Vouched, Missed, FromRoot
<1> QED
  BY <1>3, <1>4, <1>5 DEF FloorInv

LEMMA RefreshingKeepsFloor ==
  ASSUME NEW L, OrderlyPublisher(L), HistoryInv(L), IInv', NEW u \in Updater, OneClient(u),
         FloorInv(u, L), Refreshing(u)
  PROVE  NotBelow(u) /\ FloorInv(u, L)'
<1>1. IInv /\ completed[u].timestamp \in Int /\ completed[u].targets \in Int
  BY DEF HistoryInv, IInv, TypeOK
<1>2. completed' = completed => NotBelow(u)
  BY <1>1 DEF NotBelow
<1>3. CASE RootUpdated(u) \/ SeedTimestamp(u) \/ TimestampUpdated(u)
  <2>1. completed' = completed
    BY <1>3 DEF RootUpdated, SeedTimestamp, Seed, TimestampUpdated
  <2> QED
    BY <1>2, <1>3, <2>1, RootUpdatedKeepsFloor, SeedTimestampKeepsFloor,
       TimestampUpdatedKeepsFloor
<1>4. CASE TargetsReused(u) \/ TargetsUpdated(u)
  BY <1>4, CompletionKeepsFloor
<1>5. CASE Calm(u)
  <2>1. completed' = completed
    BY <1>5 DEF Calm
  <2> QED
    BY <1>2, <1>5, <2>1, CalmKeeps
<1>6. TargetsRejected(u) => Calm(u)
  BY <1>1, FailIsCalm DEF TargetsRejected
<1>7. RootChainEnds(u) \/ RootRejected(u) \/ RotationsExceeded(u) => Calm(u)
  BY <1>1, RootEndsIsCalm
<1>8. SeedSnapshot(u) \/ SeedTargets(u) => Calm(u)
  BY <1>1, SeedIsCalm
<1>9. TimestampKept(u) \/ TimestampRejected(u) => Calm(u)
  BY <1>1, TimestampKeptIsCalm
<1>10. SnapshotReused(u) \/ SnapshotUpdated(u) \/ SnapshotRejected(u) => Calm(u)
  BY <1>1, SnapshotIsCalm
<1> QED
  BY <1>3, <1>4, <1>5, <1>6, <1>7, <1>8, <1>9, <1>10 DEF Refreshing

LEMMA NextFloor ==
  ASSUME NEW u, OneClient(u), NEW L, OrderlyPublisher(L), HistoryInv(L), IInv',
         FloorInv(u, L), [Next]_vars
  PROVE  NotBelow(u) /\ FloorInv(u, L)'
<1>1. /\ IInv /\ u \in Updater
      /\ completed[u].timestamp \in Int /\ completed[u].targets \in Int
  BY DEF HistoryInv, IInv, TypeOK, OneClient
<1>2. ASSUME completed' = completed, FloorInv(u, L)'
      PROVE  NotBelow(u) /\ FloorInv(u, L)'
  BY <1>1, <1>2 DEF NotBelow
<1>3. ASSUME Calm(u)
      PROVE  NotBelow(u) /\ FloorInv(u, L)'
  BY <1>2, <1>3, CalmKeeps DEF Calm
<1>4. CASE UNCHANGED vars
  BY <1>3, <1>4 DEF vars, Calm, FloorInv, Vouched, OnDisk
<1>5. CASE Tick
  BY <1>3, <1>5, TickIsCalm
<1>6. CASE Crash(u)
  BY <1>1, <1>2, <1>6, CrashKeepsFloor DEF Crash
<1>7. CASE Boot(u)
  BY <1>1, <1>2, <1>7, AdoptCachedRootKeepsFloor, BootDoneKeepsFloor
     DEF Boot, AdoptCachedRoot, BootDone
<1>8. CASE Refresh(u)
  BY <1>1, <1>3, <1>8, RefreshIsCalm
<1>9. CASE Refreshing(u)
  BY <1>1, <1>9, RefreshingKeepsFloor
<1>10. CASE \E role \in DelegatedName, delegator \in TargetsRole : LoadDelegated(u, role, delegator)
  BY <1>1, <1>3, <1>10, LoadDelegatedIsCalm
<1> QED
  BY <1>4, <1>5, <1>6, <1>7, <1>8, <1>9, <1>10 DEF Next, OneClient

\* What a client's history and its floors keep to.
FloorsHold(u, L) == HistoryInv(L) /\ FloorInv(u, L)

\* However often a client is restarted over its own store, and whatever a mirror
\* answers, the versions that its refreshes complete with never go down while the keys
\* of the timestamp and the snapshot are the same (client.rs, seed_lower_from_store:
\* "anti-rollback protection spans process runs"), if the writes of the timestamp and
\* of the root history succeed and the publisher is orderly.
THEOREM FloorSpansRunsHolds ==
  ASSUME NEW c, OneClient(c), NEW L, OrderlyPublisher(L),
         \A s \in InitialStore : HistoryOf(s, L)
  PROVE  Spec => FloorSpansRuns
<1>1. Lineage(L) /\ "root_history/N.root.json" \notin DelegatedName /\ Updater = {c}
  BY DEF OrderlyPublisher, OneClient
<1>2. Init => FloorsHold(c, L)
  BY <1>1, InitIInv, InitFloor DEF Init, FloorsHold, HistoryInv, RootsOf, FromRoot, Lineage
<1>3. FloorsHold(c, L) /\ [Next]_vars => FloorsHold(c, L)'
  BY <1>1, NextHistory, NextFloor DEF FloorsHold, HistoryInv
<1>4. FloorsHold(c, L) /\ [Next]_vars =>
        [\A u \in Updater :
           completed'[u].keepers = completed[u].keepers =>
             /\ completed'[u].timestamp >= completed[u].timestamp
             /\ completed'[u].targets >= completed[u].targets]_vars
  <2> SUFFICES ASSUME HistoryInv(L), FloorInv(c, L), [Next]_vars
               PROVE  NotBelow(c)
    BY <1>1 DEF FloorsHold, NotBelow
  <2>1. IInv'
    BY <1>1, NextHistory DEF HistoryInv
  <2> QED
    BY <2>1, NextFloor
<1> QED
  BY <1>2, <1>3, <1>4, PTL DEF Spec, FloorSpansRuns
================================================================================
