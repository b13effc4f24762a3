------------------------------- MODULE TufUpdater -------------------------------
(***************************************************************************)
(* The TUF client of crates/sigstore-tuf/src/client.rs: one or more        *)
(* Updaters, each with its own trusted set, writing through to one metadata *)
(* store (cache.rs) that survives them.                                    *)
(*                                                                         *)
(* One action per step of refresh() between two awaits or two accesses to  *)
(* the store.  A fetch, the verification of its answer and the write to    *)
(* the store are one action: the trusted set is private, a crash between   *)
(* verification and write is a crash before the fetch, and a mirror that   *)
(* may answer anything at any time makes a later fetch indistinguishable   *)
(* from a later write.  The mirror answers an online Updater with any       *)
(* document of the role, old or new, with "not found" or with an error; an *)
(* offline Updater (StoreRepository) reads the files of the store.         *)
(***************************************************************************)
EXTENDS TufTrusted

CONSTANTS
  Updater,        \* processes
  WithStore,      \* those with the store attached (with_store)
  Offline,        \* those whose repository is a StoreRepository on the store
  PinnedRoot,     \* the bootstrap root the application ships
  MaxRotations,   \* config.max_root_rotations
  MayBeLost,      \* kinds of file whose cache_put may fail (it only logs a warning)
  MayCrash,       \* the clients that may die and be started again
  MaxTime,        \* bound: the clock stops there
  HonestFrom,     \* the mirror answers anything before that time, then Published
  Published,      \* Published[t]: file name -> document, an honest mirror at time t
  InitialStore,   \* what earlier runs may have left in the store
  FetchError      \* the answer of a fetch that fails

Time == 0 .. MaxTime
Doc == RootDoc \cup TimestampDoc \cup SnapshotDoc \cup TargetsDoc

ASSUME UpdaterAssumption ==
  /\ WithStore \subseteq Updater
  /\ Offline \subseteq Updater
  /\ PinnedRoot \in RootDoc /\ SelfSigned(PinnedRoot)
  /\ MaxRotations \in Nat /\ MaxTime \in Nat
  /\ MayCrash \subseteq Updater /\ HonestFrom \in Nat
  /\ FetchError \notin RootDoc \cup TimestampDoc \cup SnapshotDoc \cup TargetsDoc
  /\ FetchError # NoDoc
  /\ \A s \in InitialStore : \A f \in DOMAIN s : s[f] \in Doc

VARIABLES
  clock,      \* wall clock
  store,      \* file name -> document; a file that was never written is absent
  trusted,    \* trusted[u]: the TrustedMetadataSet of u
  pc,         \* pc[u]: where u is
  now,        \* now[u]: the `now` of the refresh u is in or did last
  rotations,  \* rotations[u]: roots adopted by the refresh u is in
  completed   \* history: versions u held when a refresh last returned Ok

vars == <<clock, store, trusted, pc, now, rotations, completed>>

\* boot: inside with_store.  idle: no refresh yet.  ok, failed: the last refresh
\* returned.  The others are the stages of a refresh.
Stage == {"root", "seed timestamp", "seed snapshot", "seed targets",
          "timestamp", "snapshot", "targets"}
Control == {"boot", "idle", "ok", "failed"} \cup Stage

-----------------------------------------------------------------------------
(* Files.  A repository that uses consistent snapshots prefixes the name of *)
(* every file but timestamp.json with its version.                          *)

RootFile(v) == <<"N.root.json", v>>
HistoryFile(v) == <<"root_history/N.root.json", v>>
PlainFile(role) == <<role>>
MetadataFile(root, role, v) ==
  IF root.consistent THEN <<role, v>> ELSE PlainFile(role)

Load(s, file) == IF file \in DOMAIN s THEN s[file] ELSE NoDoc

Write(s, files, doc) ==
  [f \in DOMAIN s \cup files |-> IF f \in files THEN doc ELSE s[f]]

\* What u finds when it reads its own store.
Cached(u, file) == IF u \in WithStore THEN Load(store, file) ELSE NoDoc

\* cache_put of one document under each of `files`; each write may fail alone.
CachePut(u, files, doc) ==
  \E lost \in SUBSET {f \in files : f[1] \in MayBeLost} :
    store' = IF u \in WithStore THEN Write(store, files \ lost, doc) ELSE store

\* What a fetch of `file`, which should hold one of `docs`, may return.
Answers(u, file, docs) ==
  IF u \in Offline THEN {Load(store, file)}
  ELSE IF clock < HonestFrom THEN docs \cup {NoDoc, FetchError}
  ELSE {Load(Published[clock], file)}

-----------------------------------------------------------------------------
\* Whom a root lets sign the roles that carry the version floors.
FloorKeepers(root) == <<root.roles["timestamp"], root.roles["snapshot"]>>

NothingCompleted == [keepers |-> FloorKeepers(PinnedRoot), timestamp |-> -1, targets |-> -1]

Init ==
  /\ clock = 0
  /\ store \in InitialStore
  /\ trusted = [u \in Updater |-> FromRoot(PinnedRoot)]
  /\ pc = [u \in Updater |-> "boot"]
  /\ now = [u \in Updater |-> 0]
  /\ rotations = [u \in Updater |-> 0]
  /\ completed = [u \in Updater |-> NothingCompleted]

Goto(u, stage) == pc' = [pc EXCEPT ![u] = stage]

Adopt(u, set) == trusted' = [trusted EXCEPT ![u] = set]

\* Mutant: a failed refresh starts over instead of returning the error.
StartOver(u) ==
  /\ Goto(u, "root")
  /\ UNCHANGED <<clock, store, trusted, now, rotations, completed>>

\* An error ends the refresh; what it adopted so far stays adopted.
Fail(u) ==
  /\ Goto(u, "failed")
  /\ UNCHANGED <<clock, store, trusted, now, rotations, completed>>

Tick ==
  /\ clock < MaxTime
  /\ clock' = clock + 1
  /\ UNCHANGED <<store, trusted, pc, now, rotations, completed>>

\* The process ends at any point and a new one takes its place.
Crash(u) ==
  /\ u \in MayCrash
  /\ pc[u] # "boot"
  /\ Adopt(u, FromRoot(PinnedRoot))
  /\ Goto(u, "boot")
  /\ rotations' = [rotations EXCEPT ![u] = 0]
  /\ now' = [now EXCEPT ![u] = 0]
  /\ UNCHANGED <<clock, store, completed>>

-----------------------------------------------------------------------------
(* with_store: adopt the cached root chain from the pinned root forward.    *)

CachedSuccessor(u) == Cached(u, HistoryFile(trusted[u].root.version + 1))

\* Mutant: the current root is not asked whether it trusts the new one.
SelfSignedSuccessor(u, new) ==
  /\ new \in RootDoc
  /\ new.version = trusted[u].root.version + 1
  /\ SelfSigned(new)

Succeeds(u, new) == RootAccepts(trusted[u], new)

AdoptCachedRoot(u) ==
  /\ pc[u] = "boot"
  /\ Succeeds(u, CachedSuccessor(u))
  /\ Adopt(u, AfterRoot(trusted[u], CachedSuccessor(u)))
  /\ UNCHANGED <<clock, store, pc, now, rotations, completed>>

BootDone(u) ==
  /\ pc[u] = "boot"
  /\ ~Succeeds(u, CachedSuccessor(u))
  /\ Goto(u, "idle")
  /\ UNCHANGED <<clock, store, trusted, now, rotations, completed>>

-----------------------------------------------------------------------------
(* refresh: the root chain.                                                 *)

Refresh(u) ==
  /\ pc[u] \in {"idle", "ok", "failed"}
  /\ Goto(u, "root")
  /\ now' = [now EXCEPT ![u] = clock]
  /\ rotations' = [rotations EXCEPT ![u] = 0]
  /\ UNCHANGED <<clock, store, trusted, completed>>

\* Mutant: one rotation more than configured.
MayRotateOnceMore(u) == rotations[u] <= MaxRotations

MayRotate(u) == rotations[u] < MaxRotations

RootAnswers(u) ==
  Answers(u, RootFile(trusted[u].root.version + 1), RootDoc)

RootUpdated(u) ==
  /\ pc[u] = "root"
  /\ MayRotate(u)
  /\ \E new \in RootAnswers(u) :
       /\ Succeeds(u, new)
       /\ Adopt(u, AfterRoot(trusted[u], new))
       /\ CachePut(u, {HistoryFile(new.version), PlainFile("root")}, new)
  /\ rotations' = [rotations EXCEPT ![u] = @ + 1]
  /\ UNCHANGED <<clock, pc, now, completed>>

\* No further root: its expiry is checked, then the store is consulted.
RootChainEnds(u) ==
  /\ pc[u] = "root"
  /\ MayRotate(u)
  /\ NoDoc \in RootAnswers(u)
  /\ Goto(u, IF Expired(trusted[u].root, now[u]) THEN "failed"
             ELSE IF u \in WithStore THEN "seed timestamp" ELSE "timestamp")
  /\ UNCHANGED <<clock, store, trusted, now, rotations, completed>>

RootRejected(u) ==
  /\ pc[u] = "root"
  /\ MayRotate(u)
  /\ \E new \in RootAnswers(u) : new # NoDoc /\ ~Succeeds(u, new)
  /\ Fail(u)

\* The loop ran out: an error, whether or not a newer root exists.
RotationsExceeded(u) ==
  /\ pc[u] = "root"
  /\ ~MayRotate(u)
  /\ Fail(u)

-----------------------------------------------------------------------------
(* refresh: seed_lower_from_store.  Errors are ignored.                     *)

\* Mutant: the cached copy is believed.
SeedUnverified(u, stage, accepted, set, next) ==
  /\ pc[u] = stage
  /\ Adopt(u, set)
  /\ Goto(u, next)
  /\ UNCHANGED <<clock, store, now, rotations, completed>>

\* Mutant: the cached copy is not used.
SeedNothing(u, stage, accepted, set, next) ==
  /\ pc[u] = stage
  /\ Goto(u, next)
  /\ UNCHANGED <<clock, store, trusted, now, rotations, completed>>

Seed(u, stage, accepted, set, next) ==
  /\ pc[u] = stage
  /\ Adopt(u, IF accepted THEN set ELSE trusted[u])
  /\ Goto(u, next)
  /\ UNCHANGED <<clock, store, now, rotations, completed>>

SeedTimestamp(u) ==
  LET new == Cached(u, PlainFile("timestamp")) IN
  Seed(u, "seed timestamp", TimestampAccepts(trusted[u], new, now[u]),
       AfterTimestamp(trusted[u], new), "seed snapshot")

SeedSnapshot(u) ==
  LET new == Cached(u, PlainFile("snapshot")) IN
  Seed(u, "seed snapshot", SnapshotAccepts(trusted[u], new, now[u]),
       AfterSnapshot(trusted[u], new), "seed targets")

SeedTargets(u) ==
  LET new == Cached(u, PlainFile("targets")) IN
  Seed(u, "seed targets", TargetsAccepts(trusted[u], new, now[u]),
       AfterTargets(trusted[u], new, "targets"), "timestamp")

-----------------------------------------------------------------------------
(* refresh: timestamp.                                                      *)

TimestampAnswers(u) == Answers(u, PlainFile("timestamp"), TimestampDoc)

TimestampUpdated(u) ==
  /\ pc[u] = "timestamp"
  /\ \E new \in TimestampAnswers(u) :
       /\ TimestampAccepts(trusted[u], new, now[u])
       /\ Adopt(u, AfterTimestamp(trusted[u], new))
       /\ CachePut(u, {PlainFile("timestamp")}, new)
  /\ Goto(u, "snapshot")
  /\ UNCHANGED <<clock, now, rotations, completed>>

TimestampKept(u) ==
  /\ pc[u] = "timestamp"
  /\ \E new \in TimestampAnswers(u) : TimestampUnchanged(trusted[u], new)
  /\ Goto(u, "snapshot")
  /\ UNCHANGED <<clock, store, trusted, now, rotations, completed>>

TimestampRejected(u) ==
  /\ pc[u] = "timestamp"
  /\ \E new \in TimestampAnswers(u) :
       /\ ~TimestampAccepts(trusted[u], new, now[u])
       /\ ~TimestampUnchanged(trusted[u], new)
  /\ Fail(u)

-----------------------------------------------------------------------------
(* refresh: snapshot.  The pin and the expiry of the timestamp come first;  *)
(* a trusted snapshot of the pinned version is reused without a fetch.      *)

SnapshotWanted(u) ==
  /\ trusted[u].timestamp # NoDoc
  /\ trusted[u].timestamp.snap # NoPin
  /\ ~Expired(trusted[u].timestamp, now[u])

SnapshotReusable(u) ==
  /\ trusted[u].snapshot # NoDoc
  /\ trusted[u].snapshot.version = trusted[u].timestamp.snap.version
  /\ ~Expired(trusted[u].snapshot, now[u])

SnapshotAnswers(u) ==
  Answers(u, MetadataFile(trusted[u].root, "snapshot", trusted[u].timestamp.snap.version),
          SnapshotDoc)

SnapshotReused(u) ==
  /\ pc[u] = "snapshot"
  /\ SnapshotWanted(u) /\ SnapshotReusable(u)
  /\ Goto(u, "targets")
  /\ UNCHANGED <<clock, store, trusted, now, rotations, completed>>

SnapshotUpdated(u) ==
  /\ pc[u] = "snapshot"
  /\ SnapshotWanted(u) /\ ~SnapshotReusable(u)
  /\ \E new \in SnapshotAnswers(u) :
       /\ SnapshotAccepts(trusted[u], new, now[u])
       /\ Adopt(u, AfterSnapshot(trusted[u], new))
       /\ CachePut(u, {MetadataFile(trusted[u].root, "snapshot", new.version),
                       PlainFile("snapshot")}, new)
  /\ Goto(u, "targets")
  /\ UNCHANGED <<clock, now, rotations, completed>>

SnapshotRejected(u) ==
  /\ pc[u] = "snapshot"
  /\ \/ ~SnapshotWanted(u)
     \/ /\ SnapshotWanted(u) /\ ~SnapshotReusable(u)
        /\ \E new \in SnapshotAnswers(u) : ~SnapshotAccepts(trusted[u], new, now[u])
  /\ Fail(u)

-----------------------------------------------------------------------------
(* refresh: top-level targets, likewise under the snapshot.                 *)

SnapshotFresh(u) ==
  trusted[u].snapshot # NoDoc => ~Expired(trusted[u].snapshot, now[u])

RolePinned(u, role) ==
  trusted[u].snapshot # NoDoc /\ trusted[u].snapshot.meta[role] # NoPin

\* Mutant: an expired targets is reused like any other.
TargetsReusableForever(u) ==
  /\ RolePinned(u, "targets")
  /\ trusted[u].targets["targets"] # NoDoc
  /\ trusted[u].targets["targets"].version = trusted[u].snapshot.meta["targets"].version

TargetsReusable(u) ==
  /\ RolePinned(u, "targets")
  /\ trusted[u].targets["targets"] # NoDoc
  /\ trusted[u].targets["targets"].version = trusted[u].snapshot.meta["targets"].version
  /\ ~Expired(trusted[u].targets["targets"], now[u])

\* fetch_targets_metadata, for the top-level role and for delegated ones.
TargetsAnswers(u, role) ==
  Answers(u, MetadataFile(trusted[u].root, role, trusted[u].snapshot.meta[role].version),
          TargetsDoc)

Complete(u) ==
  /\ Goto(u, "ok")
  /\ completed' = [completed EXCEPT ![u] =
       [keepers |-> FloorKeepers(trusted'[u].root),
        timestamp |-> trusted'[u].timestamp.version,
        targets |-> trusted'[u].targets["targets"].version]]

TargetsReused(u) ==
  /\ pc[u] = "targets"
  /\ SnapshotFresh(u) /\ TargetsReusable(u)
  /\ UNCHANGED <<clock, store, trusted, now, rotations>>
  /\ Complete(u)

TargetsUpdated(u) ==
  /\ pc[u] = "targets"
  /\ SnapshotFresh(u) /\ ~TargetsReusable(u) /\ RolePinned(u, "targets")
  /\ \E new \in TargetsAnswers(u, "targets") :
       /\ TargetsAccepts(trusted[u], new, now[u])
       /\ Adopt(u, AfterTargets(trusted[u], new, "targets"))
       /\ CachePut(u, {PlainFile("targets")}, new)
  /\ Complete(u)
  /\ UNCHANGED <<clock, now, rotations>>

TargetsRejected(u) ==
  /\ pc[u] = "targets"
  /\ \/ ~SnapshotFresh(u)
     \/ ~RolePinned(u, "targets")
     \/ /\ SnapshotFresh(u) /\ ~TargetsReusable(u) /\ RolePinned(u, "targets")
        /\ \E new \in TargetsAnswers(u, "targets") : ~TargetsAccepts(trusted[u], new, now[u])
  /\ Fail(u)

-----------------------------------------------------------------------------
(* get_targetinfo loads the delegated roles it meets, between refreshes: it *)
(* asks only that some top-level targets is trusted, and takes its own now. *)
(* Which role it meets next is the subject of TufDelegation.                *)

LoadDelegated(u, role, delegator) ==
  /\ pc[u] \in {"idle", "ok", "failed"}
  /\ trusted[u].targets["targets"] # NoDoc
  /\ trusted[u].targets[role] = NoDoc
  /\ RolePinned(u, role)
  /\ \E new \in TargetsAnswers(u, role) :
       /\ DelegatedAccepts(trusted[u], new, role, delegator, clock)
       /\ Adopt(u, AfterTargets(trusted[u], new, role))
       /\ CachePut(u, {PlainFile(role)}, new)
  /\ UNCHANGED <<clock, pc, now, rotations, completed>>

Boot(u) == AdoptCachedRoot(u) \/ BootDone(u)

Refreshing(u) ==
  \/ RootUpdated(u) \/ RootChainEnds(u) \/ RootRejected(u) \/ RotationsExceeded(u)
  \/ SeedTimestamp(u) \/ SeedSnapshot(u) \/ SeedTargets(u)
  \/ TimestampUpdated(u) \/ TimestampKept(u) \/ TimestampRejected(u)
  \/ SnapshotReused(u) \/ SnapshotUpdated(u) \/ SnapshotRejected(u)
  \/ TargetsReused(u) \/ TargetsUpdated(u) \/ TargetsRejected(u)

Next ==
  \/ Tick
  \/ \E u \in Updater : Crash(u) \/ Boot(u) \/ Refresh(u) \/ Refreshing(u)
  \/ \E u \in Updater, role \in DelegatedName, delegator \in TargetsRole :
       LoadDelegated(u, role, delegator)

Spec == Init /\ [][Next]_vars

\* Every await ends: the HTTP client has a connect and a read timeout
\* (client.rs HttpRepository::new) and a store access does not block.
Fairness == \A u \in Updater : WF_vars(Boot(u)) /\ WF_vars(Refreshing(u))

\* An application that keeps asking for fresh metadata.
Polling == \A u \in Updater : WF_vars(Refresh(u))

FairSpec == Spec /\ Fairness
PollingSpec == FairSpec /\ Polling

-----------------------------------------------------------------------------
(* Properties.                                                             *)

StoreOK == \A f \in DOMAIN store : store[f] \in Doc

\* The state is well formed.
TypeOK ==
  /\ clock \in Time
  /\ StoreOK
  /\ trusted \in [Updater -> TrustedSet]
  /\ pc \in [Updater -> Control]
  /\ now \in [Updater -> Time]
  /\ rotations \in [Updater -> 0 .. MaxRotations]
  /\ completed \in [Updater -> [keepers : Authority \X Authority,
                               timestamp : Nat \cup {-1}, targets : Nat \cup {-1}]]

Chained(t) ==
  /\ t.timestamp # NoDoc /\ t.timestamp.snap # NoPin
  /\ t.snapshot # NoDoc /\ t.snapshot.version = t.timestamp.snap.version
  /\ t.snapshot.meta["targets"] # NoPin
  /\ t.targets["targets"] # NoDoc
  /\ t.targets["targets"].version = t.snapshot.meta["targets"].version

\* When refresh() has returned Ok, the four top-level roles it leaves form one
\* chain of versions and none of them was expired at the `now` it was given,
\* whichever of them came from the mirror, from the store or from an earlier
\* refresh (client.rs refresh; the reuse and equal-version paths fetch nothing).
CompletedIsCurrent ==
  \A u \in Updater : pc[u] = "ok" =>
    LET t == trusted[u] IN
    /\ Chained(t)
    /\ \A doc \in {t.root, t.timestamp, t.snapshot, t.targets["targets"]} :
         ~Expired(doc, now[u])

\* The cached root history is a chain: any two consecutive roots in it are each
\* acceptable after the other, although writes may be lost and processes at
\* different roots write side by side (client.rs refresh_root, with_store).
HistoryChains ==
  \A f, g \in DOMAIN store :
    /\ f[1] = "root_history/N.root.json" /\ g[1] = f[1] /\ g[2] = f[2] + 1
    => RootAccepts(FromRoot(store[f]), store[g])

\* The versions a client holds when a refresh returns Ok never go down, restarts
\* included, until a root hands the roles that carry them to other keys:
\* "anti-rollback protection spans process runs" (client.rs,
\* seed_lower_from_store), "version floors [...] that spans process runs" (README
\* of sigstore-tuf); trusted.rs update_root for the exception.
FloorSpansRuns ==
  [][\A u \in Updater :
       completed'[u].keepers = completed[u].keepers =>
         /\ completed'[u].timestamp >= completed[u].timestamp
         /\ completed'[u].targets >= completed[u].targets]_vars

\* A refresh that was started returns, and so does with_store, whatever the
\* mirror answers and however often the process is restarted.
RefreshReturns ==
  \A u \in Updater :
    /\ pc[u] \in Stage ~> pc[u] \notin Stage
    /\ pc[u] = "boot" ~> pc[u] # "boot"

\* Once the mirror is honest and processes no longer die, a client that keeps
\* refreshing gets through, whatever it was served before: also to a root that
\* rotates the keys of metadata whose versions are ahead of the repository's
\* (trusted.rs, update_root and the comment on snapshot removal), and also when
\* it is as many roots behind as one refresh may adopt (client.rs refresh_root).
Recovers ==
  (<>(clock >= HonestFrom) /\ <>[][\A u \in Updater : ~Crash(u)]_vars) =>
    \A u \in Updater : <>[](pc[u] # "failed") /\ []<>(pc[u] = "ok")

\* "an offline run can re-verify entirely from cache via StoreRepository"
\* (cache.rs): once an online client with a store has completed a refresh, an
\* offline one that starts its own completes it too.
OfflineReverifies ==
  \A u \in Offline, v \in WithStore \ Offline :
    (pc[v] = "ok" /\ pc[u] = "idle") ~> (pc[u] = "ok")
===============================================================================
